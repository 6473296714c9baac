--------------------------- MODULE QueryTransforms ---------------------------
(***************************************************************************)
(* The two rewrites of transforms() of backends/relational/sql.py, which   *)
(* need no model (optimize_decomposed): parse_query, the recognizers and   *)
(* builders of sql_rewriter.py, and the checks a rewrite meets.  A query is the record *)
(* of what the recognizers look at; its meaning is what SQL says, over     *)
(* tables small enough to enumerate, so that a rewrite can be compared     *)
(* with its original.  Text, dialects and parsing are left out.            *)
(***************************************************************************)
EXTENDS Integers, Sequences, FiniteSets

CONSTANTS Null            \* SQL's NULL

ASSUME NullAssumption == Null \notin Int

(* A comparison with NULL is unknown, and WHERE keeps what is true. *)
Known(a, b) == a # Null /\ b # Null
Compare(op, a, b) ==
    Known(a, b) /\ CASE op = "<" -> a < b [] op = "=" -> a = b [] op = ">" -> a > b

(* An aggregate over rows: COUNT( * ), COUNT(v), COUNT(DISTINCT v) and MAX(v), *)
(* which also stands for SUM, AVG and MIN: NULL where there is nothing.         *)
Greatest(S) == CHOOSE x \in S : \A y \in S : y <= x
Aggregate(agg, rows) ==
    LET values == {r.v : r \in rows} \ {Null} IN
    CASE agg = "countAll" -> Cardinality(rows)
      [] agg = "count" -> Cardinality({r \in rows : r.v # Null})
      [] agg = "distinct" -> Cardinality(values)
      [] agg = "max" -> IF values = {} THEN Null ELSE Greatest(values)

-----------------------------------------------------------------------------
(* Decorrelation.  The query                                               *)
(*     SELECT ... FROM outer o                                             *)
(*     WHERE [o.c op (SELECT agg FROM inner) AND]                          *)
(*           o.c op (SELECT agg FROM inner i WHERE i.k = o.k [AND|OR i.x]) *)
(*           AND|OR o.f                                                    *)
(* over an outer row [k, c, f] and inner rows [k, v, x].  cte: it has a    *)
(* WITH; first: the optional comparison is there, before the other.        *)

Correlated == [op : {"<", "=", ">"}, agg : {"countAll", "max"}, inner : {"key", "and", "or"},
               outer : {"and", "or"}, first : BOOLEAN, cte : BOOLEAN]

Matching(q, o, rows) ==
    {i \in rows : CASE q.inner = "key" -> Compare("=", i.k, o.k)
                    [] q.inner = "and" -> Compare("=", i.k, o.k) /\ i.x
                    [] q.inner = "or"  -> Compare("=", i.k, o.k) \/ i.x}
Subquery(q, o, rows) == Aggregate(q.agg, Matching(q, o, rows))
Uncorrelated(q, rows) == Aggregate(q.agg, rows)

(* WHERE, when the subqueries evaluate to first and second *)
Where(q, o, first, second) ==
    LET compared == Compare(q.op, o.c, second)
        kept == IF q.outer = "and" THEN compared /\ o.f ELSE compared \/ o.f
    IN (q.first => Compare(q.op, o.c, first)) /\ kept

(* How often the query returns the outer row. *)
CorrelatedResult(q, o, rows) ==
    IF Where(q, o, Uncorrelated(q, rows), Subquery(q, o, rows)) THEN 1 ELSE 0

(* parse_components takes a query without a WITH whose tables are connected by a *)
(* condition, which the comparison is.                                           *)
ParsedAsComponents(q) == ~q.cte

(* detect_correlated_scalar_aggregate: a comparison of a column with an aggregate *)
(* over one table, with an equality of the two scopes anywhere in its WHERE.      *)
Decorrelatable(q) == ~ParsedAsComponents(q)

(* _reconstruct_decorrelation: the inner table, grouped by its key... *)
(* mutant: the group of each key left out *)
OneGroup(q, rows) == {[k |-> i.k, v |-> Aggregate(q.agg, rows)] : i \in rows}
Decorr(q, rows) ==
    {[k |-> key, v |-> Aggregate(q.agg, {i \in rows : i.k = key})] : key \in {i.k : i \in rows}}

(* ...joined to the outer row on the key, its value in place of the first *)
(* aggregate a comparison has.                                            *)
DecorrelatedResult(q, o, rows) ==
    Cardinality({d \in Decorr(q, rows) :
        /\ Compare("=", o.k, d.k)
        /\ IF q.first THEN Where(q, o, d.v, Subquery(q, o, rows))
                      ELSE Where(q, o, Uncorrelated(q, rows), d.v)})

(* The shape of the builder's docstring, an aggregate correlated by the key      *)
(* alone, in a query whose conditions are joined by AND and that compares        *)
(* nothing else with an aggregate; and the part of it in which the aggregate     *)
(* of nothing is NULL.                                                           *)
OfTheShape(q) == q.inner = "key" /\ q.outer = "and" /\ ~q.first
Plain(q) == OfTheShape(q) /\ q.agg = "max"

-----------------------------------------------------------------------------
(* Consolidation.  The query SELECT (SELECT agg FROM t WHERE p), ... FROM  *)
(* outer, a sequence of buckets, over rows [id, v, p] of each table: a row *)
(* satisfies predicate p when p is in its set.  aliased: the subquery      *)
(* gives the table an alias and qualifies a column with it.                *)

Bucket == [agg : {"countAll", "count", "distinct", "max"}, table : {"t", "u"}, pred : {1, 2},
           aliased : BOOLEAN]
(* Each row has an identity of its own, a value that may be NULL and the *)
(* predicates it satisfies.                                              *)
IsTable(rows) ==
    /\ IsFiniteSet(rows)
    /\ \A r \in rows : r.v \in Int \cup {Null}
    /\ \A r, s \in rows : r.id = s.id => r = s
BucketValue(b, tables) == Aggregate(b.agg, {r \in tables[b.table] : b.pred \in r.p})

ConsolidationMinRepeated == 3

(* detect_repeated_scalar_aggregates: one table, often enough, and no other *)
BucketsOn(q, table) == {i \in DOMAIN q : q[i].table = table}
Consolidatable(q) ==
    /\ Cardinality(BucketsOn(q, "t")) >= ConsolidationMinRepeated
    /\ BucketsOn(q, "u") = {}

(* bucket_agg_expr: FILTER (WHERE pred), or the aggregate of CASE WHEN pred THEN *)
(* its argument, 1 for COUNT( * ), END, which is NULL where pred does not hold.  *)
(* mutant: COUNT of the column *)
CaseRowsOfColumn(b, rows) ==
    {[id |-> r.id, v |-> IF b.pred \notin r.p THEN Null ELSE r.v] : r \in rows}
CaseRows(b, rows) ==
    {[id |-> r.id, v |-> IF b.pred \notin r.p THEN Null
                         ELSE IF b.agg = "countAll" THEN 1 ELSE r.v] : r \in rows}
BucketAggExpr(dialect, b, rows) ==
    IF dialect = "postgres" THEN Aggregate(b.agg, {r \in rows : b.pred \in r.p})
    ELSE Aggregate(IF b.agg = "countAll" THEN "count" ELSE b.agg, CaseRows(b, rows))

(* Of COUNT(DISTINCT v) the MySQL form makes CASE WHEN pred THEN DISTINCT v END, *)
(* which is no SQL; the one scan is FROM the table without an alias, so that a   *)
(* qualified column is nobody's.  Such a rewrite is refused, by sqlglot when the *)
(* builder parses it or by the database.                                         *)
IsSql(dialect, q) == dialect = "postgres" \/ \A i \in DOMAIN q : q[i].agg # "distinct"
LosesAnAlias(q) == \E i \in DOMAIN q : q[i].aliased
Runs(dialect, q) == IsSql(dialect, q) /\ ~LosesAnAlias(q)

(* One row of _consol, with a column for every (agg, pred), crossed with outer. *)
ColumnOf(b) == [agg |-> b.agg, pred |-> b.pred, aliased |-> b.aliased]
Consol(dialect, q, tables) ==
    [col \in {ColumnOf(q[i]) : i \in DOMAIN q} |-> BucketAggExpr(dialect, col, tables["t"])]
RepeatedRow(q, tables) == [i \in DOMAIN q |-> BucketValue(q[i], tables)]
ConsolidatedRow(dialect, q, tables) ==
    [i \in DOMAIN q |-> Consol(dialect, q, tables)[ColumnOf(q[i])]]

-----------------------------------------------------------------------------
(* What the checks read of a query: the base tables with how often it names them, *)
(* the names it may qualify columns with and those it does, the filters on one    *)
(* table, the numeric constants (the inner predicate has one).  s is the alias of *)
(* a bucket's table.                                                              *)
Scope == {"o", "i", "ctr", "_decorr", "t", "u", "s", "_consol"}
Shape == [refs : [Scope -> Nat], ctes : SUBSET Scope, defined : SUBSET Scope,
          referenced : SUBSET Scope, filters : SUBSET {"f", "first"}, constants : SUBSET {"x"},
          innerLimits : Nat]
Refs(f) == [s \in Scope |-> IF s \in DOMAIN f THEN f[s] ELSE 0]

CorrelatedShape(q) ==
    [refs |-> Refs([o |-> 1, i |-> IF q.first THEN 2 ELSE 1]),
     ctes |-> IF q.cte THEN {"ctr"} ELSE {},
     defined |-> {"o", "i"}, referenced |-> {"o", "i"},
     filters |-> (IF q.outer = "and" THEN {"f"} ELSE {}) \cup (IF q.first THEN {"first"} ELSE {}),
     constants |-> IF q.inner = "key" THEN {} ELSE {"x"},
     innerLimits |-> 0]
DecorrelatedShape(q) ==
    [CorrelatedShape(q) EXCEPT !.ctes = @ \cup {"_decorr"},
                               !.defined = @ \cup {"_decorr"},
                               !.referenced = @ \cup {"_decorr"},
                               !.filters = @ \ {"first"},
                               !.constants = IF q.first THEN @ ELSE {}]

Aliases(q) == IF LosesAnAlias(q) THEN {"s"} ELSE {}
RepeatedShape(q) ==
    [refs |-> Refs([o |-> 1, t |-> Cardinality(BucketsOn(q, "t")), u |-> Cardinality(BucketsOn(q, "u"))]),
     ctes |-> {}, defined |-> {"o", "t"} \cup Aliases(q), referenced |-> {"o"} \cup Aliases(q),
     filters |-> {"f"}, constants |-> {}, innerLimits |-> 0]
(* The qualified columns move into _consol, whose FROM has the bare table. *)
ConsolidatedShape(q) ==
    [RepeatedShape(q) EXCEPT !.refs = Refs([o |-> 1, t |-> 1]), !.ctes = {"_consol"},
                             !.defined = {"o", "t", "_consol"}, !.referenced = @ \cup {"_consol"}]

(* check_structural_integrity: what it finds wrong with a rewrite *)
Tables(shape) == {s \in Scope : shape.refs[s] > 0}
(* mutant: the names of CTEs are unknown to it *)
UndefinedBesidesCtes(r) == r.referenced \ (r.defined \ r.ctes)
Undefined(r) == r.referenced \ r.defined
StructuralErrors(o, r) ==
    IF Undefined(r) # {} THEN {"undefined"}
    ELSE (IF Tables(o) \subseteq Tables(r) THEN {} ELSE {"table"})
         \cup (IF o.filters \subseteq r.filters THEN {} ELSE {"filter"})
         \cup (IF o.constants \subseteq r.constants \/ ~(r.constants \subseteq o.constants)
               THEN {} ELSE {"constant"})

(* precheck_semantic_preservation: a LIMIT moved inside, a table dropped, a *)
(* table that played several parts left with fewer                          *)
Precheck(o, r) ==
    /\ r.innerLimits > 0 => o.innerLimits > 0
    /\ Tables(o) \subseteq Tables(r)
    /\ \A s \in Scope : o.refs[s] >= 2 => r.refs[s] >= o.refs[s]
=============================================================================
