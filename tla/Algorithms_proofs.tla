-------------------------- MODULE Algorithms_proofs --------------------------
(***************************************************************************)
(* The properties of Algorithms, for every input: queries, tables, texts,  *)
(* schema blocks and batches of any size.                                  *)
(***************************************************************************)
EXTENDS Algorithms, FiniteSetTheorems, WellFoundedInduction, TLAPS

(* Induction, over a set and not over a predicate: what a number has when the *)
(* one before it has it, and 0, all have.                                     *)
LEMMA AllNumbers ==
    ASSUME NEW T, 0 \in T, \A n \in Nat : n \in T => n + 1 \in T
    PROVE  Nat \subseteq T
<1>. SUFFICES ASSUME Nat \ T # {} PROVE FALSE
  OBVIOUS
<1>1. PICK n \in Nat \ T : \A m \in Nat \ T : ~(<<m, n>> \in OpToRel(<, Nat))
  BY NatLessThanWellFounded, WFMin
<1>2. n # 0 /\ n - 1 \in Nat /\ n - 1 < n
  OBVIOUS
<1>3. n - 1 \in T
  BY <1>1, <1>2 DEF OpToRel
<1>. QED  BY <1>2, <1>3

(* A loop of n steps runs to its end. *)
LoopOf(n, base, step, S) ==
    {f \in [0 .. n -> S] : f[0] = base /\ \A i \in 1 .. n : f[i] = step[i][f[i - 1]]}
LEMMA LoopRuns ==
    ASSUME NEW S, NEW base \in S, NEW n \in Nat, NEW step \in [1 .. n -> [S -> S]]
    PROVE  LoopOf(n, base, step, S) # {}
<1>. DEFINE Up(k, f) == f[0] = base /\ \A i \in 1 .. k : f[i] = step[i][f[i - 1]]
            T == {k \in Nat : k <= n => \E f \in [0 .. k -> S] : Up(k, f)}
<1>1. 0 \in T
  <2>1. [i \in 0 .. 0 |-> base] \in [0 .. 0 -> S] /\ Up(0, [i \in 0 .. 0 |-> base])
    OBVIOUS
  <2>. QED  BY <2>1
<1>2. ASSUME NEW k \in Nat, k \in T PROVE k + 1 \in T
  <2>. SUFFICES ASSUME k + 1 <= n PROVE \E f \in [0 .. k + 1 -> S] : Up(k + 1, f)
    OBVIOUS
  <2>1. PICK f \in [0 .. k -> S] : Up(k, f)
    BY <1>2
  <2>. DEFINE g == [i \in 0 .. k + 1 |-> IF i = k + 1 THEN step[k + 1][f[k]] ELSE f[i]]
  <2>2. step[k + 1][f[k]] \in S
    <3>1. f[k] \in S /\ k + 1 \in 1 .. n
      OBVIOUS
    <3>. QED  BY <3>1
  <2>3. g \in [0 .. k + 1 -> S]
    BY <2>2
  <2>4. g[0] = base
    BY <2>1
  <2>5. ASSUME NEW i \in 1 .. k + 1 PROVE g[i] = step[i][g[i - 1]]
    <3>1. CASE i = k + 1
      <4>1. g[i] = step[k + 1][f[k]] /\ i - 1 = k /\ g[k] = f[k]
        BY <3>1
      <4>. QED  BY <3>1, <4>1
    <3>2. CASE i # k + 1
      <4>1. i \in 1 .. k /\ i \in 0 .. k + 1 /\ i - 1 \in 0 .. k + 1 /\ i - 1 # k + 1
        BY <3>2
      <4>2. g[i] = f[i] /\ g[i - 1] = f[i - 1]
        BY <3>2, <4>1
      <4>3. f[i] = step[i][f[i - 1]]
        BY <2>1, <4>1
      <4>. QED  BY <4>2, <4>3
    <3>. QED  BY <3>1, <3>2
  <2>6. Up(k + 1, g)
    BY <2>4, <2>5
  <2>. QED  BY <2>3, <2>6
<1>. HIDE DEF T
<1>3. n \in T
  BY <1>1, <1>2, AllNumbers
<1>. QED  BY <1>3 DEF T, LoopOf

(* What holds before a loop and after each of its steps holds at its end. *)
LEMMA LoopKeeps ==
    ASSUME NEW n \in Nat, NEW Inv, 0 \in Inv, \A i \in 1 .. n : i - 1 \in Inv => i \in Inv
    PROVE  0 .. n \subseteq Inv
<1>. DEFINE T == {k \in Nat : k <= n => k \in Inv}
<1>1. 0 \in T
  OBVIOUS
<1>2. ASSUME NEW k \in Nat, k \in T PROVE k + 1 \in T
  <2>. SUFFICES ASSUME k + 1 <= n PROVE k + 1 \in Inv
    OBVIOUS
  <2>1. k \in Inv /\ k + 1 \in 1 .. n /\ (k + 1) - 1 = k
    BY <1>2
  <2>. QED  BY <2>1
<1>. HIDE DEF T
<1>3. Nat \subseteq T
  BY <1>1, <1>2, AllNumbers
<1>. QED  BY <1>3 DEF T

-----------------------------------------------------------------------------
(* What the rows of the inner query are to a row of the outer one *)
LEMMA MatchingIsTheGroup ==
    ASSUME NEW q, NEW o, NEW rows, Plain(q)
    PROVE  Matching(q, o, rows) = IF o.k = Null THEN {} ELSE {i \in rows : i.k = o.k}
<1>1. \A i \in rows : Compare("=", i.k, o.k) <=> i.k # Null /\ o.k # Null /\ i.k = o.k
  BY DEF Compare, Known
<1>. QED  BY <1>1 DEF Matching, Plain, OfTheShape

LEMMA NothingIsNull == Aggregate("max", {}) = Null
<1>1. {r.v : r \in {}} \ {Null} = {}
  OBVIOUS
<1>. QED  BY <1>1 DEF Aggregate

(* sql_rewriter.py:301-304: a query that compares with a maximum correlated by the
   key alone and its decorrelated form return every row of the outer table equally often, however
   many rows the inner table has and whichever keys are missing or NULL. *)
THEOREM DecorrelationIsExact ==
    ASSUME NEW q, NEW o, NEW rows, Plain(q)
    PROVE  DecorrelatedResult(q, o, rows) = CorrelatedResult(q, o, rows)
<1>. DEFINE group == {i \in rows : i.k = o.k}
            value == Aggregate("max", group)
            row == [k |-> o.k, v |-> value]
            kept == Where(q, o, Uncorrelated(q, rows), value)
            joined == {d \in Decorr(q, rows) :
                          /\ Compare("=", o.k, d.k)
                          /\ Where(q, o, Uncorrelated(q, rows), d.v)}
<1>1. DecorrelatedResult(q, o, rows) = Cardinality(joined)
  BY DEF DecorrelatedResult, Plain, OfTheShape
<1>2. ASSUME NEW d \in Decorr(q, rows), Compare("=", o.k, d.k)
      PROVE  d = row /\ o.k # Null /\ group # {}
  <2>1. o.k # Null /\ d.k = o.k
    BY <1>2 DEF Compare, Known
  <2>2. PICK i \in rows :
          d = [k |-> i.k, v |-> Aggregate(q.agg, {j \in rows : j.k = i.k})]
    BY DEF Decorr
  <2>3. i.k = o.k
    BY <2>1, <2>2
  <2>. QED  BY <2>1, <2>2, <2>3 DEF Plain
<1>3. ASSUME NEW v PROVE Where(q, o, Uncorrelated(q, rows), v) <=> Compare(q.op, o.c, v) /\ o.f
  BY DEF Where, Plain, OfTheShape
<1>4. CASE o.k = Null \/ group = {}
  <2>1. joined = {}
    BY <1>2, <1>4
  <2>2. Matching(q, o, rows) = {}
    BY <1>4, MatchingIsTheGroup
  <2>3. Subquery(q, o, rows) = Null
    BY <2>2, NothingIsNull DEF Subquery, Plain
  <2>4. CorrelatedResult(q, o, rows) = 0
    BY <1>3, <2>3 DEF CorrelatedResult, Compare, Known
  <2>. QED  BY <1>1, <2>1, <2>4, FS_EmptySet
<1>5. CASE o.k # Null /\ group # {}
  <2>1. Subquery(q, o, rows) = value
    <3>1. Matching(q, o, rows) = group
      BY <1>5, MatchingIsTheGroup
    <3>. QED  BY <3>1, Zenon DEF Subquery, Plain
  <2>2. row \in Decorr(q, rows) /\ Compare("=", o.k, row.k) /\ row.v = value
    BY <1>5 DEF Decorr, Compare, Known, Plain
  <2>3. CASE kept
    <3>1. joined = {row}
      BY <1>2, <2>2, <2>3
    <3>2. CorrelatedResult(q, o, rows) = 1
      BY <2>1, <2>3 DEF CorrelatedResult
    <3>. QED  BY <1>1, <3>1, <3>2, FS_Singleton
  <2>4. CASE ~kept
    <3>1. joined = {}
      BY <1>2, <2>2, <2>4
    <3>2. CorrelatedResult(q, o, rows) = 0
      BY <2>1, <2>4 DEF CorrelatedResult
    <3>. QED  BY <1>1, <3>1, <3>2, FS_EmptySet
  <2>. QED  BY <2>3, <2>4
<1>. QED  BY <1>4, <1>5

-----------------------------------------------------------------------------
(* What CASE WHEN leaves of the rows a bucket does not select is not aggregated. *)
LEMMA CaseCounts ==
    ASSUME NEW b, NEW rows, IsTable(rows)
    PROVE  Cardinality({c \in CaseRows(b, rows) : c.v # Null})
             = Cardinality({r \in {x \in rows : b.pred \in x.p} : b.agg = "countAll" \/ r.v # Null})
<1>. DEFINE counted == {r \in {x \in rows : b.pred \in x.p} : b.agg = "countAll" \/ r.v # Null}
            seen == {c \in CaseRows(b, rows) : c.v # Null}
            case(r) == [id |-> r.id, v |-> IF b.agg = "countAll" THEN 1 ELSE r.v]
            f == [r \in counted |-> case(r)]
<1>1. 1 # Null
  BY NullAssumption
<1>2. seen = {case(r) : r \in counted}
  <2>1. ASSUME NEW c \in seen PROVE c \in {case(r) : r \in counted}
    <3>1. PICK r \in rows :
            c = [id |-> r.id, v |-> IF b.pred \notin r.p THEN Null
                                    ELSE IF b.agg = "countAll" THEN 1 ELSE r.v]
      BY DEF CaseRows
    <3>2. r \in counted /\ c = case(r)
      BY <2>1, <3>1
    <3>. QED  BY <3>2
  <2>2. ASSUME NEW r \in counted PROVE case(r) \in seen
    <3>1. case(r) \in CaseRows(b, rows)
      BY DEF CaseRows
    <3>2. case(r).v # Null
      BY <1>1
    <3>. QED  BY <3>1, <3>2
  <2>. QED  BY <2>1, <2>2
<1>3. f \in [counted -> seen] /\ (\A x \in seen : \E r \in counted : f[r] = x)
  BY <1>2
<1>4. \A r, s \in counted : f[r] = f[s] => r = s
  BY DEF IsTable
<1>5. IsFiniteSet(counted)
  BY FS_Subset DEF IsTable
<1>. HIDE DEF f, counted, seen
<1>6. ExistsBijection(counted, seen)
  BY <1>3, <1>4 DEF ExistsBijection, Bijection, Injection, Surjection, IsInjective
<1>7. Cardinality(seen) = Cardinality(counted)
  BY <1>5, <1>6, FS_Bijection
<1>. QED  BY <1>7 DEF counted, seen

LEMMA CaseValues ==
    ASSUME NEW b, NEW rows, b.agg # "countAll"
    PROVE  {c.v : c \in CaseRows(b, rows)} \ {Null}
             = {r.v : r \in {c \in rows : b.pred \in c.p}} \ {Null}
<1>. DEFINE case(r) == [id |-> r.id, v |-> IF b.pred \notin r.p THEN Null ELSE r.v]
<1>1. CaseRows(b, rows) = {case(r) : r \in rows}
  BY DEF CaseRows
<1>2. ASSUME NEW x, x # Null
      PROVE  (\E c \in {case(r) : r \in rows} : c.v = x)
               <=> (\E r \in rows : b.pred \in r.p /\ r.v = x)
  <2>1. \A r \in rows : case(r).v = IF b.pred \notin r.p THEN Null ELSE r.v
    OBVIOUS
  <2>. HIDE DEF case
  <2>2. (\E c \in {case(r) : r \in rows} : c.v = x) <=> (\E r \in rows : case(r).v = x)
    BY Zenon
  <2>. QED  BY <1>2, <2>1, <2>2
<1>. QED  BY <1>1, <1>2

(* The rows of a bucket *)
Chosen(b, rows) == {r \in rows : b.pred \in r.p}

(* mysql.py:36-39: FILTER (WHERE pred) and the aggregate of CASE WHEN pred THEN
   argument END, with 1 as the argument of COUNT( * ), have the same value, that of the
   subquery they replace, over any table, empty or full of NULLs.  Of DISTINCT
   this says what the form would mean if MySQL had it. *)
THEOREM BucketsAreExact ==
    ASSUME NEW b, b.agg \in {"countAll", "count", "distinct", "max"},
           NEW rows, IsTable(rows), NEW dialect
    PROVE  BucketAggExpr(dialect, b, rows) = Aggregate(b.agg, Chosen(b, rows))
<1>. DEFINE chosen == {r \in rows : b.pred \in r.p}
<1>1. CASE dialect = "postgres"
  BY <1>1 DEF BucketAggExpr, Chosen
<1>2. CASE dialect # "postgres" /\ b.agg \in {"countAll", "count"}
  <2>1. BucketAggExpr(dialect, b, rows) = Cardinality({c \in CaseRows(b, rows) : c.v # Null})
    BY <1>2 DEF BucketAggExpr, Aggregate
  <2>2. CASE b.agg = "countAll"
    <3>1. {r \in chosen : b.agg = "countAll" \/ r.v # Null} = chosen
      BY <2>2
    <3>. QED  BY <2>1, <2>2, <3>1, CaseCounts DEF Aggregate, Chosen
  <2>3. CASE b.agg = "count"
    <3>1. {r \in chosen : b.agg = "countAll" \/ r.v # Null} = {r \in chosen : r.v # Null}
      BY <2>3
    <3>. QED  BY <2>1, <2>3, <3>1, CaseCounts DEF Aggregate, Chosen
  <2>. QED  BY <1>2, <2>2, <2>3
<1>3. CASE dialect # "postgres" /\ b.agg \in {"distinct", "max"}
  <2>1. {c.v : c \in CaseRows(b, rows)} \ {Null} = {r.v : r \in chosen} \ {Null}
    BY <1>3, CaseValues
  <2>2. BucketAggExpr(dialect, b, rows) = Aggregate(b.agg, CaseRows(b, rows))
    BY <1>3 DEF BucketAggExpr
  <2>. QED  BY <1>3, <2>1, <2>2 DEF Aggregate, Chosen
<1>. QED  BY <1>1, <1>2, <1>3

(* A consolidated query, where it runs, returns the row of the query it replaces,
   whatever buckets it has, in whatever order and however often each. *)
THEOREM ConsolidationIsExact ==
    ASSUME NEW q \in Seq(Bucket), NEW tables, IsTable(tables["t"]), NEW dialect,
           Consolidatable(q), Runs(dialect, q)
    PROVE  ConsolidatedRow(dialect, q, tables) = RepeatedRow(q, tables)
<1>1. \A i \in DOMAIN q : q[i] \in Bucket /\ q[i].table = "t"
  <2>1. \A i \in DOMAIN q : q[i] \in Bucket
    OBVIOUS
  <2>2. \A i \in DOMAIN q : q[i].table # "u"
    BY DEF Consolidatable, BucketsOn
  <2>. QED  BY <2>1, <2>2 DEF Bucket
<1>2. ASSUME NEW i \in DOMAIN q
      PROVE  Consol(dialect, q, tables)[ColumnOf(q[i])] = BucketValue(q[i], tables)
  <2>1. Consol(dialect, q, tables)[ColumnOf(q[i])] = BucketAggExpr(dialect, ColumnOf(q[i]), tables["t"])
    BY DEF Consol
  <2>2. ColumnOf(q[i]).agg = q[i].agg /\ ColumnOf(q[i]).pred = q[i].pred
    BY DEF ColumnOf
  <2>3. q[i].agg \in {"countAll", "count", "distinct", "max"}
    BY <1>1 DEF Bucket
  <2>4. BucketAggExpr(dialect, ColumnOf(q[i]), tables["t"])
          = Aggregate(q[i].agg, {r \in tables["t"] : q[i].pred \in r.p})
    <3>. DEFINE column == ColumnOf(q[i])
                rows == tables["t"]
    <3>1. column.agg = q[i].agg /\ column.pred = q[i].pred /\ IsTable(rows)
      BY <2>2
    <3>. HIDE DEF column, rows
    <3>2. column.agg \in {"countAll", "count", "distinct", "max"}
      BY <2>3, <3>1
    <3>3. BucketAggExpr(dialect, column, rows)
            = Aggregate(column.agg, Chosen(column, rows))
      BY <3>1, <3>2, BucketsAreExact
    <3>. QED  BY <3>1, <3>3 DEF column, rows, Chosen
  <2>. QED  BY <1>1, <2>1, <2>4 DEF BucketValue
<1>. QED  BY <1>2 DEF ConsolidatedRow, RepeatedRow

-----------------------------------------------------------------------------
(* A call computes its algorithm's result for its own input, and once. *)
Rewritten(i) ==
    [applied |-> Consolidatable(i.q), runs |-> Runs(i.dialect, i.q), row |-> ConsolidatedRow(i.dialect, i.q, TablesOf(i))]
Asked(i, said, a, b) ==
    [payload |-> MaskSql(i.sql, MapOf(i)) \o MaskText(BlockText(i), MapOf(i))
                 \o MaskText(<<said>>, MapOf(i)),
     meant |-> <<a, b>>,
     answer |-> Unmask(MaskSql(<<a, b>>, MapOf(i)), MapOf(i))]
IsAnswer(i, r) ==
    \E own \in Real, said \in Sent(i) : \E a, b \in Sent(i) \cup {Bare(own)} :
        r = Asked(i, said, a, b)
Computed ==
    /\ input \in CorrelatedCalls \cup RepeatedCalls \cup JoinCalls \cup MaskCalls \cup BatchCalls
    /\ Done("decorrelate") =>
           result = [applied |-> Decorrelatable(input.q),
                     count |-> DecorrelatedResult(input.q, input.o, input.rows)]
    /\ Done("consolidate") => result = Rewritten(input)
    /\ Done("normalize") => result = NormalizeImplicitJoins(input.q)
    /\ Done("mask") => IsAnswer(input, result)
    /\ Done("feed") =>
           result = AutoFeedBatch(input.clusters, input.file, input.ablation, input.dryRun)

LEMMA CallsAreTold ==
    ASSUME Computed
    PROVE  /\ input.of = "decorrelate" => input \in CorrelatedCalls
           /\ input.of = "consolidate" => input \in RepeatedCalls
           /\ input.of = "normalize" => input \in JoinCalls
           /\ input.of = "mask" => input \in MaskCalls
           /\ input.of = "feed" => input \in BatchCalls
BY CorrelatedAssumption, RepeatedAssumption, JoinAssumption, MaskAssumption, BatchAssumption
   DEF Computed

LEMMA ComputedHolds == Spec => []Computed
<1>1. Init => Computed
  BY DEF Init, Computed, Done
<1>2. Computed /\ [Next]_vars => Computed'
  <2>. SUFFICES ASSUME Computed, [Next]_vars PROVE Computed'
    OBVIOUS
  <2>1. CASE OptimizeCorrelated
    BY <2>1 DEF OptimizeCorrelated, Computed, Done
  <2>2. CASE OptimizeRepeated
    <3>1. input' = input /\ input.of = "consolidate"
      BY <2>2 DEF OptimizeRepeated
    <3>2. result' = Rewritten(input)
      BY <2>2 DEF OptimizeRepeated, Rewritten
    <3>. QED  BY <3>1, <3>2 DEF Computed, Done
  <2>3. CASE Normalize
    BY <2>3 DEF Normalize, Computed, Done
  <2>4. CASE Ask
    <3>1. input' = input /\ input.of = "mask"
      BY <2>4 DEF Ask
    <3>2. IsAnswer(input, result')
      BY <2>4, Zenon DEF Ask, IsAnswer, Asked
    <3>. QED  BY <3>1, <3>2 DEF Computed, Done
  <2>5. CASE Batch
    BY <2>5 DEF Batch, Computed, Done
  <2>6. CASE UNCHANGED vars
    BY <2>6 DEF vars, Computed, Done
  <2>. QED  BY <2>1, <2>2, <2>3, <2>4, <2>5, <2>6 DEF Next
<1>. QED  BY <1>1, <1>2, PTL DEF Spec

(* sql_rewriter.py:301-304: what a decorrelated query returns of each outer row is
   what the original returns, for outer rows and inner tables of any size, when it
   compares a column with a maximum (or a sum: NULL for no rows) that is correlated
   by its key alone.  Nothing is said of COUNT or of further inner predicates. *)
THEOREM PlainDecorrelationIsPreserved == Spec => []PlainDecorrelationPreserves
<1>1. Computed => PlainDecorrelationPreserves
  BY DecorrelationIsExact DEF Computed, PlainDecorrelationPreserves
<1>. QED  BY <1>1, ComputedHolds, PTL

(* mysql.py:36-39: a consolidated query that is not refused has the values of the
   subqueries it replaces, for any number of buckets over a table of any size. *)
THEOREM ConsolidationIsPreserved == Spec => []ConsolidationPreserves
<1>1. ASSUME Computed, Done("consolidate"), result.applied, result.runs
      PROVE  result.row = RepeatedRow(input.q, TablesOf(input))
  <2>1. input \in RepeatedCalls
    BY <1>1, CallsAreTold DEF Done
  <2>2. input.q \in Seq(Bucket) /\ IsTable(input.t) /\ TablesOf(input)["t"] = input.t
    BY <2>1, RepeatedAssumption DEF TablesOf
  <2>3. /\ Consolidatable(input.q) /\ Runs(input.dialect, input.q)
        /\ result.row = ConsolidatedRow(input.dialect, input.q, TablesOf(input))
    BY <1>1 DEF Computed, Rewritten
  <2>. QED  BY <2>2, <2>3, ConsolidationIsExact
<1>2. Computed => ConsolidationPreserves
  BY <1>1 DEF ConsolidationPreserves
<1>. QED  BY <1>2, ComputedHolds, PTL

-----------------------------------------------------------------------------
(* The shapes of a decorrelated query and of a consolidated one *)
LEMMA DecorrelationReports ==
    ASSUME NEW q \in Correlated
    PROVE  /\ (StructuralErrors(CorrelatedShape(q), DecorrelatedShape(q)) # {}) = DropsAPredicate(q)
           /\ Precheck(CorrelatedShape(q), DecorrelatedShape(q))
<1>. DEFINE o == CorrelatedShape(q)
            r == DecorrelatedShape(q)
<1>1. r.referenced = {"o", "i", "_decorr"} /\ {"o", "i", "_decorr"} \subseteq r.defined /\ r.refs = o.refs
  BY DEF CorrelatedShape, DecorrelatedShape
<1>2. o.innerLimits = 0 /\ r.innerLimits = 0
  BY DEF CorrelatedShape, DecorrelatedShape
<1>3. \A s \in Scope : o.refs[s] \in Nat
  BY DEF CorrelatedShape, Refs
<1>4. (o.filters \subseteq r.filters) <=> ~q.first
  BY DEF CorrelatedShape, DecorrelatedShape, Correlated
<1>5. ~q.first => ((o.constants \subseteq r.constants \/ ~(r.constants \subseteq o.constants))
                     <=> q.inner = "key")
  BY DEF CorrelatedShape, DecorrelatedShape, Correlated
<1>. HIDE DEF o, r
<1>6. /\ Undefined(r) = {} /\ Tables(o) \subseteq Tables(r)
  BY <1>1 DEF Undefined, Tables
<1>7. (StructuralErrors(o, r) # {}) <=> DropsAPredicate(q)
  <2>1. StructuralErrors(o, r)
          = (IF o.filters \subseteq r.filters THEN {} ELSE {"filter"})
            \cup (IF o.constants \subseteq r.constants \/ ~(r.constants \subseteq o.constants)
                  THEN {} ELSE {"constant"})
    BY <1>6 DEF StructuralErrors
  <2>. QED  BY <1>4, <1>5, <2>1 DEF DropsAPredicate
<1>8. DropsAPredicate(q) \in BOOLEAN
  BY DEF DropsAPredicate, Correlated
<1>9. Precheck(o, r)
  BY <1>1, <1>2, <1>3 DEF Precheck, Tables
<1>. QED  BY <1>7, <1>8, <1>9 DEF o, r

LEMMA ConsolidationReports ==
    ASSUME NEW q \in Seq(Bucket), Consolidatable(q)
    PROVE  (StructuralErrors(RepeatedShape(q), ConsolidatedShape(q)) # {}) = LosesAnAlias(q)
<1>. DEFINE o == RepeatedShape(q)
            r == ConsolidatedShape(q)
<1>1. /\ r.referenced = {"o", "_consol"} \cup (IF LosesAnAlias(q) THEN {"s"} ELSE {})
      /\ r.defined = {"o", "t", "_consol"}
  BY DEF RepeatedShape, ConsolidatedShape, Aliases
<1>2. o.filters = r.filters /\ o.constants = {}
  BY DEF RepeatedShape, ConsolidatedShape
<1>3. Cardinality(BucketsOn(q, "u")) = 0
  BY FS_EmptySet DEF Consolidatable
<1>4. Tables(o) \subseteq {"o", "t"}
  BY <1>3 DEF RepeatedShape, Refs, Tables, Scope
<1>5. {"o", "t"} \subseteq Tables(r)
  BY DEF RepeatedShape, ConsolidatedShape, Refs, Tables, Scope
<1>. HIDE DEF o, r
<1>6. CASE LosesAnAlias(q)
  <2>1. "s" \in Undefined(r)
    BY <1>1, <1>6 DEF Undefined
  <2>2. StructuralErrors(o, r) # {}
    BY <2>1 DEF StructuralErrors
  <2>. QED  BY <1>6, <2>2 DEF o, r, LosesAnAlias
<1>7. CASE ~LosesAnAlias(q)
  <2>1. StructuralErrors(o, r) = {}
    BY <1>1, <1>2, <1>4, <1>5, <1>7 DEF StructuralErrors, Undefined
  <2>. QED  BY <1>7, <2>1 DEF o, r, LosesAnAlias
<1>. QED  BY <1>6, <1>7

(* What check_structural_integrity says of the two transforms, for any query and
   any number of buckets: it objects to a decorrelation exactly when a predicate
   was dropped and to a consolidation exactly when an alias was lost. *)
THEOREM StructuralChecksAreExact == Spec => []StructuralCheckIsExact
<1>1. ASSUME Computed, Done("decorrelate") PROVE input.q \in Correlated
  BY <1>1, CallsAreTold, CorrelatedAssumption DEF Done
<1>2. ASSUME Computed, Done("consolidate"), result.applied
      PROVE  input.q \in Seq(Bucket) /\ Consolidatable(input.q)
  BY <1>2, CallsAreTold, RepeatedAssumption DEF Done, Computed, Rewritten
<1>3. Computed => StructuralCheckIsExact
  BY <1>1, <1>2, DecorrelationReports, ConsolidationReports DEF StructuralCheckIsExact
<1>. QED  BY <1>3, ComputedHolds, PTL

-----------------------------------------------------------------------------
(* The batch: what each cluster does to the rule file, the hints accepted and *)
(* the report, and the loop over the clusters.                                *)
Feeding == [file : Rules, accepted : SUBSET Hint, report : Seq(Cluster)]
LEMMA ConsiderTyped ==
    ASSUME NEW acc \in Feeding, NEW c \in Cluster, NEW ablation, NEW dryRun
    PROVE  Consider(ablation, dryRun, acc, c) \in Feeding
<1>1. CASE Status(ablation, acc, c) # "accepted"
  BY <1>1 DEF Consider
<1>2. CASE Status(ablation, acc, c) = "accepted"
  <2>1. c.hint \in Hint
    BY <1>2 DEF Status, Cluster
  <2>2. AddRule(acc.file, c.slug, c.hint) \in Rules
    <3>1. PICK names \in SUBSET SlugName : acc.file \in [names -> Hint]
      BY DEF Feeding, Rules
    <3>2. c.slug \in SlugName
      BY DEF Cluster
    <3>3. AddRule(acc.file, c.slug, c.hint) \in [names \cup {c.slug} -> Hint]
      BY <2>1, <3>1 DEF AddRule
    <3>. QED  BY <3>2, <3>3 DEF Rules
  <2>3. Append(acc.report, c) \in Seq(Cluster) /\ Remember(acc, c) \in SUBSET Hint
    BY <2>1 DEF Feeding, Remember
  <2>. QED  BY <1>2, <2>2, <2>3 DEF Consider, Feeding
<1>. QED  BY <1>1, <1>2

LEMMA ConsideringRuns ==
    ASSUME NEW clusters \in Seq(Cluster), NEW file \in Rules, NEW ablation, NEW dryRun
    PROVE  LET h == Considering(clusters, file, ablation, dryRun)
               n == Len(clusters) IN
           /\ h \in [0 .. n -> Feeding]
           /\ h[0] = [file |-> file, accepted |-> {}, report |-> <<>>]
           /\ \A i \in 1 .. n : h[i] = Consider(ablation, dryRun, h[i - 1], clusters[i])
<1>. DEFINE n == Len(clusters)
            base == [file |-> file, accepted |-> {}, report |-> <<>>]
            step == [i \in 1 .. n |-> [acc \in Feeding |-> Consider(ablation, dryRun, acc, clusters[i])]]
            h == Considering(clusters, file, ablation, dryRun)
<1>1. n \in Nat /\ base \in Feeding
  BY DEF Feeding
<1>2. step \in [1 .. n -> [Feeding -> Feeding]]
  <2>. SUFFICES ASSUME NEW i \in 1 .. n, NEW acc \in Feeding
                PROVE  Consider(ablation, dryRun, acc, clusters[i]) \in Feeding
    OBVIOUS
  <2>1. clusters[i] \in Cluster
    OBVIOUS
  <2>. QED  BY <2>1, ConsiderTyped
<1>3. PICK f \in LoopOf(n, base, step, Feeding) : TRUE
  <2>. HIDE DEF n, base, step
  <2>. QED  BY <1>1, <1>2, LoopRuns
<1>4. f \in [0 .. n -> Feeding] /\ f[0] = base /\ \A i \in 1 .. n : f[i] = step[i][f[i - 1]]
  BY <1>3 DEF LoopOf
<1>5. f = [i \in 0 .. n |-> IF i = 0 THEN base ELSE Consider(ablation, dryRun, f[i - 1], clusters[i])]
  <2>. SUFFICES ASSUME NEW i \in 1 .. n
                PROVE  f[i] = Consider(ablation, dryRun, f[i - 1], clusters[i])
    BY <1>1, <1>4
  <2>1. f[i - 1] \in Feeding
    <3>. HIDE DEF n, base, step
    <3>. QED  BY <1>1, <1>4
  <2>. QED  BY <1>4, <2>1
<1>6. h = CHOOSE g : g = [i \in 0 .. n |-> IF i = 0 THEN base
                                           ELSE Consider(ablation, dryRun, g[i - 1], clusters[i])]
  BY DEF Considering
<1>. HIDE DEF n, base, h
<1>7. h = [i \in 0 .. n |-> IF i = 0 THEN base ELSE Consider(ablation, dryRun, h[i - 1], clusters[i])]
  BY <1>5, <1>6, Zenon
<1>8. h[0] = base /\ \A i \in 1 .. n : h[i] = Consider(ablation, dryRun, h[i - 1], clusters[i])
  BY <1>1, <1>7
<1>9. 0 .. n \subseteq {i \in 0 .. n : h[i] \in Feeding}
  <2>. DEFINE Typed == {i \in 0 .. n : h[i] \in Feeding}
  <2>1. 0 \in Typed
    BY <1>1, <1>8
  <2>2. ASSUME NEW i \in 1 .. n, i - 1 \in Typed PROVE i \in Typed
    <3>1. clusters[i] \in Cluster
      BY DEF n
    <3>. QED  BY <1>1, <1>8, <2>2, <3>1, ConsiderTyped
  <2>. HIDE DEF Typed
  <2>3. 0 .. n \subseteq Typed
    BY <1>1, <2>1, <2>2, LoopKeeps
  <2>. QED  BY <2>3 DEF Typed
<1>10. h \in [0 .. n -> Feeding]
  BY <1>7, <1>9
<1>. QED  BY <1>8, <1>10 DEF h, n, base

(* What holds of the batch so far, after any number of its clusters. *)
Fed(ablation, file, acc) ==
    /\ \A i \in DOMAIN acc.report : acc.report[i].hint \in acc.accepted
    /\ \A i, j \in DOMAIN acc.report :
           i # j => ~IsDuplicate(acc.report[i].hint, {acc.report[j].hint})
    /\ \A i \in DOMAIN acc.report : acc.report[i].hint \notin Leaking
    /\ ablation.on => \A i \in DOMAIN acc.report : ~IsDuplicate(acc.report[i].hint, ablation.hints)
    /\ ~ablation.on /\ NoParaphrasesIn(file) => NoParaphrasesIn(acc.file)

LEMMA DuplicateEitherWay ==
    ASSUME NEW g, NEW h PROVE IsDuplicate(g, {h}) <=> IsDuplicate(h, {g})
<1>1. {g, h} = {h, g}
  OBVIOUS
<1>. QED  BY <1>1 DEF IsDuplicate

LEMMA ConsiderKeeps ==
    ASSUME NEW acc \in Feeding, NEW c \in Cluster, NEW ablation, NEW dryRun, NEW file,
           Fed(ablation, file, acc)
    PROVE  Fed(ablation, file, Consider(ablation, dryRun, acc, c))
<1>. DEFINE then == Consider(ablation, dryRun, acc, c)
<1>1. CASE Status(ablation, acc, c) # "accepted"
  BY <1>1 DEF Consider
<1>2. CASE Status(ablation, acc, c) = "accepted"
  <2>1. /\ c.hint \notin Leaking
        /\ ~IsDuplicate(c.hint, Loaded(ablation, acc.file))
        /\ ~IsDuplicate(c.hint, acc.accepted)
    BY <1>2 DEF Status
  <2>2. /\ then.report = Append(acc.report, c)
        /\ then.accepted = acc.accepted \cup {c.hint}
        /\ then.file = IF dryRun THEN acc.file ELSE AddRule(acc.file, c.slug, c.hint)
    BY <1>2 DEF Consider, Remember
  <2>. DEFINE r == acc.report
              k == Len(acc.report)
  <2>3. r \in Seq(Cluster)
    BY DEF Feeding
  <2>4. /\ DOMAIN then.report = DOMAIN r \cup {k + 1} /\ k + 1 \notin DOMAIN r
        /\ then.report[k + 1] = c /\ \A i \in DOMAIN r : then.report[i] = r[i]
    BY <2>2, <2>3
  <2>. HIDE DEF then, k
  <2>5. \A i \in DOMAIN then.report : then.report[i].hint \in then.accepted
    BY <2>2, <2>4 DEF Fed
  <2>6. ASSUME NEW i \in DOMAIN r
        PROVE  ~IsDuplicate(c.hint, {r[i].hint}) /\ ~IsDuplicate(r[i].hint, {c.hint})
    <3>1. ~IsDuplicate(c.hint, {r[i].hint})
      BY <2>1 DEF IsDuplicate, Fed
    <3>. QED  BY <3>1, DuplicateEitherWay
  <2>7. ASSUME NEW i \in DOMAIN then.report, NEW j \in DOMAIN then.report, i # j
        PROVE  ~IsDuplicate(then.report[i].hint, {then.report[j].hint})
    <3>1. CASE i \in DOMAIN r /\ j \in DOMAIN r
      BY <2>4, <2>7, <3>1, Zenon DEF Fed
    <3>2. CASE i \in DOMAIN r /\ j = k + 1
      BY <2>4, <2>6, <3>2, Zenon
    <3>3. CASE i = k + 1 /\ j \in DOMAIN r
      BY <2>4, <2>6, <3>3, Zenon
    <3>. QED  BY <2>4, <2>7, <3>1, <3>2, <3>3
  <2>8. \A i \in DOMAIN then.report : then.report[i].hint \notin Leaking
    BY <2>1, <2>4 DEF Fed
  <2>9. ablation.on => \A i \in DOMAIN then.report : ~IsDuplicate(then.report[i].hint, ablation.hints)
    <3>. SUFFICES ASSUME ablation.on, NEW i \in DOMAIN then.report
                  PROVE  ~IsDuplicate(then.report[i].hint, ablation.hints)
      OBVIOUS
    <3>1. ~IsDuplicate(c.hint, ablation.hints)
      BY <2>1 DEF Loaded
    <3>. QED  BY <2>4, <3>1, Zenon DEF Fed
  <2>10. ~ablation.on /\ NoParaphrasesIn(file) => NoParaphrasesIn(then.file)
    <3>. SUFFICES ASSUME ~ablation.on, NoParaphrasesIn(file), ~dryRun
                  PROVE  NoParaphrasesIn(then.file)
      BY <2>2 DEF Fed
    <3>1. NoParaphrasesIn(acc.file)
      BY DEF Fed
    <3>2. ASSUME NEW n \in DOMAIN acc.file
          PROVE  ~IsDuplicate(c.hint, {acc.file[n]}) /\ ~IsDuplicate(acc.file[n], {c.hint})
      <4>1. ~IsDuplicate(c.hint, {acc.file[n]})
        BY <2>1 DEF IsDuplicate, Loaded, HintsOf
      <4>. QED  BY <4>1, DuplicateEitherWay
    <3>3. /\ DOMAIN then.file = DOMAIN acc.file \cup {c.slug}
          /\ then.file[c.slug] = c.hint
          /\ \A n \in DOMAIN acc.file : n # c.slug => then.file[n] = acc.file[n]
      BY <2>2 DEF AddRule
    <3>4. ASSUME NEW n \in DOMAIN then.file, NEW m \in DOMAIN then.file, n # m
          PROVE  ~IsDuplicate(then.file[n], {then.file[m]})
      <4>1. CASE n = c.slug
        BY <3>2, <3>3, <3>4, <4>1
      <4>2. CASE m = c.slug
        BY <3>2, <3>3, <3>4, <4>2
      <4>3. CASE n # c.slug /\ m # c.slug
        BY <3>1, <3>3, <3>4, <4>3 DEF NoParaphrasesIn
      <4>. QED  BY <4>1, <4>2, <4>3
    <3>. QED  BY <3>4 DEF NoParaphrasesIn
  <2>11. Fed(ablation, file, then)
    BY <2>5, <2>7, <2>8, <2>9, <2>10 DEF Fed
  <2>. QED  BY <2>11 DEF then
<1>. QED  BY <1>1, <1>2

(* auto_feed.py:121-149: however many clusters a batch has, and whatever the
   rule file and its ablation hold, it accepts no leak and no two paraphrases,
   and puts none into a file without. *)
THEOREM BatchesAddNoParaphrases == Spec => []BatchHasNoParaphrases
<1>1. ASSUME NEW i \in BatchCalls
      PROVE  Fed(i.ablation, i.file, AutoFeedBatch(i.clusters, i.file, i.ablation, i.dryRun))
  <2>. DEFINE h == Considering(i.clusters, i.file, i.ablation, i.dryRun)
              n == Len(i.clusters)
              Good == {k \in 0 .. n : Fed(i.ablation, i.file, h[k])}
  <2>1. i.clusters \in Seq(Cluster) /\ i.file \in Rules
    BY BatchAssumption
  <2>2. /\ h \in [0 .. n -> Feeding]
        /\ h[0] = [file |-> i.file, accepted |-> {}, report |-> <<>>]
        /\ \A k \in 1 .. n : h[k] = Consider(i.ablation, i.dryRun, h[k - 1], i.clusters[k])
    BY <2>1, ConsideringRuns
  <2>3. n \in Nat /\ \A k \in 1 .. n : i.clusters[k] \in Cluster
    BY <2>1
  <2>4. AutoFeedBatch(i.clusters, i.file, i.ablation, i.dryRun) = h[n]
    BY DEF AutoFeedBatch
  <2>. HIDE DEF h, n
  <2>5. 0 \in Good
    BY <2>2, <2>3 DEF Fed
  <2>6. ASSUME NEW k \in 1 .. n, k - 1 \in Good PROVE k \in Good
    <3>1. h[k - 1] \in Feeding /\ Fed(i.ablation, i.file, h[k - 1])
      BY <2>2, <2>3, <2>6
    <3>2. Fed(i.ablation, i.file, Consider(i.ablation, i.dryRun, h[k - 1], i.clusters[k]))
      BY <2>3, <3>1, ConsiderKeeps
    <3>. QED  BY <2>2, <2>3, <3>2
  <2>. HIDE DEF Good
  <2>7. n \in Good
    BY <2>3, <2>5, <2>6, LoopKeeps
  <2>. QED  BY <2>4, <2>7 DEF Good
<1>2. ASSUME Computed, Done("feed") PROVE Fed(input.ablation, input.file, result)
  BY <1>1, <1>2, CallsAreTold DEF Computed, Done
<1>3. Computed => BatchHasNoParaphrases
  BY <1>2 DEF BatchHasNoParaphrases, Fed
<1>. QED  BY <1>3, ComputedHolds, PTL

-----------------------------------------------------------------------------
(* The joins: the items a column may be of, before and after it is qualified *)
LEMMA OwnerIs ==
    ASSUME NEW q, q.from \in Seq(Item), NEW column, TableOf(q, column) # NoTable
    PROVE  OwnersIn(q, column) = {TableOf(q, column)}
<1>. DEFINE base == {j \in DOMAIN q.from : q.from[j].how # "derived"}
            owners == OwnersIn(q, column)
<1>1. IsFiniteSet(DOMAIN q.from)
  <2>1. DOMAIN q.from = 1 .. Len(q.from) /\ Len(q.from) \in Nat
    OBVIOUS
  <2>. QED  BY <2>1, FS_Interval
<1>2. IsFiniteSet(base)
  BY <1>1, FS_Subset
<1>. HIDE DEF base
<1>3. IsFiniteSet({q.from[i].name : i \in base})
  <2>. DEFINE f == [i \in base |-> q.from[i].name]
              named == {q.from[i].name : i \in base}
  <2>1. f \in Surjection(base, named)
    BY DEF Surjection
  <2>. QED  BY <1>2, <2>1, FS_Surjection
<1>4. IsFiniteSet(owners)
  BY <1>3, FS_Subset DEF OwnersIn, NamesOf, base
<1>5. Cardinality(owners) = 1 /\ TableOf(q, column) = CHOOSE t \in owners : TRUE
  BY DEF TableOf
<1>. HIDE DEF owners
<1>6. \E t : owners = {t}
  BY <1>4, <1>5, FS_Singleton
<1>. QED  BY <1>5, <1>6 DEF owners

(* r has the tables of q, whatever else it has. *)
Items(q, column) == {i \in DOMAIN q.from : Of(q.from[i], column)}
Base(q) == \A i \in DOMAIN q.from : q.from[i].how # "derived"
SameTables(q, r) ==
    /\ DOMAIN r.from = DOMAIN q.from
    /\ \A i \in DOMAIN q.from : r.from[i].name = q.from[i].name /\ r.from[i].alias = q.from[i].alias

LEMMA QualifiedIsOfTheSame ==
    ASSUME NEW q, q.from \in Seq(Item), Base(q), Unaliased(q), NEW r, SameTables(q, r),
           NEW column \in Column
    PROVE  /\ Items(r, column) = Items(q, column)
           /\ Items(r, Qualify(q, column)) = Items(q, column)
           /\ TableOf(q, column) # NoTable /\ column.table = NoTable =>
                  Items(q, column) = {i \in DOMAIN q.from : q.from[i].name = TableOf(q, column)}
<1>1. Items(r, column) = Items(q, column)
  BY DEF Items, SameTables, Of, ScopeName
<1>2. CASE column.table # NoTable
  BY <1>1, <1>2 DEF Qualify
<1>3. CASE column.table = NoTable /\ TableOf(q, column) = NoTable
  <2>1. [column EXCEPT !.table = NoTable] = column
    BY <1>3 DEF Column
  <2>. QED  BY <1>1, <1>3, <2>1 DEF Qualify
<1>4. CASE column.table = NoTable /\ TableOf(q, column) # NoTable
  <2>. DEFINE t == TableOf(q, column)
              named == {i \in DOMAIN q.from : q.from[i].name = t}
  <2>1. Qualify(q, column) = [column EXCEPT !.table = t]
    BY <1>4 DEF Qualify
  <2>2. [column EXCEPT !.table = t].table = t /\ [column EXCEPT !.table = t].name = column.name
    BY DEF Column
  <2>3. \A i \in DOMAIN q.from : q.from[i].name \in Owners[column.name] <=> q.from[i].name = t
    <3>1. \A i \in DOMAIN q.from : q.from[i].name \in NamesOf(q)
      BY DEF NamesOf, Base
    <3>2. Owners[column.name] \cap NamesOf(q) = {t}
      BY <1>4, OwnerIs DEF OwnersIn
    <3>. HIDE DEF t
    <3>. QED  BY <3>1, <3>2
  <2>4. Items(q, column) = named
    BY <1>4, <2>3 DEF Items, Of
  <2>5. \A i \in DOMAIN r.from : ScopeName(r.from[i]) = q.from[i].name
    BY DEF ScopeName, SameTables, Unaliased
  <2>6. Items(r, Qualify(q, column)) = named
    BY <1>4, <2>1, <2>2, <2>5 DEF Items, Of, SameTables
  <2>. QED  BY <1>1, <1>4, <2>4, <2>6
<1>. QED  BY <1>1, <1>2, <1>3, <1>4

(* A conjunct means in r, qualified, what it means in q. *)
LEMMA QualifiedMeansTheSame ==
    ASSUME NEW q, q.from \in Seq(Item), Base(q), Unaliased(q), NEW r, SameTables(q, r),
           NEW c \in Conjunct, Nested(c) => QualifyNode(q, c) = c
    PROVE  Meant(r, QualifyNode(q, c)) = Meant(q, c)
<1>. DEFINE d == QualifyNode(q, c)
<1>1. ASSUME NEW column \in Column
      PROVE  [Qualify(q, column) EXCEPT !.table = Items(r, Qualify(q, column))]
               = [column EXCEPT !.table = Items(q, column)]
  BY <1>1, QualifiedIsOfTheSame DEF Qualify, Column
<1>2. CASE IsEquality(c)
  <2>1. c.left \in Column /\ c.right \in Column /\ ~Nested(c)
    BY <1>2 DEF IsEquality, Nested, Conjunct
  <2>2. /\ d = [left |-> Qualify(q, c.left), right |-> Qualify(q, c.right)]
        /\ d.left = Qualify(q, c.left) /\ d.right = Qualify(q, c.right)
        /\ IsEquality(d) /\ ~Nested(d)
    BY <1>2 DEF QualifyNode, IsEquality, Nested
  <2>. HIDE DEF d
  <2>3. /\ Meant(r, d) = [left |-> [d.left EXCEPT !.table = Items(r, d.left)],
                          right |-> [d.right EXCEPT !.table = Items(r, d.right)]]
        /\ Meant(q, c) = [left |-> [c.left EXCEPT !.table = Items(q, c.left)],
                          right |-> [c.right EXCEPT !.table = Items(q, c.right)]]
    BY <1>2, <2>1, <2>2 DEF Meant, Bound, Denotes, Items
  <2>4. /\ [d.left EXCEPT !.table = Items(r, d.left)] = [c.left EXCEPT !.table = Items(q, c.left)]
        /\ [d.right EXCEPT !.table = Items(r, d.right)] = [c.right EXCEPT !.table = Items(q, c.right)]
    BY <1>1, <2>1, <2>2
  <2>5. Meant(r, d) = Meant(q, c)
    BY <2>3, <2>4
  <2>. QED  BY <2>5 DEF d
<1>3. CASE ~IsEquality(c) /\ Nested(c)
  <2>1. c.only \in Column
    BY <1>3 DEF IsEquality, Nested, Conjunct
  <2>2. Denotes(r, c, c.only) = Denotes(q, c, c.only)
    <3>1. Items(r, c.only) = Items(q, c.only)
      BY <2>1, QualifiedIsOfTheSame
    <3>2. /\ Denotes(r, c, c.only) = IF Of(c.of, c.only) THEN {0} ELSE Items(r, c.only)
          /\ Denotes(q, c, c.only) = IF Of(c.of, c.only) THEN {0} ELSE Items(q, c.only)
      BY <1>3, Zenon DEF Denotes, Items
    <3>. QED  BY <3>1, <3>2, Zenon
  <2>3. Meant(r, c) = Meant(q, c)
    BY <1>3, <2>2 DEF Meant, Bound
  <2>. QED  BY <1>3, <2>3
<1>4. CASE ~IsEquality(c) /\ ~Nested(c)
  <2>1. c \in [only : Column]
    BY <1>4 DEF IsEquality, Nested, Conjunct
  <2>2. d = [c EXCEPT !.only = Qualify(q, c.only)]
    BY <1>4 DEF QualifyNode
  <2>3. d = [only |-> Qualify(q, c.only)] /\ d.only = Qualify(q, c.only)
    BY <2>1, <2>2
  <2>4. ~IsEquality(d) /\ ~Nested(d)
    BY <2>3 DEF IsEquality, Nested
  <2>. HIDE DEF d
  <2>5. /\ Meant(r, d) = [d EXCEPT !.only = [d.only EXCEPT !.table = Items(r, d.only)]]
        /\ Meant(q, c) = [c EXCEPT !.only = [c.only EXCEPT !.table = Items(q, c.only)]]
    BY <1>4, <2>4 DEF Meant, Bound, Denotes, Items
  <2>6. [d.only EXCEPT !.table = Items(r, d.only)] = [c.only EXCEPT !.table = Items(q, c.only)]
    BY <1>1, <2>1, <2>3
  <2>7. Meant(r, d) = Meant(q, c)
    BY <2>1, <2>3, <2>5, <2>6
  <2>. QED  BY <2>7 DEF d
<1>. QED  BY <1>2, <1>3, <1>4

(* What each item takes from the graph, and the loop over the items after the first *)
Placeable(q) ==
    [name : STRING, alias : STRING, how : {"first", "comma", "on", "derived"},
     on : SUBSET (Conjunct \cup {QualifyNode(q, c) : c \in Conjunct})]
Rebuilt(q) == [joined : SUBSET STRING, items : Seq(Placeable(q)), graph : SUBSET Conjunct]
LEMMA RebuildTyped ==
    ASSUME NEW q, NEW acc \in Rebuilt(q), NEW item \in Item
    PROVE  Rebuild(q, acc, item) \in Rebuilt(q)
<1>. DEFINE conds == OnConds(q, acc, item)
            placed == {QualifyNode(q, c) : c \in conds}
            joined == JoinedOn(q, item, conds)
<1>1. conds \in SUBSET Conjunct
  BY DEF OnConds, LinksTo, Rebuilt
<1>2. placed \in SUBSET (Conjunct \cup {QualifyNode(q, c) : c \in Conjunct})
  BY <1>1
<1>3. joined = IF conds = {} THEN item ELSE [item EXCEPT !.how = "on", !.on = placed]
  BY DEF JoinedOn
<1>. HIDE DEF conds, placed, joined
<1>4. joined \in Placeable(q)
  BY <1>2, <1>3 DEF Item, Placeable
<1>5. Append(acc.items, joined) \in Seq(Placeable(q))
  BY <1>4 DEF Rebuilt
<1>6. acc.joined \cup {item.name} \in SUBSET STRING /\ acc.graph \ conds \in SUBSET Conjunct
  BY DEF Rebuilt, Item
<1>. QED  BY <1>5, <1>6 DEF Rebuild, Rebuilt, conds, joined

LEMMA RebuildingRuns ==
    ASSUME NEW q, q.from \in Seq(Item), q.from # <<>>, q.where \subseteq Conjunct
    PROVE  LET h == Rebuilding(q)
               n == Len(q.from) - 1 IN
           /\ h \in [0 .. n -> Rebuilt(q)]
           /\ h[0] = Start(q)
           /\ \A i \in 1 .. n : h[i] = Rebuild(q, h[i - 1], q.from[i + 1])
<1>. DEFINE n == Len(q.from) - 1
            base == Start(q)
            step == [i \in 1 .. n |-> [acc \in Rebuilt(q) |-> Rebuild(q, acc, q.from[i + 1])]]
            h == Rebuilding(q)
<1>1. n \in Nat /\ \A i \in 0 .. n : q.from[i + 1] \in Item
  OBVIOUS
<1>2. base \in Rebuilt(q)
  <2>1. q.from[1] \in Item /\ q.from[1].name \in STRING
    BY <1>1 DEF Item
  <2>2. q.from[1] \in Placeable(q)
    BY <2>1 DEF Item, Placeable
  <2>3. <<q.from[1]>> \in Seq(Placeable(q)) /\ JoinGraph(q) \in SUBSET Conjunct
    BY <2>2 DEF JoinGraph
  <2>. QED  BY <2>1, <2>3 DEF Start, Rebuilt
<1>. HIDE DEF n, base
<1>3. step \in [1 .. n -> [Rebuilt(q) -> Rebuilt(q)]]
  BY <1>1, RebuildTyped
<1>4. PICK f \in LoopOf(n, base, step, Rebuilt(q)) : TRUE
  <2>. HIDE DEF step
  <2>. QED  BY <1>1, <1>2, <1>3, LoopRuns
<1>5. f \in [0 .. n -> Rebuilt(q)] /\ f[0] = base /\ \A i \in 1 .. n : f[i] = step[i][f[i - 1]]
  BY <1>4 DEF LoopOf
<1>6. f = [i \in 0 .. n |-> IF i = 0 THEN base ELSE Rebuild(q, f[i - 1], q.from[i + 1])]
  <2>. SUFFICES ASSUME NEW i \in 1 .. n PROVE f[i] = Rebuild(q, f[i - 1], q.from[i + 1])
    BY <1>1, <1>5
  <2>1. f[i - 1] \in Rebuilt(q)
    BY <1>1, <1>5
  <2>. QED  BY <1>5, <2>1
<1>7. h = CHOOSE g : g = [i \in 0 .. n |-> IF i = 0 THEN base ELSE Rebuild(q, g[i - 1], q.from[i + 1])]
  BY DEF Rebuilding, n, base
<1>. HIDE DEF h
<1>8. h = [i \in 0 .. n |-> IF i = 0 THEN base ELSE Rebuild(q, h[i - 1], q.from[i + 1])]
  BY <1>6, <1>7, Zenon
<1>9. h[0] = base /\ \A i \in 1 .. n : h[i] = Rebuild(q, h[i - 1], q.from[i + 1])
  BY <1>1, <1>8
<1>10. 0 .. n \subseteq {i \in 0 .. n : h[i] \in Rebuilt(q)}
  <2>. DEFINE Typed == {i \in 0 .. n : h[i] \in Rebuilt(q)}
  <2>1. 0 \in Typed
    BY <1>1, <1>2, <1>9
  <2>2. ASSUME NEW i \in 1 .. n, i - 1 \in Typed PROVE i \in Typed
    <3>1. h[i - 1] \in Rebuilt(q) /\ q.from[i + 1] \in Item /\ i \in 0 .. n
      BY <1>1, <2>2
    <3>2. Rebuild(q, h[i - 1], q.from[i + 1]) \in Rebuilt(q)
      BY <3>1, RebuildTyped
    <3>. QED  BY <1>9, <3>1, <3>2
  <2>. HIDE DEF Typed
  <2>3. 0 .. n \subseteq Typed
    BY <1>1, <2>1, <2>2, LoopKeeps
  <2>. QED  BY <2>3 DEF Typed
<1>11. h \in [0 .. n -> Rebuilt(q)]
  BY <1>8, <1>10
<1>. QED  BY <1>9, <1>11 DEF h, n, base

(* What holds when the first k + 1 items of a comma join have been rebuilt: each *)
(* conjunct of the graph is still there, or in the ON of an item, and what an ON  *)
(* has names tables joined by then.                                              *)
Placed(q, k, acc) ==
    /\ DOMAIN acc.items = 1 .. k + 1
    /\ \A i \in 1 .. k + 1 :
           /\ acc.items[i].name = q.from[i].name /\ acc.items[i].alias = q.from[i].alias
           /\ acc.items[i].how # "derived"
    /\ acc.joined = {q.from[j].name : j \in 1 .. k + 1}
    /\ acc.graph \subseteq JoinGraph(q)
    /\ \A c \in JoinGraph(q) \ acc.graph : \E i \in 1 .. k + 1 : QualifyNode(q, c) \in acc.items[i].on
    /\ \A i \in 1 .. k + 1 : \A d \in acc.items[i].on : \E c \in JoinGraph(q) :
           d = QualifyNode(q, c) /\ Ends(q, c) \subseteq {q.from[j].name : j \in 1 .. i}

LEMMA RebuildPlaces ==
    ASSUME NEW q, NEW k \in Nat, NEW acc \in Rebuilt(q), Placed(q, k, acc),
           NEW item \in Item, item = q.from[k + 2], item.how # "derived", item.on = {}
    PROVE  Placed(q, k + 1, Rebuild(q, acc, item))
<1>. DEFINE conds == OnConds(q, acc, item)
            added == JoinedOn(q, item, conds)
            then == Rebuild(q, acc, item)
<1>1. /\ added.name = item.name /\ added.alias = item.alias /\ added.how # "derived"
      /\ added.on = {QualifyNode(q, c) : c \in conds}
  <2>1. item = [item EXCEPT !.on = {}] /\ item.on = {}
    BY DEF Item
  <2>. HIDE DEF conds
  <2>2. CASE conds = {}
    BY <2>1, <2>2 DEF JoinedOn
  <2>3. CASE conds # {}
    BY <2>3 DEF JoinedOn, Item
  <2>. QED  BY <2>2, <2>3
<1>2. /\ then.joined = acc.joined \cup {item.name}
      /\ then.items = Append(acc.items, added)
      /\ then.graph = acc.graph \ conds
  BY DEF Rebuild
<1>. HIDE DEF then, added
<1>3. acc.items \in Seq(Placeable(q)) /\ Len(acc.items) = k + 1
  BY DEF Rebuilt, Placed
<1>4. /\ DOMAIN then.items = 1 .. k + 2
      /\ then.items[k + 2] = added
      /\ \A i \in 1 .. k + 1 : then.items[i] = acc.items[i]
  BY <1>2, <1>3
<1>5. 1 .. k + 2 = (1 .. k + 1) \cup {k + 2} /\ k + 2 \notin 1 .. k + 1 /\ (k + 1) + 1 = k + 2
  OBVIOUS
<1>6. conds \subseteq acc.graph /\ acc.graph \subseteq JoinGraph(q)
  BY DEF OnConds, LinksTo, Placed
<1>7. \A i \in 1 .. k + 2 :
          /\ then.items[i].name = q.from[i].name /\ then.items[i].alias = q.from[i].alias
          /\ then.items[i].how # "derived"
  BY <1>1, <1>4, <1>5 DEF Placed
<1>8. then.joined = {q.from[j].name : j \in 1 .. k + 2}
  BY <1>2, <1>5 DEF Placed
<1>9. ASSUME NEW c \in JoinGraph(q) \ then.graph
      PROVE  \E i \in 1 .. k + 2 : QualifyNode(q, c) \in then.items[i].on
  <2>1. CASE c \in conds
    BY <1>1, <1>4, <1>5, <2>1
  <2>2. CASE c \notin conds
    <3>1. c \in JoinGraph(q) \ acc.graph
      BY <1>2, <2>2
    <3>2. PICK i \in 1 .. k + 1 : QualifyNode(q, c) \in acc.items[i].on
      BY <3>1 DEF Placed
    <3>. QED  BY <1>4, <1>5, <3>2
  <2>. QED  BY <2>1, <2>2
<1>10. ASSUME NEW i \in 1 .. k + 2, NEW d \in then.items[i].on
       PROVE  \E c \in JoinGraph(q) :
                  d = QualifyNode(q, c) /\ Ends(q, c) \subseteq {q.from[j].name : j \in 1 .. i}
  <2>1. CASE i \in 1 .. k + 1
    BY <1>4, <2>1 DEF Placed
  <2>2. CASE i = k + 2
    <3>1. PICK c \in conds : d = QualifyNode(q, c)
      BY <1>1, <1>4, <2>2
    <3>2. \E t \in acc.joined : Ends(q, c) = {item.name, t}
      BY <3>1 DEF OnConds, LinksTo
    <3>3. acc.joined \subseteq then.joined /\ item.name \in then.joined
      BY <1>2
    <3>4. Ends(q, c) \subseteq then.joined
      BY <3>2, <3>3
    <3>. QED  BY <1>6, <1>8, <2>2, <3>1, <3>4
  <2>. QED  BY <1>5, <2>1, <2>2
<1>11. Placed(q, k + 1, then)
  BY <1>2, <1>4, <1>5, <1>6, <1>7, <1>8, <1>9, <1>10 DEF Placed
<1>. QED  BY <1>11 DEF then

LEMMA RebuildingPlaces ==
    ASSUME NEW q, q.from \in Seq(Item), q.from # <<>>, q.where \subseteq Conjunct,
           Base(q), \A i \in DOMAIN q.from : q.from[i].on = {}
    PROVE  LET acc == Rebuilding(q)[Len(q.from) - 1] IN
           acc \in Rebuilt(q) /\ Placed(q, Len(q.from) - 1, acc)
<1>. DEFINE h == Rebuilding(q)
            n == Len(q.from) - 1
            Good == {i \in 0 .. n : Placed(q, i, h[i])}
<1>1. /\ h \in [0 .. n -> Rebuilt(q)]
      /\ h[0] = Start(q)
      /\ \A i \in 1 .. n : h[i] = Rebuild(q, h[i - 1], q.from[i + 1])
  BY RebuildingRuns
<1>2. n \in Nat /\ \A i \in 0 .. n : q.from[i + 1] \in Item /\ i + 1 \in DOMAIN q.from
  OBVIOUS
<1>3. \A i \in 0 .. n : q.from[i + 1].how # "derived" /\ q.from[i + 1].on = {}
  BY <1>2 DEF Base
<1>. HIDE DEF h, n
<1>4. 0 \in Good
  <2>1. q.from[0 + 1].how # "derived" /\ q.from[0 + 1].on = {}
    BY <1>2, <1>3
  <2>2. Placed(q, 0, Start(q))
    <3>1. 1 .. 0 + 1 = {1} /\ 0 + 1 = 1
      OBVIOUS
    <3>. QED  BY <2>1, <3>1 DEF Placed, Start
  <2>. QED  BY <1>1, <1>2, <2>2
<1>5. ASSUME NEW i \in 1 .. n, i - 1 \in Good PROVE i \in Good
  <2>1. /\ i - 1 \in Nat /\ (i - 1) + 2 = i + 1 /\ (i - 1) + 1 = i /\ i \in 0 .. n
        /\ h[i - 1] \in Rebuilt(q) /\ Placed(q, i - 1, h[i - 1])
    BY <1>1, <1>2, <1>5
  <2>2. q.from[i + 1] \in Item /\ q.from[i + 1].how # "derived" /\ q.from[i + 1].on = {}
    BY <1>2, <1>3, <2>1
  <2>3. Placed(q, (i - 1) + 1, Rebuild(q, h[i - 1], q.from[i + 1]))
    BY <2>1, <2>2, RebuildPlaces
  <2>. QED  BY <1>1, <2>1, <2>3
<1>. HIDE DEF Good
<1>6. 0 .. n \subseteq Good
  BY <1>2, <1>4, <1>5, LoopKeeps, Zenon
<1>7. n \in Good
  BY <1>2, <1>6
<1>. QED  BY <1>1, <1>2, <1>7 DEF Good, h, n

(* The normalized query has the conjuncts of the query, qualified, and no others. *)
LEMMA NormalizedKeeps ==
    ASSUME NEW q, q.from \in Seq(Item), q.where \subseteq Conjunct, Unaliased(q), SubqueriesApart(q),
           NEW acc \in Rebuilt(q), NEW k \in Nat, DOMAIN q.from = 1 .. k + 1, Placed(q, k, acc),
           Base(q), \A i \in DOMAIN q.from : q.from[i].on = {},
           NEW r, r.from = acc.items,
           r.where = {QualifyNode(q, c) : c \in acc.graph \cup (q.where \ JoinGraph(q))}
    PROVE  SameMeaning(q, r) /\ InScope(r)
<1>1. SameTables(q, r)
  BY DEF Placed, SameTables
<1>2. Sources(q) = Sources(r)
  BY <1>1 DEF Sources, SameTables
<1>3. acc.graph \subseteq JoinGraph(q) /\ JoinGraph(q) \subseteq q.where
  BY DEF Placed, JoinGraph
<1>4. Conjuncts(q) = q.where
  BY DEF Conjuncts
<1>5. Conjuncts(r) = {QualifyNode(q, c) : c \in q.where}
  <2>1. \A d \in Conjuncts(r) : \E c \in q.where : d = QualifyNode(q, c)
    <3>1. \A i \in DOMAIN r.from : \A d \in r.from[i].on : \E c \in q.where : d = QualifyNode(q, c)
      BY <1>1, <1>3 DEF Placed, SameTables
    <3>2. \A d \in r.where : \E c \in q.where : d = QualifyNode(q, c)
      BY <1>3
    <3>. QED  BY <3>1, <3>2 DEF Conjuncts
  <2>2. ASSUME NEW c \in q.where PROVE QualifyNode(q, c) \in Conjuncts(r)
    <3>1. CASE c \in JoinGraph(q) \ acc.graph
      <4>1. PICK i \in 1 .. k + 1 : QualifyNode(q, c) \in r.from[i].on
        BY <3>1 DEF Placed
      <4>. QED  BY <1>1, <4>1 DEF Conjuncts, SameTables
    <3>2. CASE c \notin JoinGraph(q) \ acc.graph
      BY <3>2 DEF Conjuncts
    <3>. QED  BY <3>1, <3>2
  <2>. QED  BY <2>1, <2>2
<1>6. \A c \in q.where : Meant(r, QualifyNode(q, c)) = Meant(q, c)
  BY <1>1, QualifiedMeansTheSame DEF SubqueriesApart
<1>7. {Meant(r, d) : d \in Conjuncts(r)} = {Meant(q, c) : c \in Conjuncts(q)}
  <2>. DEFINE m(c) == Meant(q, c)
              w(d) == Meant(r, d)
              t(c) == QualifyNode(q, c)
  <2>1. Conjuncts(r) = {t(c) : c \in q.where} /\ \A c \in q.where : w(t(c)) = m(c)
    BY <1>5, <1>6
  <2>. HIDE DEF m, w, t
  <2>2. {w(d) : d \in Conjuncts(r)} = {m(c) : c \in q.where}
    BY <2>1
  <2>. QED  BY <1>4, <2>2 DEF m, w
<1>8. SameMeaning(q, r)
  BY <1>2, <1>7 DEF SameMeaning
<1>9. ASSUME NEW i \in DOMAIN r.from, NEW d \in r.from[i].on, NEW column \in {d.left, d.right}
      PROVE  \E j \in Denotes(r, d, column) : j <= i
  <2>1. i \in 1 .. k + 1
    BY <1>1 DEF SameTables
  <2>2. PICK c \in JoinGraph(q) :
            d = QualifyNode(q, c) /\ Ends(q, c) \subseteq {q.from[j].name : j \in 1 .. i}
    BY <2>1 DEF Placed
  <2>3. /\ IsEquality(c) /\ c \in Conjunct
        /\ c.left.table = NoTable /\ TableOf(q, c.left) # NoTable
        /\ c.right.table = NoTable /\ TableOf(q, c.right) # NoTable
    BY <2>2 DEF JoinGraph, Links
  <2>4. c.left \in Column /\ c.right \in Column
    BY <2>3 DEF IsEquality, Conjunct
  <2>5. d = [left |-> Qualify(q, c.left), right |-> Qualify(q, c.right)]
    BY <2>2, <2>3 DEF QualifyNode
  <2>6. ~Nested(d) /\ Denotes(r, d, column) = Items(r, column)
    BY <2>5 DEF Nested, Denotes, Items
  <2>7. PICK own \in {c.left, c.right} : column = Qualify(q, own)
    BY <2>5
  <2>8. own \in Column /\ own.table = NoTable /\ TableOf(q, own) # NoTable /\ TableOf(q, own) \in Ends(q, c)
    BY <2>3, <2>4 DEF Ends
  <2>9. Items(r, column) = {j \in DOMAIN q.from : q.from[j].name = TableOf(q, own)}
    BY <1>1, <2>7, <2>8, QualifiedIsOfTheSame
  <2>10. PICK j \in 1 .. i : q.from[j].name = TableOf(q, own)
    BY <2>2, <2>8
  <2>11. j \in Items(r, column) /\ j <= i
    BY <2>1, <2>9, <2>10
  <2>. QED  BY <2>6, <2>11
<1>. QED  BY <1>8, <1>9 DEF InScope

(* sql.py:332-372: however many tables a query joins by comma, and whatever its
   conjuncts, the normalized query joins the same tables and has the same
   conjuncts, each over columns of the same tables, and an ON names what is joined
   by then, as long as no table has an alias and no subquery a column that an
   outer table has. *)
THEOREM NormalizationKeepsThePredicates == Spec => []NormalizeKeepsThePredicates
<1>1. ASSUME NEW q, q.from \in Seq(Item), q.from # <<>>, q.where \subseteq Conjunct,
             Base(q), Unaliased(q), SubqueriesApart(q), \A i \in DOMAIN q.from : q.from[i].on = {}
      PROVE  SameMeaning(q, NormalizeImplicitJoins(q)) /\ InScope(NormalizeImplicitJoins(q))
  <2>1. CASE Untouched(q)
    BY <1>1, <2>1 DEF NormalizeImplicitJoins, SameMeaning, InScope
  <2>2. CASE ~Untouched(q)
    <3>. DEFINE k == Len(q.from) - 1
                acc == Rebuilding(q)[k]
                r == NormalizeImplicitJoins(q)
    <3>1. k \in Nat /\ DOMAIN q.from = 1 .. k + 1
      BY <1>1
    <3>2. acc \in Rebuilt(q) /\ Placed(q, k, acc)
      BY <1>1, RebuildingPlaces
    <3>3. /\ r.from = acc.items
          /\ r.where = {QualifyNode(q, c) : c \in acc.graph \cup (q.where \ JoinGraph(q))}
      BY <2>2 DEF NormalizeImplicitJoins
    <3>. HIDE DEF k, acc, r
    <3>4. SameMeaning(q, r) /\ InScope(r)
      BY <1>1, <3>1, <3>2, <3>3, NormalizedKeeps
    <3>. QED  BY <3>4 DEF r
  <2>. QED  BY <2>1, <2>2
<1>2. ASSUME Computed, Done("normalize"), CommaJoined(input.q), Unaliased(input.q),
             SubqueriesApart(input.q)
      PROVE  SameMeaning(input.q, result) /\ InScope(result)
  <2>1. input \in JoinCalls /\ result = NormalizeImplicitJoins(input.q)
    BY <1>2, CallsAreTold DEF Computed, Done
  <2>2. /\ input.q.from \in Seq(Item) /\ input.q.from # <<>> /\ input.q.where \subseteq Conjunct
        /\ \A i \in DOMAIN input.q.from : input.q.from[i].on = {}
        /\ Base(input.q)
    BY <1>2, <2>1, JoinAssumption DEF CommaJoined, Base
  <2>. QED  BY <1>1, <1>2, <2>1, <2>2
<1>3. Computed => NormalizeKeepsThePredicates
  BY <1>2 DEF NormalizeKeepsThePredicates
<1>. QED  BY <1>3, ComputedHolds, PTL

-----------------------------------------------------------------------------
(* Dictionaries that can be reversed, and no target of which is a key *)
Distinct(pairs) ==
    \A i, j \in DOMAIN pairs : i # j => pairs[i].from # pairs[j].from /\ pairs[i].to # pairs[j].to
Apart(pairs) == Keys(pairs) \cap Targets(pairs) = {}

LEMMA GetIs ==
    ASSUME NEW pairs, Distinct(pairs), NEW k \in DOMAIN pairs
    PROVE  Get(pairs, pairs[k].from) = pairs[k].to
<1>. DEFINE j == CHOOSE i \in DOMAIN pairs : pairs[i].from = pairs[k].from
<1>1. j \in DOMAIN pairs /\ pairs[j].from = pairs[k].from
  OBVIOUS
<1>2. j = k
  BY <1>1 DEF Distinct
<1>3. Get(pairs, pairs[k].from) = pairs[j].to
  BY DEF Get
<1>. QED  BY <1>2, <1>3, Zenon

LEMMA GetIsTarget ==
    ASSUME NEW pairs, Distinct(pairs), NEW key \in Keys(pairs)
    PROVE  Get(pairs, key) \in Targets(pairs)
<1>1. PICK k \in DOMAIN pairs : pairs[k].from = key
  BY DEF Keys
<1>. QED  BY <1>1, GetIs DEF Targets

LEMMA SwappedIs ==
    ASSUME NEW pairs, Distinct(pairs)
    PROVE  /\ Distinct(Swapped(pairs))
           /\ Keys(Swapped(pairs)) = Targets(pairs) /\ Targets(Swapped(pairs)) = Keys(pairs)
           /\ \A key \in Keys(pairs) : Get(Swapped(pairs), Get(pairs, key)) = key
<1>1. Distinct(Swapped(pairs))
  BY DEF Distinct, Swapped
<1>2. Keys(Swapped(pairs)) = Targets(pairs) /\ Targets(Swapped(pairs)) = Keys(pairs)
  BY DEF Swapped, Keys, Targets
<1>3. ASSUME NEW key \in Keys(pairs) PROVE Get(Swapped(pairs), Get(pairs, key)) = key
  <2>1. PICK k \in DOMAIN pairs : pairs[k].from = key
    BY DEF Keys
  <2>2. Get(pairs, key) = pairs[k].to
    BY <2>1, GetIs
  <2>3. k \in DOMAIN Swapped(pairs) /\ Swapped(pairs)[k].from = pairs[k].to
        /\ Swapped(pairs)[k].to = pairs[k].from
    BY DEF Swapped
  <2>. HIDE DEF Swapped
  <2>4. Get(Swapped(pairs), Swapped(pairs)[k].from) = Swapped(pairs)[k].to
    BY <1>1, <2>3, GetIs
  <2>. QED  BY <2>1, <2>2, <2>3, <2>4
<1>. QED  BY <1>1, <1>2, <1>3

(* Key after key, a text has its words replaced as in one pass: nothing is *)
(* replaced twice.                                                         *)
Replaced(pairs, w) == IF w \in Keys(pairs) THEN Get(pairs, w) ELSE w
PassToken(t, pairs) ==
    [quoted |-> t.quoted, words |-> [y \in DOMAIN t.words |-> Replaced(pairs, t.words[y])]]
OnePass(text, pairs) == [x \in DOMAIN text |-> PassToken(text[x], pairs)]

LEMMA SubWordTyped ==
    ASSUME NEW text \in Text, NEW p \in WordPair
    PROVE  /\ SubWord(text, p) \in Text
           /\ SubWord(text, p) =
                [x \in DOMAIN text |->
                    [quoted |-> text[x].quoted,
                     words |-> [y \in DOMAIN text[x].words |->
                                   IF text[x].words[y] = p.from THEN p.to ELSE text[x].words[y]]]]
<1>1. ASSUME NEW x \in DOMAIN text
      PROVE  /\ text[x].quoted \in BOOLEAN /\ text[x].words \in Seq(Word)
             /\ ~text[x].quoted => Len(text[x].words) = 1
             /\ SubWord(text, p)[x] =
                   [quoted |-> text[x].quoted,
                    words |-> [y \in DOMAIN text[x].words |->
                                  IF text[x].words[y] = p.from THEN p.to ELSE text[x].words[y]]]
  <2>1. text[x] \in Token
    BY DEF Text
  <2>. QED  BY <2>1 DEF Token, SubWord
<1>2. ASSUME NEW ws \in Seq(Word)
      PROVE  LET us == [y \in DOMAIN ws |-> IF ws[y] = p.from THEN p.to ELSE ws[y]]
             IN us \in Seq(Word) /\ Len(us) = Len(ws)
  <2>1. p.to \in Word
    BY DEF WordPair
  <2>. QED  BY <2>1
<1>3. ASSUME NEW x \in DOMAIN text PROVE SubWord(text, p)[x] \in Token
  <2>. DEFINE ws == text[x].words
              us == [y \in DOMAIN ws |-> IF ws[y] = p.from THEN p.to ELSE ws[y]]
  <2>1. us \in Seq(Word) /\ Len(us) = Len(ws)
    BY <1>1, <1>2
  <2>2. SubWord(text, p)[x] = [quoted |-> text[x].quoted, words |-> us]
    BY <1>1
  <2>. HIDE DEF us
  <2>. DEFINE r == [quoted |-> text[x].quoted, words |-> us]
  <2>3. r \in [quoted : BOOLEAN, words : Seq(Word)] /\ r.quoted = text[x].quoted /\ Len(r.words) = Len(ws)
    BY <1>1, <2>1
  <2>. HIDE DEF r
  <2>4. ~r.quoted => Len(r.words) = 1
    BY <1>1, <2>3, Zenon
  <2>5. r \in Token
    BY <2>3, <2>4, Zenon DEF Token
  <2>. QED  BY <2>2, <2>5 DEF r
<1>4. DOMAIN SubWord(text, p) = DOMAIN text /\ DOMAIN text = 1 .. Len(text) /\ Len(text) \in Nat
  BY DEF SubWord, Text
<1>5. SubWord(text, p) = [x \in DOMAIN text |-> SubWord(text, p)[x]]
  BY DEF SubWord
<1>6. SubWord(text, p) \in Seq(Token)
  BY <1>3, <1>4, <1>5
<1>. QED  BY <1>1, <1>5, <1>6, Zenon DEF Text

LEMMA SubbingWordsRuns ==
    ASSUME NEW text \in Text, NEW pairs \in Seq(WordPair)
    PROVE  LET h == SubbingWords(text, pairs)
               n == Len(pairs) IN
           /\ h \in [0 .. n -> Text]
           /\ h[0] = text
           /\ \A i \in 1 .. n : h[i] = SubWord(h[i - 1], pairs[i])
<1>. DEFINE n == Len(pairs)
            step == [i \in 1 .. n |-> [t \in Text |-> SubWord(t, pairs[i])]]
            h == SubbingWords(text, pairs)
<1>1. n \in Nat /\ \A i \in 1 .. n : pairs[i] \in WordPair
  OBVIOUS
<1>. HIDE DEF n
<1>2. step \in [1 .. n -> [Text -> Text]]
  BY <1>1, SubWordTyped
<1>3. PICK f \in LoopOf(n, text, step, Text) : TRUE
  <2>. HIDE DEF step
  <2>. QED  BY <1>1, <1>2, LoopRuns
<1>4. f \in [0 .. n -> Text] /\ f[0] = text /\ \A i \in 1 .. n : f[i] = step[i][f[i - 1]]
  BY <1>3 DEF LoopOf
<1>5. f = [i \in 0 .. n |-> IF i = 0 THEN text ELSE SubWord(f[i - 1], pairs[i])]
  <2>. SUFFICES ASSUME NEW i \in 1 .. n PROVE f[i] = SubWord(f[i - 1], pairs[i])
    BY <1>1, <1>4
  <2>1. f[i - 1] \in Text
    <3>. HIDE DEF step
    <3>. QED  BY <1>1, <1>4
  <2>. QED  BY <1>4, <2>1
<1>6. h = CHOOSE g : g = [i \in 0 .. n |-> IF i = 0 THEN text ELSE SubWord(g[i - 1], pairs[i])]
  BY DEF SubbingWords, n
<1>. HIDE DEF h
<1>7. h = [i \in 0 .. n |-> IF i = 0 THEN text ELSE SubWord(h[i - 1], pairs[i])]
  BY <1>5, <1>6, Zenon
<1>8. h[0] = text /\ \A i \in 1 .. n : h[i] = SubWord(h[i - 1], pairs[i])
  BY <1>1, <1>7
<1>9. 0 .. n \subseteq {i \in 0 .. n : h[i] \in Text}
  <2>. DEFINE Typed == {i \in 0 .. n : h[i] \in Text}
  <2>1. 0 \in Typed
    BY <1>1, <1>8
  <2>2. ASSUME NEW i \in 1 .. n, i - 1 \in Typed PROVE i \in Typed
    <3>1. h[i - 1] \in Text /\ pairs[i] \in WordPair /\ h[i] = SubWord(h[i - 1], pairs[i])
      BY <1>1, <1>8, <2>2
    <3>2. h[i] \in Text
      BY <3>1, SubWordTyped
    <3>. QED  BY <1>1, <3>2
  <2>. HIDE DEF Typed
  <2>3. 0 .. n \subseteq Typed
    BY <1>1, <2>1, <2>2, LoopKeeps, Zenon
  <2>. QED  BY <2>3 DEF Typed
<1>10. h \in [0 .. n -> Text]
  BY <1>7, <1>9
<1>. QED  BY <1>8, <1>10 DEF h, n

(* Key after key, up to the i-th *)
Upto(pairs, i, w) == IF \E k \in 1 .. i : pairs[k].from = w THEN Get(pairs, w) ELSE w
LEMMA UptoTheNext ==
    ASSUME NEW pairs, NEW n \in Nat, DOMAIN pairs = 1 .. n, Distinct(pairs), Apart(pairs),
           NEW i \in 1 .. n, NEW w
    PROVE  Upto(pairs, i, w) = IF Upto(pairs, i - 1, w) = pairs[i].from THEN pairs[i].to
                               ELSE Upto(pairs, i - 1, w)
<1>1. i - 1 \in Nat /\ 1 .. i = (1 .. i - 1) \cup {i} /\ i \notin 1 .. i - 1 /\ 1 .. i \subseteq 1 .. n
  OBVIOUS
<1>2. CASE pairs[i].from = w
  <2>1. \A k \in 1 .. i - 1 : pairs[k].from # w
    BY <1>1, <1>2 DEF Distinct
  <2>2. Upto(pairs, i - 1, w) = w
    BY <2>1 DEF Upto
  <2>3. Upto(pairs, i, w) = Get(pairs, w)
    BY <1>2, <1>1 DEF Upto
  <2>4. Get(pairs, w) = pairs[i].to
    BY <1>2, GetIs
  <2>. QED  BY <1>2, <2>2, <2>3, <2>4
<1>3. CASE pairs[i].from # w
  <2>1. Upto(pairs, i, w) = Upto(pairs, i - 1, w)
    BY <1>1, <1>3 DEF Upto
  <2>2. Upto(pairs, i - 1, w) # pairs[i].from
    <3>1. CASE \E k \in 1 .. i - 1 : pairs[k].from = w
      <4>1. PICK k \in 1 .. i - 1 : pairs[k].from = w
        BY <3>1
      <4>2. k \in 1 .. n /\ Get(pairs, w) = pairs[k].to
        BY <1>1, <4>1, GetIs
      <4>3. pairs[k].to # pairs[i].from
        BY <4>2 DEF Apart, Keys, Targets
      <4>. QED  BY <3>1, <4>2, <4>3 DEF Upto
    <3>2. CASE ~\E k \in 1 .. i - 1 : pairs[k].from = w
      BY <1>3, <3>2 DEF Upto
    <3>. QED  BY <3>1, <3>2
  <2>. QED  BY <2>1, <2>2
<1>. QED  BY <1>2, <1>3

LEMMA UptoTheEnd ==
    ASSUME NEW pairs, NEW n \in Nat, DOMAIN pairs = 1 .. n, NEW w
    PROVE  Upto(pairs, 0, w) = w /\ Upto(pairs, n, w) = Replaced(pairs, w)
<1>1. 1 .. 0 = {}
  OBVIOUS
<1>. QED  BY <1>1 DEF Upto, Replaced, Keys

LEMMA SubWordsIs ==
    ASSUME NEW text \in Text, NEW pairs \in Seq(WordPair), Distinct(pairs), Apart(pairs)
    PROVE  SubWords(text, pairs) = OnePass(text, pairs) /\ SubWords(text, pairs) \in Text
<1>. DEFINE h == SubbingWords(text, pairs)
            n == Len(pairs)
            row(i, x) == [quoted |-> text[x].quoted,
                          words |-> [y \in DOMAIN text[x].words |-> Upto(pairs, i, text[x].words[y])]]
            Good == {i \in 0 .. n : h[i] = [x \in DOMAIN text |-> row(i, x)]}
<1>1. /\ h \in [0 .. n -> Text]
      /\ h[0] = text
      /\ \A i \in 1 .. n : h[i] = SubWord(h[i - 1], pairs[i])
  BY SubbingWordsRuns
<1>2. n \in Nat /\ DOMAIN pairs = 1 .. n /\ \A i \in 1 .. n : pairs[i] \in WordPair
  OBVIOUS
<1>3. SubWords(text, pairs) = h[n]
  BY DEF SubWords
<1>. HIDE DEF h, n
<1>4. 0 \in Good
  <2>1. ASSUME NEW x \in DOMAIN text PROVE text[x] = row(0, x)
    <3>1. text[x] \in [quoted : BOOLEAN, words : Seq(Word)]
      BY DEF Text, Token
    <3>2. \A y \in DOMAIN text[x].words : Upto(pairs, 0, text[x].words[y]) = text[x].words[y]
      BY <1>2, UptoTheEnd
    <3>. QED  BY <3>1, <3>2
  <2>2. text = [x \in DOMAIN text |-> text[x]]
    BY DEF Text
  <2>. QED  BY <1>1, <1>2, <2>1, <2>2
<1>5. ASSUME NEW i \in 1 .. n, i - 1 \in Good PROVE i \in Good
  <2>1. /\ h[i - 1] \in Text /\ h[i - 1] = [x \in DOMAIN text |-> row(i - 1, x)]
        /\ h[i] = SubWord(h[i - 1], pairs[i]) /\ pairs[i] \in WordPair /\ i \in 0 .. n
    BY <1>1, <1>2, <1>5
  <2>. DEFINE g == h[i - 1]
  <2>2. h[i] = [x \in DOMAIN g |->
                    [quoted |-> g[x].quoted,
                     words |-> [y \in DOMAIN g[x].words |->
                                   IF g[x].words[y] = pairs[i].from THEN pairs[i].to ELSE g[x].words[y]]]]
    BY <2>1, SubWordTyped
  <2>3. DOMAIN g = DOMAIN text /\ \A x \in DOMAIN text :
            /\ g[x].quoted = text[x].quoted
            /\ g[x].words = [y \in DOMAIN text[x].words |-> Upto(pairs, i - 1, text[x].words[y])]
    BY <2>1
  <2>. HIDE DEF g
  <2>4. ASSUME NEW x \in DOMAIN text
        PROVE  [y \in DOMAIN g[x].words |->
                    IF g[x].words[y] = pairs[i].from THEN pairs[i].to ELSE g[x].words[y]]
                 = [y \in DOMAIN text[x].words |-> Upto(pairs, i, text[x].words[y])]
    <3>1. \A w : Upto(pairs, i, w) = IF Upto(pairs, i - 1, w) = pairs[i].from THEN pairs[i].to
                                     ELSE Upto(pairs, i - 1, w)
      BY <1>2, UptoTheNext
    <3>. QED  BY <2>3, <3>1
  <2>5. h[i] = [x \in DOMAIN text |-> row(i, x)]
    BY <2>2, <2>3, <2>4
  <2>. QED  BY <2>1, <2>5
<1>. HIDE DEF Good
<1>6. 0 .. n \subseteq Good
  BY <1>2, <1>4, <1>5, LoopKeeps, Zenon
<1>7. h[n] = [x \in DOMAIN text |-> row(n, x)] /\ h[n] \in Text
  BY <1>1, <1>2, <1>6 DEF Good
<1>8. [x \in DOMAIN text |-> row(n, x)] = OnePass(text, pairs)
  <2>1. \A w : Upto(pairs, n, w) = Replaced(pairs, w)
    BY <1>2, UptoTheEnd
  <2>. QED  BY <2>1 DEF OnePass, PassToken
<1>. QED  BY <1>3, <1>7, <1>8

(* The same of the strings *)
LEMMA QuotedIs ==
    ASSUME NEW ws \in Seq(Word)
    PROVE  Quoted(ws) \in Token /\ Quoted(ws).quoted /\ Quoted(ws).words = ws
BY DEF Quoted, Token

LEMMA TokenIsQuoted ==
    ASSUME NEW t \in Token, t.quoted PROVE t = Quoted(t.words) /\ t.words \in Seq(Word)
<1>1. t \in [quoted : BOOLEAN, words : Seq(Word)] /\ t.quoted = TRUE
  BY DEF Token
<1>. QED  BY <1>1 DEF Quoted

LEMMA SubStringTyped ==
    ASSUME NEW text \in Text, NEW p \in StringPair
    PROVE  SubString(text, p) \in Text
<1>1. ASSUME NEW x \in DOMAIN text PROVE SubString(text, p)[x] \in Token
  <2>1. text[x] \in Token
    BY DEF Text
  <2>2. Quoted(p.to) \in Token
    BY QuotedIs DEF StringPair
  <2>. QED  BY <2>1, <2>2 DEF SubString
<1>2. DOMAIN SubString(text, p) = DOMAIN text /\ DOMAIN text = 1 .. Len(text) /\ Len(text) \in Nat
  BY DEF SubString, Text
<1>3. SubString(text, p) = [x \in DOMAIN text |-> SubString(text, p)[x]]
  BY DEF SubString
<1>4. SubString(text, p) \in Seq(Token)
  BY <1>1, <1>2, <1>3
<1>. QED  BY <1>4 DEF Text

LEMMA SubbingStringsRuns ==
    ASSUME NEW text \in Text, NEW pairs \in Seq(StringPair)
    PROVE  LET h == SubbingStrings(text, pairs)
               n == Len(pairs) IN
           /\ h \in [0 .. n -> Text]
           /\ h[0] = text
           /\ \A i \in 1 .. n : h[i] = SubString(h[i - 1], pairs[i])
<1>. DEFINE n == Len(pairs)
            step == [i \in 1 .. n |-> [t \in Text |-> SubString(t, pairs[i])]]
            h == SubbingStrings(text, pairs)
<1>1. n \in Nat /\ \A i \in 1 .. n : pairs[i] \in StringPair
  OBVIOUS
<1>. HIDE DEF n
<1>2. step \in [1 .. n -> [Text -> Text]]
  BY <1>1, SubStringTyped
<1>3. PICK f \in LoopOf(n, text, step, Text) : TRUE
  <2>. HIDE DEF step
  <2>. QED  BY <1>1, <1>2, LoopRuns
<1>4. f \in [0 .. n -> Text] /\ f[0] = text /\ \A i \in 1 .. n : f[i] = step[i][f[i - 1]]
  BY <1>3 DEF LoopOf
<1>5. f = [i \in 0 .. n |-> IF i = 0 THEN text ELSE SubString(f[i - 1], pairs[i])]
  <2>. SUFFICES ASSUME NEW i \in 1 .. n PROVE f[i] = SubString(f[i - 1], pairs[i])
    BY <1>1, <1>4
  <2>1. f[i - 1] \in Text
    <3>. HIDE DEF step
    <3>. QED  BY <1>1, <1>4
  <2>. QED  BY <1>4, <2>1
<1>6. h = CHOOSE g : g = [i \in 0 .. n |-> IF i = 0 THEN text ELSE SubString(g[i - 1], pairs[i])]
  BY DEF SubbingStrings, n
<1>. HIDE DEF h
<1>7. h = [i \in 0 .. n |-> IF i = 0 THEN text ELSE SubString(h[i - 1], pairs[i])]
  BY <1>5, <1>6, Zenon
<1>8. h[0] = text /\ \A i \in 1 .. n : h[i] = SubString(h[i - 1], pairs[i])
  BY <1>1, <1>7
<1>9. 0 .. n \subseteq {i \in 0 .. n : h[i] \in Text}
  <2>. DEFINE Typed == {i \in 0 .. n : h[i] \in Text}
  <2>1. 0 \in Typed
    BY <1>1, <1>8
  <2>2. ASSUME NEW i \in 1 .. n, i - 1 \in Typed PROVE i \in Typed
    <3>1. h[i - 1] \in Text /\ pairs[i] \in StringPair /\ h[i] = SubString(h[i - 1], pairs[i])
      BY <1>1, <1>8, <2>2
    <3>2. h[i] \in Text
      BY <3>1, SubStringTyped
    <3>. QED  BY <1>1, <3>2
  <2>. HIDE DEF Typed
  <2>3. 0 .. n \subseteq Typed
    BY <1>1, <2>1, <2>2, LoopKeeps, Zenon
  <2>. QED  BY <2>3 DEF Typed
<1>10. h \in [0 .. n -> Text]
  BY <1>7, <1>9
<1>. QED  BY <1>8, <1>10 DEF h, n

PassString(t, pairs) == IF t.quoted THEN Quoted(Replaced(pairs, t.words)) ELSE t
OneStringPass(text, pairs) == [x \in DOMAIN text |-> PassString(text[x], pairs)]

LEMMA SubStringsIs ==
    ASSUME NEW text \in Text, NEW pairs \in Seq(StringPair), Distinct(pairs), Apart(pairs)
    PROVE  SubStrings(text, pairs) = OneStringPass(text, pairs) /\ SubStrings(text, pairs) \in Text
<1>. DEFINE h == SubbingStrings(text, pairs)
            n == Len(pairs)
            row(i, x) == IF text[x].quoted THEN Quoted(Upto(pairs, i, text[x].words)) ELSE text[x]
            Good == {i \in 0 .. n : h[i] = [x \in DOMAIN text |-> row(i, x)]}
<1>1. /\ h \in [0 .. n -> Text]
      /\ h[0] = text
      /\ \A i \in 1 .. n : h[i] = SubString(h[i - 1], pairs[i])
  BY SubbingStringsRuns
<1>2. n \in Nat /\ DOMAIN pairs = 1 .. n /\ \A i \in 1 .. n : pairs[i] \in StringPair
  OBVIOUS
<1>3. SubStrings(text, pairs) = h[n]
  BY DEF SubStrings
<1>. HIDE DEF h, n
<1>4. 0 \in Good
  <2>1. ASSUME NEW x \in DOMAIN text PROVE text[x] = row(0, x)
    <3>1. text[x] \in Token
      BY DEF Text
    <3>2. Upto(pairs, 0, text[x].words) = text[x].words
      BY <1>2, UptoTheEnd
    <3>. QED  BY <3>1, <3>2, TokenIsQuoted
  <2>2. text = [x \in DOMAIN text |-> text[x]]
    BY DEF Text
  <2>. QED  BY <1>1, <1>2, <2>1, <2>2
<1>5. ASSUME NEW i \in 1 .. n, i - 1 \in Good PROVE i \in Good
  <2>1. /\ h[i - 1] \in Text /\ h[i - 1] = [x \in DOMAIN text |-> row(i - 1, x)]
        /\ h[i] = SubString(h[i - 1], pairs[i]) /\ i \in 0 .. n
    BY <1>1, <1>2, <1>5
  <2>. DEFINE g == h[i - 1]
  <2>2. DOMAIN g = DOMAIN text /\ \A x \in DOMAIN text : g[x] = row(i - 1, x)
    BY <2>1
  <2>3. h[i] = [x \in DOMAIN g |-> IF g[x].quoted /\ g[x].words = pairs[i].from
                                   THEN Quoted(pairs[i].to) ELSE g[x]]
    BY <2>1 DEF SubString
  <2>. HIDE DEF g
  <2>4. ASSUME NEW x \in DOMAIN text
        PROVE  (IF g[x].quoted /\ g[x].words = pairs[i].from THEN Quoted(pairs[i].to) ELSE g[x])
                 = row(i, x)
    <3>1. CASE text[x].quoted
      <4>. DEFINE u == Upto(pairs, i - 1, text[x].words)
      <4>1. g[x] = Quoted(u)
        BY <2>2, <3>1
      <4>2. Quoted(u).quoted = TRUE /\ Quoted(u).words = u
        BY DEF Quoted
      <4>3. Upto(pairs, i, text[x].words) = IF u = pairs[i].from THEN pairs[i].to ELSE u
        BY <1>2, UptoTheNext
      <4>. HIDE DEF u
      <4>. QED  BY <3>1, <4>1, <4>2, <4>3, Zenon
    <3>2. CASE ~text[x].quoted
      <4>1. g[x] = text[x]
        BY <2>2, <3>2
      <4>. QED  BY <3>2, <4>1, Zenon
    <3>. QED  BY <3>1, <3>2
  <2>5. h[i] = [x \in DOMAIN text |-> row(i, x)]
    <3>. HIDE DEF row
    <3>. QED  BY <2>2, <2>3, <2>4, Zenon
  <2>. QED  BY <2>1, <2>5
<1>. HIDE DEF Good
<1>6. 0 .. n \subseteq Good
  BY <1>2, <1>4, <1>5, LoopKeeps, Zenon
<1>7. h[n] = [x \in DOMAIN text |-> row(n, x)] /\ h[n] \in Text
  BY <1>1, <1>2, <1>6 DEF Good
<1>8. [x \in DOMAIN text |-> row(n, x)] = OneStringPass(text, pairs)
  <2>1. \A w : Upto(pairs, n, w) = Replaced(pairs, w)
    BY <1>2, UptoTheEnd
  <2>. QED  BY <2>1 DEF OneStringPass, PassString
<1>. QED  BY <1>3, <1>7, <1>8

-----------------------------------------------------------------------------
(* The map: which entries it may have, and that each call keeps it so. *)
NameEntry == [from : Real, to : [form : {"tbl", "col"}, n : Nat]]
Ids == {p \in Seq(NameEntry) : Distinct(p) /\ \A i \in DOMAIN p : p[i].to.n <= Len(p)}
CountedIds == {p \in Ids : \A i \in DOMAIN p : p[i].to.n <= CountOf(p, p[i].to.form)}
Strs == {p \in Seq([from : Seq(Original), to : Seq(Placeholder)]) :
             Distinct(p) /\ \A i \in DOMAIN p : p[i].to = <<P("lit", i)>>}
Nums == {p \in Seq([from : Numeral, to : Placeholder]) :
             Distinct(p) /\ \A i \in DOMAIN p : p[i].to = P("sentinel", i)}
GoodMap == [ids : Ids, strs : Strs, nums : Nums]
Collected == [ids : CountedIds, strs : Strs, nums : Nums]

LEMMA AppendIs ==
    ASSUME NEW S, NEW p \in Seq(S), Distinct(p),
           NEW x \in S, x.from \notin Keys(p), x.to \notin Targets(p)
    PROVE  LET q == Append(p, x) IN
           /\ q \in Seq(S) /\ Len(q) = Len(p) + 1 /\ Len(p) \in Nat
           /\ DOMAIN q = DOMAIN p \cup {Len(p) + 1} /\ Len(p) + 1 \notin DOMAIN p
           /\ DOMAIN p = 1 .. Len(p)
           /\ q[Len(p) + 1] = x /\ \A i \in DOMAIN p : q[i] = p[i]
           /\ Distinct(q)
           /\ Keys(q) = Keys(p) \cup {x.from} /\ Targets(q) = Targets(p) \cup {x.to}
<1>. DEFINE q == Append(p, x)
            k == Len(p) + 1
<1>1. /\ q \in Seq(S) /\ Len(q) = Len(p) + 1 /\ Len(p) \in Nat
      /\ DOMAIN q = DOMAIN p \cup {k} /\ k \notin DOMAIN p
      /\ DOMAIN p = 1 .. Len(p)
      /\ q[k] = x /\ \A i \in DOMAIN p : q[i] = p[i]
  OBVIOUS
<1>. HIDE DEF q, k
<1>2. Keys(q) = Keys(p) \cup {x.from} /\ Targets(q) = Targets(p) \cup {x.to}
  BY <1>1 DEF Keys, Targets
<1>3. ASSUME NEW i \in DOMAIN q, NEW j \in DOMAIN q, i # j
      PROVE  q[i].from # q[j].from /\ q[i].to # q[j].to
  <2>1. CASE i \in DOMAIN p /\ j \in DOMAIN p
    BY <1>1, <1>3, <2>1 DEF Distinct
  <2>2. CASE i = k \/ j = k
    BY <1>1, <1>3, <2>2 DEF Keys, Targets
  <2>. QED  BY <1>1, <2>1, <2>2
<1>4. Distinct(q)
  BY <1>3 DEF Distinct
<1>. QED  BY <1>1, <1>2, <1>4 DEF q, k

LEMMA CountIs ==
    ASSUME NEW S, NEW p \in Seq(S), NEW f
    PROVE  CountOf(p, f) \in Nat /\ CountOf(p, f) <= Len(p)
<1>. DEFINE chosen == {i \in DOMAIN p : p[i].to.form = f}
<1>1. Len(p) \in Nat /\ chosen \subseteq 1 .. Len(p)
  OBVIOUS
<1>. HIDE DEF chosen
<1>2. IsFiniteSet(1 .. Len(p)) /\ Cardinality(1 .. Len(p)) = Len(p)
  BY <1>1, FS_Interval
<1>3. IsFiniteSet(chosen) /\ Cardinality(chosen) \in Nat /\ Cardinality(chosen) <= Len(p)
  BY <1>1, <1>2, FS_Subset, FS_CardinalityType
<1>. QED  BY <1>3 DEF CountOf, chosen

LEMMA CountGrows ==
    ASSUME NEW S, NEW p \in Seq(S), NEW x \in S, NEW f
    PROVE  LET q == Append(p, x) IN
           /\ CountOf(p, f) <= CountOf(q, f)
           /\ x.to.form = f => CountOf(q, f) = CountOf(p, f) + 1
<1>. DEFINE q == Append(p, x)
            k == Len(p) + 1
            before == {i \in DOMAIN p : p[i].to.form = f}
            after == {i \in DOMAIN q : q[i].to.form = f}
<1>1. /\ Len(p) \in Nat /\ DOMAIN q = DOMAIN p \cup {k} /\ k \notin DOMAIN p
      /\ q[k] = x /\ (\A i \in DOMAIN p : q[i] = p[i]) /\ DOMAIN p = 1 .. Len(p)
  OBVIOUS
<1>. HIDE DEF q
<1>2. IsFiniteSet(before) /\ Cardinality(before) \in Nat
  <2>1. IsFiniteSet(1 .. Len(p)) /\ before \subseteq 1 .. Len(p)
    BY <1>1, FS_Interval
  <2>. QED  BY <2>1, FS_Subset, FS_CardinalityType
<1>3. CountOf(p, f) = Cardinality(before) /\ CountOf(q, f) = Cardinality(after)
  BY DEF CountOf
<1>4. x.to.form = f => after = before \cup {k} /\ k \notin before
  BY <1>1
<1>5. x.to.form # f => after = before
  BY <1>1
<1>. HIDE DEF after, before, k
<1>6. x.to.form = f => Cardinality(after) = Cardinality(before) + 1
  BY <1>2, <1>4, FS_AddElement
<1>7. CountOf(p, f) <= CountOf(q, f) /\ (x.to.form = f => CountOf(q, f) = CountOf(p, f) + 1)
  <2>1. CASE x.to.form = f
    BY <1>2, <1>3, <1>6, <2>1
  <2>2. CASE x.to.form # f
    BY <1>2, <1>3, <1>5, <2>2
  <2>. QED  BY <2>1, <2>2
<1>. QED  BY <1>7 DEF q

LEMMA AddIdKeeps ==
    ASSUME NEW tables, NEW p \in CountedIds, NEW w \in Real
    PROVE  LET q == AddId(tables, p, w) IN
           q \in CountedIds /\ Keys(q) = Keys(p) \cup {w}
<1>1. CASE w \in Keys(p)
  BY <1>1 DEF AddId
<1>2. CASE w \notin Keys(p)
  <2>. DEFINE f == IF w \in tables THEN "tbl" ELSE "col"
              x == [from |-> w, to |-> P(f, CountOf(p, f) + 1)]
              q == Append(p, x)
  <2>1. p \in Seq(NameEntry) /\ Distinct(p) /\ f \in {"tbl", "col"}
    BY DEF CountedIds, Ids
  <2>. HIDE DEF f
  <2>2. CountOf(p, f) \in Nat /\ CountOf(p, f) <= Len(p)
    BY <2>1, CountIs
  <2>3. x \in NameEntry /\ x.from = w /\ x.to.form = f /\ x.to.n = CountOf(p, f) + 1
    BY <2>1, <2>2 DEF NameEntry, P
  <2>4. x.to \notin Targets(p)
    <3>1. ASSUME NEW i \in DOMAIN p, p[i].to = x.to PROVE FALSE
      <4>1. p[i].to.n <= CountOf(p, f)
        BY <2>3, <3>1 DEF CountedIds
      <4>. QED  BY <2>2, <2>3, <3>1, <4>1
    <3>. QED  BY <3>1 DEF Targets
  <2>. HIDE DEF x
  <2>5. /\ q \in Seq(NameEntry) /\ Len(q) = Len(p) + 1 /\ Len(p) \in Nat
        /\ DOMAIN q = DOMAIN p \cup {Len(p) + 1}
        /\ q[Len(p) + 1] = x /\ \A i \in DOMAIN p : q[i] = p[i]
        /\ Distinct(q) /\ Keys(q) = Keys(p) \cup {w}
    BY <1>2, <2>1, <2>3, <2>4, AppendIs
  <2>6. /\ \A g : CountOf(p, g) <= CountOf(q, g) /\ CountOf(p, g) \in Nat /\ CountOf(q, g) \in Nat
                  /\ CountOf(q, g) <= Len(q)
        /\ CountOf(q, f) = CountOf(p, f) + 1
    <3>1. ASSUME NEW g
          PROVE  CountOf(p, g) \in Nat /\ CountOf(q, g) \in Nat /\ CountOf(q, g) <= Len(q)
      BY <2>1, <2>5, CountIs
    <3>2. \A g : CountOf(p, g) <= CountOf(q, g) /\ (x.to.form = g => CountOf(q, g) = CountOf(p, g) + 1)
      BY <2>1, <2>3, CountGrows
    <3>. QED  BY <2>3, <3>1, <3>2
  <2>. HIDE DEF q
  <2>7. ASSUME NEW i \in DOMAIN q
        PROVE  q[i].to.n \in Nat /\ q[i].to.n <= CountOf(q, q[i].to.form)
    <3>1. CASE i = Len(p) + 1
      BY <2>3, <2>5, <2>6, <3>1
    <3>2. CASE i \in DOMAIN p
      <4>1. p[i].to.n <= CountOf(p, p[i].to.form)
        BY <3>2 DEF CountedIds
      <4>2. p[i] \in NameEntry /\ q[i] = p[i]
        BY <2>1, <2>5, <3>2
      <4>3. p[i].to.n \in Nat
        BY <4>2 DEF NameEntry
      <4>. QED  BY <2>6, <4>1, <4>2, <4>3
    <3>. QED  BY <2>5, <3>1, <3>2
  <2>8. \A i \in DOMAIN q : q[i].to.n <= Len(q)
    BY <2>5, <2>6, <2>7
  <2>9. q \in CountedIds
    BY <2>5, <2>7, <2>8 DEF CountedIds, Ids
  <2>. QED  BY <1>2, <2>5, <2>9 DEF AddId, q, x, f
<1>. QED  BY <1>1, <1>2

LEMMA AddStrKeeps ==
    ASSUME NEW p \in Strs, NEW ws \in Seq(Original)
    PROVE  LET q == AddStr(p, ws) IN q \in Strs /\ Keys(q) = Keys(p) \cup {ws}
<1>1. CASE ws \in Keys(p)
  BY <1>1 DEF AddStr
<1>2. CASE ws \notin Keys(p)
  <2>. DEFINE S == [from : Seq(Original), to : Seq(Placeholder)]
              ph == P("lit", Len(p) + 1)
              x == [from |-> ws, to |-> <<ph>>]
              q == Append(p, x)
  <2>1. p \in Seq(S) /\ Distinct(p) /\ \A i \in DOMAIN p : p[i].to = <<P("lit", i)>>
    BY DEF Strs
  <2>2. ph \in Placeholder /\ \A i \in DOMAIN p : P("lit", i) # ph
    BY <2>1 DEF P, Placeholder, Form
  <2>. HIDE DEF ph
  <2>3. x \in S /\ x.from = ws /\ x.to = <<ph>>
    BY <2>2
  <2>4. x.to \notin Targets(p)
    <3>1. ASSUME NEW i \in DOMAIN p, p[i].to = x.to PROVE FALSE
      <4>1. <<P("lit", i)>> = <<ph>>
        BY <2>1, <2>3, <3>1
      <4>. QED  BY <2>2, <4>1
    <3>. QED  BY <3>1 DEF Targets
  <2>. HIDE DEF x, S
  <2>5. /\ q \in Seq(S) /\ DOMAIN q = DOMAIN p \cup {Len(p) + 1}
        /\ q[Len(p) + 1] = x /\ \A i \in DOMAIN p : q[i] = p[i]
        /\ Distinct(q) /\ Keys(q) = Keys(p) \cup {ws}
    BY <1>2, <2>1, <2>3, <2>4, AppendIs
  <2>. HIDE DEF q
  <2>6. \A i \in DOMAIN q : q[i].to = <<P("lit", i)>>
    BY <2>1, <2>3, <2>5 DEF ph
  <2>7. q \in Strs
    BY <2>5, <2>6 DEF Strs, S
  <2>. QED  BY <1>2, <2>5, <2>7 DEF AddStr, q, x, ph
<1>. QED  BY <1>1, <1>2

LEMMA AddNumKeeps ==
    ASSUME NEW p \in Nums, NEW w \in Numeral
    PROVE  AddNum(p, w) \in Nums
<1>1. CASE w \in Keys(p)
  BY <1>1 DEF AddNum
<1>2. CASE w \notin Keys(p)
  <2>. DEFINE S == [from : Numeral, to : Placeholder]
              ph == P("sentinel", Len(p) + 1)
              x == [from |-> w, to |-> ph]
              q == Append(p, x)
  <2>1. p \in Seq(S) /\ Distinct(p) /\ \A i \in DOMAIN p : p[i].to = P("sentinel", i)
    BY DEF Nums
  <2>2. ph \in Placeholder /\ \A i \in DOMAIN p : P("sentinel", i) # ph
    BY <2>1 DEF P, Placeholder, Form
  <2>. HIDE DEF ph
  <2>3. x \in S /\ x.from = w /\ x.to = ph
    BY <2>2
  <2>4. x.to \notin Targets(p)
    BY <2>1, <2>2, <2>3 DEF Targets
  <2>. HIDE DEF x, S
  <2>5. /\ q \in Seq(S) /\ DOMAIN q = DOMAIN p \cup {Len(p) + 1}
        /\ q[Len(p) + 1] = x /\ \A i \in DOMAIN p : q[i] = p[i]
        /\ Distinct(q)
    BY <1>2, <2>1, <2>3, <2>4, AppendIs
  <2>. HIDE DEF q
  <2>6. \A i \in DOMAIN q : q[i].to = P("sentinel", i)
    BY <2>1, <2>3, <2>5 DEF ph
  <2>7. q \in Nums
    BY <2>5, <2>6 DEF Nums, S
  <2>. QED  BY <1>2, <2>7 DEF AddNum, q, x, ph
<1>. QED  BY <1>1, <1>2

(* A token of names and literals of the database; what of it the map has *)
OriginalToken ==
    {t \in Token : t.words \in Seq(Original) /\ (~t.quoted => t.words[1] \in Real \cup Numeral)}
Covers(mm, t) ==
    /\ t.quoted => Value(t.words) \in Keys(mm.strs)
    /\ Name(t) => t.words[1] \in Keys(mm.ids)
Extends(more, mm) == Keys(mm.ids) \subseteq Keys(more.ids) /\ Keys(mm.strs) \subseteq Keys(more.strs)

(* What a literal means has words of the database, or an apostrophe. *)
LEMMA ValueTyped ==
    ASSUME NEW ws \in Seq(Original)
    PROVE  Value(ws) \in Seq(Original)
<1>1. \A y \in DOMAIN ws : ws[y] \in Original
  OBVIOUS
<1>2. Apostrophe \in Original
  BY DEF Original
<1>. QED  BY <1>1, <1>2 DEF Value

LEMMA AddTokenKeeps ==
    ASSUME NEW tables, NEW scope, NEW mm \in Collected, NEW t \in OriginalToken
    PROVE  LET more == AddToken(tables, scope, mm, t) IN
           more \in Collected /\ Extends(more, mm) /\ Covers(more, t)
<1>1. mm.ids \in CountedIds /\ mm.strs \in Strs /\ mm.nums \in Nums /\ t.words \in Seq(Original)
  BY DEF Collected, OriginalToken
<1>2. CASE t.quoted
  <2>. DEFINE value == Value(t.words)
  <2>1. AddStr(mm.strs, value) \in Strs /\ Keys(AddStr(mm.strs, value)) = Keys(mm.strs) \cup {value}
    <3>1. value \in Seq(Original)
      BY <1>1, ValueTyped
    <3>. HIDE DEF value
    <3>. QED  BY <1>1, <3>1, AddStrKeeps
  <2>2. AddToken(tables, scope, mm, t) = [mm EXCEPT !.strs = AddStr(mm.strs, value)]
    BY <1>2 DEF AddToken
  <2>3. Covers(mm, t) <=> value \in Keys(mm.strs)
    BY <1>2 DEF Covers, Name
  <2>4. \A more : Covers(more, t) <=> value \in Keys(more.strs)
    BY <1>2 DEF Covers, Name
  <2>. HIDE DEF value
  <2>. QED  BY <2>1, <2>2, <2>4 DEF Collected, Extends
<1>3. CASE ~t.quoted
  <2>1. t.words[1] \in Real \cup Numeral
    BY <1>3 DEF OriginalToken
  <2>2. CASE t.words[1] \in Numeral
    <3>1. AddNum(mm.nums, t.words[1]) \in Nums
      BY <1>1, <2>2, AddNumKeeps
    <3>2. AddToken(tables, scope, mm, t)
            = IF scope = "all" THEN [mm EXCEPT !.nums = AddNum(mm.nums, t.words[1])] ELSE mm
      BY <1>3, <2>2 DEF AddToken, Number
    <3>. QED  BY <1>3, <2>2, <3>1, <3>2 DEF Collected, Extends, Covers, Name
  <2>3. CASE t.words[1] \notin Numeral
    <3>. DEFINE ids == AddId(tables, mm.ids, t.words[1])
    <3>1. ids \in CountedIds /\ Keys(ids) = Keys(mm.ids) \cup {t.words[1]}
      BY <1>1, <2>1, <2>3, AddIdKeeps
    <3>2. AddToken(tables, scope, mm, t) = [mm EXCEPT !.ids = ids]
      BY <1>3, <2>3 DEF AddToken, Number
    <3>. HIDE DEF ids
    <3>. QED  BY <1>3, <2>3, <3>1, <3>2 DEF Collected, Extends, Covers, Name
  <2>. QED  BY <2>2, <2>3
<1>. QED  BY <1>2, <1>3

LEMMA CollectingRuns ==
    ASSUME NEW sql \in Seq(OriginalToken), NEW tables, NEW scope
    PROVE  LET h == Collecting(sql, tables, scope)
               n == Len(sql) IN
           /\ h \in [0 .. n -> Collected]
           /\ h[0] = EmptyMap
           /\ \A i \in 1 .. n : h[i] = AddToken(tables, scope, h[i - 1], sql[i])
<1>. DEFINE n == Len(sql)
            step == [i \in 1 .. n |-> [mm \in Collected |-> AddToken(tables, scope, mm, sql[i])]]
            h == Collecting(sql, tables, scope)
<1>1. n \in Nat /\ \A i \in 1 .. n : sql[i] \in OriginalToken
  OBVIOUS
<1>2. EmptyMap \in Collected
  BY DEF EmptyMap, Collected, CountedIds, Ids, Strs, Nums, Distinct
<1>. HIDE DEF n
<1>3. step \in [1 .. n -> [Collected -> Collected]]
  BY <1>1, AddTokenKeeps
<1>4. PICK f \in LoopOf(n, EmptyMap, step, Collected) : TRUE
  <2>. HIDE DEF step
  <2>. QED  BY <1>1, <1>2, <1>3, LoopRuns
<1>5. f \in [0 .. n -> Collected] /\ f[0] = EmptyMap /\ \A i \in 1 .. n : f[i] = step[i][f[i - 1]]
  BY <1>4 DEF LoopOf
<1>6. f = [i \in 0 .. n |-> IF i = 0 THEN EmptyMap ELSE AddToken(tables, scope, f[i - 1], sql[i])]
  <2>. SUFFICES ASSUME NEW i \in 1 .. n PROVE f[i] = AddToken(tables, scope, f[i - 1], sql[i])
    BY <1>1, <1>5
  <2>1. f[i - 1] \in Collected
    <3>. HIDE DEF step
    <3>. QED  BY <1>1, <1>5
  <2>. QED  BY <1>5, <2>1
<1>7. h = CHOOSE g : g = [i \in 0 .. n |-> IF i = 0 THEN EmptyMap
                                           ELSE AddToken(tables, scope, g[i - 1], sql[i])]
  BY DEF Collecting, n
<1>. HIDE DEF h
<1>8. h = [i \in 0 .. n |-> IF i = 0 THEN EmptyMap ELSE AddToken(tables, scope, h[i - 1], sql[i])]
  BY <1>6, <1>7, Zenon
<1>9. h[0] = EmptyMap /\ \A i \in 1 .. n : h[i] = AddToken(tables, scope, h[i - 1], sql[i])
  BY <1>1, <1>8
<1>10. 0 .. n \subseteq {i \in 0 .. n : h[i] \in Collected}
  <2>. DEFINE Typed == {i \in 0 .. n : h[i] \in Collected}
  <2>1. 0 \in Typed
    BY <1>1, <1>2, <1>9
  <2>2. ASSUME NEW i \in 1 .. n, i - 1 \in Typed PROVE i \in Typed
    <3>1. h[i - 1] \in Collected /\ sql[i] \in OriginalToken
          /\ h[i] = AddToken(tables, scope, h[i - 1], sql[i])
      BY <1>1, <1>9, <2>2
    <3>2. h[i] \in Collected
      BY <3>1, AddTokenKeeps
    <3>. QED  BY <1>1, <3>2
  <2>. HIDE DEF Typed
  <2>3. 0 .. n \subseteq Typed
    BY <1>1, <2>1, <2>2, LoopKeeps, Zenon
  <2>. QED  BY <2>3 DEF Typed
<1>11. h \in [0 .. n -> Collected]
  BY <1>8, <1>10
<1>. QED  BY <1>9, <1>11 DEF h, n

LEMMA BuildCovers ==
    ASSUME NEW sql \in Seq(OriginalToken), NEW tables, NEW scope
    PROVE  LET mm == BuildMaskMap(sql, tables, scope) IN
           mm \in Collected /\ \A x \in DOMAIN sql : Covers(mm, sql[x])
<1>. DEFINE h == Collecting(sql, tables, scope)
            n == Len(sql)
            Good == {i \in 0 .. n : \A x \in 1 .. i : Covers(h[i], sql[x])}
<1>1. /\ h \in [0 .. n -> Collected]
      /\ \A i \in 1 .. n : h[i] = AddToken(tables, scope, h[i - 1], sql[i])
  BY CollectingRuns
<1>2. n \in Nat /\ DOMAIN sql = 1 .. n /\ \A i \in 1 .. n : sql[i] \in OriginalToken
  OBVIOUS
<1>3. BuildMaskMap(sql, tables, scope) = h[n]
  BY DEF BuildMaskMap
<1>. HIDE DEF h, n
<1>4. 0 \in Good
  BY <1>2
<1>5. ASSUME NEW i \in 1 .. n, i - 1 \in Good PROVE i \in Good
  <2>1. /\ h[i - 1] \in Collected /\ sql[i] \in OriginalToken /\ i \in 0 .. n
        /\ h[i] = AddToken(tables, scope, h[i - 1], sql[i])
        /\ \A x \in 1 .. i - 1 : Covers(h[i - 1], sql[x])
    BY <1>1, <1>2, <1>5
  <2>2. Extends(h[i], h[i - 1]) /\ Covers(h[i], sql[i])
    BY <2>1, AddTokenKeeps
  <2>3. \A x \in 1 .. i : x \in 1 .. i - 1 \/ x = i
    OBVIOUS
  <2>. QED  BY <2>1, <2>2, <2>3 DEF Extends, Covers
<1>. HIDE DEF Good
<1>6. 0 .. n \subseteq Good
  BY <1>2, <1>4, <1>5, LoopKeeps, Zenon
<1>7. n \in Good
  BY <1>2, <1>6
<1>. QED  BY <1>1, <1>2, <1>3, <1>7 DEF Good

LEMMA GreatestExists ==
    ASSUME NEW used, used \subseteq Nat, used # {}, NEW bound \in Nat, \A k \in used : k <= bound
    PROVE  \E n \in used : \A k \in used : k <= n
<1>. DEFINE T == {b \in Nat : (\A k \in used : k <= b) => \E n \in used : \A k \in used : k <= n}
<1>1. 0 \in T
  <2>1. PICK n \in used : TRUE
    OBVIOUS
  <2>2. (\A k \in used : k <= 0) => n = 0 /\ \A k \in used : k <= n
    OBVIOUS
  <2>. QED  BY <2>2
<1>2. ASSUME NEW b \in Nat, b \in T PROVE b + 1 \in T
  <2>. SUFFICES ASSUME \A k \in used : k <= b + 1 PROVE \E n \in used : \A k \in used : k <= n
    OBVIOUS
  <2>1. CASE b + 1 \in used
    BY <2>1
  <2>2. CASE b + 1 \notin used
    <3>1. \A k \in used : k <= b
      BY <2>2
    <3>. QED  BY <1>2, <3>1
  <2>. QED  BY <2>1, <2>2
<1>. HIDE DEF T
<1>3. bound \in T
  BY <1>1, <1>2, AllNumbers
<1>. QED  BY <1>3 DEF T

LEMMA LastColumnIs ==
    ASSUME NEW mm, mm.ids \in Ids
    PROVE  /\ LastColumn(mm) \in Nat /\ LastColumn(mm) <= Len(mm.ids)
           /\ \A i \in DOMAIN mm.ids : mm.ids[i].to.form = "col" => mm.ids[i].to.n <= LastColumn(mm)
<1>. DEFINE p == mm.ids
            used == {q.n : q \in {t \in Targets(p) : t.form = "col"}}
<1>1. Len(p) \in Nat /\ \A i \in DOMAIN p : p[i].to.n \in Nat /\ p[i].to.n <= Len(p)
  <2>1. p \in Seq(NameEntry) /\ \A i \in DOMAIN p : p[i].to.n <= Len(p)
    BY DEF Ids
  <2>2. \A i \in DOMAIN p : p[i] \in NameEntry
    BY <2>1
  <2>3. Len(p) \in Nat
    BY <2>1
  <2>. QED  BY <2>1, <2>2, <2>3 DEF NameEntry
<1>2. \A i \in DOMAIN p : p[i].to.form = "col" => p[i].to.n \in used
  BY DEF Targets
<1>3. \A k \in used : \E i \in DOMAIN p : p[i].to.form = "col" /\ k = p[i].to.n
  BY DEF Targets
<1>4. LastColumn(mm) = IF used = {} THEN 0 ELSE CHOOSE n \in used : \A k \in used : k <= n
  BY DEF LastColumn
<1>. HIDE DEF used, p
<1>5. used \subseteq Nat /\ \A k \in used : k <= Len(p)
  BY <1>1, <1>3
<1>6. CASE used = {}
  BY <1>1, <1>2, <1>4, <1>6 DEF p
<1>7. CASE used # {}
  <2>1. \E n \in used : \A k \in used : k <= n
    BY <1>1, <1>5, <1>7, GreatestExists
  <2>2. LastColumn(mm) \in used /\ \A k \in used : k <= LastColumn(mm)
    BY <1>4, <1>7, <2>1
  <2>. QED  BY <1>2, <1>5, <2>2 DEF p
<1>. QED  BY <1>6, <1>7

LEMMA AddColumnKeeps ==
    ASSUME NEW mm \in GoodMap, NEW e \in Entry
    PROVE  LET more == AddColumn(mm, e) IN
           more \in GoodMap /\ Extends(more, mm) /\ (e.listed => e.name \in Keys(more.ids))
<1>1. CASE ~e.listed \/ e.name \in Keys(mm.ids)
  BY <1>1 DEF AddColumn, Extends
<1>2. CASE e.listed /\ e.name \notin Keys(mm.ids)
  <2>. DEFINE w == e.name
              p == mm.ids
              ph == P("col", LastColumn(mm) + 1)
              x == [from |-> w, to |-> ph]
              q == Append(p, x)
  <2>1. p \in Ids /\ p \in Seq(NameEntry) /\ Distinct(p) /\ \A i \in DOMAIN p : p[i].to.n <= Len(p)
    BY DEF GoodMap, Ids
  <2>2. /\ LastColumn(mm) \in Nat /\ LastColumn(mm) <= Len(p)
        /\ \A i \in DOMAIN p : p[i].to.form = "col" => p[i].to.n <= LastColumn(mm)
    BY <2>1, LastColumnIs
  <2>3. x \in NameEntry /\ x.from = w /\ x.to = ph /\ ph.form = "col" /\ ph.n = LastColumn(mm) + 1
    BY <2>2 DEF NameEntry, P, Entry
  <2>. HIDE DEF ph
  <2>4. x.to \notin Targets(p)
    <3>1. ASSUME NEW i \in DOMAIN p, p[i].to = ph PROVE FALSE
      <4>1. ph.n <= LastColumn(mm)
        BY <2>2, <2>3, <3>1
      <4>. QED  BY <2>2, <2>3, <4>1
    <3>. QED  BY <2>3, <3>1 DEF Targets
  <2>. HIDE DEF x
  <2>5. /\ q \in Seq(NameEntry) /\ Len(q) = Len(p) + 1 /\ Len(p) \in Nat
        /\ DOMAIN q = DOMAIN p \cup {Len(p) + 1}
        /\ q[Len(p) + 1] = x /\ \A i \in DOMAIN p : q[i] = p[i]
        /\ Distinct(q) /\ Keys(q) = Keys(p) \cup {w}
    BY <1>2, <2>1, <2>3, <2>4, AppendIs
  <2>. HIDE DEF q
  <2>6. ASSUME NEW i \in DOMAIN q PROVE q[i].to.n <= Len(q)
    <3>1. CASE i = Len(p) + 1
      BY <2>2, <2>3, <2>5, <3>1
    <3>2. CASE i \in DOMAIN p
      <4>1. p[i] \in NameEntry /\ q[i] = p[i]
        BY <2>1, <2>5, <3>2
      <4>2. p[i].to.n \in Nat /\ p[i].to.n <= Len(p)
        BY <2>1, <3>2, <4>1 DEF NameEntry
      <4>. QED  BY <2>5, <4>1, <4>2
    <3>. QED  BY <2>5, <3>1, <3>2
  <2>7. q \in Ids
    BY <2>5, <2>6 DEF Ids
  <2>8. AddColumn(mm, e) = [mm EXCEPT !.ids = q]
    BY <1>2 DEF AddColumn, q, x, ph
  <2>. QED  BY <2>5, <2>7, <2>8 DEF GoodMap, Extends
<1>. QED  BY <1>1, <1>2

LEMMA ExtendingRuns ==
    ASSUME NEW mm \in GoodMap, NEW block \in Seq(Entry)
    PROVE  LET h == Extending(mm, block)
               n == Len(block) IN
           /\ h \in [0 .. n -> GoodMap]
           /\ h[0] = mm
           /\ \A i \in 1 .. n : h[i] = AddColumn(h[i - 1], block[i])
<1>. DEFINE n == Len(block)
            step == [i \in 1 .. n |-> [m \in GoodMap |-> AddColumn(m, block[i])]]
            h == Extending(mm, block)
<1>1. n \in Nat /\ \A i \in 1 .. n : block[i] \in Entry
  OBVIOUS
<1>. HIDE DEF n
<1>2. step \in [1 .. n -> [GoodMap -> GoodMap]]
  BY <1>1, AddColumnKeeps
<1>3. PICK f \in LoopOf(n, mm, step, GoodMap) : TRUE
  <2>. HIDE DEF step
  <2>. QED  BY <1>1, <1>2, LoopRuns
<1>4. f \in [0 .. n -> GoodMap] /\ f[0] = mm /\ \A i \in 1 .. n : f[i] = step[i][f[i - 1]]
  BY <1>3 DEF LoopOf
<1>5. f = [i \in 0 .. n |-> IF i = 0 THEN mm ELSE AddColumn(f[i - 1], block[i])]
  <2>. SUFFICES ASSUME NEW i \in 1 .. n PROVE f[i] = AddColumn(f[i - 1], block[i])
    BY <1>1, <1>4
  <2>1. f[i - 1] \in GoodMap
    <3>. HIDE DEF step
    <3>. QED  BY <1>1, <1>4
  <2>. QED  BY <1>4, <2>1
<1>6. h = CHOOSE g : g = [i \in 0 .. n |-> IF i = 0 THEN mm ELSE AddColumn(g[i - 1], block[i])]
  BY DEF Extending, n
<1>. HIDE DEF h
<1>7. h = [i \in 0 .. n |-> IF i = 0 THEN mm ELSE AddColumn(h[i - 1], block[i])]
  BY <1>5, <1>6, Zenon
<1>8. h[0] = mm /\ \A i \in 1 .. n : h[i] = AddColumn(h[i - 1], block[i])
  BY <1>1, <1>7
<1>9. 0 .. n \subseteq {i \in 0 .. n : h[i] \in GoodMap}
  <2>. DEFINE Typed == {i \in 0 .. n : h[i] \in GoodMap}
  <2>1. 0 \in Typed
    BY <1>1, <1>8
  <2>2. ASSUME NEW i \in 1 .. n, i - 1 \in Typed PROVE i \in Typed
    <3>1. h[i - 1] \in GoodMap /\ block[i] \in Entry /\ h[i] = AddColumn(h[i - 1], block[i])
      BY <1>1, <1>8, <2>2
    <3>2. h[i] \in GoodMap
      BY <3>1, AddColumnKeeps
    <3>. QED  BY <1>1, <3>2
  <2>. HIDE DEF Typed
  <2>3. 0 .. n \subseteq Typed
    BY <1>1, <2>1, <2>2, LoopKeeps, Zenon
  <2>. QED  BY <2>3 DEF Typed
<1>10. h \in [0 .. n -> GoodMap]
  BY <1>7, <1>9
<1>. QED  BY <1>8, <1>10 DEF h, n

LEMMA ExtendCovers ==
    ASSUME NEW mm \in GoodMap, NEW block \in Seq(Entry)
    PROVE  LET more == ExtendMaskMap(mm, block) IN
           more \in GoodMap /\ Extends(more, mm) /\ \A x \in DOMAIN block : block[x].listed => block[x].name \in Keys(more.ids)
<1>. DEFINE h == Extending(mm, block)
            n == Len(block)
            Good == {i \in 0 .. n : Extends(h[i], mm) /\ \A x \in 1 .. i : block[x].listed => block[x].name \in Keys(h[i].ids)}
<1>1. /\ h \in [0 .. n -> GoodMap] /\ h[0] = mm
      /\ \A i \in 1 .. n : h[i] = AddColumn(h[i - 1], block[i])
  BY ExtendingRuns
<1>2. n \in Nat /\ DOMAIN block = 1 .. n /\ \A i \in 1 .. n : block[i] \in Entry
  OBVIOUS
<1>3. ExtendMaskMap(mm, block) = h[n]
  BY DEF ExtendMaskMap
<1>. HIDE DEF h, n
<1>4. 0 \in Good
  BY <1>1, <1>2 DEF Extends
<1>5. ASSUME NEW i \in 1 .. n, i - 1 \in Good PROVE i \in Good
  <2>1. /\ h[i - 1] \in GoodMap /\ block[i] \in Entry /\ i \in 0 .. n
        /\ h[i] = AddColumn(h[i - 1], block[i])
        /\ Extends(h[i - 1], mm) /\ \A x \in 1 .. i - 1 : block[x].listed => block[x].name \in Keys(h[i - 1].ids)
    BY <1>1, <1>2, <1>5
  <2>2. Extends(h[i], h[i - 1]) /\ (block[i].listed => block[i].name \in Keys(h[i].ids))
    BY <2>1, AddColumnKeeps
  <2>3. \A x \in 1 .. i : x \in 1 .. i - 1 \/ x = i
    OBVIOUS
  <2>. QED  BY <2>1, <2>2, <2>3 DEF Extends
<1>. HIDE DEF Good
<1>6. 0 .. n \subseteq Good
  BY <1>2, <1>4, <1>5, LoopKeeps, Zenon
<1>7. n \in Good
  BY <1>2, <1>6
<1>. QED  BY <1>1, <1>2, <1>3, <1>7 DEF Good

(* The map of a call: it can be reversed, and has every name that travels. *)
LEMMA MapIsGood ==
    ASSUME NEW i \in MaskCalls
    PROVE  /\ MapOf(i) \in GoodMap
           /\ \A x \in DOMAIN i.sql : i.sql[x] \in OriginalToken /\ Covers(MapOf(i), i.sql[x])
           /\ \A x \in DOMAIN i.block : i.block[x].listed => i.block[x].name \in Keys(MapOf(i).ids)
<1>1. /\ i.sql \in Seq(Token) /\ WordsOf(i.sql) \subseteq Original /\ i.block \in Seq(Entry)
      /\ \A x \in DOMAIN i.sql : ~i.sql[x].quoted => i.sql[x].words[1] \in Real \cup Numeral
  BY MaskAssumption
<1>2. ASSUME NEW x \in DOMAIN i.sql PROVE i.sql[x] \in OriginalToken
  <2>1. i.sql[x] \in Token /\ i.sql[x].words \in Seq(Word)
    BY <1>1 DEF Token
  <2>2. \A y \in DOMAIN i.sql[x].words : i.sql[x].words[y] \in Original
    BY <1>1 DEF WordsOf, Range
  <2>3. i.sql[x].words \in Seq(Original)
    BY <2>1, <2>2
  <2>. QED  BY <1>1, <2>1, <2>3 DEF OriginalToken
<1>3. i.sql \in Seq(OriginalToken)
  BY <1>1, <1>2
<1>. DEFINE mm == BuildMaskMap(i.sql, i.tables, i.scope)
<1>4. mm \in Collected /\ \A x \in DOMAIN i.sql : Covers(mm, i.sql[x])
  BY <1>3, BuildCovers
<1>. HIDE DEF mm
<1>5. mm \in GoodMap
  BY <1>4 DEF Collected, GoodMap, CountedIds
<1>6. /\ ExtendMaskMap(mm, i.block) \in GoodMap /\ Extends(ExtendMaskMap(mm, i.block), mm)
      /\ \A x \in DOMAIN i.block :
             i.block[x].listed => i.block[x].name \in Keys(ExtendMaskMap(mm, i.block).ids)
  BY <1>1, <1>5, ExtendCovers
<1>7. MapOf(i) = ExtendMaskMap(mm, i.block)
  BY DEF MapOf, mm
<1>. QED  BY <1>2, <1>4, <1>6, <1>7 DEF Covers, Extends

-----------------------------------------------------------------------------
LEMMA ElementIs ==
    ASSUME NEW S, NEW s \in Seq(S), NEW i \in DOMAIN s PROVE s[i] \in S
OBVIOUS

LEMMA BlockNamesAreReal ==
    ASSUME NEW i \in MaskCalls
    PROVE  \A x \in DOMAIN i.block : i.block[x].name \in Real
<1>. SUFFICES ASSUME NEW x \in DOMAIN i.block PROVE i.block[x].name \in Real
  OBVIOUS
<1>1. i.block \in Seq(Entry)
  BY MaskAssumption
<1>2. i.block[x] \in Entry
  BY <1>1, ElementIs
<1>. QED  BY <1>2 DEF Entry

LEMMA SequenceIs ==
    ASSUME NEW S, NEW T, NEW s \in Seq(S), \A i \in DOMAIN s : s[i] \in T
    PROVE  s \in Seq(T)
OBVIOUS

LEMMA FunctionIsSequence ==
    ASSUME NEW T, NEW n \in Nat, NEW f \in [1 .. n -> T] PROVE f \in Seq(T)
OBVIOUS

(* What the map of a call means for the words that travel: originals and *)
(* placeholders of three kinds never meet.                               *)
LEMMA MapIs ==
    ASSUME NEW mm \in GoodMap
    PROVE  /\ mm.ids \in Seq(WordPair) /\ mm.strs \in Seq(StringPair) /\ mm.nums \in Seq(WordPair)
           /\ Distinct(mm.ids) /\ Distinct(mm.strs) /\ Distinct(mm.nums)
           /\ Keys(mm.ids) \subseteq Real /\ Keys(mm.nums) \subseteq Numeral
           /\ Keys(mm.strs) \subseteq Seq(Original)
           /\ \A w \in Targets(mm.ids) : w \in Placeholder /\ w.form \in {"tbl", "col"}
           /\ \A ws \in Targets(mm.strs) : \E w \in Placeholder : ws = <<w>> /\ w.form = "lit"
           /\ \A w \in Targets(mm.nums) : w \in Placeholder /\ w.form = "sentinel"
<1>1. mm.ids \in Ids /\ mm.strs \in Strs /\ mm.nums \in Nums
  BY DEF GoodMap
<1>2. /\ mm.ids \in Seq(NameEntry) /\ mm.nums \in Seq([from : Numeral, to : Placeholder])
      /\ mm.strs \in Seq([from : Seq(Original), to : Seq(Placeholder)])
  BY <1>1 DEF Ids, Strs, Nums
<1>3. Distinct(mm.ids) /\ Distinct(mm.strs) /\ Distinct(mm.nums)
  BY <1>1 DEF Ids, Strs, Nums
<1>4. ASSUME NEW i \in DOMAIN mm.ids
      PROVE  /\ mm.ids[i] \in WordPair /\ mm.ids[i].from \in Real
             /\ mm.ids[i].to \in Placeholder /\ mm.ids[i].to.form \in {"tbl", "col"}
  <2>1. mm.ids[i] \in NameEntry
    BY <1>2
  <2>. QED  BY <2>1 DEF NameEntry, WordPair, Word, Original, Placeholder, Form
<1>5. ASSUME NEW i \in DOMAIN mm.nums
      PROVE  /\ mm.nums[i] \in WordPair /\ mm.nums[i].from \in Numeral
             /\ mm.nums[i].to \in Placeholder /\ mm.nums[i].to.form = "sentinel"
  <2>1. mm.nums[i] \in [from : Numeral, to : Placeholder]
    BY <1>2, ElementIs, Zenon
  <2>2. mm.nums[i].to = P("sentinel", i)
    BY <1>1 DEF Nums
  <2>. QED  BY <2>1, <2>2 DEF WordPair, Word, Original, P
<1>6. ASSUME NEW i \in DOMAIN mm.strs
      PROVE  /\ mm.strs[i] \in StringPair /\ mm.strs[i].from \in Seq(Original)
             /\ \E w \in Placeholder : mm.strs[i].to = <<w>> /\ w.form = "lit"
  <2>1. mm.strs[i] \in [from : Seq(Original), to : Seq(Placeholder)]
    BY <1>2, ElementIs, Zenon
  <2>5. mm.strs[i].to = <<P("lit", i)>>
    BY <1>1 DEF Strs
  <2>2. i \in Nat /\ P("lit", i) \in Placeholder /\ P("lit", i).form = "lit"
    BY <1>2 DEF P, Placeholder, Form
  <2>3. Seq(Original) \subseteq Seq(Word) /\ Seq(Placeholder) \subseteq Seq(Word)
    BY DEF Word
  <2>4. mm.strs[i] \in StringPair
    BY <2>1, <2>3 DEF StringPair
  <2>. QED  BY <2>1, <2>2, <2>4, <2>5
<1>7. /\ mm.ids \in Seq(WordPair) /\ mm.strs \in Seq(StringPair) /\ mm.nums \in Seq(WordPair)
  <2>1. /\ \A i \in DOMAIN mm.ids : mm.ids[i] \in WordPair
        /\ \A i \in DOMAIN mm.strs : mm.strs[i] \in StringPair
        /\ \A i \in DOMAIN mm.nums : mm.nums[i] \in WordPair
    BY <1>4, <1>5, <1>6
  <2>2. mm.ids \in Seq(WordPair)
    BY <1>2, <2>1, SequenceIs
  <2>3. mm.strs \in Seq(StringPair)
    BY <1>2, <2>1, SequenceIs
  <2>4. mm.nums \in Seq(WordPair)
    BY <1>2, <2>1, SequenceIs
  <2>. QED  BY <2>2, <2>3, <2>4
<1>. QED  BY <1>3, <1>4, <1>5, <1>6, <1>7 DEF Keys, Targets

LEMMA NothingMeets ==
    ASSUME NEW mm \in GoodMap
    PROVE  /\ \A w \in Original : w \notin Targets(mm.ids) /\ w \notin Targets(mm.nums)
           /\ \A ws \in Seq(Original) : ws \notin Targets(mm.strs)
           /\ Apart(mm.ids) /\ Apart(mm.strs) /\ Apart(mm.nums)
           /\ \A w \in Targets(mm.ids) : w \notin Targets(mm.nums) /\ w \notin Original
           /\ \A w \in Targets(mm.nums) : w \notin Original
<1>1. ASSUME NEW ws \in Seq(Original) PROVE ws \notin Targets(mm.strs)
  <2>. SUFFICES ASSUME NEW w \in Placeholder, ws = <<w>> PROVE FALSE
    BY MapIs
  <2>1. w \in Original
    OBVIOUS
  <2>. QED  BY <2>1, MaskingAssumption
<1>2. /\ \A w \in Original : w \notin Targets(mm.ids) /\ w \notin Targets(mm.nums)
      /\ \A w \in Targets(mm.ids) : w \notin Targets(mm.nums) /\ w \notin Original
      /\ \A w \in Targets(mm.nums) : w \notin Original
  BY MapIs, MaskingAssumption
<1>3. Keys(mm.ids) \subseteq Original /\ Keys(mm.nums) \subseteq Original /\ Keys(mm.strs) \subseteq Seq(Original)
  BY MapIs DEF Original
<1>. QED  BY <1>1, <1>2, <1>3 DEF Apart

LEMMA SwappedTyped ==
    ASSUME NEW mm \in GoodMap
    PROVE  /\ Swapped(mm.ids) \in Seq(WordPair) /\ Swapped(mm.strs) \in Seq(StringPair)
           /\ Swapped(mm.nums) \in Seq(WordPair)
           /\ Apart(Swapped(mm.ids)) /\ Apart(Swapped(mm.strs)) /\ Apart(Swapped(mm.nums))
<1>1. ASSUME NEW S, NEW p \in Seq([from : S, to : S]) PROVE Swapped(p) \in Seq([from : S, to : S])
  <2>1. ASSUME NEW i \in DOMAIN p PROVE Swapped(p)[i] \in [from : S, to : S]
    <3>1. p[i] \in [from : S, to : S]
      BY ElementIs, Zenon
    <3>. QED  BY <3>1 DEF Swapped
  <2>2. DOMAIN Swapped(p) = 1 .. Len(p) /\ Len(p) \in Nat /\ DOMAIN p = 1 .. Len(p)
    BY DEF Swapped
  <2>3. Swapped(p) \in [1 .. Len(p) -> [from : S, to : S]]
    BY <2>1, <2>2, Zenon DEF Swapped
  <2>. QED  BY <2>2, <2>3, FunctionIsSequence, Zenon
<1>2. /\ mm.ids \in Seq([from : Word, to : Word]) /\ mm.nums \in Seq([from : Word, to : Word])
      /\ mm.strs \in Seq([from : Seq(Word), to : Seq(Word)])
  BY MapIs DEF WordPair, StringPair
<1>3. /\ Swapped(mm.ids) \in Seq(WordPair) /\ Swapped(mm.strs) \in Seq(StringPair)
      /\ Swapped(mm.nums) \in Seq(WordPair)
  BY <1>1, <1>2, Zenon DEF WordPair, StringPair
<1>4. Apart(Swapped(mm.ids)) /\ Apart(Swapped(mm.strs)) /\ Apart(Swapped(mm.nums))
  <2>1. /\ Distinct(mm.ids) /\ Distinct(mm.strs) /\ Distinct(mm.nums)
        /\ Apart(mm.ids) /\ Apart(mm.strs) /\ Apart(mm.nums)
    BY MapIs, NothingMeets
  <2>2. ASSUME NEW p, Distinct(p), Apart(p) PROVE Apart(Swapped(p))
    BY <2>2, SwappedIs DEF Apart
  <2>. QED  BY <2>1, <2>2
<1>. QED  BY <1>3, <1>4

LEMMA TokenIsBare ==
    ASSUME NEW t \in Token, ~t.quoted PROVE t = Bare(t.words[1]) /\ t.words = <<t.words[1]>>
<1>1. t \in [quoted : BOOLEAN, words : Seq(Word)] /\ Len(t.words) = 1 /\ t.quoted = FALSE
  BY DEF Token
<1>2. t.words = <<t.words[1]>>
  BY <1>1
<1>. QED  BY <1>1, <1>2 DEF Bare

LEMMA PassTokenIs ==
    ASSUME NEW pairs
    PROVE  /\ \A w : PassToken(Bare(w), pairs) = Bare(Replaced(pairs, w))
           /\ \A w : PassToken(Quoted(<<w>>), pairs) = Quoted(<<Replaced(pairs, w)>>)
           /\ \A t \in Token : (\A y \in DOMAIN t.words : t.words[y] \notin Keys(pairs))
                                 => PassToken(t, pairs) = t
<1>1. \A w : [y \in DOMAIN <<w>> |-> Replaced(pairs, <<w>>[y])] = <<Replaced(pairs, w)>>
  OBVIOUS
<1>2. ASSUME NEW t \in Token, \A y \in DOMAIN t.words : t.words[y] \notin Keys(pairs)
      PROVE  PassToken(t, pairs) = t
  <2>1. t \in [quoted : BOOLEAN, words : Seq(Word)]
    BY DEF Token
  <2>2. \A y \in DOMAIN t.words : Replaced(pairs, t.words[y]) = t.words[y]
    BY <1>2 DEF Replaced
  <2>3. [y \in DOMAIN t.words |-> Replaced(pairs, t.words[y])] = t.words
    BY <2>1, <2>2
  <2>. QED  BY <2>1, <2>3 DEF PassToken
<1>3. ASSUME NEW w PROVE PassToken(Bare(w), pairs) = Bare(Replaced(pairs, w))
  BY <1>1 DEF PassToken, Bare
<1>4. ASSUME NEW w PROVE PassToken(Quoted(<<w>>), pairs) = Quoted(<<Replaced(pairs, w)>>)
  BY <1>1 DEF PassToken, Quoted
<1>. QED  BY <1>2, <1>3, <1>4

-----------------------------------------------------------------------------
(* A token that was masked, sent and unmasked *)
Back(mm, t) ==
    PassToken(PassString(PassToken(t, Swapped(mm.ids)), Swapped(mm.strs)), Swapped(mm.nums))

LEMMA OriginalStays ==
    ASSUME NEW mm \in GoodMap, NEW t \in OriginalToken
    PROVE  /\ PassToken(t, Swapped(mm.ids)) = t /\ PassToken(t, Swapped(mm.nums)) = t
           /\ t.quoted => t = Quoted(t.words) /\ t.words \notin Targets(mm.strs)
<1>1. t \in Token /\ t.words \in Seq(Original)
  BY DEF OriginalToken
<1>2. \A y \in DOMAIN t.words : t.words[y] \in Original
  BY <1>1
<1>3. Keys(Swapped(mm.ids)) = Targets(mm.ids) /\ Keys(Swapped(mm.nums)) = Targets(mm.nums)
  BY MapIs, SwappedIs
<1>4. \A y \in DOMAIN t.words : t.words[y] \notin Targets(mm.ids) /\ t.words[y] \notin Targets(mm.nums)
  BY <1>2, NothingMeets
<1>. QED  BY <1>1, <1>3, <1>4, PassTokenIs, NothingMeets, TokenIsQuoted

LEMMA TokenComesBack ==
    ASSUME NEW mm \in GoodMap, NEW t \in OriginalToken, Value(t.words) = t.words
    PROVE  Back(mm, MaskNode(mm, t)) = t
<1>. DEFINE rids == Swapped(mm.ids)
            rstrs == Swapped(mm.strs)
            rnums == Swapped(mm.nums)
<1>1. /\ Keys(rids) = Targets(mm.ids) /\ Keys(rstrs) = Targets(mm.strs) /\ Keys(rnums) = Targets(mm.nums)
      /\ \A w \in Keys(mm.ids) : Get(rids, Get(mm.ids, w)) = w
      /\ \A ws \in Keys(mm.strs) : Get(rstrs, Get(mm.strs, ws)) = ws
      /\ \A w \in Keys(mm.nums) : Get(rnums, Get(mm.nums, w)) = w
  BY MapIs, SwappedIs
<1>3. /\ \A w \in Keys(mm.ids) : Get(mm.ids, w) \in Targets(mm.ids)
      /\ \A ws \in Keys(mm.strs) : Get(mm.strs, ws) \in Targets(mm.strs)
      /\ \A w \in Keys(mm.nums) : Get(mm.nums, w) \in Targets(mm.nums)
  BY MapIs, GetIsTarget
<1>4. t \in Token /\ t.words \in Seq(Original)
  BY DEF OriginalToken
<1>5. PassToken(t, rids) = t /\ PassToken(t, rnums) = t
      /\ (t.quoted => t = Quoted(t.words) /\ t.words \notin Targets(mm.strs))
  BY OriginalStays
<1>. HIDE DEF rids, rstrs, rnums
<1>6. \A u : Back(mm, u) = PassToken(PassString(PassToken(u, rids), rstrs), rnums)
  BY DEF Back, rids, rstrs, rnums
<1>7. /\ \A ws : PassString(Quoted(ws), rstrs) = Quoted(Replaced(rstrs, ws))
      /\ \A w : PassString(Bare(w), rstrs) = Bare(w)
  BY DEF PassString, Quoted, Bare
<1>8. CASE t.quoted
  <2>1. CASE t.words \in Keys(mm.strs)
    <3>1. PICK w \in Placeholder : Get(mm.strs, t.words) = <<w>> /\ w.form = "lit"
      BY <1>3, <2>1, MapIs
    <3>2. MaskNode(mm, t) = Quoted(<<w>>)
      BY <1>8, <2>1, <3>1 DEF MaskNode
    <3>3. w \notin Keys(rids)
      BY <1>1, <3>1, MapIs
    <3>4. PassToken(Quoted(<<w>>), rids) = Quoted(<<w>>)
      BY <3>3, PassTokenIs DEF Replaced
    <3>5. Replaced(rstrs, <<w>>) = t.words
      BY <1>1, <1>3, <2>1, <3>1 DEF Replaced
    <3>6. PassString(Quoted(<<w>>), rstrs) = t
      BY <1>5, <1>7, <1>8, <3>5
    <3>. QED  BY <1>5, <1>6, <3>2, <3>4, <3>6
  <2>2. CASE t.words \notin Keys(mm.strs)
    <3>1. MaskNode(mm, t) = t
      BY <1>8, <2>2 DEF MaskNode
    <3>2. Replaced(rstrs, t.words) = t.words
      BY <1>1, <1>5, <1>8 DEF Replaced
    <3>3. PassString(t, rstrs) = t
      BY <1>5, <1>7, <1>8, <3>2
    <3>. QED  BY <1>5, <1>6, <3>1, <3>3
  <2>. QED  BY <2>1, <2>2
<1>9. CASE ~t.quoted
  <2>. DEFINE w == t.words[1]
  <2>1. t = Bare(w) /\ w \in Original
    <3>1. t = Bare(w) /\ t.words = <<w>>
      BY <1>4, <1>9, TokenIsBare
    <3>. QED  BY <1>4, <3>1
  <2>2. Number(t) <=> w \in Numeral
    BY <1>9 DEF Number
  <2>3. \A p : PassToken(Bare(w), p) = Bare(Replaced(p, w))
    BY PassTokenIs
  <2>4. CASE w \in Numeral /\ w \in Keys(mm.nums)
    <3>. DEFINE v == Get(mm.nums, w)
    <3>1. MaskNode(mm, t) = Bare(v)
      BY <1>9, <2>2, <2>4 DEF MaskNode
    <3>2. v \in Targets(mm.nums) /\ v \notin Targets(mm.ids) /\ Get(rnums, v) = w
      BY <1>1, <1>3, <2>4, NothingMeets
    <3>. HIDE DEF v, w
    <3>3. PassToken(Bare(v), rids) = Bare(v) /\ PassToken(Bare(v), rnums) = Bare(w)
      BY <1>1, <3>2, PassTokenIs DEF Replaced
    <3>4. PassString(Bare(v), rstrs) = Bare(v)
      BY <1>7
    <3>. QED  BY <1>6, <2>1, <3>1, <3>3, <3>4
  <2>5. CASE w \notin Numeral /\ w \in Keys(mm.ids)
    <3>. DEFINE v == Get(mm.ids, w)
    <3>1. MaskNode(mm, t) = Bare(v)
      BY <1>9, <2>2, <2>5 DEF MaskNode
    <3>2. v \in Targets(mm.ids) /\ Get(rids, v) = w
      BY <1>1, <1>3, <2>5
    <3>. HIDE DEF v, w
    <3>3. PassToken(Bare(v), rids) = Bare(w)
      BY <1>1, <3>2, PassTokenIs DEF Replaced
    <3>4. PassString(Bare(w), rstrs) = Bare(w)
      BY <1>7
    <3>. QED  BY <1>5, <1>6, <2>1, <3>1, <3>3, <3>4
  <2>6. CASE (w \in Numeral /\ w \notin Keys(mm.nums)) \/ (w \notin Numeral /\ w \notin Keys(mm.ids))
    <3>1. MaskNode(mm, t) = t
      BY <1>9, <2>2, <2>6 DEF MaskNode
    <3>2. PassString(t, rstrs) = t
      BY <1>9 DEF PassString
    <3>. QED  BY <1>5, <1>6, <3>1, <3>2
  <2>. QED  BY <2>4, <2>5, <2>6
<1>. QED  BY <1>8, <1>9

LEMMA MaskSqlIs ==
    ASSUME NEW mm \in GoodMap, NEW text \in Text, \A x \in DOMAIN text : text[x] \in OriginalToken
    PROVE  /\ MaskSql(text, mm) \in Text /\ DOMAIN MaskSql(text, mm) = DOMAIN text
           /\ \A x \in DOMAIN text : MaskSql(text, mm)[x] = MaskNode(mm, text[x])
<1>1. ASSUME NEW t \in OriginalToken PROVE MaskNode(mm, t) \in Token
  <2>1. ASSUME NEW w \in Word PROVE Bare(w) \in Token
    BY DEF Bare, Token
  <2>2. \A w \in Targets(mm.ids) \cup Targets(mm.nums) : w \in Word
    BY MapIs DEF Word
  <2>3. \A ws \in Targets(mm.strs) : ws \in Seq(Word)
    <3>1. \A w \in Placeholder : <<w>> \in Seq(Word)
      BY DEF Word
    <3>. QED  BY <3>1, MapIs
  <2>5. t \in Token
    BY DEF OriginalToken
  <2>6. /\ \A key \in Keys(mm.ids) : Bare(Get(mm.ids, key)) \in Token
        /\ \A key \in Keys(mm.nums) : Bare(Get(mm.nums, key)) \in Token
    BY <2>1, <2>2, GetIsTarget, MapIs
  <2>7. \A key \in Keys(mm.strs) : Quoted(Get(mm.strs, key)) \in Token
    BY <2>3, GetIsTarget, MapIs, QuotedIs
  <2>. QED  BY <2>5, <2>6, <2>7 DEF MaskNode
<1>2. DOMAIN text = 1 .. Len(text) /\ Len(text) \in Nat
  BY DEF Text
<1>3. MaskSql(text, mm) \in [1 .. Len(text) -> Token]
  BY <1>1, <1>2 DEF MaskSql
<1>4. MaskSql(text, mm) \in Seq(Token)
  BY <1>2, <1>3, FunctionIsSequence, Zenon
<1>. QED  BY <1>4 DEF Text, MaskSql

LEMMA TextComesBack ==
    ASSUME NEW mm \in GoodMap, NEW text \in Text, \A x \in DOMAIN text : text[x] \in OriginalToken,
           Unescaped(text)
    PROVE  Unmask(MaskSql(text, mm), mm) = text
<1>. DEFINE sent == MaskSql(text, mm)
            one == SubWords(sent, Swapped(mm.ids))
            two == SubStrings(one, Swapped(mm.strs))
            three == SubWords(two, Swapped(mm.nums))
<1>1. sent \in Text /\ DOMAIN sent = DOMAIN text /\ \A x \in DOMAIN text : sent[x] = MaskNode(mm, text[x])
  BY MaskSqlIs
<1>2. /\ Swapped(mm.ids) \in Seq(WordPair) /\ Swapped(mm.strs) \in Seq(StringPair)
      /\ Swapped(mm.nums) \in Seq(WordPair)
      /\ Apart(Swapped(mm.ids)) /\ Apart(Swapped(mm.strs)) /\ Apart(Swapped(mm.nums))
      /\ Distinct(Swapped(mm.ids)) /\ Distinct(Swapped(mm.strs)) /\ Distinct(Swapped(mm.nums))
  BY SwappedTyped, MapIs, SwappedIs
<1>3. Unmask(sent, mm) = three
  BY DEF Unmask, Substitute
<1>. HIDE DEF sent
<1>4. one = OnePass(sent, Swapped(mm.ids)) /\ one \in Text
  BY <1>1, <1>2, SubWordsIs
<1>. HIDE DEF one
<1>5. two = OneStringPass(one, Swapped(mm.strs)) /\ two \in Text
  BY <1>2, <1>4, SubStringsIs
<1>. HIDE DEF two
<1>6. three = OnePass(two, Swapped(mm.nums)) /\ three \in Text
  BY <1>2, <1>5, SubWordsIs
<1>. HIDE DEF three
<1>7. DOMAIN three = DOMAIN text /\ \A x \in DOMAIN text : three[x] = Back(mm, MaskNode(mm, text[x]))
  BY <1>1, <1>4, <1>5, <1>6 DEF OnePass, OneStringPass, Back
<1>8. \A x \in DOMAIN text : three[x] = text[x]
  BY <1>7, TokenComesBack DEF Unescaped
<1>9. three = text
  BY <1>6, <1>7, <1>8 DEF Text
<1>. QED  BY <1>3, <1>9 DEF sent

LEMMA SentIsOriginal ==
    ASSUME NEW i \in MaskCalls, NEW own \in Real, NEW t \in Sent(i) \cup {Bare(own)}
    PROVE  t \in OriginalToken /\ t \in Token
<1>1. ASSUME NEW w \in Real PROVE Bare(w) \in OriginalToken
  <2>1. w \in Original /\ w \in Word
    BY DEF Word, Original
  <2>2. <<w>> \in Seq(Original) /\ <<w>> \in Seq(Word) /\ Len(<<w>>) = 1
    BY <2>1
  <2>3. <<w>>[1] \in Real \cup Numeral
    OBVIOUS
  <2>. QED  BY <2>2, <2>3 DEF Bare, OriginalToken, Token
<1>2. \A x \in DOMAIN i.sql : i.sql[x] \in OriginalToken
  BY MapIsGood
<1>3. \A x \in DOMAIN i.block : i.block[x].name \in Real
  BY BlockNamesAreReal
<1>4. \A x \in DOMAIN BlockText(i) : BlockText(i)[x] \in OriginalToken
  BY <1>1, <1>3 DEF BlockText
<1>. QED  BY <1>1, <1>2, <1>4 DEF Sent, Range, OriginalToken

(* masking.py:16-18: what the writer composes of the masked names and literals it
   was sent, or of names of its own, is unmasked to what they stood for, for any
   query, schema block and MASK_SCOPE, as long as none of those literals has an
   apostrophe (MaskingReverses is false of one that has). *)
THEOREM MaskingRoundTrips == Spec => []MaskRoundTrip
<1>1. ASSUME NEW i \in MaskCalls, NEW r, IsAnswer(i, r), Unescaped(r.meant) PROVE r.answer = r.meant
  <2>1. PICK own \in Real, said \in Sent(i) : \E a, b \in Sent(i) \cup {Bare(own)} :
            r = Asked(i, said, a, b)
    BY <1>1 DEF IsAnswer
  <2>2. PICK a \in Sent(i) \cup {Bare(own)}, b \in Sent(i) \cup {Bare(own)} : r = Asked(i, said, a, b)
    BY <2>1
  <2>3. a \in OriginalToken /\ b \in OriginalToken /\ a \in Token /\ b \in Token
    BY SentIsOriginal
  <2>4. <<a, b>> \in Text /\ \A x \in DOMAIN <<a, b>> : <<a, b>>[x] \in OriginalToken
    BY <2>3 DEF Text
  <2>5. Unescaped(<<a, b>>)
    BY <1>1, <2>2 DEF Asked
  <2>6. Unmask(MaskSql(<<a, b>>, MapOf(i)), MapOf(i)) = <<a, b>>
    BY <2>4, <2>5, MapIsGood, TextComesBack, Zenon
  <2>. QED  BY <2>2, <2>6 DEF Asked
<1>2. Computed => MaskRoundTrip
  BY <1>1, CallsAreTold DEF Computed, MaskRoundTrip, Done
<1>. QED  BY <1>2, ComputedHolds, PTL

-----------------------------------------------------------------------------
(* The words of a masked text: no key of the map *)
LEMMA MaskTextHides ==
    ASSUME NEW mm \in GoodMap, NEW text \in Text
    PROVE  /\ MaskText(text, mm) \in Text
           /\ WordsOf(MaskText(text, mm)) \cap Keys(mm.ids) = {}
<1>. DEFINE one == SubWords(text, mm.ids)
            two == SubStrings(one, mm.strs)
            three == SubWords(two, mm.nums)
            hidden == Keys(mm.ids)
<1>1. /\ mm.ids \in Seq(WordPair) /\ mm.strs \in Seq(StringPair) /\ mm.nums \in Seq(WordPair)
      /\ Apart(mm.ids) /\ Apart(mm.strs) /\ Apart(mm.nums)
      /\ Distinct(mm.ids) /\ Distinct(mm.strs) /\ Distinct(mm.nums)
  BY MapIs, NothingMeets
<1>2. MaskText(text, mm) = three
  BY DEF MaskText, Substitute
<1>3. one = OnePass(text, mm.ids) /\ one \in Text
  BY <1>1, SubWordsIs
<1>. HIDE DEF one
<1>4. two = OneStringPass(one, mm.strs) /\ two \in Text
  BY <1>1, <1>3, SubStringsIs
<1>. HIDE DEF two
<1>5. three = OnePass(two, mm.nums) /\ three \in Text
  BY <1>1, <1>4, SubWordsIs
<1>. HIDE DEF three
<1>6. hidden \subseteq Original
  BY MapIs DEF Original
<1>7. /\ \A w : Replaced(mm.ids, w) \notin hidden
      /\ \A w : w \notin hidden => Replaced(mm.nums, w) \notin hidden
  BY <1>1, <1>6, GetIsTarget, NothingMeets DEF Replaced
<1>8. ASSUME NEW ws, NEW y \in DOMAIN Replaced(mm.strs, ws), \A z \in DOMAIN ws : ws[z] \notin hidden
      PROVE  Replaced(mm.strs, ws)[y] \notin hidden
  <2>1. CASE ws \in Keys(mm.strs)
    <3>1. Replaced(mm.strs, ws) \in Targets(mm.strs)
      BY <1>1, <2>1, GetIsTarget DEF Replaced
    <3>2. PICK w \in Placeholder : Replaced(mm.strs, ws) = <<w>>
      BY <3>1, MapIs
    <3>3. Replaced(mm.strs, ws)[y] = w
      BY <1>8, <3>2
    <3>. QED  BY <1>6, <3>3, MaskingAssumption
  <2>2. CASE ws \notin Keys(mm.strs)
    BY <1>8, <2>2 DEF Replaced
  <2>. QED  BY <2>1, <2>2
<1>9. \A x \in DOMAIN one : \A y \in DOMAIN one[x].words : one[x].words[y] \notin hidden
  BY <1>3, <1>7 DEF OnePass, PassToken
<1>10. ASSUME NEW x \in DOMAIN two, NEW y \in DOMAIN two[x].words PROVE two[x].words[y] \notin hidden
  <2>1. x \in DOMAIN one /\ two[x] = PassString(one[x], mm.strs)
    BY <1>4 DEF OneStringPass
  <2>2. CASE one[x].quoted
    <3>1. two[x].words = Replaced(mm.strs, one[x].words)
      BY <2>1, <2>2 DEF PassString, Quoted
    <3>. QED  BY <1>8, <1>9, <1>10, <2>1, <3>1
  <2>3. CASE ~one[x].quoted
    <3>1. two[x] = one[x]
      BY <2>1, <2>3 DEF PassString
    <3>. QED  BY <1>9, <1>10, <2>1, <3>1
  <2>. QED  BY <2>2, <2>3
<1>11. \A x \in DOMAIN three : \A y \in DOMAIN three[x].words : three[x].words[y] \notin hidden
  BY <1>5, <1>7, <1>10 DEF OnePass, PassToken
<1>. HIDE DEF hidden
<1>12. WordsOf(three) \cap hidden = {}
  BY <1>11 DEF WordsOf, Range
<1>. QED  BY <1>2, <1>5, <1>12 DEF hidden

LEMMA MaskNodeHides ==
    ASSUME NEW mm \in GoodMap, NEW t \in OriginalToken, Covers(mm, t)
    PROVE  \A y \in DOMAIN MaskNode(mm, t).words : MaskNode(mm, t).words[y] \notin Real
<1>1. t \in Token
  BY DEF OriginalToken
<1>2. \A w \in Placeholder : w \notin Real
  BY MaskingAssumption DEF Original
<1>3. /\ \A key \in Keys(mm.ids) : Get(mm.ids, key) \notin Real
      /\ \A key \in Keys(mm.nums) : Get(mm.nums, key) \notin Real
  BY <1>2, GetIsTarget, MapIs
<1>4. \A v : Bare(v).words = <<v>> /\ \A y \in DOMAIN Bare(v).words : Bare(v).words[y] = v
  BY DEF Bare
<1>5. CASE t.quoted
  <2>. DEFINE value == Value(t.words)
  <2>1. MaskNode(mm, t) = Quoted(Get(mm.strs, value)) /\ value \in Keys(mm.strs)
    BY <1>5 DEF MaskNode, Covers
  <2>. HIDE DEF value
  <2>2. PICK w \in Placeholder : Get(mm.strs, value) = <<w>>
    BY <2>1, GetIsTarget, MapIs
  <2>3. MaskNode(mm, t).words = <<w>>
    BY <2>1, <2>2 DEF Quoted
  <2>. QED  BY <1>2, <2>3
<1>6. CASE ~t.quoted /\ t.words[1] \in Numeral
  <2>1. CASE t.words[1] \in Keys(mm.nums)
    <3>1. MaskNode(mm, t) = Bare(Get(mm.nums, t.words[1]))
      BY <1>6, <2>1 DEF MaskNode, Number
    <3>. QED  BY <1>3, <1>4, <2>1, <3>1
  <2>2. CASE t.words[1] \notin Keys(mm.nums)
    <3>1. MaskNode(mm, t) = t
      BY <1>6, <2>2 DEF MaskNode, Number
    <3>2. t = Bare(t.words[1]) /\ t.words[1] \notin Real
      BY <1>1, <1>6, TokenIsBare, MaskingAssumption
    <3>. QED  BY <1>4, <3>1, <3>2
  <2>. QED  BY <2>1, <2>2
<1>7. CASE ~t.quoted /\ t.words[1] \notin Numeral
  <2>1. t.words[1] \in Keys(mm.ids) /\ MaskNode(mm, t) = Bare(Get(mm.ids, t.words[1]))
    BY <1>7 DEF MaskNode, Number, Name, Covers
  <2>. QED  BY <1>3, <1>4, <2>1
<1>. QED  BY <1>5, <1>6, <1>7

LEMMA ConcatenationIs ==
    ASSUME NEW s \in Text, NEW t \in Text
    PROVE  s \o t \in Text /\ WordsOf(s \o t) \subseteq WordsOf(s) \cup WordsOf(t)
<1>1. /\ s \o t \in Seq(Token) /\ Len(s) \in Nat /\ Len(t) \in Nat
      /\ DOMAIN s = 1 .. Len(s) /\ DOMAIN t = 1 .. Len(t) /\ DOMAIN (s \o t) = 1 .. Len(s) + Len(t)
      /\ \A x \in 1 .. Len(s) + Len(t) :
             (s \o t)[x] = IF x <= Len(s) THEN s[x] ELSE t[x - Len(s)]
  BY DEF Text
<1>2. ASSUME NEW x \in 1 .. Len(s) + Len(t)
      PROVE  (\E k \in DOMAIN s : (s \o t)[x] = s[k]) \/ (\E k \in DOMAIN t : (s \o t)[x] = t[k])
  <2>1. CASE x <= Len(s)
    BY <1>1, <2>1
  <2>2. CASE ~(x <= Len(s))
    <3>1. x - Len(s) \in DOMAIN t
      BY <1>1, <2>2
    <3>. QED  BY <1>1, <2>2, <3>1
  <2>. QED  BY <2>1, <2>2
<1>3. WordsOf(s \o t) \subseteq WordsOf(s) \cup WordsOf(t)
  <2>. SUFFICES ASSUME NEW x \in DOMAIN (s \o t), NEW w \in Range((s \o t)[x].words)
                PROVE  w \in WordsOf(s) \cup WordsOf(t)
    BY DEF WordsOf
  <2>. QED  BY <1>1, <1>2 DEF WordsOf
<1>. QED  BY <1>1, <1>3 DEF Text

(* masking.py:123-134: no name of the query, or of a line of the schema block that
   has bare identifiers only, reaches the writer's provider, whatever the query,
   the block and what a strategy quotes. *)
THEOREM PayloadsCarryNoName == Spec => []PayloadCarriesNoName
<1>1. ASSUME NEW i \in MaskCalls, NEW r, IsAnswer(i, r)
      PROVE  WordsOf(r.payload) \cap (NamesIn(i.sql) \cup Listed(i.block)) = {}
  <2>. DEFINE mm == MapOf(i)
  <2>1. PICK own \in Real, said \in Sent(i) : \E a, b \in Sent(i) \cup {Bare(own)} :
            r = Asked(i, said, a, b)
    BY <1>1 DEF IsAnswer
  <2>. DEFINE sql == MaskSql(i.sql, mm)
              block == MaskText(BlockText(i), mm)
              strategy == MaskText(<<said>>, mm)
  <2>2. r.payload = sql \o block \o strategy
    BY <2>1 DEF Asked
  <2>3. /\ mm \in GoodMap
        /\ \A x \in DOMAIN i.sql : i.sql[x] \in OriginalToken /\ Covers(mm, i.sql[x])
        /\ \A x \in DOMAIN i.block : i.block[x].listed => i.block[x].name \in Keys(mm.ids)
    BY MapIsGood
  <2>. HIDE DEF mm
  <2>4. i.sql \in Text /\ i.block \in Seq(Entry) /\ \A x \in DOMAIN i.block : i.block[x].name \in Real
    <3>1. i.sql \in Text /\ i.block \in Seq(Entry)
      BY MaskAssumption DEF Text
    <3>. QED  BY <3>1, BlockNamesAreReal
  <2>5. BlockText(i) \in Text /\ <<said>> \in Text
    <3>1. \A w \in Real : Bare(w) \in Token
      BY DEF Bare, Token, Word, Original
    <3>2. BlockText(i) \in [1 .. Len(i.block) -> Token] /\ Len(i.block) \in Nat
      BY <2>4, <3>1 DEF BlockText
    <3>3. BlockText(i) \in Text
      BY <3>2, FunctionIsSequence, Zenon DEF Text
    <3>4. said \in Token
      BY SentIsOriginal
    <3>. QED  BY <3>3, <3>4 DEF Text
  <2>6. sql \in Text /\ WordsOf(sql) \cap Real = {}
    <3>1. /\ sql \in Text /\ DOMAIN sql = DOMAIN i.sql
          /\ \A x \in DOMAIN i.sql : sql[x] = MaskNode(mm, i.sql[x])
      BY <2>3, <2>4, MaskSqlIs
    <3>. HIDE DEF sql
    <3>2. \A x \in DOMAIN sql : \A y \in DOMAIN sql[x].words : sql[x].words[y] \notin Real
      BY <2>3, <3>1, MaskNodeHides
    <3>. QED  BY <3>1, <3>2 DEF WordsOf, Range
  <2>7. /\ block \in Text /\ WordsOf(block) \cap Keys(mm.ids) = {}
        /\ strategy \in Text /\ WordsOf(strategy) \cap Keys(mm.ids) = {}
    BY <2>3, <2>5, MaskTextHides
  <2>8. Keys(mm.ids) \subseteq Real
    BY <2>3, MapIs
  <2>. HIDE DEF sql, block, strategy
  <2>9. WordsOf(r.payload) \subseteq WordsOf(sql) \cup WordsOf(block) \cup WordsOf(strategy)
    BY <2>2, <2>6, <2>7, ConcatenationIs
  <2>10. NamesIn(i.sql) \cup Listed(i.block) \subseteq Keys(mm.ids)
    BY <2>3 DEF NamesIn, Listed, Range, Covers
  <2>. QED  BY <2>6, <2>7, <2>8, <2>9, <2>10
<1>2. Computed => PayloadCarriesNoName
  BY <1>1, CallsAreTold DEF Computed, PayloadCarriesNoName, Done
<1>. QED  BY <1>2, ComputedHolds, PTL
=============================================================================
