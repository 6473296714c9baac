---------------------------- MODULE ImplicitJoins ----------------------------
(***************************************************************************)
(* normalize_implicit_joins of backends/relational/sql.py: comma joins     *)
(* become explicit ones, before a query is shown to a model or taken       *)
(* apart.  A query is the sequence of its FROM items and the conjuncts of  *)
(* its WHERE.  A conjunct is the pair of columns it equates, or one column *)
(* compared with a value, in the query itself or in a subquery over one    *)
(* table.                                                                  *)
(***************************************************************************)
EXTENDS Naturals, Sequences, FiniteSets

CONSTANTS
    Owners                 \* Owners[column]: the tables that have it (information_schema)

NoTable == ""
(* table: the qualifier, if it has one *)
Column == [name : DOMAIN Owners, table : STRING]
(* of: the FROM of the subquery the comparison is made in *)
Inner == [name : STRING, alias : STRING]
Conjunct == [left : Column, right : Column] \cup [only : Column] \cup [only : Column, of : Inner]
IsEquality(c) == "left" \in DOMAIN c
Nested(c) == "of" \in DOMAIN c
(* how: the first item, one after a comma, one joined ON conjuncts, or a derived *)
(* table, whose columns nobody looks up                                          *)
Item == [name : STRING, alias : STRING, how : {"first", "comma", "on", "derived"},
         on : SUBSET Conjunct]
Joined == [from : Seq(Item), where : SUBSET Conjunct]

(* col_to_table: a column of two tables is ambiguous, and ignored *)
NamesOf(q) == {q.from[i].name : i \in {j \in DOMAIN q.from : q.from[j].how # "derived"}}
OwnersIn(q, column) == Owners[column.name] \cap NamesOf(q)
TableOf(q, column) ==
    IF Cardinality(OwnersIn(q, column)) = 1 THEN CHOOSE t \in OwnersIn(q, column) : TRUE ELSE NoTable

(* _qualify, _qualify_node: an unqualified column gets its table's name, whatever *)
(* alias the table has, and whatever subquery the column is in.                   *)
Qualify(q, column) ==
    IF column.table = NoTable THEN [column EXCEPT !.table = TableOf(q, column)] ELSE column
QualifyNode(q, c) ==
    IF IsEquality(c) THEN [left |-> Qualify(q, c.left), right |-> Qualify(q, c.right)]
    ELSE [c EXCEPT !.only = Qualify(q, @)]

(* The join graph: equalities of two unqualified columns of two known tables *)
Links(q, c) ==
    /\ IsEquality(c) /\ c.left.table = NoTable /\ c.right.table = NoTable
    /\ LET l == TableOf(q, c.left) r == TableOf(q, c.right) IN
       l # NoTable /\ r # NoTable /\ l # r
Ends(q, c) == {TableOf(q, c.left), TableOf(q, c.right)}
JoinGraph(q) == {c \in q.where : Links(q, c)}

(* The items left unchanged: no comma, no WHERE, or nothing to join on *)
Untouched(q) == (\A i \in DOMAIN q.from : q.from[i].how \notin {"comma", "derived"}) \/ JoinGraph(q) = {}

(* Every item after the first takes what links it to those before it, in place of *)
(* its own ON; a derived table is no exp.Table, and is not rebuilt.                *)
Start(q) == [joined |-> {q.from[1].name}, items |-> <<q.from[1]>>, graph |-> JoinGraph(q)]
LinksTo(q, acc, item, t) == {c \in acc.graph : Ends(q, c) = {item.name, t}}
OnConds(q, acc, item) == UNION {LinksTo(q, acc, item, t) : t \in acc.joined}
JoinedOn(q, item, conds) ==
    IF conds = {} THEN item ELSE [item EXCEPT !.how = "on", !.on = {QualifyNode(q, c) : c \in conds}]
(* mutant: of the conjuncts popped from the graph, those of one table are kept *)
RebuildWithOne(q, acc, item) ==
    LET conds == OnConds(q, acc, item)
        last == {t \in acc.joined : LinksTo(q, acc, item, t) # {}}
    IN IF item.how = "derived" THEN acc
       ELSE [joined |-> acc.joined \cup {item.name},
             items |-> Append(acc.items, JoinedOn(q, item,
                           IF last = {} THEN {} ELSE LinksTo(q, acc, item, CHOOSE t \in last : TRUE))),
             graph |-> acc.graph \ conds]
Rebuild(q, acc, item) ==
    LET conds == OnConds(q, acc, item) IN
    IF item.how = "derived" THEN acc
    ELSE [joined |-> acc.joined \cup {item.name},
          items |-> Append(acc.items, JoinedOn(q, item, conds)),
          graph |-> acc.graph \ conds]

Rebuilding(q) ==
    LET acc[n \in 0 .. Len(q.from) - 1] ==
            IF n = 0 THEN Start(q) ELSE Rebuild(q, acc[n - 1], q.from[n + 1])
    IN acc

NormalizeImplicitJoins(q) ==
    IF Untouched(q) THEN q
    ELSE LET done == Rebuilding(q)[Len(q.from) - 1] IN
         [from |-> done.items,
          where |-> {QualifyNode(q, c) : c \in done.graph \cup (q.where \ JoinGraph(q))}]

-----------------------------------------------------------------------------
(* What a query means, as far as inner joins go: its tables, in their order, and  *)
(* its conjuncts with each column bound to the items it may be of, 0 for the one  *)
(* of its own subquery, whose scope comes first.                                  *)
ScopeName(item) == IF item.alias # NoTable THEN item.alias ELSE item.name
Of(item, column) ==
    IF column.table = NoTable THEN item.name \in Owners[column.name]
    ELSE column.table = ScopeName(item)
Denotes(q, c, column) ==
    IF Nested(c) /\ Of(c.of, column) THEN {0} ELSE {i \in DOMAIN q.from : Of(q.from[i], column)}
Bound(q, c, column) == [column EXCEPT !.table = Denotes(q, c, column)]
Meant(q, c) ==
    IF IsEquality(c) THEN [left |-> Bound(q, c, c.left), right |-> Bound(q, c, c.right)]
    ELSE [c EXCEPT !.only = Bound(q, c, @)]
Conjuncts(q) == q.where \cup UNION {q.from[i].on : i \in DOMAIN q.from}
Sources(q) == [i \in DOMAIN q.from |-> [name |-> q.from[i].name, alias |-> q.from[i].alias]]
SameMeaning(q, r) ==
    /\ Sources(q) = Sources(r)
    /\ {Meant(q, c) : c \in Conjuncts(q)} = {Meant(r, c) : c \in Conjuncts(r)}

(* ON may name only what has been joined. *)
InScope(q) ==
    \A i \in DOMAIN q.from : \A c \in q.from[i].on : \A column \in {c.left, c.right} :
        \E j \in Denotes(q, c, column) : j <= i

(* No table has an alias, and a subquery no column that gets an outer table's name. *)
Unaliased(q) == \A i \in DOMAIN q.from : q.from[i].alias = NoTable
SubqueriesApart(q) == \A c \in q.where : Nested(c) => QualifyNode(q, c) = c
=============================================================================
