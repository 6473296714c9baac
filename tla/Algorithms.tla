------------------------------ MODULE Algorithms ------------------------------
(***************************************************************************)
(* One call of each of the program's pure algorithms: the input is drawn   *)
(* from a set of them, the call computes its result, and the properties    *)
(* compare the two.                                                        *)
(***************************************************************************)
EXTENDS QueryTransforms, ImplicitJoins, Masking, RuleBatch

CONSTANTS
    CorrelatedCalls, RepeatedCalls, JoinCalls, MaskCalls, BatchCalls    \* the inputs

(* What each algorithm is called with: the query, the row and the inner table of *)
(* a decorrelation; the buckets and their table; a FROM whose items but those    *)
(* joined ON have no condition; the tokens of a query, those of its names that   *)
(* are tables, the names of the schema block, MASK_SCOPE; the clusters, the rule *)
(* file, the one an ablation sets, and whether it is a dry run.                  *)
ASSUME CorrelatedAssumption ==
    \A i \in CorrelatedCalls : i.of = "decorrelate" /\ i.q \in Correlated
ASSUME RepeatedAssumption ==
    \A i \in RepeatedCalls : i.of = "consolidate" /\ i.q \in Seq(Bucket) /\ IsTable(i.t)
ASSUME JoinAssumption ==
    \A i \in JoinCalls :
        /\ i.of = "normalize"
        /\ i.q.from \in Seq(Item) /\ i.q.from # <<>> /\ i.q.where \subseteq Conjunct
        /\ \A n \in DOMAIN i.q.from : i.q.from[n].how # "on" => i.q.from[n].on = {}
ASSUME MaskAssumption ==
    \A i \in MaskCalls :
        /\ i.of = "mask"
        /\ i.sql \in Seq(Token) /\ WordsOf(i.sql) \subseteq Original
        /\ \A n \in DOMAIN i.sql : ~i.sql[n].quoted => i.sql[n].words[1] \in Real \cup Numeral
        /\ i.block \in Seq(Entry)
ASSUME BatchAssumption ==
    \A i \in BatchCalls :
        /\ i.of = "feed" /\ i.dryRun \in BOOLEAN
        /\ i.clusters \in Seq(Cluster) /\ i.file \in Rules

VARIABLES input, result
vars == <<input, result>>
None == [of |-> "nothing"]
Done(algorithm) == input.of = algorithm /\ result # None

Init ==
    /\ result = None
    /\ input \in CorrelatedCalls \cup RepeatedCalls \cup JoinCalls \cup MaskCalls \cup BatchCalls

OptimizeCorrelated ==
    /\ input.of = "decorrelate" /\ result = None
    /\ result' = [applied |-> Decorrelatable(input.q),
                  count |-> DecorrelatedResult(input.q, input.o, input.rows)]
    /\ UNCHANGED input

TablesOf(i) == [n \in {"t", "u"} |-> IF n = "t" THEN i.t ELSE {}]
OptimizeRepeated ==
    /\ input.of = "consolidate" /\ result = None
    /\ result' = [applied |-> Consolidatable(input.q),
                  runs |-> Runs(input.dialect, input.q),
                  row |-> ConsolidatedRow(input.dialect, input.q, TablesOf(input))]
    /\ UNCHANGED input

Normalize ==
    /\ input.of = "normalize" /\ result = None
    /\ result' = NormalizeImplicitJoins(input.q)
    /\ UNCHANGED input

(* The writer answers with any two of the tokens it was sent, or a name of its *)
(* own, and a strategy may mention any one of the originals.                   *)
BlockText(i) == [n \in DOMAIN i.block |-> Bare(i.block[n].name)]
Sent(i) == Range(i.sql) \cup Range(BlockText(i))
MapOf(i) == ExtendMaskMap(BuildMaskMap(i.sql, i.tables, i.scope), i.block)
Ask ==
    /\ input.of = "mask" /\ result = None
    /\ \E own \in Real, said \in Sent(input) :
       \E a, b \in Sent(input) \cup {Bare(own)} :
           LET mm == MapOf(input)
               reply == MaskSql(<<a, b>>, mm) IN
           result' = [payload |-> MaskSql(input.sql, mm)
                                  \o MaskText(BlockText(input), mm)
                                  \o MaskText(<<said>>, mm),
                      meant |-> <<a, b>>,
                      answer |-> Unmask(reply, mm)]
    /\ UNCHANGED input

Batch ==
    /\ input.of = "feed" /\ result = None
    /\ result' = AutoFeedBatch(input.clusters, input.file, input.ablation, input.dryRun)
    /\ UNCHANGED input

Next == OptimizeCorrelated \/ OptimizeRepeated \/ Normalize \/ Ask \/ Batch
Spec == Init /\ [][Next]_vars

-----------------------------------------------------------------------------
(* sql_rewriter.py:301-304: a decorrelated query returns an outer row exactly   *)
(* as often as the original, whatever keys are missing or NULL, and no row      *)
(* twice: where the aggregate of nothing is NULL and the query is of the        *)
(* docstring's shape.                                                           *)
PlainDecorrelationPreserves ==
    Done("decorrelate") /\ result.applied /\ Plain(input.q) =>
        result.count = CorrelatedResult(input.q, input.o, input.rows)

(* The docstring itself, sql_rewriter.py:302-305: "a key with no inner rows       *)
(* yields NULL", for "any query of this shape".  Not so for COUNT, which is 0.    *)
DecorrelationPreserves ==
    Done("decorrelate") /\ result.applied /\ OfTheShape(input.q) =>
        result.count = CorrelatedResult(input.q, input.o, input.rows)

(* A consolidated query that is not refused has the values of the subqueries it *)
(* replaces, in either dialect, over empty tables and NULL columns.             *)
ConsolidationPreserves ==
    Done("consolidate") /\ result.applied /\ result.runs =>
        result.row = RepeatedRow(input.q, TablesOf(input))

(* mysql.py:38 "Same semantics as the PostgreSQL FILTER form": what PostgreSQL *)
(* takes MySQL takes.  Not so: COUNT(DISTINCT v).                              *)
DialectsAgree ==
    Done("consolidate") /\ result.applied /\ input.dialect = "mysql" =>
        result.runs = Runs("postgres", input.q)

(* sql_rewriter.py:350-351 "semantics preserved: `agg(x) FILTER (WHERE p)`      *)
(* equals `(SELECT agg(x) ... WHERE p)`": on PostgreSQL the consolidated query    *)
(* runs.  Not so when a bucket's table has an alias.                              *)
ConsolidationRuns ==
    Done("consolidate") /\ result.applied /\ input.dialect = "postgres" => result.runs

(* The structural check tells what the two transforms break from what they do    *)
(* not: it has something to say of a decorrelation exactly when a predicate was   *)
(* dropped (sql_rewriter.py:325-328), and of a consolidation exactly when an      *)
(* alias was lost; the precheck has nothing against a decorrelation.              *)
DropsAPredicate(q) == q.first \/ q.inner # "key"
StructuralCheckIsExact ==
    /\ Done("decorrelate") /\ result.applied =>
           LET o == CorrelatedShape(input.q)
               r == DecorrelatedShape(input.q)
           IN /\ (StructuralErrors(o, r) # {}) = DropsAPredicate(input.q)
              /\ Precheck(o, r)
    /\ Done("consolidate") /\ result.applied =>
           (StructuralErrors(RepeatedShape(input.q), ConsolidatedShape(input.q)) # {})
               = LosesAnAlias(input.q)

(* A query of comma joins keeps its tables and its conjuncts, wherever a        *)
(* conjunct ends up, each of whose columns is still of the same table, and every  *)
(* ON names what is joined by then: where no table has an alias and no subquery a *)
(* column that an outer table has.                                                *)
CommaJoined(q) == \A n \in DOMAIN q.from : q.from[n].how \in {"first", "comma"}
NormalizeKeepsThePredicates ==
    Done("normalize") /\ CommaJoined(input.q) /\ Unaliased(input.q) /\ SubqueriesApart(input.q) =>
        SameMeaning(input.q, result) /\ InScope(result)

(* sql.py:357-358: filters' columns are qualified "so parse_components can       *)
(* classify them by table alias".  Not so when the table has an alias: the filter  *)
(* gets the table's name, which is nobody's.                                       *)
FiltersAreClassified ==
    Done("normalize") /\ CommaJoined(input.q) =>
        \A c \in {d \in result.where : ~IsEquality(d) /\ ~Nested(d)} :
            c.only.table # NoTable => Denotes(result, c, c.only) # {}

(* sql.py:240 "Convert implicit comma-join syntax to explicit INNER JOINs", and    *)
(* no more.  Not so when a subquery has a column of the same name as an outer      *)
(* table's: it becomes the outer table's.                                          *)
OnlyJoinsAreConverted ==
    Done("normalize") /\ CommaJoined(input.q) /\ Unaliased(input.q) =>
        SameMeaning(input.q, result)

(* What the writer composes of what it was sent comes back as the names and    *)
(* literals it stood for, and a name of its own untouched (masking.py:16-18),  *)
(* when no literal in it has an apostrophe.                                    *)
Unescaped(text) == \A n \in DOMAIN text : Value(text[n].words) = text[n].words
MaskRoundTrip == Done("mask") /\ Unescaped(result.meant) => result.answer = result.meant

(* masking.py:16-17: the placeholders "survive the coder's transformations and *)
(* reverse cleanly".  Not so for 'O''Brien', which comes back as 'O'Brien'.    *)
MaskingReverses == Done("mask") => result.answer = result.meant

(* No name of the query, or of a line of the schema block that has bare         *)
(* identifiers only, is in the payload: not in the SQL, the block, or a         *)
(* strategy that quotes a literal with a name in it.                            *)
Listed(block) == {e.name : e \in {b \in Range(block) : b.listed}}
NamesIn(text) == {t.words[1] : t \in {u \in Range(text) : Name(u)}}
PayloadCarriesNoName ==
    Done("mask") => WordsOf(result.payload) \cap (NamesIn(input.sql) \cup Listed(input.block)) = {}

(* A batch accepts no two paraphrases, a dry run included, and no hint that    *)
(* leaks the benchmark; it leaves no two paraphrases in a rule file that had   *)
(* none, and with an ablation's rule file accepts none of that file's either   *)
(* (two clusters may share a slug, so that a rule is overwritten and accepted  *)
(* again).                                                                     *)
NoParaphrasesIn(file) == \A n, m \in DOMAIN file : n # m => ~IsDuplicate(file[n], {file[m]})
BatchHasNoParaphrases ==
    Done("feed") =>
        LET added == result.report IN
        /\ \A i, j \in DOMAIN added : i # j => ~IsDuplicate(added[i].hint, {added[j].hint})
        /\ \A i \in DOMAIN added : added[i].hint \notin Leaking
        /\ IF input.ablation.on
           THEN \A i \in DOMAIN added : ~IsDuplicate(added[i].hint, input.ablation.hints)
           ELSE NoParaphrasesIn(input.file) => NoParaphrasesIn(result.file)
=============================================================================
