---------------------------- MODULE MCAlgorithms -----------------------------
(* The inputs of a run of Algorithms. *)
EXTENDS Algorithms, TLC

CONSTANTS store, city, title, music, rock, seven    \* words

(* Correlated queries: an outer row, at most two inner rows, keys that match, *)
(* miss or are NULL.                                                          *)
Keyed == {1, 2, Null}
InnerRow == [k : Keyed, v : {1, 2}, x : BOOLEAN]
InnerTables == {{a, b} : a, b \in InnerRow} \cup {{}}
OuterRow == [k : Keyed, c : {0, 1, 2}, f : BOOLEAN]
MCCorrelatedCalls == [of : {"decorrelate"}, q : Correlated, o : OuterRow, rows : InnerTables]

(* Repeated aggregates: three buckets, the last of any kind, over up to two rows *)
(* in any dialect.                                                               *)
BucketRow(i) == [id : {i}, v : {1, Null}, p : SUBSET {1, 2}]
BucketTables == {{}} \cup {{a} : a \in BucketRow(1)} \cup {{a, b} : a \in BucketRow(1), b \in BucketRow(2)}
OnTable == {b \in Bucket : b.table = "t" /\ ~b.aliased}
Buckets == {<<a, b, c>> : a \in {x \in OnTable : x.pred = 1}, b \in OnTable, c \in Bucket}
MCRepeatedCalls ==
    [of : {"consolidate"}, q : Buckets, t : BucketTables, dialect : {"postgres", "mysql"}]

(* Up to three tables joined in every way, with conjuncts over columns of one *)
(* of them, of two, and of none, and a subquery over a table of its own.       *)
MCOwners == [ax |-> {"a"}, bx |-> {"b"}, cx |-> {"c"}, shared |-> {"a", "b"}, alien |-> {"d"},
             common |-> {"a", "d"}]
Col(name) == [name |-> name, table |-> NoTable]
Eq(l, r) == [left |-> Col(l), right |-> Col(r)]
Within(name) == [only |-> Col(name), of |-> [name |-> "d", alias |-> NoTable]]
Joining == {Eq("ax", "bx"), Eq("bx", "cx"), Eq("ax", "cx"), Eq("shared", "cx"), Eq("alien", "ax"),
            [only |-> Col("ax")]}
It(name, how, on) == [name |-> name, alias |-> NoTable, how |-> how, on |-> on]
Later(name) == {It(name, "comma", {}), It(name, "derived", {}), It(name, "on", {Eq("ax", "bx")})}
Froms == {<<It("a", "first", {}), b>> : b \in Later("b")}
         \cup {<<It("a", "first", {}), b, c>> : b \in Later("b"), c \in Later("c")}
         \cup {<<It("a", "first", {}), c, b>> : b \in Later("b"), c \in Later("c")}
Calls(from, wheres) == [of : {"normalize"}, q : [from : from, where : wheres]]
(* The first table under an alias, and a column of the subquery that a has too *)
MCJoinCalls ==
    Calls(Froms, SUBSET (Joining \cup {Within("alien")}))
    \cup Calls({[f EXCEPT ![1].alias = "x"] : f \in Froms}, SUBSET Joining)
    \cup Calls(Froms, {w \cup {Within("common")} : w \in SUBSET Joining})

(* Queries of up to three tokens, with a literal that has a name in it, and one *)
(* with an apostrophe; a schema block of two lines, the second of which may not    *)
(* be of bare identifiers.                                                         *)
Tokens == {Bare(store), Bare(title), Bare(seven), Quoted(<<music, store>>), Quoted(<<rock, Escaped>>)}
Line(w, listed) == [name |-> w, listed |-> listed]
Blocks == {<<>>, <<Line(city, TRUE)>>}
          \cup {<<Line(store, TRUE), Line(title, TRUE), Line(city, b)>> : b \in BOOLEAN}
MCMaskCalls ==
    [of : {"mask"}, sql : UNION {[1 .. n -> Tokens] : n \in 1 .. 3}, tables : {{store}},
     block : Blocks, scope : {"id_str", "all"}]

(* Batches of up to three clusters over three hints, two of them paraphrases. *)
MCParaphrases == {{"h1", "h2"}}
Clusters == {[slug |-> s, passes |-> TRUE, teachable |-> TRUE, hint |-> h] :
                 s \in SlugName, h \in Hint \cup {NoHint}}
            \cup {[slug |-> "s1", passes |-> p, teachable |-> ~p, hint |-> "h1"] : p \in BOOLEAN}
Files == {<<>>, [s1 |-> "h1"], [s1 |-> "h1", s2 |-> "h3"], [s1 |-> "h1", s2 |-> "h2"]}
Ablations == {[on |-> FALSE, hints |-> {}], [on |-> TRUE, hints |-> {}], [on |-> TRUE, hints |-> {"h2"}]}
MCBatchCalls ==
    [of : {"feed"}, clusters : UNION {[1 .. n -> Clusters] : n \in 0 .. 3}, file : Files,
     ablation : Ablations, dryRun : BOOLEAN]
=============================================================================
