-------------------------- MODULE MCSharedResources --------------------------
(***************************************************************************)
(* SharedResources for TLC.  One table with a foreign key, two candidates: *)
(* an index that starts with the foreign key's column, so that MySQL drops *)
(* its own index for it and cannot drop it again, and one on another       *)
(* column.  A migration may add an index that covers the second.           *)
(***************************************************************************)
EXTENDS SharedResources, TLC

Symmetry == Permutations(Request) \cup Permutations(Query)

MCColumn == {"fk", "x"}
Ix(n, c) == [name |-> n, cols |-> c]
FkIndex == Ix("fk_auto", <<"fk">>)
MCOwn == {FkIndex}
MCMigrated == {Ix("dba", <<"x", "fk">>)}
MCCandidate == {[cols |-> <<"fk", "x">>, btree |-> TRUE], [cols |-> <<"x">>, btree |-> TRUE]}
MCSimName == [c \in MCCandidate |-> IF c.cols = <<"x">> THEN "sim_x" ELSE "sim_fk_x"]
MCRescueName == [c \in MCCandidate |-> IF c.cols = <<"x">> THEN "rescue_x" ELSE "rescue_fk_x"]
MCSimNames == {"sim_x", "sim_fk_x"}
MCIndexName == {"fk_auto", "dba", "sim_x", "sim_fk_x", "rescue_x", "rescue_fk_x"}
MCForeignKeys == {<<"fk">>}

(* What the theorems about MySQL ask of the names *)
ASSUME NamesAssumption == NamesIdentify

(* A campaign, which waits for every answer: either engine, executed or       *)
(* estimated, with and without failures, and an operator at work; and two     *)
(* requests at a time, without failures or operator, to bound the states.     *)
S(engine, executed, capacity, faults, operator) ==
  [engine |-> engine, executed |-> executed, capacity |-> capacity, faults |-> faults,
   operator |-> operator]
AloneSettings == {S(e, x, 1, f, TRUE) : e \in {"mysql", "postgres"}, x \in BOOLEAN, f \in BOOLEAN}
PairSettings == {S("mysql", FALSE, 2, FALSE, FALSE), S("postgres", TRUE, 2, FALSE, FALSE)}
MCSettings == AloneSettings \cup PairSettings
=============================================================================
