--------------------------- MODULE IndexSimulation ---------------------------
(***************************************************************************)
(* What index_simulation_validator does for each index a model proposes:   *)
(* the catalog gate and the simulation of the two engines.  MySQL commits  *)
(* every CREATE and DROP INDEX, so its simulation goes through a real index *)
(* that every session sees.  PostgreSQL works inside a transaction it       *)
(* rolls back, or asks the hypothetical-index extension.                   *)
(***************************************************************************)
EXTENDS Database

CONSTANTS
    Candidate,        \* the indexes a model proposes
    SimName,          \* SimName[c]: the name of its temporary index
    RescueName,       \* RescueName[c]: the name of the index that replaces it
    SimNames,         \* the names LIKE '\_athena\_sim\_%'
    ForeignKeys,      \* the column lists that need an index for a foreign key
    ImplicitIndexes   \* the indexes MySQL made itself for a foreign key

ASSUME CandidateAssumption ==
    /\ Candidate \subseteq [cols : Seq(Column), btree : BOOLEAN]
    /\ SimName \in [Candidate -> SimNames] /\ SimNames \subseteq IndexName
    /\ RescueName \in [Candidate -> IndexName \ SimNames]
    /\ \A i \in OwnIndexes \cup MigratedIndexes : i.name \notin SimNames
    /\ ForeignKeys \subseteq Seq(Column) /\ ImplicitIndexes \subseteq OwnIndexes

(* The names of the indexes that replace a temporary one say what they are on, *)
(* and no index that was there before or is migrated has another meaning for   *)
(* one of them.  (The code makes a name of the table and the columns and cuts  *)
(* it at 64 characters, mysql.py:528-530 and 620.)                              *)
NamesIdentify ==
    \A c \in Candidate :
        /\ \A d \in Candidate : RescueName[c] = RescueName[d] => c.cols = d.cols
        /\ \A i \in OwnIndexes \cup MigratedIndexes : i.name = RescueName[c] => i.cols = c.cols

VARIABLE sim   \* sim[r]: the simulation request r is in

NoSim == [phase |-> "none", cand |-> None, before |-> {}, with |-> {}, base |-> {},
          timed |-> FALSE, dropped |-> "clean", report |-> "none"]

SimInit == sim = [r \in Request |-> NoSim]

Phases == {"none", "gate", "explain", "sweep", "create", "measure", "drop", "rescue",
           "baseline", "hypothetical", "pg_baseline", "pg_measure"}

Prefix(cols, i) == Len(cols) <= Len(i.cols) /\ SubSeq(i.cols, 1, Len(cols)) = cols

SimIndex(c) == [name |-> SimName[c], cols |-> c.cols]
RescueIndex(c) == [name |-> RescueName[c], cols |-> c.cols]

IsSim(i) == i.name \in SimNames

Taken(name) == name \in Fingerprint

(* MySQL refuses to drop the last index a foreign key can use. *)
NeededByForeignKey(i) ==
    \E fk \in ForeignKeys : Prefix(fk, i) /\ \A j \in indexes \ {i} : ~Prefix(fk, j)

(* ... and drops the one it made itself once another can serve. *)
Added(i) == {j \in indexes : j \in ImplicitIndexes => ~Prefix(j.cols, i)} \cup {i}

(* Simulation r does its phase from and goes on as s. *)
Phase(r, from, s) ==
    /\ sim[r].phase = from
    /\ sim' = [sim EXCEPT ![r] = s]
    /\ UNCHANGED <<columns, setting>>

Then(r, phase) == [sim[r] EXCEPT !.phase = phase]
Report(r, report) == [sim[r] EXCEPT !.phase = "none", !.report = report]

-----------------------------------------------------------------------------
(* The validator: an index that starts with the columns and has the type as   *)
(* the model spelled it makes the candidate a duplicate.                      *)

Covered(c) == c.btree /\ \E i \in indexes : Prefix(c.cols, i)

Gate(r, c) ==
    /\ Phase(r, "none", [NoSim EXCEPT !.cand = c,
                                      !.phase = IF Covered(c) THEN "none" ELSE "explain",
                                      !.report = IF Covered(c) THEN "skipped" ELSE "none"])
    /\ UNCHANGED indexes

(* The cost of the query and of the workload, before anything is created. *)
ExplainOriginal(r) ==
    /\ Phase(r, "explain",
             [sim[r] EXCEPT !.before = indexes,
                            !.phase = IF setting.engine = "mysql" THEN "sweep"
                                      ELSE IF setting.executed THEN "pg_baseline"
                                      ELSE "hypothetical"])
    /\ UNCHANGED indexes

-----------------------------------------------------------------------------
(* MySQL *)

Sweep(r) ==
    /\ Phase(r, "sweep", Then(r, "create"))
    /\ indexes' = {i \in indexes : ~IsSim(i) \/ NeededByForeignKey(i)}

Create(r) ==
    LET i == SimIndex(sim[r].cand) IN
    \/ /\ ~Taken(i.name)
       /\ Phase(r, "create", Then(r, "measure"))
       /\ indexes' = Added(i)
    \/ /\ Taken(i.name) \/ setting.faults
       /\ Phase(r, "create", Report(r, "error"))
       /\ UNCHANGED indexes

(* A warm-up and three executions under a budget; a time that cannot be taken *)
(* is None.                                                                   *)
MeasuredExec == {FALSE, setting.executed}

(* EXPLAIN, the workload, and the execution when it is asked for; an exception *)
(* is kept for after the DROP.                                                 *)
Measure(r) ==
    /\ \/ \E timed \in MeasuredExec :
             Phase(r, "measure", [Then(r, "drop") EXCEPT !.with = indexes, !.timed = timed])
       \/ Phase(r, "measure", [Then(r, "drop") EXCEPT !.report = "error"])
    /\ UNCHANGED indexes

AfterDrop(r, dropped) ==
    LET s == [sim[r] EXCEPT !.dropped = dropped] IN
    IF s.report = "error" THEN [s EXCEPT !.phase = "none"]
    ELSE IF s.timed THEN [s EXCEPT !.phase = "baseline"]
    ELSE [s EXCEPT !.phase = "none", !.report = "estimated"]

OwnSim(r) == {i \in indexes : i.name = SimName[sim[r].cand]}

(* Mutant: the index is dropped only when nothing failed. *)
DropIfNoError(r) ==
    /\ Phase(r, "drop", AfterDrop(r, "clean"))
    /\ indexes' = IF sim[r].report = "error" THEN indexes ELSE indexes \ OwnSim(r)

(* Mutant: the index is left to the sweep of the next simulation. *)
DropLeftToTheSweep(r) ==
    /\ Phase(r, "drop", AfterDrop(r, "clean"))
    /\ UNCHANGED indexes

(* Any other failure of the DROP is logged, and the simulation goes on. *)
Drop(r) ==
    \/ /\ OwnSim(r) # {} /\ ~\E i \in OwnSim(r) : NeededByForeignKey(i)
       /\ Phase(r, "drop", AfterDrop(r, "clean"))
       /\ indexes' = indexes \ OwnSim(r)
    \/ /\ \E i \in OwnSim(r) : NeededByForeignKey(i)
       /\ Phase(r, "drop", Then(r, "rescue"))
       /\ UNCHANGED indexes
    \/ /\ OwnSim(r) = {} \/ setting.faults
       /\ Phase(r, "drop", AfterDrop(r, "failed"))
       /\ UNCHANGED indexes

(* Mutant: the DROP is not tried again once a permanent index took over. *)
RescueOnly(r) ==
    /\ Phase(r, "rescue", AfterDrop(r, "rescued"))
    /\ indexes' = indexes \cup {RescueIndex(sim[r].cand)}

(* A permanent index takes over, so that the temporary one can go. *)
Rescue(r) ==
    LET i == RescueIndex(sim[r].cand) IN
    \/ /\ ~Taken(i.name)
       /\ Phase(r, "rescue", AfterDrop(r, "rescued"))
       /\ indexes' = (indexes \cup {i}) \ OwnSim(r)
    \/ /\ Taken(i.name) \/ setting.faults
       /\ Phase(r, "rescue", AfterDrop(r, "failed"))
       /\ indexes' \in {indexes} \cup (IF Taken(i.name) THEN {} ELSE {indexes \cup {i}})

(* The query without the index is timed last, on another connection. *)
Baseline(r) ==
    /\ \/ Phase(r, "baseline", [Report(r, "executed") EXCEPT !.base = indexes])
       \/ Phase(r, "baseline", Report(r, "estimated"))
    /\ UNCHANGED indexes

-----------------------------------------------------------------------------
(* PostgreSQL *)

Hypothetical(r) ==
    /\ \/ Phase(r, "hypothetical", [Report(r, "estimated") EXCEPT
                                       !.with = indexes \cup {SimIndex(sim[r].cand)}])
       \/ Phase(r, "hypothetical", Then(r, "pg_measure"))
       \/ Phase(r, "hypothetical", Report(r, "error"))
    /\ UNCHANGED indexes

(* A baseline over its budget aborts the transaction, and BEGIN is refused. *)
PgBaseline(r) ==
    /\ \/ Phase(r, "pg_baseline", [Then(r, "pg_measure") EXCEPT !.base = indexes, !.timed = TRUE])
       \/ Phase(r, "pg_baseline", Report(r, "error"))
    /\ UNCHANGED indexes

(* Without a time for the baseline there is no pair, and the cost decides. *)
TimedExplainAnalyze(r) == {FALSE, sim[r].timed}

(* BEGIN, CREATE INDEX, EXPLAIN, the execution, ROLLBACK: only this session sees it. *)
PgMeasure(r) ==
    /\ \E timed \in TimedExplainAnalyze(r) :
          Phase(r, "pg_measure", [Report(r, IF timed THEN "executed" ELSE "estimated") EXCEPT
                                     !.with = indexes \cup {SimIndex(sim[r].cand)}])
       \/ Phase(r, "pg_measure", Report(r, "error"))
    /\ UNCHANGED indexes

-----------------------------------------------------------------------------
RestartSimulations == sim' = [r \in Request |-> NoSim]

SimStep(r) ==
    /\ sim[r].phase # "none"
    /\ \/ ExplainOriginal(r)
       \/ Sweep(r) \/ Create(r) \/ Measure(r) \/ Drop(r) \/ Rescue(r) \/ Baseline(r)
       \/ Hypothetical(r) \/ PgBaseline(r) \/ PgMeasure(r)
=============================================================================
