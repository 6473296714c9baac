--------------------------- MODULE SharedResources ---------------------------
(***************************************************************************)
(* Requests over what they share: the schema analyst, the semantic cache   *)
(* and the index simulation meet in the catalog of the database, because   *)
(* the analyst's fingerprint is made of the indexes a simulation creates.  *)
(* A request analyses the schema, perhaps stores a rewrite, perhaps        *)
(* simulates indexes, and leaves.                                          *)
(***************************************************************************)
EXTENDS SchemaCache, IndexSimulation

vars == <<cacheVars, sim, dbVars>>

Init == DatabaseInit /\ CacheInit /\ SimInit

Active == {r \in Request : req[r].step # "idle"}

Admitted == Cardinality(Active) < setting.capacity

(* One handler at a time: the previous caller waits for its answer. *)
Alone == setting.capacity = 1

RequestStep(r) ==
    /\ req[r].step = "idle" => Admitted /\ (Alone => purge = "done")
    /\ req[r].step # "indexing"
    /\ CacheStep(r)
    /\ UNCHANGED sim

(* The rewrite did not land, or its gain is marginal: on to the index nodes. *)
StartIndexing(r) ==
    /\ req[r].step \in {"analyzed", "stored"}
    /\ Step(r, req[r].step, [Idle EXCEPT !.step = "indexing"])
    /\ UNCHANGED <<memory, file, storeVars, sim>>

Simulates(r) ==
    /\ req[r].step = "indexing"
    /\ (\E c \in Candidate : Gate(r, c)) \/ SimStep(r)
    /\ UNCHANGED cacheVars

FinishIndexing(r) ==
    /\ sim[r].phase = "none"
    /\ Step(r, "indexing", Idle)
    /\ sim' = [sim EXCEPT ![r] = NoSim]
    /\ UNCHANGED <<memory, file, storeVars>>

Invalidate ==
    /\ setting.operator
    /\ Alone => Active = {}
    /\ Purge
    /\ UNCHANGED sim

(* A campaign's database is not migrated while an index is simulated. *)
Migration ==
    /\ setting.operator
    /\ Alone => \A r \in Request : sim[r].phase = "none"
    /\ Migrate
    /\ UNCHANGED <<cacheVars, sim>>

(* The process is killed and started again: transactions are rolled back, *)
(* committed indexes and files stay.                                      *)
Restart ==
    /\ setting.faults
    /\ RestartCaches /\ RestartSimulations
    /\ UNCHANGED dbVars

Next ==
    \/ \E r \in Request : RequestStep(r) \/ StartIndexing(r) \/ Simulates(r) \/ FinishIndexing(r)
    \/ Invalidate \/ Migration \/ Restart

Spec == Init /\ [][Next]_vars

-----------------------------------------------------------------------------
Contexts == [catalog : SUBSET IndexName, columns : 0 .. MaxAlterations,
             fp : {None} \cup SUBSET IndexName, epoch : 0 .. MaxInvalidations]

ASSUME ContextAssumption ==
    /\ Torn \notin Contexts /\ None \notin Contexts
    /\ \A names \in SUBSET IndexName : names # None

Requests ==
    [step : AnalystSteps \cup CacheSteps \cup {"idle", "failed", "stored", "indexing"},
     query : Query \cup {None}, seen : {None} \cup SUBSET IndexName,
     built : Contexts \cup {None}, served : Contexts \cup {None},
     copy : SUBSET Query, mixed : BOOLEAN,
     asked : 0 .. MaxInvalidations, since : 0 .. MaxAlterations]

Simulations ==
    [phase : Phases, cand : Candidate \cup {None}, before : SUBSET Index,
     with : SUBSET Index, base : SUBSET Index, timed : BOOLEAN,
     dropped : {"clean", "rescued", "failed"},
     report : {"none", "skipped", "error", "estimated", "executed"}]

TypeOK ==
    /\ indexes \subseteq Index /\ columns \in 0 .. MaxAlterations /\ setting \in Settings
    /\ memory \in Contexts \cup {None} /\ file \in Contexts \cup {None, Torn}
    /\ store \subseteq Query /\ ever \subseteq Query
    /\ files \in {"absent", "whole", "mixed", "torn"} /\ vectors \in Request \cup {None}
    /\ req \in [Request -> Requests]
    /\ purge \in {"done", "file", "store"}
    /\ started \in 0 .. MaxInvalidations /\ finished \in 0 .. MaxInvalidations
    /\ sim \in [Request -> Simulations]

(* One request at a time: a rewrite that was stored is found until the store is
   cleared or a save is killed half-way, whatever is analysed, simulated, killed
   or migrated in between.  A save that is killed loses all of it, or leaves a
   directory in which what was found before stays found and what is stored later
   need not be.  Concurrent requests may lose one another's rewrites but find none
   that nobody stored (semantic_cache.py:25-34 and 56-63: load, add, and save of
   two files, without a lock). *)
Memory == INSTANCE RewriteMemory WITH
    Rewrite <- Query, known <- store, ever <- ever, damaged <- files = "mixed",
    exclusive <- Alone

StoreIsAMemory == Memory!Spec

(* What main.py:79-82 promises of an invalidation, "Will recompute on next
   pipeline call": a request that comes after it goes on with a schema that was
   extracted after it began. *)
InvalidationHonoured ==
    \A r \in Request : req[r].step = "analyzed" => req[r].served.epoch >= req[r].asked

(* It holds for a caller that lets each request end before the next one: in the
   process and in the file, after migrations, restarts and half-written files. *)
InvalidationHonouredAlone == Alone => InvalidationHonoured

(* One request at a time, and nobody migrates the schema during it: the request
   goes on with the indexes there are, whether its context was in the process, in
   the file or is built anew, after any migrations, simulations, restarts and
   half-written files before it.  A context that is not built anew must have been
   stamped with the fingerprint of what was extracted, and its own query for the
   fingerprint must succeed.  (Only of the indexes: a migration that changes
   columns alone changes no fingerprint and is not seen, schema_analyst.py:121-138.) *)
ServedIsCurrent ==
    \A r \in Request :
        /\ Alone /\ req[r].step = "analyzed" /\ columns = req[r].since
        /\ req[r].built = None => /\ req[r].seen # None
                                 /\ req[r].served.fp = req[r].served.catalog
        => req[r].served.catalog = Fingerprint

(* The same of any context that has a fingerprint: schema_analyst.py:121 "one
   cheap query to detect DDL changes (new/dropped indexes)". *)
DriftDetected ==
    \A r \in Request :
        /\ Alone /\ req[r].step = "analyzed" /\ columns = req[r].since
        /\ req[r].built = None => req[r].seen # None /\ req[r].served.fp # None
        => req[r].served.catalog = Fingerprint

(* One request at a time, a request never fails in the analyst unless the process
   or a statement did: neither the global that is read again nor the file that is
   half written gets in its way (schema_analyst.py:119, 124, 138 and 150). *)
AnalystFailsForACause ==
    Alone /\ ~setting.faults => \A r \in Request : req[r].step # "failed"

(* A temporary index alone is never a drift: when the analyst sees one, other
   indexes have come or gone.  With PostgreSQL always; with MySQL if requests wait
   for one another and nothing fails.  (A migration's indexes are a drift, and so is
   the permanent index by which MySQL's simulation of a foreign key's column ends:
   the next request does clear the caches then, mysql.py:400-411, 583-624;
   postgres.py:716-759.) *)
TemporaryIsNoDrift ==
    (setting.engine = "postgres" \/ (Alone /\ ~setting.faults)) =>
        \A r \in Request :
            req[r].step = "compare" /\ memory # None /\ Drifted(r) =>
                req[r].seen \ SimNames # memory.fp \ SimNames

(* The two times of a recommendation were taken with and without the index, and
   with nothing else between them, if the index could be dropped; with MySQL if
   requests wait for one another.  Orphans of a killed process do not matter,
   nor do indexes left by an earlier failure (mysql.py:567-645, postgres.py:712-759). *)
PairDiffersByTheIndex ==
    \A r \in Request :
        /\ sim[r].report = "executed" /\ sim[r].dropped = "clean"
        /\ Alone \/ (setting.engine = "postgres" /\ ~setting.operator)
        => LET i == SimIndex(sim[r].cand)
           IN i \notin sim[r].base /\ sim[r].with = sim[r].base \cup {i}

(* mysql.py:504 "The index is always dropped in a finally block — safe for static
   benchmark databases": whatever was proposed, failed, was adopted by a foreign
   key or rescued before, no temporary index is there between two simulations.
   With MySQL if requests wait for one another and no statement fails. *)
NothingTemporaryStays ==
    /\ setting.engine = "postgres" \/ (Alone /\ ~setting.faults)
    /\ \A r \in Request : sim[r].phase = "none"
    => ~\E i \in indexes : IsSim(i)

(* What mysql.py:604-605 and 634 say of the baseline, measured "com o índice
   temporário já derrubado": no index on the candidate's columns is there. *)
BaselineHasNoSuchIndex ==
    \A r \in Request :
        sim[r].report = "executed" =>
            \A i \in sim[r].base : i.cols # sim[r].cand.cols
=============================================================================
