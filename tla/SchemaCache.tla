----------------------------- MODULE SchemaCache -----------------------------
(***************************************************************************)
(* The schema analyst and the semantic cache as concurrent requests use    *)
(* them (nodes/schema_analyst.py, cache/semantic_cache.py).  The schema    *)
(* context lives in a module global and in a file, the rewrites in a FAISS *)
(* directory; nothing locks any of them.  A step of a request is what it   *)
(* does between two calls to the database, the embedding model or a file.  *)
(***************************************************************************)
EXTENDS Database

CONSTANTS
    Query,             \* the queries they ask about
    Torn,              \* a file opened for writing and not written yet
    MaxInvalidations   \* bound: how often the schema is invalidated by hand

ASSUME CacheAssumption == MaxInvalidations \in Nat /\ Torn # None /\ None \notin Request

VARIABLES
    memory,       \* _schema_cache
    file,         \* CACHE_FILE
    store,        \* the queries whose rewrite a look into CACHE_DIR finds
    ever,         \* the queries that ever had one (history)
    files,        \* the two files of CACHE_DIR, as far as index.pkl is there
    vectors,      \* whose index.faiss is newer than index.pkl, None if it is not
    req,          \* req[r]: where request r is, and its local variables
    purge,        \* where POST /pipeline/schema/invalidate is
    started,      \* invalidations begun (history)
    finished      \* invalidations ended (history)

storeVars == <<store, ever, files, vectors>>
cacheVars == <<memory, file, storeVars, req, purge, started, finished>>
purgeVars == <<purge, started, finished>>

AnalystSteps == {"load", "fingerprint", "compare", "clear", "remove", "build", "install",
                 "stamp", "open", "write", "serve"}
CacheSteps == {"analyzed", "save", "pickle"}

(* asked and since: the invalidations that had ended and the migrations that   *)
(* had happened when the request came.                                         *)
Idle == [step |-> "idle", query |-> None, seen |-> None, built |-> None, served |-> None,
         copy |-> {}, mixed |-> FALSE, asked |-> 0, since |-> 0]

CacheInit ==
    /\ memory = None /\ file = None
    /\ store = {} /\ ever = {} /\ files = "absent" /\ vectors = None
    /\ req = [r \in Request |-> Idle]
    /\ purge = "done" /\ started = 0 /\ finished = 0

(* Request r does the step from, and goes on with the local variables of l. *)
Step(r, from, l) ==
    /\ req[r].step = from
    /\ req' = [req EXCEPT ![r] = l]
    /\ UNCHANGED <<purgeVars, dbVars>>

To(r, step) == [req[r] EXCEPT !.step = step]

-----------------------------------------------------------------------------
(* The schema analyst *)

Arrive(r, q) ==
    /\ Step(r, "idle", [Idle EXCEPT !.step = "load", !.query = q, !.asked = finished,
                                    !.since = columns])
    /\ UNCHANGED <<memory, file, storeVars>>

(* The file is read outside the try: what does not parse ends the request.  To *)
(* see that it exists and to open it are one step here.                        *)
Load(r) ==
    /\ \/ memory # None /\ Step(r, "load", To(r, "fingerprint")) /\ UNCHANGED memory
       \/ memory = None /\ file = Torn /\ Step(r, "load", To(r, "failed")) /\ UNCHANGED memory
       \/ /\ memory = None /\ file # Torn
          /\ memory' = file
          /\ Step(r, "load", To(r, IF file = None THEN "build" ELSE "fingerprint"))
    /\ UNCHANGED <<file, storeVars>>

(* What a query for the fingerprint gives: None when it fails. *)
FingerprintRead == {Fingerprint} \cup (IF setting.faults THEN {None} ELSE {})

ReadFingerprint(r) ==
    /\ \E fp \in FingerprintRead :
          Step(r, "fingerprint", [To(r, "compare") EXCEPT !.seen = fp])
    /\ UNCHANGED <<memory, file, storeVars>>

(* Mutant: a change of the indexes goes unnoticed. *)
DriftedNever(r) == FALSE

Drifted(r) == req[r].seen # None /\ memory.fp # None /\ req[r].seen # memory.fp

(* The global is read again: another request may have dropped it since. *)
Compare(r) ==
    /\ \/ memory = None /\ Step(r, "compare", To(r, "failed")) /\ UNCHANGED memory
       \/ memory # None /\ ~Drifted(r) /\ Step(r, "compare", To(r, "serve")) /\ UNCHANGED memory
       \/ memory # None /\ Drifted(r) /\ Step(r, "compare", To(r, "clear")) /\ memory' = None
    /\ UNCHANGED <<file, storeVars>>

(* rmtree(CACHE_DIR): what is left of the directory when it is interrupted is  *)
(* as unreadable as none.                                                      *)
ClearStore == store' = {} /\ files' = "absent" /\ vectors' = None

Clear(r) ==
    /\ Step(r, "clear", To(r, "remove"))
    /\ ClearStore
    /\ UNCHANGED <<memory, file, ever>>

(* Mutant: the context that was dropped is not built again. *)
RemoveWithoutRebuild(r) ==
    /\ Step(r, "remove", To(r, "serve"))
    /\ file' = None
    /\ UNCHANGED <<memory, storeVars>>

Remove(r) ==
    /\ Step(r, "remove", To(r, IF memory = None THEN "build" ELSE "serve"))
    /\ file' = None
    /\ UNCHANGED <<memory, storeVars>>

(* extract_schema: tables, columns and indexes as they are now *)
Extracted == [catalog |-> Fingerprint, columns |-> columns, fp |-> None, epoch |-> started]

(* _build_cache, or a database error that ends the request. *)
Build(r) ==
    /\ \/ Step(r, "build", [To(r, "install") EXCEPT !.built = Extracted])
       \/ setting.faults /\ Step(r, "build", To(r, "failed"))
    /\ UNCHANGED <<memory, file, storeVars>>

Install(r) ==
    /\ Step(r, "install", To(r, "stamp"))
    /\ memory' = req[r].built
    /\ UNCHANGED <<file, storeVars>>

(* The fingerprint is read after the extraction and put into the global. *)
Stamp(r) ==
    /\ \/ memory = None /\ Step(r, "stamp", To(r, "failed")) /\ UNCHANGED memory
       \/ /\ memory # None /\ Step(r, "stamp", To(r, "open"))
          /\ \E fp \in FingerprintRead : memory' = [memory EXCEPT !.fp = fp]
    /\ UNCHANGED <<file, storeVars>>

(* The dict is handed to _save_to_disk, which empties the file, and json.dump *)
(* fills it: with null, as good as no file, if the global was dropped.        *)
OpenFile(r) ==
    /\ Step(r, "open", [To(r, "write") EXCEPT !.built = memory])
    /\ file' = Torn
    /\ UNCHANGED <<memory, storeVars>>

(* Another request may have stamped the dict since, if it still is the global. *)
Restamped(dict) ==
    dict # None /\ memory # None /\ [memory EXCEPT !.fp = None] = [dict EXCEPT !.fp = None]

WriteFile(r) ==
    /\ Step(r, "write", To(r, "serve"))
    /\ file' \in {req[r].built} \cup (IF Restamped(req[r].built) THEN {memory} ELSE {})
    /\ UNCHANGED <<memory, storeVars>>

Serve(r) ==
    /\ \/ memory = None /\ Step(r, "serve", To(r, "failed"))
       \/ memory # None /\ Step(r, "serve", [To(r, "analyzed") EXCEPT !.served = memory])
    /\ UNCHANGED <<memory, file, storeVars>>

-----------------------------------------------------------------------------
(* The semantic cache: SemanticCache().store at an approval.  The constructor  *)
(* loads the directory, the query is embedded, and the whole of it is saved:   *)
(* index.faiss, the vectors, and then index.pkl, the rewrites by position.  No *)
(* directory can be read without a whole index.pkl; one whose vectors are      *)
(* ahead of its rewrites can, and goes on growing with the two out of step.    *)

Saving == {r \in Request : req[r].step \in {"save", "pickle"}}

Mixed == files = "mixed" \/ (files = "whole" /\ vectors # None)

(* Mutant: the document is made without the query. *)
StoreLoadsNoQuery(r) ==
    /\ Step(r, "analyzed", [Idle EXCEPT !.step = "save", !.copy = store, !.mixed = Mixed])
    /\ UNCHANGED <<memory, file, storeVars>>

(* What is being written by another request may be unreadable. *)
StoreLoads(r) ==
    /\ \E loaded \in {TRUE, Saving \ {r} = {}} :
          Step(r, "analyzed", [Idle EXCEPT !.step = "save", !.query = req[r].query,
                                     !.copy = IF loaded THEN store ELSE {},
                                     !.mixed = loaded /\ Mixed])
    /\ UNCHANGED <<memory, file, storeVars>>

SaveIndex(r) ==
    /\ Step(r, "save", To(r, "pickle"))
    /\ vectors' = r
    /\ UNCHANGED <<memory, file, store, ever, files>>

(* Mutant: the documents that were loaded are not saved again. *)
FoundOwnOnly(r) == {{req[r].query}}

(* What can be found afterwards: a query whose vector is at the position of its *)
(* own rewrite.                                                                 *)
Found(r) ==
    LET all == req[r].copy \cup {req[r].query}
    IN IF vectors # r THEN SUBSET (ever \cup all)
       ELSE IF req[r].mixed THEN {req[r].copy, all}
       ELSE {all}

(* The directory may have been removed since. *)
SavePickle(r) ==
    /\ UNCHANGED <<memory, file>>
    /\ \/ /\ files = "absent" /\ vectors = None
          /\ Step(r, "pickle", [Idle EXCEPT !.step = "failed"])
          /\ UNCHANGED storeVars
       \/ /\ files # "absent" \/ vectors # None
          /\ Step(r, "pickle", [Idle EXCEPT !.step = "stored"])
          /\ store' \in Found(r)
          /\ ever' = ever \cup {req[r].query}
          /\ files' = IF vectors = r /\ ~req[r].mixed THEN "whole" ELSE "mixed"
          /\ vectors' = IF vectors = r THEN None ELSE vectors

(* An HTTP answer, an error included: the thread and its variables are gone. *)
Leave(r) ==
    /\ req[r].step \in {"failed", "analyzed", "stored"}
    /\ Step(r, req[r].step, Idle)
    /\ UNCHANGED <<memory, file, storeVars>>

-----------------------------------------------------------------------------
(* POST /pipeline/schema/invalidate: the global, the file, the directory *)

PurgeMemory ==
    /\ purge = "done" /\ started < MaxInvalidations
    /\ purge' = "file" /\ started' = started + 1
    /\ memory' = None
    /\ UNCHANGED <<file, storeVars, finished>>

(* Mutant: the file is left to be overwritten by the next request. *)
PurgeFileKept ==
    /\ purge = "file"
    /\ purge' = "store"
    /\ UNCHANGED <<memory, file, storeVars, started, finished>>

PurgeFile ==
    /\ purge = "file"
    /\ purge' = "store"
    /\ file' = None
    /\ UNCHANGED <<memory, storeVars, started, finished>>

PurgeStore ==
    /\ purge = "store"
    /\ purge' = "done" /\ finished' = started
    /\ ClearStore
    /\ UNCHANGED <<memory, file, ever, started>>

Purge ==
    /\ PurgeMemory \/ PurgeFile \/ PurgeStore
    /\ UNCHANGED <<req, dbVars>>

(* The process ends and starts again: what is on disk stays, a save that was   *)
(* under way leaves one of its files half written, or the new vectors with the *)
(* rewrites from before.                                                       *)
RestartCaches ==
    /\ memory' = None
    /\ req' = [r \in Request |-> Idle]
    /\ purge' = "done"
    /\ \/ vectors = None /\ UNCHANGED <<store, files>>
       \/ vectors # None /\ files # "absent" /\ files' = "mixed" /\ UNCHANGED store
       \/ Saving # {} /\ files' = "torn" /\ store' = {}
    /\ vectors' = None
    /\ UNCHANGED <<file, ever, started, finished>>

(* One step of request r in the analyst or in the semantic cache. *)
CacheStep(r) ==
    \/ \E q \in Query : Arrive(r, q)
    \/ Load(r) \/ ReadFingerprint(r) \/ Compare(r) \/ Clear(r) \/ Remove(r)
    \/ Build(r) \/ Install(r) \/ Stamp(r) \/ OpenFile(r) \/ WriteFile(r) \/ Serve(r)
    \/ StoreLoads(r) \/ SaveIndex(r) \/ SavePickle(r) \/ Leave(r)
=============================================================================
