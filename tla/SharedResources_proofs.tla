----------------------- MODULE SharedResources_proofs -----------------------
(***************************************************************************)
(* Proofs about SharedResources: the caches, for any number of requests,   *)
(* queries and invalidations, and any migrations, kills and failures in    *)
(* between.                                                                *)
(***************************************************************************)
EXTENDS SharedResources, FiniteSetTheorems, TLAPS

Steps == AnalystSteps \cup CacheSteps \cup {"idle", "failed", "stored", "indexing"}

Files == {"absent", "whole", "mixed", "torn"}

DatabaseTyped ==
    indexes \subseteq Index /\ columns \in 0 .. MaxAlterations /\ setting \in Settings

CachesTyped ==
    /\ memory \in Contexts \cup {None} /\ file \in Contexts \cup {None, Torn}
    /\ store \subseteq Query /\ ever \subseteq Query
    /\ files \in Files /\ vectors \in Request \cup {None}
    /\ req \in [Request -> Requests]
    /\ purge \in {"done", "file", "store"}
    /\ started \in 0 .. MaxInvalidations /\ finished \in 0 .. MaxInvalidations

(* What a request carries at a step that uses it *)
Carried ==
    \A r \in Request :
        /\ req[r].step \in AnalystSteps \cup CacheSteps => req[r].query \in Query
        /\ req[r].step = "install" => req[r].built \in Contexts
        /\ req[r].since <= columns

(* One request at a time: the others are idle, and all are while the schema is *)
(* invalidated.                                                                *)
Exclusive ==
    Alone =>
        /\ \A r, s \in Request : r # s => req[r].step = "idle" \/ req[s].step = "idle"
        /\ purge # "done" => \A r \in Request : req[r].step = "idle"

(* One request at a time: nothing older than the last invalidation is left in  *)
(* the process or on disk.                                                     *)
Fresh(c) == c \notin {None, Torn} => c.epoch >= finished

Honoured ==
    /\ finished <= started
    /\ \A r \in Request : req[r].asked <= finished
    /\ Alone =>
          /\ Fresh(memory) /\ Fresh(file)
          /\ purge # "done" => memory = None
          /\ purge = "store" => file = None
          /\ \A r \in Request :
                /\ req[r].step \in {"install", "write"} => Fresh(req[r].built)
                /\ req[r].step = "analyzed" => req[r].served.epoch >= req[r].asked

(* What a request is about to save was the store, or was once stored.  One     *)
(* request at a time, the vectors are ahead of the rewrites only in a save.    *)
Remembered ==
    /\ store \subseteq ever
    /\ \A r \in Request : req[r].step \in {"save", "pickle"} =>
          /\ req[r].copy \subseteq ever
          /\ Alone => req[r].copy = store /\ req[r].mixed = (files = "mixed")
    /\ Alone => /\ \A r \in Request : req[r].step = "pickle" => vectors = r
                /\ (\A r \in Request : req[r].step # "pickle") => vectors = None

CachesInv == CachesTyped /\ Carried /\ Exclusive /\ Honoured /\ Remembered

-----------------------------------------------------------------------------
LEMMA NoneAdmittedElse ==
    ASSUME Alone, Admitted
    PROVE  \A r \in Request : req[r].step = "idle"
<1>1. Active \subseteq Request
  BY DEF Active
<1>2. IsFiniteSet(Active)
  BY <1>1, IndexAssumption, FS_Subset
<1>3. Cardinality(Active) \in Nat /\ Cardinality(Active) < 1
  BY <1>2, FS_CardinalityType DEF Alone, Admitted
<1>4. Active = {}
  BY <1>2, <1>3, FS_EmptySet
<1>. QED  BY <1>4 DEF Active

LEMMA IdleTyped ==
    Idle \in Requests /\ Idle.step = "idle" /\ Idle.asked = 0 /\ Idle.since = 0
<1>1. 0 \in 0 .. MaxInvalidations /\ 0 \in 0 .. MaxAlterations
  BY CacheAssumption, IndexAssumption
<1>. QED  BY <1>1 DEF Idle, Requests

LEMMA RequestFields ==
    ASSUME NEW l \in Requests
    PROVE  /\ l.step \in Steps /\ l.query \in Query \cup {None}
           /\ l.seen \in {None} \cup SUBSET IndexName
           /\ l.built \in Contexts \cup {None} /\ l.served \in Contexts \cup {None}
           /\ l.copy \in SUBSET Query /\ l.asked \in 0 .. MaxInvalidations
           /\ l.mixed \in BOOLEAN /\ l.since \in 0 .. MaxAlterations
  BY DEF Requests, Steps

LEMMA ToTyped ==
    ASSUME CachesTyped, NEW r \in Request, NEW step \in Steps
    PROVE  /\ To(r, step) \in Requests /\ To(r, step).step = step
           /\ To(r, step).query = req[r].query /\ To(r, step).built = req[r].built
           /\ To(r, step).served = req[r].served /\ To(r, step).asked = req[r].asked
           /\ To(r, step).copy = req[r].copy /\ To(r, step).seen = req[r].seen
           /\ To(r, step).mixed = req[r].mixed /\ To(r, step).since = req[r].since
<1>1. req[r] \in Requests
  BY DEF CachesTyped
<1>. QED  BY <1>1 DEF To, Requests, Steps

(* One request at a time, whoever is not in the middle of a save finds nobody's. *)
LEMMA NoVectors ==
    ASSUME CachesInv, Alone, NEW r \in Request, req[r].step # "pickle",
           req[r].step # "idle" \/ Admitted
    PROVE  vectors = None
<1>1. \A s \in Request : s # r => req[s].step = "idle"
  BY NoneAdmittedElse DEF CachesInv, Exclusive
<1>. QED  BY <1>1 DEF CachesInv, Remembered

(* Request r goes on as l; what that asks of l and of what it leaves behind *)
LEMMA Moves ==
    ASSUME CachesInv, NEW r \in Request, NEW l \in Requests,
           req' = [req EXCEPT ![r] = l], UNCHANGED <<purgeVars, setting, columns>>,
           Alone => req[r].step # "idle" \/ (Admitted /\ purge = "done"),
           files' \in Files, vectors' \in Request \cup {None},
           \/ req[r].step # "pickle" /\ l.step # "pickle" /\ vectors' \in {vectors, None}
           \/ Alone => vectors' = IF l.step = "pickle" THEN r ELSE None,
           l.since <= columns,
           memory' \in Contexts \cup {None}, file' \in Contexts \cup {None, Torn},
           ever \subseteq ever', ever' \subseteq Query, store' \subseteq ever',
           l.step \in AnalystSteps \cup CacheSteps => l.query \in Query,
           l.step = "install" => l.built \in Contexts,
           l.asked <= finished,
           Alone => Fresh(memory') /\ Fresh(file'),
           Alone /\ l.step \in {"install", "write"} => Fresh(l.built),
           Alone /\ l.step = "analyzed" => l.served.epoch >= l.asked,
           l.step \in {"save", "pickle"} =>
               /\ l.copy \subseteq ever'
               /\ Alone => l.copy = store' /\ l.mixed = (files' = "mixed")
    PROVE  CachesInv'
<1>1. \A s \in Request : req'[s] = IF s = r THEN l ELSE req[s]
  BY DEF CachesInv, CachesTyped
<1>2. Alone' = Alone
  BY DEF Alone
<1>3. CachesTyped'
  BY DEF CachesInv, CachesTyped, purgeVars
<1>4. Carried'
  BY <1>1 DEF CachesInv, Carried
<1>5. Alone => /\ \A s \in Request : s # r => req[s].step = "idle"
               /\ purge = "done"
  BY NoneAdmittedElse DEF CachesInv, Exclusive
<1>6. Exclusive'
  BY <1>1, <1>2, <1>5 DEF Exclusive, purgeVars
<1>7. Honoured'
  <2>1. UNCHANGED <<purge, started, finished>>
    BY DEF purgeVars
  <2>2. finished' <= started' /\ \A s \in Request : req'[s].asked <= finished'
    BY <1>1, <2>1 DEF CachesInv, Honoured
  <2>3. ASSUME Alone PROVE (Fresh(memory) /\ Fresh(file))'
    BY <2>1, <2>3 DEF Fresh
  <2>4. ASSUME Alone, NEW s \in Request
        PROVE  /\ req'[s].step \in {"install", "write"} => Fresh(req[s].built)'
               /\ req'[s].step = "analyzed" => req'[s].served.epoch >= req'[s].asked
    BY <1>1, <1>5, <2>1, <2>4 DEF Fresh
  <2>. QED  BY <1>2, <1>5, <2>1, <2>2, <2>3, <2>4 DEF Honoured
<1>8. Remembered'
  <2>1. ASSUME NEW s \in Request, req'[s].step \in {"save", "pickle"}
        PROVE  /\ req'[s].copy \subseteq ever'
               /\ Alone' => req'[s].copy = store' /\ req'[s].mixed = (files' = "mixed")
    <3>1. CASE s = r
      BY <1>1, <1>2, <2>1, <3>1
    <3>2. CASE s # r
      BY <1>1, <1>2, <1>5, <2>1, <3>2 DEF CachesInv, Remembered
    <3>. QED  BY <3>1, <3>2
  <2>2. Alone => vectors' = IF l.step = "pickle" THEN r ELSE None
    BY NoVectors
  <2>3. Alone' => /\ \A s \in Request : req'[s].step = "pickle" => vectors' = s
                  /\ (\A s \in Request : req'[s].step # "pickle") => vectors' = None
    BY <1>1, <1>2, <1>5, <2>2
  <2>. QED  BY <2>1, <2>3 DEF Remembered
<1>. QED  BY <1>3, <1>4, <1>6, <1>7, <1>8 DEF CachesInv

(* A step that only moves an active request on *)
LEMMA MovesOn ==
    ASSUME CachesInv, NEW r \in Request, NEW from, NEW step \in Steps,
           Step(r, from, To(r, step)), from \notin {"idle", "pickle"},
           files' \in {files, "absent"}, vectors' \in {vectors, None},
           memory' \in Contexts \cup {None}, file' \in Contexts \cup {None, Torn},
           Alone => Fresh(memory') /\ Fresh(file'),
           ever' = ever, store' \subseteq ever,
           step \in AnalystSteps \cup CacheSteps => from \in AnalystSteps \cup CacheSteps,
           step \notin {"install", "write", "analyzed", "save", "pickle"}
    PROVE  CachesInv'
<1>. DEFINE l == To(r, step)
<1>1. /\ l \in Requests /\ l.step = step /\ l.query = req[r].query
      /\ l.asked = req[r].asked /\ l.since = req[r].since
  BY ToTyped DEF CachesInv
<1>2. /\ req[r].step = from /\ req' = [req EXCEPT ![r] = l]
      /\ UNCHANGED <<purgeVars, setting, columns>>
  BY DEF Step, dbVars
<1>3. step \in AnalystSteps \cup CacheSteps => l.query \in Query
  BY <1>1, <1>2 DEF CachesInv, Carried
<1>4. /\ l.asked <= finished /\ l.since <= columns /\ ever \subseteq Query
      /\ files' \in Files /\ vectors' \in Request \cup {None}
  BY <1>1 DEF CachesInv, Honoured, Carried, CachesTyped, Files
<1>. HIDE DEF l
<1>. QED  BY <1>1, <1>2, <1>3, <1>4, Moves

LEMMA InSteps ==
    /\ \A step \in AnalystSteps \cup CacheSteps : step \in Steps
    /\ "failed" \in Steps /\ "stored" \in Steps /\ "indexing" \in Steps /\ "idle" \in Steps
  BY DEF Steps

LEMMA ArriveStep ==
    ASSUME CachesInv, DatabaseTyped, NEW r \in Request, NEW q \in Query, Arrive(r, q),
           Admitted, Alone => purge = "done"
    PROVE  CachesInv'
<1>. DEFINE l == [Idle EXCEPT !.step = "load", !.query = q, !.asked = finished, !.since = columns]
<1>1. finished \in 0 .. MaxInvalidations /\ finished <= finished /\ CachesTyped /\ ever \subseteq Query
      /\ store \subseteq ever /\ columns \in 0 .. MaxAlterations /\ columns <= columns
  BY CacheAssumption, IndexAssumption DEF CachesInv, CachesTyped, Remembered, DatabaseTyped
<1>2. l \in Requests
  BY <1>1, IdleTyped DEF Requests, AnalystSteps
<1>3. l.step = "load" /\ l.query = q /\ l.asked = finished /\ l.since = columns
  BY DEF Idle
<1>4. req[r].step = "idle" /\ req' = [req EXCEPT ![r] = l]
      /\ UNCHANGED <<purgeVars, setting, columns, memory, file, store, ever, files, vectors>>
  BY DEF Arrive, Step, dbVars, storeVars
<1>5. Alone => Fresh(memory) /\ Fresh(file)
  BY DEF CachesInv, Honoured
<1>. HIDE DEF l
<1>. QED  BY <1>1, <1>2, <1>3, <1>4, <1>5, Moves DEF CachesTyped

LEMMA LoadStep == ASSUME CachesInv, NEW r \in Request, Load(r) PROVE CachesInv'
<1>1. \E step \in {"fingerprint", "failed", "build"} : Step(r, "load", To(r, step))
  BY Zenon DEF Load
<1>2. memory' = memory \/ (memory' = file /\ file # Torn)
  BY Zenon DEF Load
<1>3. memory' \in Contexts \cup {None}
  BY <1>2 DEF CachesInv, CachesTyped
<1>4. UNCHANGED <<file, store, ever, files, vectors>>
  BY DEF Load, storeVars
<1>5. PICK step \in {"fingerprint", "failed", "build"} : Step(r, "load", To(r, step))
  BY <1>1
<1>6. step \in Steps /\ "load" \in AnalystSteps
  BY DEF Steps, AnalystSteps
<1>7. Alone => Fresh(memory') /\ Fresh(file')
  BY <1>2, <1>4 DEF CachesInv, Honoured
<1>8. file' \in Contexts \cup {None, Torn} /\ store' \subseteq ever
  BY <1>4 DEF CachesInv, CachesTyped, Remembered
<1>. QED  BY <1>3, <1>4, <1>5, <1>6, <1>7, <1>8, MovesOn

LEMMA ReadFingerprintStep ==
    ASSUME CachesInv, NEW r \in Request, ReadFingerprint(r), indexes \subseteq Index
    PROVE  CachesInv'
<1>1. PICK fp \in FingerprintRead : Step(r, "fingerprint", [To(r, "compare") EXCEPT !.seen = fp])
  BY DEF ReadFingerprint
<1>. DEFINE l == [To(r, "compare") EXCEPT !.seen = fp]
<1>2. fp \in {None} \cup SUBSET IndexName
  BY <1>1 DEF FingerprintRead, Fingerprint, Index
<1>3. /\ "compare" \in Steps /\ "fingerprint" \in AnalystSteps
  BY DEF Steps, AnalystSteps
<1>4. /\ To(r, "compare") \in Requests /\ To(r, "compare").step = "compare"
      /\ To(r, "compare").query = req[r].query /\ To(r, "compare").asked = req[r].asked
      /\ To(r, "compare").since = req[r].since
  BY <1>3, ToTyped DEF CachesInv
<1>5. /\ l \in Requests /\ l.step = "compare" /\ l.query = req[r].query /\ l.asked = req[r].asked
      /\ l.since = req[r].since
  BY <1>2, <1>4 DEF Requests
<1>6. req[r].step = "fingerprint" /\ req' = [req EXCEPT ![r] = l]
      /\ UNCHANGED <<purgeVars, setting, columns, memory, file, store, ever, files, vectors>>
  BY <1>1 DEF Step, dbVars, ReadFingerprint, storeVars
<1>7. req[r].query \in Query /\ req[r].asked <= finished /\ ever \subseteq Query /\ store \subseteq ever
      /\ memory \in Contexts \cup {None} /\ file \in Contexts \cup {None, Torn}
      /\ (Alone => Fresh(memory) /\ Fresh(file)) /\ req[r].since <= columns
      /\ files \in Files /\ vectors \in Request \cup {None}
  BY <1>3, <1>6 DEF CachesInv, Carried, Honoured, CachesTyped, Remembered
<1>. HIDE DEF l
<1>. QED  BY <1>5, <1>6, <1>7, Moves

LEMMA CompareStep == ASSUME CachesInv, NEW r \in Request, Compare(r) PROVE CachesInv'
<1>1. PICK step \in {"failed", "serve", "clear"} : Step(r, "compare", To(r, step))
  BY Zenon DEF Compare
<1>2. step \in Steps /\ "compare" \in AnalystSteps
  BY DEF Steps, AnalystSteps
<1>3. memory' \in {memory, None} /\ UNCHANGED <<file, store, ever, files, vectors>>
  BY Zenon DEF Compare, storeVars
<1>4. Alone => Fresh(memory') /\ Fresh(file')
  BY <1>3 DEF CachesInv, Honoured, Fresh
<1>5. memory' \in Contexts \cup {None} /\ file' \in Contexts \cup {None, Torn} /\ store' \subseteq ever
  BY <1>3 DEF CachesInv, CachesTyped, Remembered
<1>. QED  BY <1>1, <1>2, <1>3, <1>4, <1>5, MovesOn

LEMMA ClearStep == ASSUME CachesInv, NEW r \in Request, Clear(r) PROVE CachesInv'
<1>1. /\ Step(r, "clear", To(r, "remove")) /\ UNCHANGED <<memory, file, ever>>
      /\ store' = {} /\ files' = "absent" /\ vectors' = None
  BY DEF Clear, ClearStore
<1>2. "remove" \in Steps /\ "clear" \in AnalystSteps
  BY DEF Steps, AnalystSteps
<1>3. /\ memory' \in Contexts \cup {None} /\ file' \in Contexts \cup {None, Torn} /\ store' \subseteq ever
      /\ Alone => Fresh(memory') /\ Fresh(file')
  BY <1>1 DEF CachesInv, CachesTyped, Honoured
<1>. QED  BY <1>1, <1>2, <1>3, MovesOn

LEMMA RemoveStep == ASSUME CachesInv, NEW r \in Request, Remove(r) PROVE CachesInv'
<1>1. PICK step \in {"build", "serve"} : Step(r, "remove", To(r, step))
  BY Zenon DEF Remove
<1>2. file' = None /\ UNCHANGED <<memory, store, ever, files, vectors>>
  BY DEF Remove, storeVars
<1>3. step \in Steps /\ "remove" \in AnalystSteps
  BY DEF Steps, AnalystSteps
<1>4. /\ memory' \in Contexts \cup {None} /\ file' \in Contexts \cup {None, Torn} /\ store' \subseteq ever
      /\ Alone => Fresh(memory') /\ Fresh(file')
  BY <1>2 DEF CachesInv, CachesTyped, Honoured, Remembered, Fresh
<1>. QED  BY <1>1, <1>2, <1>3, <1>4, MovesOn

LEMMA BuildStep ==
    ASSUME CachesInv, NEW r \in Request, Build(r), DatabaseTyped
    PROVE  CachesInv'
<1>0. /\ UNCHANGED <<memory, file, store, ever, files, vectors>>
      /\ memory \in Contexts \cup {None} /\ file \in Contexts \cup {None, Torn}
      /\ ever \subseteq Query /\ store \subseteq ever /\ (Alone => Fresh(memory) /\ Fresh(file))
      /\ files \in Files /\ vectors \in Request \cup {None} /\ req[r].since <= columns
      /\ "failed" \in Steps /\ "install" \in Steps /\ "build" \in AnalystSteps
  BY DEF Build, storeVars, CachesInv, CachesTyped, Remembered, Honoured, Carried, Steps,
     AnalystSteps
<1>1. CASE Step(r, "build", To(r, "failed"))
  BY <1>0, <1>1, MovesOn DEF AnalystSteps, CacheSteps
<1>2. CASE Step(r, "build", [To(r, "install") EXCEPT !.built = Extracted])
  <2>. DEFINE l == [To(r, "install") EXCEPT !.built = Extracted]
  <2>1. Extracted \in Contexts /\ Extracted.epoch = started
    BY DEF Extracted, Contexts, Fingerprint, Index, DatabaseTyped, CachesInv, CachesTyped
  <2>2. /\ To(r, "install") \in Requests /\ To(r, "install").step = "install"
        /\ To(r, "install").query = req[r].query /\ To(r, "install").asked = req[r].asked
        /\ To(r, "install").since = req[r].since
    BY <1>0, ToTyped DEF CachesInv
  <2>3. /\ l \in Requests /\ l.step = "install" /\ l.query = req[r].query /\ l.asked = req[r].asked
        /\ l.built = Extracted /\ l.since = req[r].since
    BY <2>1, <2>2 DEF Requests
  <2>4. req[r].step = "build" /\ req' = [req EXCEPT ![r] = l] /\ UNCHANGED <<purgeVars, setting, columns>>
    BY <1>2 DEF Step, dbVars
  <2>5. req[r].query \in Query /\ req[r].asked <= finished /\ Fresh(Extracted)
    BY <1>0, <2>1, <2>4 DEF CachesInv, Carried, Honoured, Fresh
  <2>. HIDE DEF l
  <2>. QED  BY <1>0, <2>1, <2>3, <2>4, <2>5, Moves
<1>. QED  BY <1>1, <1>2, Zenon DEF Build

(* What holds at every step of a request, for the premises of Moves *)
LEMMA Here ==
    ASSUME CachesInv, NEW r \in Request
    PROVE  /\ req[r] \in Requests /\ req[r].asked <= finished /\ req[r].since <= columns
           /\ files \in Files /\ vectors \in Request \cup {None}
           /\ req[r].step \in AnalystSteps \cup CacheSteps => req[r].query \in Query
           /\ memory \in Contexts \cup {None} /\ file \in Contexts \cup {None, Torn}
           /\ store \subseteq ever /\ ever \subseteq Query
           /\ Alone => Fresh(memory) /\ Fresh(file)
           /\ finished \in Nat
  BY CacheAssumption DEF CachesInv, CachesTyped, Carried, Honoured, Remembered

LEMMA InstallStep == ASSUME CachesInv, NEW r \in Request, Install(r) PROVE CachesInv'
<1>1. /\ Step(r, "install", To(r, "stamp")) /\ req[r].step = "install"
      /\ memory' = req[r].built /\ UNCHANGED <<file, store, ever, files, vectors>>
  BY DEF Install, Step, storeVars
<1>2. "stamp" \in Steps /\ "install" \in AnalystSteps
  BY DEF Steps, AnalystSteps
<1>3. memory' \in Contexts /\ (Alone => Fresh(req[r].built))
  BY <1>1 DEF CachesInv, Carried, Honoured
<1>4. Alone => Fresh(memory') /\ Fresh(file')
  BY <1>1, <1>3, Here
<1>. QED  BY <1>1, <1>2, <1>3, <1>4, Here, MovesOn

LEMMA StampStep ==
    ASSUME CachesInv, NEW r \in Request, Stamp(r), indexes \subseteq Index
    PROVE  CachesInv'
<1>1. PICK step \in {"failed", "open"} : Step(r, "stamp", To(r, step))
  BY Zenon DEF Stamp
<1>2. step \in Steps /\ "stamp" \in AnalystSteps /\ UNCHANGED <<file, store, ever, files, vectors>>
  BY DEF Steps, AnalystSteps, Stamp, storeVars
<1>3. memory' = memory \/ \E fp \in FingerprintRead : memory # None /\ memory' = [memory EXCEPT !.fp = fp]
  BY Zenon DEF Stamp
<1>4. memory' \in Contexts \cup {None} /\ (Alone => Fresh(memory'))
  <2>1. CASE memory' = memory
    BY <2>1, Here
  <2>2. ASSUME NEW fp \in FingerprintRead, memory # None, memory' = [memory EXCEPT !.fp = fp]
        PROVE  memory' \in Contexts \cup {None} /\ (Alone => Fresh(memory'))
    <3>1. fp \in {None} \cup SUBSET IndexName
      BY DEF FingerprintRead, Fingerprint, Index
    <3>2. memory \in Contexts /\ (Alone => Fresh(memory))
      BY <2>2, Here
    <3>3. memory' \in Contexts /\ memory'.epoch = memory.epoch
      BY <2>2, <3>1, <3>2 DEF Contexts
    <3>. QED  BY <2>2, <3>2, <3>3, ContextAssumption DEF Fresh
  <2>. QED  BY <1>3, <2>1, <2>2
<1>. QED  BY <1>1, <1>2, <1>4, Here, MovesOn

LEMMA OpenFileStep == ASSUME CachesInv, NEW r \in Request, OpenFile(r) PROVE CachesInv'
<1>. DEFINE l == [To(r, "write") EXCEPT !.built = memory]
<1>1. /\ req[r].step = "open" /\ req' = [req EXCEPT ![r] = l] /\ file' = Torn
      /\ UNCHANGED <<purgeVars, setting, columns, memory, store, ever, files, vectors>>
  BY DEF OpenFile, Step, storeVars, dbVars
<1>2. /\ To(r, "write") \in Requests /\ To(r, "write").step = "write"
      /\ To(r, "write").query = req[r].query /\ To(r, "write").asked = req[r].asked
      /\ To(r, "write").since = req[r].since
  BY ToTyped, InSteps DEF CachesInv, AnalystSteps
<1>3. /\ l \in Requests /\ l.step = "write" /\ l.query = req[r].query /\ l.asked = req[r].asked
      /\ l.built = memory /\ l.since = req[r].since
  BY <1>2, Here DEF Requests
<1>. HIDE DEF l
<1>4. (Alone => Fresh(memory') /\ Fresh(file') /\ Fresh(l.built)) /\ req[r].query \in Query
  BY <1>1, <1>3, Here DEF Fresh, AnalystSteps
<1>. QED  BY <1>1, <1>3, <1>4, Here, Moves

LEMMA WriteFileStep == ASSUME CachesInv, NEW r \in Request, WriteFile(r) PROVE CachesInv'
<1>1. /\ Step(r, "write", To(r, "serve")) /\ req[r].step = "write"
      /\ file' \in {req[r].built, memory}
      /\ UNCHANGED <<memory, store, ever, files, vectors>>
  BY DEF WriteFile, storeVars, Step
<1>2. "serve" \in Steps /\ "write" \in AnalystSteps
  BY DEF Steps, AnalystSteps
<1>3. /\ req[r].built \in Contexts \cup {None}
      /\ Alone => Fresh(req[r].built)
  BY <1>1, Here, RequestFields DEF CachesInv, Honoured
<1>. QED  BY <1>1, <1>2, <1>3, Here, MovesOn

LEMMA ServeStep == ASSUME CachesInv, NEW r \in Request, Serve(r) PROVE CachesInv'
<1>1. UNCHANGED <<memory, file, store, ever, files, vectors>> /\ "analyzed" \in Steps /\ "serve" \in AnalystSteps
  BY DEF Serve, storeVars, Steps, CacheSteps, AnalystSteps
<1>2. CASE Step(r, "serve", To(r, "failed"))
  BY <1>1, <1>2, Here, InSteps, MovesOn DEF AnalystSteps, CacheSteps
<1>3. CASE memory # None /\ Step(r, "serve", [To(r, "analyzed") EXCEPT !.served = memory])
  <2>. DEFINE l == [To(r, "analyzed") EXCEPT !.served = memory]
  <2>1. /\ To(r, "analyzed") \in Requests /\ To(r, "analyzed").step = "analyzed"
        /\ To(r, "analyzed").query = req[r].query /\ To(r, "analyzed").asked = req[r].asked
        /\ To(r, "analyzed").since = req[r].since
    BY <1>1, ToTyped DEF CachesInv
  <2>2. memory \in Contexts
    BY <1>3, Here
  <2>3. /\ l \in Requests /\ l.step = "analyzed" /\ l.query = req[r].query /\ l.asked = req[r].asked
        /\ l.served = memory /\ l.since = req[r].since
    BY <2>1, <2>2 DEF Requests
  <2>4. req[r].step = "serve" /\ req' = [req EXCEPT ![r] = l] /\ UNCHANGED <<purgeVars, setting, columns>>
    BY <1>3 DEF Step, dbVars
  <2>5. Alone => memory.epoch >= l.asked
    <3>1. /\ l.asked \in 0 .. MaxInvalidations /\ memory.epoch \in 0 .. MaxInvalidations
          /\ finished \in Nat /\ l.asked <= finished
      BY <2>2, <2>3, Here, RequestFields DEF Contexts
    <3>2. Alone => memory.epoch >= finished
      BY <1>3, <2>2, Here, ContextAssumption DEF Fresh
    <3>. QED  BY <3>1, <3>2, CacheAssumption
  <2>. HIDE DEF l
  <2>6. req[r].query \in Query
    BY <1>1, <2>4, Here
  <2>. QED  BY <1>1, <2>3, <2>4, <2>5, <2>6, Here, Moves
<1>. QED  BY <1>2, <1>3, Zenon DEF Serve

LEMMA StoreLoadsStep ==
    ASSUME CachesInv, DatabaseTyped, NEW r \in Request, StoreLoads(r) PROVE CachesInv'
<1>1. PICK loaded \in {TRUE, Saving \ {r} = {}} :
         Step(r, "analyzed", [Idle EXCEPT !.step = "save", !.query = req[r].query,
                                    !.copy = IF loaded THEN store ELSE {},
                                    !.mixed = loaded /\ Mixed])
  BY Zenon DEF StoreLoads
<1>. DEFINE copy == IF loaded THEN store ELSE {}
            mixed == loaded /\ Mixed
            l == [Idle EXCEPT !.step = "save", !.query = req[r].query, !.copy = copy,
                              !.mixed = mixed]
<1>2. /\ req[r].step = "analyzed" /\ req' = [req EXCEPT ![r] = l]
      /\ UNCHANGED <<purgeVars, setting, columns, memory, file, store, ever, files, vectors>>
  BY <1>1 DEF Step, dbVars, StoreLoads, storeVars
<1>3. Alone => loaded /\ vectors = None
  <2>1. ASSUME Alone, NEW s \in Request \ {r} PROVE req[s].step = "idle"
    BY <1>2, <2>1 DEF CachesInv, Exclusive
  <2>2. Alone => Saving \ {r} = {}
    BY <2>1 DEF Saving
  <2>3. Alone => loaded
    BY <1>1, <2>2
  <2>. QED  BY <1>2, <2>3, NoVectors
<1>4. /\ copy \in SUBSET Query /\ copy \subseteq ever /\ (Alone => copy = store)
      /\ mixed \in BOOLEAN
  BY <1>3, Here
<1>5. Alone => mixed = (files = "mixed")
  BY <1>3 DEF Mixed
<1>6. req[r].query \in Query
  BY <1>2, Here DEF CacheSteps
<1>. HIDE DEF copy, mixed
<1>7. l \in Requests
  BY <1>4, <1>6, IdleTyped DEF Requests, CacheSteps
<1>8. /\ l.step = "save" /\ l.query = req[r].query /\ l.copy = copy /\ l.asked = 0
      /\ l.mixed = mixed /\ l.since = 0
  BY DEF Idle
<1>9. l.asked <= finished /\ l.since <= columns
  BY <1>8, Here, IndexAssumption DEF DatabaseTyped
<1>. HIDE DEF l
<1>. QED  BY <1>2, <1>4, <1>5, <1>6, <1>7, <1>8, <1>9, Here, Moves

(* One request at a time: a request in its save is the one whose vectors are   *)
(* ahead, and knows whether it loaded a mixed directory.                       *)
LEMMA SaveHere ==
    ASSUME CachesInv, NEW r \in Request, req[r].step \in {"save", "pickle"}
    PROVE  /\ req[r].copy \subseteq ever /\ req[r].query \in Query
           /\ Alone => /\ req[r].copy = store /\ req[r].mixed = (files = "mixed")
                       /\ req[r].step = "pickle" => vectors = r
  BY Here DEF CachesInv, Remembered, CacheSteps

LEMMA SaveIndexStep == ASSUME CachesInv, NEW r \in Request, SaveIndex(r) PROVE CachesInv'
<1>. DEFINE l == To(r, "pickle")
<1>1. /\ req[r].step = "save" /\ req' = [req EXCEPT ![r] = l] /\ vectors' = r
      /\ UNCHANGED <<purgeVars, setting, columns, memory, file, store, ever, files>>
  BY DEF SaveIndex, Step, dbVars
<1>2. /\ l \in Requests /\ l.step = "pickle" /\ l.query = req[r].query /\ l.asked = req[r].asked
      /\ l.copy = req[r].copy /\ l.mixed = req[r].mixed /\ l.since = req[r].since
  BY ToTyped, InSteps DEF CachesInv, CacheSteps
<1>. HIDE DEF l
<1>. QED  BY <1>1, <1>2, SaveHere, Here, Moves

LEMMA SavePickleStep ==
    ASSUME CachesInv, DatabaseTyped, NEW r \in Request, SavePickle(r) PROVE CachesInv'
<1>0. /\ req[r].step = "pickle" /\ UNCHANGED <<purgeVars, setting, columns, memory, file>>
      /\ req[r].query \in Query /\ req[r].copy \subseteq ever
      /\ Alone => vectors = r
  BY SaveHere DEF SavePickle, Step, dbVars
<1>1. ASSUME NEW step \in {"failed", "stored"}
      PROVE  LET l == [Idle EXCEPT !.step = step]
             IN /\ l \in Requests /\ l.step = step /\ l.asked <= finished /\ l.since <= columns
                /\ l.step \notin AnalystSteps \cup CacheSteps
  <2>1. [Idle EXCEPT !.step = step] \in Requests
    BY IdleTyped DEF Requests
  <2>2. /\ [Idle EXCEPT !.step = step].step = step
        /\ [Idle EXCEPT !.step = step].asked = 0 /\ [Idle EXCEPT !.step = step].since = 0
    BY IdleTyped DEF Requests
  <2>. QED  BY <2>1, <2>2, Here, IndexAssumption DEF AnalystSteps, CacheSteps, DatabaseTyped
<1>2. CASE /\ vectors = None /\ req' = [req EXCEPT ![r] = [Idle EXCEPT !.step = "failed"]]
           /\ UNCHANGED <<store, ever, files, vectors>>
  <2>. DEFINE l == [Idle EXCEPT !.step = "failed"]
  <2>1. /\ l \in Requests /\ l.step = "failed" /\ l.asked <= finished /\ l.since <= columns
        /\ l.step \notin AnalystSteps \cup CacheSteps
    BY <1>1
  <2>. HIDE DEF l
  <2>2. req' = [req EXCEPT ![r] = l]
    BY <1>2 DEF l
  <2>. QED  BY <1>0, <1>2, <2>1, <2>2, Here, Moves
<1>3. CASE /\ req' = [req EXCEPT ![r] = [Idle EXCEPT !.step = "stored"]]
           /\ store' \in Found(r) /\ ever' = ever \cup {req[r].query}
           /\ files' = IF vectors = r /\ ~req[r].mixed THEN "whole" ELSE "mixed"
           /\ vectors' = IF vectors = r THEN None ELSE vectors
  <2>. DEFINE l == [Idle EXCEPT !.step = "stored"]
  <2>1. /\ l \in Requests /\ l.step = "stored" /\ l.asked <= finished /\ l.since <= columns
        /\ l.step \notin AnalystSteps \cup CacheSteps
    BY <1>1
  <2>. HIDE DEF l
  <2>2. req' = [req EXCEPT ![r] = l]
    BY <1>3 DEF l
  <2>3. ever' \subseteq Query /\ ever \subseteq ever' /\ store' \subseteq ever'
    BY <1>0, <1>3, Here DEF Found
  <2>4. /\ files' \in Files /\ vectors' \in Request \cup {None}
        /\ Alone => vectors' = None
    BY <1>0, <1>3, Here DEF Files
  <2>. QED  BY <1>0, <2>1, <2>2, <2>3, <2>4, Here, Moves
<1>. QED  BY <1>2, <1>3 DEF SavePickle, Step, storeVars

(* A request that leaves, or starts or ends with the index nodes *)
LEMMA PassesBy ==
    ASSUME CachesInv, NEW r \in Request, NEW from, NEW step \in {"idle", "indexing"},
           Step(r, from, [Idle EXCEPT !.step = step]), from # "idle",
           UNCHANGED <<memory, file, storeVars>>, DatabaseTyped, from # "pickle"
    PROVE  CachesInv'
<1>. DEFINE l == [Idle EXCEPT !.step = step]
<1>1. l \in Requests /\ l.step = step /\ l.asked = 0 /\ l.since = 0
  BY IdleTyped DEF Requests
<1>2. l.asked <= finished /\ l.since <= columns /\ l.step \notin AnalystSteps \cup CacheSteps
  BY <1>1, Here, IndexAssumption DEF AnalystSteps, CacheSteps, DatabaseTyped
<1>3. req[r].step = from /\ req' = [req EXCEPT ![r] = l]
      /\ UNCHANGED <<purgeVars, setting, columns, memory, file, store, ever, files, vectors>>
  BY DEF Step, dbVars, storeVars
<1>. HIDE DEF l
<1>. QED  BY <1>1, <1>2, <1>3, Here, Moves

LEMMA LeaveStep == ASSUME CachesInv, DatabaseTyped, NEW r \in Request, Leave(r) PROVE CachesInv'
<1>1. [Idle EXCEPT !.step = "idle"] = Idle
  BY IdleTyped DEF Requests
<1>2. Step(r, req[r].step, [Idle EXCEPT !.step = "idle"]) /\ req[r].step \notin {"idle", "pickle"}
      /\ UNCHANGED <<memory, file, storeVars>>
  BY <1>1 DEF Leave
<1>. QED  BY <1>2, PassesBy

LEMMA StartIndexingStep ==
    ASSUME CachesInv, DatabaseTyped, NEW r \in Request, StartIndexing(r) PROVE CachesInv'
<1>1. /\ Step(r, req[r].step, [Idle EXCEPT !.step = "indexing"])
      /\ req[r].step \notin {"idle", "pickle"} /\ UNCHANGED <<memory, file, storeVars>>
  BY DEF StartIndexing
<1>. QED  BY <1>1, PassesBy

LEMMA FinishIndexingStep ==
    ASSUME CachesInv, DatabaseTyped, NEW r \in Request, FinishIndexing(r) PROVE CachesInv'
<1>1. [Idle EXCEPT !.step = "idle"] = Idle
  BY IdleTyped DEF Requests
<1>2. Step(r, "indexing", [Idle EXCEPT !.step = "idle"]) /\ UNCHANGED <<memory, file, storeVars>>
  BY <1>1 DEF FinishIndexing
<1>. QED  BY <1>2, PassesBy

(* A request in the analyst or the semantic cache *)
LEMMA RequestSteps ==
    ASSUME CachesInv, DatabaseTyped, NEW r \in Request, RequestStep(r)
    PROVE  CachesInv'
<1>0. indexes \subseteq Index
  BY DEF DatabaseTyped
<1>1. ASSUME NEW q \in Query, Arrive(r, q) PROVE CachesInv'
  <2>1. Admitted /\ (Alone => purge = "done")
    BY <1>1 DEF RequestStep, Arrive, Step
  <2>. QED  BY <1>1, <2>1, ArriveStep
<1>. QED
  BY <1>0, <1>1, LoadStep, ReadFingerprintStep, CompareStep, ClearStep, RemoveStep, BuildStep,
     InstallStep, StampStep, OpenFileStep, WriteFileStep, ServeStep, StoreLoadsStep,
     SaveIndexStep, SavePickleStep, LeaveStep, Zenon
  DEF RequestStep, CacheStep

-----------------------------------------------------------------------------
(* The invalidation: one request at a time, nobody is there *)

LEMMA NobodyActive ==
    ASSUME CachesInv, Active = {}
    PROVE  \A r \in Request : req[r].step = "idle"
  BY DEF Active

LEMMA InvalidateStep == ASSUME CachesInv, Invalidate PROVE CachesInv'
<1>1. UNCHANGED <<req, setting, columns, ever>> /\ Alone' = Alone
  BY DEF Invalidate, Purge, PurgeMemory, PurgeFile, PurgeStore, dbVars, storeVars, Alone
<1>2. Alone => \A r \in Request : req[r].step = "idle"
  BY NobodyActive DEF Invalidate
<1>3. /\ memory' \in {memory, None} /\ file' \in {file, None} /\ store' \in {store, {}}
      /\ files' \in {files, "absent"} /\ vectors' \in {vectors, None}
      /\ purge' \in {"done", "file", "store"}
      /\ started' \in 0 .. MaxInvalidations /\ finished' \in 0 .. MaxInvalidations
      /\ finished' <= started' /\ finished' >= finished
  BY CacheAssumption DEF Invalidate, Purge, PurgeMemory, PurgeFile, PurgeStore, ClearStore,
     storeVars, CachesInv, CachesTyped, Honoured
<1>4. CachesTyped'
  BY <1>1, <1>3 DEF CachesInv, CachesTyped, Files
<1>5. Carried' /\ Exclusive'
  BY <1>1, <1>2 DEF CachesInv, Carried, Exclusive
<1>6. Honoured'
  <2>1. \A r \in Request : req'[r].asked <= finished'
    <3>1. ASSUME NEW r \in Request PROVE req'[r].asked <= finished'
      <4>1. req[r].asked \in 0 .. MaxInvalidations /\ req[r].asked <= finished /\ finished \in Nat
        BY Here, RequestFields
      <4>. QED  BY <1>1, <1>3, <4>1, CacheAssumption
    <3>. QED  BY <3>1
  <2>2. Alone => \A r \in Request : req'[r].step = "idle"
    BY <1>1, <1>2
  <2>3. ASSUME Alone
        PROVE  /\ Fresh(memory)' /\ Fresh(file)'
               /\ purge' # "done" => memory' = None
               /\ purge' = "store" => file' = None
    <3>1. CASE PurgeMemory
      BY <2>3, <3>1 DEF PurgeMemory, Fresh, CachesInv, Honoured
    <3>2. CASE PurgeFile
      BY <2>3, <3>2, Here DEF PurgeFile, Fresh, CachesInv, Honoured
    <3>3. CASE PurgeStore
      BY <2>3, <3>3 DEF PurgeStore, Fresh, CachesInv, Honoured
    <3>. QED  BY <3>1, <3>2, <3>3 DEF Invalidate, Purge
  <2>. QED  BY <1>1, <1>3, <2>1, <2>2, <2>3 DEF Honoured
<1>7. Remembered'
  <2>1. Alone => /\ \A r \in Request : req'[r].step \notin {"save", "pickle"}
                 /\ vectors' = None
    BY <1>1, <1>2, <1>3 DEF CachesInv, Remembered
  <2>. QED  BY <1>1, <1>3, <2>1 DEF CachesInv, Remembered
<1>. QED  BY <1>4, <1>5, <1>6, <1>7 DEF CachesInv

LEMMA RestartStep == ASSUME CachesInv, DatabaseTyped, Restart PROVE CachesInv'
<1>1. /\ memory' = None /\ purge' = "done" /\ vectors' = None
      /\ store' \in {store, {}} /\ files' \in {files, "mixed", "torn"}
      /\ UNCHANGED <<file, ever, started, finished, setting, columns>> /\ Alone' = Alone
  BY DEF Restart, RestartCaches, storeVars, dbVars, Alone
<1>2. req' \in [Request -> Requests] /\ \A r \in Request : req'[r] = Idle
  BY IdleTyped DEF Restart, RestartCaches
<1>3. \A r \in Request : req'[r].step = "idle" /\ req'[r].asked = 0 /\ req'[r].since = 0
  BY <1>2, IdleTyped
<1>4. CachesTyped'
  BY <1>1, <1>2 DEF CachesInv, CachesTyped, Files
<1>5. Carried' /\ Exclusive'
  BY <1>1, <1>3, IndexAssumption DEF Carried, Exclusive, AnalystSteps, CacheSteps, DatabaseTyped
<1>6. Honoured'
  BY <1>1, <1>3, CacheAssumption DEF CachesInv, CachesTyped, Honoured, Fresh
<1>7. Remembered'
  BY <1>1, <1>3 DEF CachesInv, Remembered
<1>. QED  BY <1>4, <1>5, <1>6, <1>7 DEF CachesInv

(* Simulations and migrations leave the caches alone. *)
LEMMA ElsewhereStep ==
    ASSUME CachesInv, DatabaseTyped, UNCHANGED <<cacheVars, setting>>,
           columns' \in {columns, columns + 1}
    PROVE  CachesInv'
<1>1. /\ UNCHANGED <<memory, file, store, ever, files, vectors, req, purge, started, finished>>
      /\ Alone' = Alone
  BY DEF cacheVars, storeVars, Alone
<1>2. \A r \in Request : req[r].since <= columns'
  <2>1. ASSUME NEW r \in Request PROVE req[r].since <= columns'
    <3>1. req[r].since \in Nat /\ req[r].since <= columns /\ columns \in Nat
      BY Here, RequestFields, IndexAssumption DEF DatabaseTyped
    <3>. QED  BY <3>1
  <2>. QED  BY <2>1
<1>3. Carried'
  BY <1>1, <1>2 DEF CachesInv, Carried
<1>. QED  BY <1>1, <1>3 DEF CachesInv, CachesTyped, Exclusive, Honoured, Remembered, Fresh

-----------------------------------------------------------------------------
(* The simulations, and the indexes they create *)

SimTyped ==
    /\ sim \in [Request -> Simulations]
    /\ \A r \in Request : sim[r].phase # "none" => sim[r].cand \in Candidate

SharedTyped == DatabaseTyped /\ SimTyped

Reports == {"none", "skipped", "error", "estimated", "executed"}

LEMMA NoSimTyped == NoSim \in Simulations /\ NoSim.phase = "none"
  BY DEF NoSim, Simulations, Phases

LEMMA CandidateIndexes ==
    ASSUME NEW c \in Candidate
    PROVE  SimIndex(c) \in Index /\ RescueIndex(c) \in Index
<1>1. c.cols \in Seq(Column) /\ SimName[c] \in IndexName /\ RescueName[c] \in IndexName
  BY CandidateAssumption
<1>. QED  BY <1>1 DEF SimIndex, RescueIndex, Index

(* Request r goes on with its simulation as s. *)
LEMMA Simulated ==
    ASSUME SharedTyped, NEW r \in Request, NEW from, NEW s \in Simulations,
           Phase(r, from, s), s.phase # "none" => s.cand \in Candidate,
           indexes' \subseteq Index
    PROVE  SharedTyped'
<1>1. sim' = [sim EXCEPT ![r] = s] /\ UNCHANGED <<columns, setting>>
  BY DEF Phase
<1>2. sim' \in [Request -> Simulations]
  BY <1>1 DEF SharedTyped, SimTyped
<1>3. \A t \in Request : sim'[t] = IF t = r THEN s ELSE sim[t]
  BY <1>1 DEF SharedTyped, SimTyped
<1>4. SimTyped'
  BY <1>2, <1>3 DEF SharedTyped, SimTyped
<1>5. DatabaseTyped'
  BY <1>1 DEF SharedTyped, DatabaseTyped
<1>. QED  BY <1>4, <1>5 DEF SharedTyped

LEMMA Goes ==
    ASSUME SharedTyped, NEW r \in Request
    PROVE  /\ sim[r] \in Simulations /\ indexes \subseteq Index
           /\ \A phase \in Phases : /\ Then(r, phase) \in Simulations
                                    /\ Then(r, phase).phase = phase
                                    /\ Then(r, phase).cand = sim[r].cand
           /\ \A report \in Reports : /\ Report(r, report) \in Simulations
                                      /\ Report(r, report).phase = "none"
<1>1. sim[r] \in Simulations /\ indexes \subseteq Index
  BY DEF SharedTyped, SimTyped, DatabaseTyped
<1>2. ASSUME NEW phase \in Phases
      PROVE  Then(r, phase) \in Simulations /\ Then(r, phase).phase = phase
             /\ Then(r, phase).cand = sim[r].cand
  BY <1>1 DEF Then, Simulations
<1>3. ASSUME NEW report \in Reports
      PROVE  Report(r, report) \in Simulations /\ Report(r, report).phase = "none"
  BY <1>1 DEF Report, Simulations, Phases, Reports
<1>. QED  BY <1>1, <1>2, <1>3

(* A step from a phase before the last, that goes on to another *)
LEMMA GoesOn ==
    ASSUME SharedTyped, NEW r \in Request, NEW from, from # "none", NEW s,
           Phase(r, from, s), indexes' \subseteq Index,
           s \in Simulations, s.phase = "none" \/ s.cand = sim[r].cand
    PROVE  SharedTyped'
<1>1. s.phase # "none" => s.cand \in Candidate
  BY DEF SharedTyped, SimTyped, Phase
<1>. QED  BY <1>1, Simulated

LEMMA AfterDropTyped ==
    ASSUME SharedTyped, NEW r \in Request, NEW dropped \in {"clean", "rescued", "failed"}
    PROVE  /\ AfterDrop(r, dropped) \in Simulations
           /\ AfterDrop(r, dropped).cand = sim[r].cand
<1>. DEFINE s == [sim[r] EXCEPT !.dropped = dropped]
<1>1. s \in Simulations /\ s.cand = sim[r].cand
  BY Goes DEF Simulations
<1>. HIDE DEF s
<1>2. /\ [s EXCEPT !.phase = "none"] \in Simulations
      /\ [s EXCEPT !.phase = "baseline"] \in Simulations
      /\ [s EXCEPT !.phase = "none", !.report = "estimated"] \in Simulations
      /\ [s EXCEPT !.phase = "none"].cand = s.cand
      /\ [s EXCEPT !.phase = "baseline"].cand = s.cand
      /\ [s EXCEPT !.phase = "none", !.report = "estimated"].cand = s.cand
  BY <1>1 DEF Simulations, Phases
<1>3. AfterDrop(r, dropped) \in {[s EXCEPT !.phase = "none"], [s EXCEPT !.phase = "baseline"],
                                 [s EXCEPT !.phase = "none", !.report = "estimated"]}
  BY Zenon DEF AfterDrop, s
<1>. QED  BY <1>1, <1>2, <1>3

LEMMA GateStep ==
    ASSUME SharedTyped, NEW r \in Request, NEW c \in Candidate, Gate(r, c)
    PROVE  SharedTyped'
<1>. DEFINE phase == IF Covered(c) THEN "none" ELSE "explain"
            report == IF Covered(c) THEN "skipped" ELSE "none"
            s == [NoSim EXCEPT !.cand = c, !.phase = phase, !.report = report]
<1>1. Phase(r, "none", s) /\ indexes' = indexes
  BY DEF Gate
<1>2. phase \in Phases /\ report \in Reports
  BY DEF Phases, Reports
<1>. HIDE DEF phase, report
<1>3. s \in Simulations /\ s.cand = c
  BY <1>2, NoSimTyped DEF Simulations, Reports
<1>. HIDE DEF s
<1>. QED  BY <1>1, <1>3, Goes, Simulated

LEMMA ExplainStep ==
    ASSUME SharedTyped, NEW r \in Request, ExplainOriginal(r)
    PROVE  SharedTyped'
<1>. DEFINE phase == IF setting.engine = "mysql" THEN "sweep"
                     ELSE IF setting.executed THEN "pg_baseline" ELSE "hypothetical"
            s == [sim[r] EXCEPT !.before = indexes, !.phase = phase]
<1>1. Phase(r, "explain", s) /\ indexes' = indexes
  BY DEF ExplainOriginal
<1>2. phase \in Phases /\ sim[r] \in Simulations /\ indexes \in SUBSET Index
  BY Goes DEF Phases
<1>. HIDE DEF phase
<1>3. s \in Simulations /\ s.cand = sim[r].cand
  BY <1>2 DEF Simulations
<1>. HIDE DEF s
<1>. QED  BY <1>1, <1>3, Goes, GoesOn

LEMMA SweepStep == ASSUME SharedTyped, NEW r \in Request, Sweep(r) PROVE SharedTyped'
<1>1. Phase(r, "sweep", Then(r, "create")) /\ indexes' \subseteq indexes /\ "create" \in Phases
  BY DEF Sweep, Phases
<1>. QED  BY <1>1, Goes, GoesOn

LEMMA CreateStep == ASSUME SharedTyped, NEW r \in Request, Create(r) PROVE SharedTyped'
<1>. DEFINE i == SimIndex(sim[r].cand)
<1>1. sim[r].phase = "create" /\ "measure" \in Phases /\ "error" \in Reports
  BY DEF Create, Phase, Phases, Reports
<1>2. i \in Index
  BY <1>1, CandidateIndexes DEF SharedTyped, SimTyped
<1>. HIDE DEF i
<1>3. Added(i) \subseteq Index
  BY <1>2, Goes DEF Added
<1>4. CASE Phase(r, "create", Then(r, "measure")) /\ indexes' = Added(i)
  BY <1>1, <1>3, <1>4, Goes, GoesOn
<1>5. CASE Phase(r, "create", Report(r, "error")) /\ indexes' = indexes
  BY <1>1, <1>5, Goes, GoesOn
<1>. QED  BY <1>4, <1>5 DEF Create, i

LEMMA MeasureStep == ASSUME SharedTyped, NEW r \in Request, Measure(r) PROVE SharedTyped'
<1>1. "drop" \in Phases /\ indexes' = indexes /\ "error" \in Reports
  BY DEF Measure, Phases, Reports
<1>2. ASSUME NEW timed \in MeasuredExec,
             Phase(r, "measure", [Then(r, "drop") EXCEPT !.with = indexes, !.timed = timed])
      PROVE  SharedTyped'
  <2>. DEFINE s == [Then(r, "drop") EXCEPT !.with = indexes, !.timed = timed]
  <2>1. timed \in BOOLEAN
    BY IndexAssumption DEF MeasuredExec, SharedTyped, DatabaseTyped, Setting
  <2>2. /\ Then(r, "drop") \in Simulations /\ Then(r, "drop").cand = sim[r].cand
        /\ indexes \in SUBSET Index
    BY <1>1, Goes
  <2>3. s \in Simulations /\ s.cand = sim[r].cand
    BY <2>1, <2>2 DEF Simulations
  <2>. HIDE DEF s
  <2>. QED  BY <1>1, <1>2, <2>3, Goes, GoesOn DEF s
<1>3. CASE Phase(r, "measure", [Then(r, "drop") EXCEPT !.report = "error"])
  <2>. DEFINE s == [Then(r, "drop") EXCEPT !.report = "error"]
  <2>1. s \in Simulations /\ s.cand = sim[r].cand
    BY <1>1, Goes DEF Simulations
  <2>. HIDE DEF s
  <2>. QED  BY <1>1, <1>3, <2>1, Goes, GoesOn DEF s
<1>. QED  BY <1>2, <1>3, Zenon DEF Measure

LEMMA DropStep == ASSUME SharedTyped, NEW r \in Request, Drop(r) PROVE SharedTyped'
<1>1. "rescue" \in Phases /\ indexes' \subseteq indexes
  BY DEF Phases, Drop
<1>2. \/ \E dropped \in {"clean", "failed"} : Phase(r, "drop", AfterDrop(r, dropped))
      \/ Phase(r, "drop", Then(r, "rescue"))
  BY Zenon DEF Drop
<1>3. ASSUME NEW dropped \in {"clean", "failed"}, Phase(r, "drop", AfterDrop(r, dropped))
      PROVE  SharedTyped'
  BY <1>1, <1>3, Goes, AfterDropTyped, GoesOn
<1>4. CASE Phase(r, "drop", Then(r, "rescue"))
  BY <1>1, <1>4, Goes, GoesOn
<1>. QED  BY <1>2, <1>3, <1>4

LEMMA RescueStep == ASSUME SharedTyped, NEW r \in Request, Rescue(r) PROVE SharedTyped'
<1>1. PICK dropped \in {"rescued", "failed"} : Phase(r, "rescue", AfterDrop(r, dropped))
  BY Zenon DEF Rescue
<1>2. RescueIndex(sim[r].cand) \in Index
  BY <1>1, CandidateIndexes DEF Phase, SharedTyped, SimTyped
<1>3. indexes' \subseteq indexes \cup {RescueIndex(sim[r].cand)}
  BY DEF Rescue
<1>. QED  BY <1>1, <1>2, <1>3, Goes, AfterDropTyped, GoesOn

LEMMA BaselineStep == ASSUME SharedTyped, NEW r \in Request, Baseline(r) PROVE SharedTyped'
<1>1. indexes' = indexes /\ "executed" \in Reports /\ "estimated" \in Reports
  BY DEF Baseline, Reports
<1>2. CASE Phase(r, "baseline", [Report(r, "executed") EXCEPT !.base = indexes])
  <2>. DEFINE s == [Report(r, "executed") EXCEPT !.base = indexes]
  <2>1. s \in Simulations /\ s.phase = "none"
    BY <1>1, Goes DEF Simulations
  <2>. HIDE DEF s
  <2>. QED  BY <1>1, <1>2, <2>1, Goes, GoesOn DEF s
<1>3. CASE Phase(r, "baseline", Report(r, "estimated"))
  BY <1>1, <1>3, Goes, GoesOn
<1>. QED  BY <1>2, <1>3, Zenon DEF Baseline

(* What the hypothetical index, or the one of a transaction, adds *)
LEMMA WithTheIndex ==
    ASSUME SharedTyped, NEW r \in Request, sim[r].phase # "none"
    PROVE  indexes \cup {SimIndex(sim[r].cand)} \in SUBSET Index
<1>1. SimIndex(sim[r].cand) \in Index
  BY CandidateIndexes DEF SharedTyped, SimTyped
<1>. QED  BY <1>1, Goes

LEMMA HypotheticalStep ==
    ASSUME SharedTyped, NEW r \in Request, Hypothetical(r) PROVE SharedTyped'
<1>1. /\ indexes' = indexes /\ "pg_measure" \in Phases
      /\ "estimated" \in Reports /\ "error" \in Reports /\ sim[r].phase = "hypothetical"
  BY DEF Hypothetical, Phases, Reports, Phase
<1>. DEFINE with == indexes \cup {SimIndex(sim[r].cand)}
            s == [Report(r, "estimated") EXCEPT !.with = with]
<1>2. CASE Phase(r, "hypothetical", s)
  <2>1. /\ with \in SUBSET Index
        /\ Report(r, "estimated") \in Simulations /\ Report(r, "estimated").phase = "none"
    BY <1>1, Goes, WithTheIndex
  <2>. HIDE DEF with
  <2>2. s \in Simulations /\ s.phase = "none"
    BY <2>1 DEF Simulations
  <2>. HIDE DEF s
  <2>. QED  BY <1>1, <1>2, <2>2, Goes, GoesOn
<1>3. CASE Phase(r, "hypothetical", Then(r, "pg_measure"))
  BY <1>1, <1>3, Goes, GoesOn
<1>4. CASE Phase(r, "hypothetical", Report(r, "error"))
  BY <1>1, <1>4, Goes, GoesOn
<1>. QED  BY <1>2, <1>3, <1>4, Zenon DEF Hypothetical

LEMMA PgBaselineStep ==
    ASSUME SharedTyped, NEW r \in Request, PgBaseline(r) PROVE SharedTyped'
<1>. DEFINE s == [Then(r, "pg_measure") EXCEPT !.base = indexes, !.timed = TRUE]
<1>1. indexes' = indexes /\ "pg_measure" \in Phases /\ "error" \in Reports
  BY DEF PgBaseline, Phases, Reports
<1>2. CASE Phase(r, "pg_baseline", s)
  <2>1. /\ Then(r, "pg_measure") \in Simulations /\ Then(r, "pg_measure").cand = sim[r].cand
        /\ indexes \in SUBSET Index
    BY <1>1, Goes
  <2>2. s \in Simulations /\ s.cand = sim[r].cand
    BY <2>1 DEF Simulations
  <2>. HIDE DEF s
  <2>. QED  BY <1>1, <1>2, <2>2, Goes, GoesOn
<1>3. CASE Phase(r, "pg_baseline", Report(r, "error"))
  BY <1>1, <1>3, Goes, GoesOn
<1>. QED  BY <1>2, <1>3, Zenon DEF PgBaseline

LEMMA PgMeasureStep ==
    ASSUME SharedTyped, NEW r \in Request, PgMeasure(r) PROVE SharedTyped'
<1>. DEFINE with == indexes \cup {SimIndex(sim[r].cand)}
            timedReport(timed) == IF timed THEN "executed" ELSE "estimated"
            s(timed) == [Report(r, timedReport(timed)) EXCEPT !.with = with]
<1>1. /\ indexes' = indexes /\ "error" \in Reports /\ sim[r].phase = "pg_measure"
  BY DEF PgMeasure, Reports, Phase
<1>2. ASSUME NEW timed \in TimedExplainAnalyze(r), Phase(r, "pg_measure", s(timed))
      PROVE  SharedTyped'
  <2>1. with \in SUBSET Index
    BY <1>1, WithTheIndex
  <2>2. timedReport(timed) \in Reports
    BY DEF Reports
  <2>. DEFINE report == timedReport(timed)
  <2>. HIDE DEF with, report
  <2>3. Report(r, report) \in Simulations /\ Report(r, report).phase = "none"
    BY <2>2, Goes DEF report
  <2>4. [Report(r, report) EXCEPT !.with = with] \in Simulations
        /\ [Report(r, report) EXCEPT !.with = with].phase = "none"
    BY <2>1, <2>3 DEF Simulations
  <2>5. Phase(r, "pg_measure", [Report(r, report) EXCEPT !.with = with])
    BY <1>2, Zenon DEF report
  <2>. QED  BY <1>1, <2>4, <2>5, Goes, GoesOn
<1>3. CASE Phase(r, "pg_measure", Report(r, "error"))
  BY <1>1, <1>3, Goes, GoesOn
<1>. QED  BY <1>2, <1>3, Zenon DEF PgMeasure, with, s, timedReport

LEMMA SimulatesStep ==
    ASSUME SharedTyped, NEW r \in Request, Simulates(r) PROVE SharedTyped'
  BY GateStep, ExplainStep, SweepStep, CreateStep, MeasureStep, DropStep, RescueStep,
     BaselineStep, HypotheticalStep, PgBaselineStep, PgMeasureStep, Zenon
  DEF Simulates, SimStep

(* Simulations end with their request or with the process. *)
LEMMA ForgetsSimulations ==
    ASSUME SharedTyped, UNCHANGED dbVars,
           \/ \E r \in Request : sim' = [sim EXCEPT ![r] = NoSim]
           \/ sim' = [r \in Request |-> NoSim]
    PROVE  SharedTyped'
<1>1. sim' \in [Request -> Simulations]
  BY NoSimTyped DEF SharedTyped, SimTyped
<1>2. \A t \in Request : sim'[t] \in {sim[t], NoSim}
  BY DEF SharedTyped, SimTyped
<1>3. \A t \in Request : sim'[t].phase # "none" => sim'[t].cand \in Candidate
  BY <1>2, NoSimTyped DEF SharedTyped, SimTyped
<1>4. DatabaseTyped'
  BY DEF SharedTyped, DatabaseTyped, dbVars
<1>. QED  BY <1>1, <1>3, <1>4 DEF SharedTyped, SimTyped

LEMMA MigrationStep == ASSUME SharedTyped, Migration PROVE SharedTyped'
  BY IndexAssumption DEF Migration, Migrate, SharedTyped, SimTyped, DatabaseTyped

LEMMA UntouchedSimulations ==
    ASSUME SharedTyped, UNCHANGED <<dbVars, sim>> PROVE SharedTyped'
  BY DEF SharedTyped, SimTyped, DatabaseTyped, dbVars

-----------------------------------------------------------------------------
IInv == SharedTyped /\ CachesInv

LEMMA Initially == ASSUME Init PROVE IInv
<1>1. DatabaseTyped
  BY IndexAssumption DEF Init, DatabaseInit, DatabaseTyped
<1>2. SimTyped
  BY NoSimTyped DEF Init, SimInit, SimTyped
<1>3. req \in [Request -> Requests] /\ \A r \in Request :
          req[r].step = "idle" /\ req[r].asked = 0 /\ req[r].since = 0
  BY IdleTyped DEF Init, CacheInit
<1>4. CachesTyped
  BY <1>3, CacheAssumption DEF Init, CacheInit, CachesTyped, Files
<1>5. Carried /\ Exclusive /\ Remembered /\ Honoured
  BY <1>3 DEF Init, CacheInit, DatabaseInit, Carried, Exclusive, Remembered, Honoured, Fresh,
              AnalystSteps, CacheSteps
<1>. QED  BY <1>1, <1>2, <1>4, <1>5 DEF IInv, SharedTyped, CachesInv

LEMMA Inductive == ASSUME IInv, [Next]_vars PROVE IInv'
<1>1. ASSUME NEW r \in Request, RequestStep(r) PROVE IInv'
  <2>1. UNCHANGED <<dbVars, sim>>
    BY <1>1 DEF RequestStep, CacheStep, Arrive, Load, ReadFingerprint, Compare, Clear, Remove,
       Build, Install, Stamp, OpenFile, WriteFile, Serve, StoreLoads, SaveIndex, SavePickle,
       Leave, Step
  <2>. QED  BY <1>1, <2>1, UntouchedSimulations, RequestSteps DEF IInv, SharedTyped
<1>2. ASSUME NEW r \in Request, StartIndexing(r) PROVE IInv'
  <2>1. UNCHANGED <<dbVars, sim>>
    BY <1>2 DEF StartIndexing, Step
  <2>. QED  BY <1>2, <2>1, UntouchedSimulations, StartIndexingStep DEF IInv, SharedTyped
<1>3. ASSUME NEW r \in Request, Simulates(r) PROVE IInv'
  <2>1. UNCHANGED <<cacheVars, setting, columns>>
    BY <1>3 DEF Simulates, Gate, SimStep, ExplainOriginal, Sweep, Create, Measure, Drop, Rescue,
       Baseline, Hypothetical, PgBaseline, PgMeasure, Phase
  <2>. QED  BY <1>3, <2>1, SimulatesStep, ElsewhereStep DEF IInv, SharedTyped
<1>4. ASSUME NEW r \in Request, FinishIndexing(r) PROVE IInv'
  <2>1. sim' = [sim EXCEPT ![r] = NoSim] /\ UNCHANGED dbVars
    BY <1>4 DEF FinishIndexing, Step
  <2>. QED  BY <1>4, <2>1, ForgetsSimulations, FinishIndexingStep DEF IInv, SharedTyped
<1>5. CASE Invalidate
  <2>1. UNCHANGED <<dbVars, sim>>
    BY <1>5 DEF Invalidate, Purge
  <2>. QED  BY <1>5, <2>1, UntouchedSimulations, InvalidateStep DEF IInv
<1>6. CASE Migration
  <2>1. UNCHANGED <<cacheVars, setting>> /\ columns' = columns + 1
    BY <1>6 DEF Migration, Migrate
  <2>. QED  BY <1>6, <2>1, MigrationStep, ElsewhereStep DEF IInv, SharedTyped
<1>7. CASE Restart
  <2>1. sim' = [r \in Request |-> NoSim] /\ UNCHANGED dbVars
    BY <1>7 DEF Restart, RestartSimulations
  <2>. QED  BY <1>7, <2>1, ForgetsSimulations, RestartStep DEF IInv, SharedTyped
<1>8. CASE UNCHANGED vars
  <2>1. UNCHANGED <<dbVars, sim, cacheVars, setting, columns>>
    BY <1>8 DEF vars, dbVars
  <2>. QED  BY <2>1, UntouchedSimulations, ElsewhereStep DEF IInv, SharedTyped
<1>. QED  BY <1>1, <1>2, <1>3, <1>4, <1>5, <1>6, <1>7, <1>8 DEF Next

LEMMA Invariant == Spec => []IInv
<1>1. Init => IInv
  BY Initially
<1>2. IInv /\ [Next]_vars => IInv'
  BY Inductive
<1>. QED  BY <1>1, <1>2, PTL DEF Spec

(* The caches, the database and the simulations stay within their types,
   whatever the settings, the requests and their number. *)
THEOREM TypeCorrect == Spec => []TypeOK
<1>1. IInv => TypeOK
  BY DEF IInv, SharedTyped, DatabaseTyped, SimTyped, CachesInv, CachesTyped, Files, TypeOK
<1>. QED  BY <1>1, Invariant, PTL

(* main.py:79-82: for callers that wait for one another, a request that comes
   after an invalidation goes on with a schema extracted after it began, through
   any migrations, restarts, half-written files, failures and simulations. *)
THEOREM InvalidationIsHonoured == Spec => []InvalidationHonouredAlone
<1>1. IInv => InvalidationHonouredAlone
  BY DEF IInv, CachesInv, Honoured, InvalidationHonouredAlone, InvalidationHonoured
<1>. QED  BY <1>1, Invariant, PTL

-----------------------------------------------------------------------------
(* The semantic cache implements the memory of rewrites. *)

memoryVars == <<store, ever, files = "mixed", Alone>>

LEMMA MemoryInitially == ASSUME Init PROVE Memory!Init
  BY DEF Init, CacheInit, Memory!Init, Alone

LEMMA MemoryStep ==
    ASSUME IInv, [Next]_vars
    PROVE  [Memory!Next]_memoryVars
<1>1. Alone' = Alone
  BY DEF Next, vars, RequestStep, CacheStep, Arrive, Load, ReadFingerprint, Compare, Clear, Remove,
     Build, Install, Stamp, OpenFile, WriteFile, Serve, StoreLoads, SaveIndex, SavePickle,
       Leave, Step,
     StartIndexing, Simulates, Gate, SimStep, ExplainOriginal, Sweep, Create, Measure, Drop,
     Rescue, Baseline, Hypothetical, PgBaseline, PgMeasure, Phase, FinishIndexing, Invalidate,
     Purge, Migration, Migrate, Restart, dbVars, Alone
<1>2. ASSUME NEW r \in Request, SavePickle(r) PROVE [Memory!Next]_memoryVars
  <2>1. CASE UNCHANGED storeVars
    BY <1>1, <2>1 DEF storeVars, memoryVars
  <2>2. CASE /\ store' \in Found(r) /\ ever' = ever \cup {req[r].query}
             /\ files' = IF vectors = r /\ ~req[r].mixed THEN "whole" ELSE "mixed"
    <3>1. /\ req[r].step = "pickle" /\ req[r].query \in Query /\ req[r].copy \subseteq ever
          /\ Alone => /\ req[r].copy = store /\ req[r].mixed = (files = "mixed")
                      /\ vectors = r
      BY <1>2, SaveHere DEF SavePickle, Step, IInv
    <3>2. CASE ~Alone
      <4>1. store' \in SUBSET ever'
        BY <2>2, <3>1 DEF Found, IInv, CachesInv, Remembered
      <4>2. Memory!Overwrite(req[r].query)
        BY <2>2, <3>2, <4>1 DEF Memory!Overwrite
      <4>. QED  BY <1>1, <3>1, <4>2 DEF Memory!Next
    <3>3. CASE Alone /\ files = "mixed"
      <4>1. Memory!Misfile(req[r].query)
        BY <2>2, <3>1, <3>3 DEF Memory!Misfile, Found
      <4>. QED  BY <1>1, <3>1, <4>1 DEF Memory!Next
    <3>4. CASE Alone /\ files # "mixed"
      <4>1. req[r].mixed = FALSE /\ store' \in {req[r].copy \cup {req[r].query}}
        BY <2>2, <3>1, <3>4 DEF Found
      <4>2. Memory!Remember(req[r].query)
        BY <2>2, <3>1, <3>4, <4>1 DEF Memory!Remember
      <4>. QED  BY <1>1, <3>1, <4>2 DEF Memory!Next
    <3>. QED  BY <3>2, <3>3, <3>4
  <2>. QED  BY <1>2, <2>1, <2>2 DEF SavePickle
<1>3. CASE store' = {} /\ ever' = ever /\ files' # "mixed"
  BY <1>1, <1>3 DEF Memory!Next, Memory!Forget
<1>4. CASE UNCHANGED <<store, ever>> /\ (files' = files \/ files' = "mixed")
  BY <1>1, <1>4 DEF memoryVars, Memory!Next, Memory!Damage
<1>5. \/ \E r \in Request : SavePickle(r)
      \/ store' = {} /\ ever' = ever /\ files' # "mixed"
      \/ UNCHANGED <<store, ever>> /\ (files' = files \/ files' = "mixed")
  <2>1. ASSUME NEW r \in Request, RequestStep(r), ~SavePickle(r)
        PROVE  ever' = ever /\ (UNCHANGED <<store, files>> \/ (store' = {} /\ files' # "mixed"))
    BY <2>1 DEF RequestStep, CacheStep, Arrive, Load, ReadFingerprint, Compare, Clear, ClearStore,
       Remove, Build, Install, Stamp, OpenFile, WriteFile, Serve, StoreLoads, SaveIndex, Leave,
       storeVars
  <2>2. ASSUME NEW r \in Request, StartIndexing(r) \/ Simulates(r) \/ FinishIndexing(r)
        PROVE  UNCHANGED <<store, ever, files>>
    BY <2>2 DEF StartIndexing, Simulates, FinishIndexing, storeVars, cacheVars
  <2>3. ASSUME Invalidate
        PROVE  ever' = ever /\ (UNCHANGED <<store, files>> \/ (store' = {} /\ files' # "mixed"))
    BY <2>3 DEF Invalidate, Purge, PurgeMemory, PurgeFile, PurgeStore, ClearStore, storeVars
  <2>4. ASSUME Restart
        PROVE  /\ ever' = ever
               /\ \/ UNCHANGED store /\ (files' = files \/ files' = "mixed")
                  \/ store' = {} /\ files' # "mixed"
    BY <2>4 DEF Restart, RestartCaches
  <2>5. ASSUME Migration \/ UNCHANGED vars PROVE UNCHANGED <<store, ever, files>>
    BY <2>5 DEF Migration, vars, cacheVars, storeVars
  <2>. QED  BY <2>1, <2>2, <2>3, <2>4, <2>5 DEF Next
<1>. QED  BY <1>2, <1>3, <1>4, <1>5

(* Requests that wait for one another find every rewrite stored since the last
   clearing or the last save that was killed half-way; after a save that left its
   two files out of step they still find what they found before; concurrent ones
   never find a rewrite nobody stored (semantic_cache.py:25-34, 56-63): the
   detailed caches implement RewriteMemory. *)
THEOREM CacheIsAMemory == Spec => StoreIsAMemory
<1>1. Init => Memory!Init
  BY MemoryInitially
<1>2. IInv /\ [Next]_vars => [Memory!Next]_memoryVars
  BY MemoryStep
<1>. QED  BY <1>1, <1>2, Invariant, PTL DEF Spec, StoreIsAMemory, Memory!Spec, memoryVars

-----------------------------------------------------------------------------
(* What the schema analyst concludes of the database when requests wait    *)
(* for one another.                                                        *)

(* Requests that wait for one another: what the analyst's request, with local *)
(* variables l, can rely on at each step, m being the context in memory.      *)
Agrees(l, m) == l.seen = None \/ m.fp = None \/ l.seen = m.fp

Settled(l, m) ==
    /\ l.step \in {"fingerprint", "compare", "stamp", "open", "write", "serve"} => m # None
    /\ l.step \in {"clear", "remove"} => m = None
    /\ l.step \in {"install", "stamp", "open", "write"} => l.built # None
    /\ l.step = "write" => l.built = m
    /\ l.step = "serve" /\ l.built = None => Agrees(l, m)
    /\ l.step = "analyzed" => l.served # None /\ (l.built = None => Agrees(l, l.served))

Quiet ==
    Alone =>
        /\ \A r \in Request : Settled(req[r], memory)
        /\ ~setting.faults => /\ \A r \in Request : req[r].step # "failed"
                              /\ file = Torn => \E r \in Request : req[r].step = "write"

(* The other requests are idle, so that only r matters. *)
LEMMA QuietMove ==
    ASSUME IInv, Quiet, NEW r \in Request, NEW l, Alone => req[r].step # "idle" \/ Admitted,
           req' = [req EXCEPT ![r] = l], UNCHANGED setting,
           Alone => Settled(l, memory'),
           Alone /\ ~setting.faults => l.step # "failed" /\ (file' = Torn => l.step = "write")
    PROVE  Quiet'
<1>1. Alone' = Alone
  BY DEF Alone
<1>. SUFFICES ASSUME Alone PROVE Quiet'
  BY <1>1 DEF Quiet
<1>2. \A s \in Request : req'[s] = IF s = r THEN l ELSE req[s]
  BY DEF IInv, CachesInv, CachesTyped
<1>3. \A s \in Request : s # r => req[s].step = "idle"
  BY NoneAdmittedElse DEF IInv, CachesInv, Exclusive
<1>4. \A s \in Request : Settled(req'[s], memory')
  BY <1>2, <1>3 DEF Settled
<1>5. ~setting'.faults => (\A s \in Request : req'[s].step # "failed")
  BY <1>2, <1>3
<1>6. ~setting'.faults => (file' = Torn => req'[r].step = "write")
  BY <1>2
<1>. QED  BY <1>1, <1>4, <1>5, <1>6 DEF Quiet

(* One request at a time, nobody is writing while r is elsewhere. *)
LEMMA FileIsWhole ==
    ASSUME IInv, Quiet, Alone, ~setting.faults, NEW r \in Request,
           req[r].step \notin {"idle", "write"}
    PROVE  file # Torn
  BY DEF IInv, CachesInv, Exclusive, Quiet

LEMMA QuietHere ==
    ASSUME IInv, Quiet, Alone, NEW r \in Request PROVE Settled(req[r], memory)
  BY DEF Quiet

(* A step that moves r on without anything but the step *)
LEMMA QuietTo ==
    ASSUME IInv, Quiet, NEW r \in Request, NEW from, NEW step \in Steps, from # "idle",
           Step(r, from, To(r, step)), step \notin {"analyzed", "write"},
           Alone /\ step \in {"fingerprint", "compare", "stamp", "open", "serve"} =>
               memory' # None,
           Alone /\ step \in {"clear", "remove"} => memory' = None,
           Alone /\ step \in {"install", "stamp", "open"} => req[r].built # None,
           Alone /\ step = "serve" /\ req[r].built = None => Agrees(req[r], memory'),
           Alone /\ ~setting.faults => step # "failed" /\ file' # Torn
    PROVE  Quiet'
<1>. DEFINE l == To(r, step)
<1>1. l.step = step /\ l.built = req[r].built /\ l.seen = req[r].seen
  BY ToTyped DEF IInv, CachesInv
<1>2. req[r].step # "idle" /\ req' = [req EXCEPT ![r] = l] /\ UNCHANGED setting
  BY DEF Step, dbVars
<1>. HIDE DEF l
<1>3. Alone => Settled(l, memory')
  BY <1>1 DEF Settled, Agrees
<1>. QED  BY <1>1, <1>2, <1>3, QuietMove

LEMMA QuietAnalyst ==
    ASSUME IInv, Quiet, NEW r \in Request,
           Load(r) \/ Compare(r) \/ Clear(r) \/ Remove(r) \/ Install(r) \/ Stamp(r)
           \/ OpenFile(r) \/ WriteFile(r)
    PROVE  Quiet'
<1>. /\ "fingerprint" \in Steps /\ "failed" \in Steps /\ "build" \in Steps /\ "serve" \in Steps
     /\ "clear" \in Steps /\ "remove" \in Steps /\ "stamp" \in Steps /\ "open" \in Steps
     /\ "write" \in Steps
  BY DEF Steps, AnalystSteps
<1>0. Alone => /\ Settled(req[r], memory)
               /\ ~setting.faults /\ req[r].step \notin {"idle", "write"} => file # Torn
  BY QuietHere, FileIsWhole
<1>1. CASE Load(r)
  <2>1. CASE memory # None /\ Step(r, "load", To(r, "fingerprint"))
             /\ UNCHANGED <<memory, file>>
    BY <1>0, <2>1, QuietTo DEF Step
  <2>2. CASE memory = None /\ file = Torn /\ Step(r, "load", To(r, "failed"))
             /\ UNCHANGED <<memory, file>>
    BY <1>0, <2>2, QuietTo DEF Step
  <2>3. CASE file # Torn /\ memory' = file /\ file = None /\ file' = file
             /\ Step(r, "load", To(r, "build"))
    BY <1>0, <2>3, QuietTo DEF Step
  <2>4. CASE file # Torn /\ memory' = file /\ file # None /\ file' = file
             /\ Step(r, "load", To(r, "fingerprint"))
    BY <1>0, <2>4, QuietTo DEF Step
  <2>. QED  BY <1>1, <2>1, <2>2, <2>3, <2>4, Zenon DEF Load
<1>2. CASE Compare(r)
  <2>1. CASE memory = None /\ Step(r, "compare", To(r, "failed")) /\ UNCHANGED <<memory, file>>
    BY <1>0, <2>1, QuietTo DEF Step, Settled
  <2>2. CASE memory # None /\ ~Drifted(r) /\ Step(r, "compare", To(r, "serve"))
             /\ UNCHANGED <<memory, file>>
    BY <1>0, <2>2, QuietTo DEF Step, Drifted, Agrees
  <2>3. CASE Step(r, "compare", To(r, "clear")) /\ memory' = None /\ file' = file
    BY <1>0, <2>3, QuietTo DEF Step
  <2>. QED  BY <1>2, <2>1, <2>2, <2>3, Zenon DEF Compare
<1>3. CASE Clear(r)
  BY <1>0, <1>3, QuietTo DEF Clear, Step, Settled
<1>4. CASE Remove(r)
  <2>1. file' = None /\ memory' = memory /\ Torn # None /\ req[r].step = "remove"
    BY <1>4, CacheAssumption DEF Remove, Step
  <2>2. CASE memory = None /\ Step(r, "remove", To(r, "build"))
    BY <1>0, <2>1, <2>2, QuietTo
  <2>3. CASE memory # None /\ Step(r, "remove", To(r, "serve"))
    BY <1>0, <2>1, <2>3, QuietTo DEF Settled
  <2>. QED  BY <1>4, <2>2, <2>3, Zenon DEF Remove
<1>5. CASE Install(r)
  BY <1>0, <1>5, QuietTo DEF Install, Step, Settled
<1>6. CASE Stamp(r)
  <2>1. CASE memory = None /\ Step(r, "stamp", To(r, "failed")) /\ UNCHANGED <<memory, file>>
    BY <1>0, <2>1, QuietTo DEF Step, Settled
  <2>2. ASSUME NEW fp \in FingerprintRead, memory # None, Step(r, "stamp", To(r, "open")),
               memory' = [memory EXCEPT !.fp = fp], file' = file
        PROVE  Quiet'
    <3>1. fp \in {None} \cup SUBSET IndexName
      BY DEF FingerprintRead, Fingerprint, Index, IInv, SharedTyped, DatabaseTyped
    <3>2. memory \in Contexts
      BY <2>2, Here DEF IInv
    <3>3. memory' \in Contexts
      BY <2>2, <3>1, <3>2 DEF Contexts
    <3>. QED  BY <1>0, <2>2, <3>3, ContextAssumption, QuietTo DEF Step, Settled
  <2>. QED  BY <1>6, <2>1, <2>2, Zenon DEF Stamp
<1>7. CASE OpenFile(r)
  <2>. DEFINE l == [To(r, "write") EXCEPT !.built = memory]
  <2>1. /\ req[r].step = "open" /\ req' = [req EXCEPT ![r] = l] /\ UNCHANGED <<memory, setting>>
    BY <1>7 DEF OpenFile, Step, dbVars
  <2>2. To(r, "write") \in Requests /\ To(r, "write").step = "write"
    BY ToTyped DEF IInv, CachesInv
  <2>3. l.step = "write" /\ l.built = memory
    BY <2>2 DEF Requests
  <2>. HIDE DEF l
  <2>4. Alone => Settled(l, memory')
    BY <1>0, <2>1, <2>3 DEF Settled
  <2>. QED  BY <2>1, <2>3, <2>4, QuietMove
<1>8. CASE WriteFile(r)
  <2>1. /\ Step(r, "write", To(r, "serve")) /\ req[r].step = "write"
        /\ file' \in {req[r].built, memory} /\ memory' = memory
    BY <1>8 DEF WriteFile, Step
  <2>2. Alone => memory \in Contexts /\ file' = memory
    BY <1>0, <2>1, Here DEF Settled, IInv
  <2>. QED  BY <1>0, <2>1, <2>2, ContextAssumption, QuietTo DEF Settled
<1>. QED  BY <1>1, <1>2, <1>3, <1>4, <1>5, <1>6, <1>7, <1>8

(* The steps that change more of what a request carries *)
LEMMA QuietCarries ==
    ASSUME IInv, Quiet, NEW r \in Request,
           ReadFingerprint(r) \/ Build(r) \/ Serve(r)
    PROVE  Quiet'
<1>0. /\ Alone => /\ Settled(req[r], memory)
                  /\ ~setting.faults /\ req[r].step \notin {"idle", "write"} => file # Torn
      /\ "compare" \in Steps /\ "install" \in Steps /\ "analyzed" \in Steps /\ "failed" \in Steps
      /\ UNCHANGED <<memory, file, setting>>
  BY QuietHere, FileIsWhole DEF Steps, AnalystSteps, CacheSteps, ReadFingerprint, Build, Serve,
     Step, dbVars
<1>1. CASE ReadFingerprint(r)
  <2>1. PICK fp \in FingerprintRead :
           Step(r, "fingerprint", [To(r, "compare") EXCEPT !.seen = fp])
    BY <1>1 DEF ReadFingerprint
  <2>. DEFINE l == [To(r, "compare") EXCEPT !.seen = fp]
  <2>2. To(r, "compare") \in Requests /\ To(r, "compare").step = "compare"
    BY <1>0, ToTyped DEF IInv, CachesInv
  <2>3. l.step = "compare"
    BY <2>2 DEF Requests
  <2>4. req[r].step = "fingerprint" /\ req' = [req EXCEPT ![r] = l]
    BY <2>1 DEF Step
  <2>. HIDE DEF l
  <2>5. Alone => Settled(l, memory')
    BY <1>0, <2>3, <2>4 DEF Settled
  <2>. QED  BY <1>0, <2>3, <2>4, <2>5, QuietMove
<1>2. CASE Build(r)
  <2>1. CASE setting.faults /\ Step(r, "build", To(r, "failed"))
    BY <1>0, <2>1, QuietTo
  <2>2. CASE Step(r, "build", [To(r, "install") EXCEPT !.built = Extracted])
    <3>. DEFINE l == [To(r, "install") EXCEPT !.built = Extracted]
    <3>1. Extracted \in Contexts
      BY DEF Extracted, Contexts, Fingerprint, Index, IInv, SharedTyped, DatabaseTyped,
             CachesInv, CachesTyped
    <3>2. To(r, "install") \in Requests /\ To(r, "install").step = "install"
      BY <1>0, ToTyped DEF IInv, CachesInv
    <3>3. l.step = "install" /\ l.built = Extracted
      BY <3>2 DEF Requests
    <3>4. req[r].step = "build" /\ req' = [req EXCEPT ![r] = l]
      BY <2>2 DEF Step
    <3>. HIDE DEF l
    <3>5. Settled(l, memory')
      BY <3>1, <3>3, ContextAssumption DEF Settled
    <3>. QED  BY <1>0, <3>3, <3>4, <3>5, QuietMove
  <2>. QED  BY <1>2, <2>1, <2>2, Zenon DEF Build
<1>3. CASE Serve(r)
  <2>1. CASE memory = None /\ Step(r, "serve", To(r, "failed"))
    <3>1. req[r].step = "serve"
      BY <2>1 DEF Step
    <3>. QED  BY <1>0, <2>1, <3>1, QuietTo DEF Settled
  <2>2. CASE memory # None /\ Step(r, "serve", [To(r, "analyzed") EXCEPT !.served = memory])
    <3>. DEFINE l == [To(r, "analyzed") EXCEPT !.served = memory]
    <3>1. /\ To(r, "analyzed") \in Requests /\ To(r, "analyzed").step = "analyzed"
          /\ To(r, "analyzed").built = req[r].built /\ To(r, "analyzed").seen = req[r].seen
      BY <1>0, ToTyped DEF IInv, CachesInv
    <3>2. l.step = "analyzed" /\ l.served = memory /\ l.built = req[r].built /\ l.seen = req[r].seen
      BY <3>1 DEF Requests
    <3>3. req[r].step = "serve" /\ req' = [req EXCEPT ![r] = l]
      BY <2>2 DEF Step
    <3>. HIDE DEF l
    <3>4. Alone => Settled(l, memory')
      BY <1>0, <2>2, <3>2, <3>3 DEF Settled, Agrees
    <3>. QED  BY <1>0, <3>2, <3>3, <3>4, QuietMove
  <2>. QED  BY <1>3, <2>1, <2>2, Zenon DEF Serve
<1>. QED  BY <1>1, <1>2, <1>3

(* The steps before and after the analyst *)
LEMMA QuietElse ==
    ASSUME IInv, Quiet, NEW r \in Request, NEW from, NEW l, Step(r, from, l),
           l.step \in {"load", "save", "pickle", "stored", "indexing", "idle"},
           from # "idle" \/ Admitted, from # "write", UNCHANGED file
    PROVE  Quiet'
<1>1. req[r].step = from /\ req' = [req EXCEPT ![r] = l] /\ UNCHANGED setting
  BY DEF Step, dbVars
<1>2. Settled(l, memory')
  BY DEF Settled
<1>3. Alone /\ ~setting.faults => file # Torn
  <2>1. CASE from # "idle"
    BY <1>1, <2>1, FileIsWhole
  <2>2. CASE Admitted
    BY <2>2, NoneAdmittedElse DEF Quiet
  <2>. QED  BY <2>1, <2>2
<1>. QED  BY <1>1, <1>2, <1>3, QuietMove

LEMMA QuietStep == ASSUME IInv, Quiet, [Next]_vars PROVE Quiet'
<1>1. ASSUME NEW r \in Request, RequestStep(r) PROVE Quiet'
  <2>1. ASSUME NEW q \in Query, Arrive(r, q) PROVE Quiet'
    <3>. DEFINE l == [Idle EXCEPT !.step = "load", !.query = q, !.asked = finished,
                                  !.since = columns]
    <3>1. Step(r, "idle", l) /\ file' = file /\ Admitted /\ l.step = "load"
      BY <1>1, <2>1 DEF Arrive, RequestStep, Step, Idle
    <3>. HIDE DEF l
    <3>. QED  BY <3>1, QuietElse
  <2>2. CASE StoreLoads(r)
    <3>1. PICK loaded \in {TRUE, Saving \ {r} = {}} :
             Step(r, "analyzed", [Idle EXCEPT !.step = "save", !.query = req[r].query,
                                        !.copy = IF loaded THEN store ELSE {},
                                        !.mixed = loaded /\ Mixed])
      BY <2>2, Zenon DEF StoreLoads
    <3>. DEFINE l == [Idle EXCEPT !.step = "save", !.query = req[r].query,
                                  !.copy = IF loaded THEN store ELSE {},
                                  !.mixed = loaded /\ Mixed]
    <3>2. Step(r, "analyzed", l)
      BY <3>1
    <3>3. l.step = "save" /\ file' = file
      BY <2>2 DEF Idle, StoreLoads
    <3>. HIDE DEF l
    <3>. QED  BY <3>2, <3>3, QuietElse
  <2>3. CASE SaveIndex(r)
    <3>1. "pickle" \in Steps
      BY DEF Steps, CacheSteps
    <3>. QED  BY <2>3, <3>1, ToTyped, QuietElse DEF SaveIndex, IInv, CachesInv
  <2>5. CASE SavePickle(r)
    <3>1. CASE Step(r, "pickle", [Idle EXCEPT !.step = "failed"]) /\ vectors = None
      <4>1. ~Alone
        BY <3>1, SaveHere, CacheAssumption DEF Step, IInv
      <4>. QED  BY <3>1, <4>1 DEF Quiet, Step, dbVars, Alone
    <3>2. CASE Step(r, "pickle", [Idle EXCEPT !.step = "stored"])
      BY <2>5, <3>2, QuietElse DEF SavePickle, Idle
    <3>. QED  BY <2>5, <3>1, <3>2 DEF SavePickle
  <2>4. CASE Leave(r)
    BY <2>4, QuietElse DEF Leave, Idle
  <2>. QED  BY <1>1, <2>1, <2>2, <2>3, <2>4, <2>5, QuietAnalyst, QuietCarries, Zenon
            DEF RequestStep, CacheStep
<1>2. ASSUME NEW r \in Request, StartIndexing(r) PROVE Quiet'
  BY <1>2, QuietElse DEF StartIndexing, Idle
<1>3. ASSUME NEW r \in Request, FinishIndexing(r) PROVE Quiet'
  BY <1>3, QuietElse DEF FinishIndexing, Idle
<1>4. CASE Invalidate
  <2>1. UNCHANGED <<req, setting>> /\ file' \in {file, None} /\ Alone' = Alone
    BY <1>4 DEF Invalidate, Purge, PurgeMemory, PurgeFile, PurgeStore, dbVars, storeVars, Alone
  <2>2. Alone => \A r \in Request : req[r].step = "idle"
    BY <1>4, NobodyActive DEF Invalidate, IInv
  <2>. QED  BY <2>1, <2>2, CacheAssumption DEF Quiet, Settled
<1>5. CASE Restart
  <2>1. \A r \in Request : req'[r].step = "idle"
    BY <1>5, IdleTyped DEF Restart, RestartCaches
  <2>2. setting'.faults
    BY <1>5 DEF Restart, dbVars
  <2>. QED  BY <2>1, <2>2 DEF Quiet, Settled
<1>6. CASE UNCHANGED <<cacheVars, setting>>
  BY <1>6 DEF Quiet, cacheVars, Alone
<1>7. ASSUME NEW r \in Request, Simulates(r) PROVE UNCHANGED <<cacheVars, setting>>
  BY <1>7 DEF Simulates, Gate, SimStep, ExplainOriginal, Sweep, Create, Measure, Drop, Rescue,
     Baseline, Hypothetical, PgBaseline, PgMeasure, Phase
<1>8. Migration \/ UNCHANGED vars => UNCHANGED <<cacheVars, setting>>
  BY DEF Migration, Migrate, vars, dbVars
<1>. QED  BY <1>1, <1>2, <1>3, <1>4, <1>5, <1>6, <1>7, <1>8 DEF Next

LEMMA QuietAlways == Spec => []Quiet
<1>1. Init => Quiet
  BY IdleTyped, CacheAssumption DEF Init, CacheInit, Quiet, Settled
<1>2. IInv /\ Quiet /\ [Next]_vars => Quiet'
  BY QuietStep
<1>. QED  BY <1>1, <1>2, Invariant, PTL DEF Spec

(* schema_analyst.py:119-150: a request that waits for the one before it never
   fails in the analyst unless the process or a statement did, although the
   global is read again and the file is written in two steps. *)
THEOREM AnalystNeverFailsAlone == Spec => []AnalystFailsForACause
<1>1. Quiet => AnalystFailsForACause
  BY DEF Quiet, AnalystFailsForACause
<1>. QED  BY <1>1, QuietAlways, PTL

(* Requests that wait for one another: what a request without a migration has *)
(* read of the indexes is what they are.                                      *)
Read(l, m, now) ==
    /\ l.step \notin {"idle", "indexing"} => l.seen \in {None, now}
    /\ l.step \in {"load", "fingerprint", "compare"} => l.built = None
    /\ l.step = "install" => l.built.catalog = now
    /\ l.step \in {"stamp", "open", "write", "serve"} /\ l.built # None => m.catalog = now
    /\ l.step = "analyzed" /\ l.built # None => l.served.catalog = now

Current ==
    Alone => \A r \in Request : columns = req[r].since => Read(req[r], memory, Fingerprint)

(* The other requests are idle, so that only r matters. *)
LEMMA CurrentMove ==
    ASSUME IInv, Current, NEW r \in Request, NEW l, req' = [req EXCEPT ![r] = l],
           req[r].step # "idle" \/ Admitted, UNCHANGED dbVars,
           Alone /\ columns = l.since => Read(l, memory', Fingerprint)
    PROVE  Current'
<1>1. Alone' = Alone /\ Fingerprint' = Fingerprint /\ columns' = columns
  BY DEF Alone, Fingerprint, dbVars
<1>. SUFFICES ASSUME Alone PROVE Current'
  BY <1>1 DEF Current
<1>2. \A s \in Request : req'[s] = IF s = r THEN l ELSE req[s]
  BY DEF IInv, CachesInv, CachesTyped
<1>3. \A s \in Request : s # r => req[s].step = "idle"
  BY NoneAdmittedElse DEF IInv, CachesInv, Exclusive
<1>4. ASSUME NEW s \in Request, columns = req'[s].since
      PROVE  Read(req'[s], memory', Fingerprint)
  BY <1>2, <1>3, <1>4 DEF Current, Read
<1>. QED  BY <1>1, <1>4 DEF Current

(* A step to a place where nothing more is asked than before *)
LEMMA CurrentTo ==
    ASSUME IInv, Current, NEW r \in Request, NEW from, NEW step \in Steps,
           Step(r, from, To(r, step)), from \notin {"idle", "indexing"},
           step \notin {"install", "analyzed", "load", "compare"},
           step = "fingerprint" => from = "load",
           Alone /\ columns = req[r].since /\ step \in {"stamp", "open", "write", "serve"}
               /\ req[r].built # None => memory'.catalog = Fingerprint
    PROVE  Current'
<1>. DEFINE l == To(r, step)
<1>1. l.step = step /\ l.built = req[r].built /\ l.seen = req[r].seen /\ l.since = req[r].since
  BY ToTyped DEF IInv, CachesInv
<1>2. req[r].step = from /\ req' = [req EXCEPT ![r] = l] /\ UNCHANGED dbVars
  BY DEF Step
<1>. HIDE DEF l
<1>3. Alone /\ columns = l.since => Read(l, memory', Fingerprint)
  BY <1>1, <1>2 DEF Current, Read
<1>. QED  BY <1>1, <1>2, <1>3, CurrentMove

(* A step to a place where a request carries nothing from the analyst *)
LEMMA CurrentElse ==
    ASSUME IInv, Current, NEW r \in Request, NEW from, NEW l, Step(r, from, l),
           l.seen = None, l.built = None, l.step \in {"load", "save", "stored", "failed", "indexing", "idle"},
           from # "idle" \/ Admitted
    PROVE  Current'
<1>1. req[r].step = from /\ req' = [req EXCEPT ![r] = l] /\ UNCHANGED dbVars
  BY DEF Step
<1>2. Read(l, memory', Fingerprint)
  BY DEF Read
<1>. QED  BY <1>1, <1>2, CurrentMove

LEMMA CurrentHere ==
    ASSUME IInv, Quiet, Current, Alone, NEW r \in Request
    PROVE  /\ Settled(req[r], memory)
           /\ columns = req[r].since => Read(req[r], memory, Fingerprint)
  BY DEF Quiet, Current

LEMMA CurrentAnalyst ==
    ASSUME IInv, Quiet, Current, NEW r \in Request,
           Load(r) \/ Compare(r) \/ Clear(r) \/ Remove(r) \/ Install(r) \/ Stamp(r) \/ WriteFile(r)
    PROVE  Current'
<1>0. \A step \in AnalystSteps \cup {"failed"} : step \in Steps
  BY DEF Steps
<1>1. CASE Load(r)
  <2>1. PICK step \in {"fingerprint", "failed", "build"} : Step(r, "load", To(r, step))
    BY <1>1, Zenon DEF Load
  <2>. QED  BY <1>0, <2>1, CurrentTo DEF AnalystSteps
<1>2. CASE Compare(r)
  <2>1. CASE Step(r, "compare", To(r, "failed")) \/ Step(r, "compare", To(r, "clear"))
    BY <1>0, <2>1, CurrentTo DEF AnalystSteps
  <2>2. CASE Step(r, "compare", To(r, "serve")) /\ memory' = memory
    <3>1. Alone /\ columns = req[r].since => req[r].built = None
      BY <2>2, CurrentHere DEF Step, Read
    <3>. QED  BY <1>0, <2>2, <3>1, CurrentTo DEF AnalystSteps
  <2>. QED  BY <1>2, <2>1, <2>2, Zenon DEF Compare
<1>3. CASE Clear(r)
  BY <1>0, <1>3, CurrentTo DEF Clear, AnalystSteps
<1>4. CASE Remove(r)
  <2>1. CASE Step(r, "remove", To(r, "build"))
    BY <1>0, <2>1, CurrentTo DEF AnalystSteps
  <2>2. CASE memory # None /\ Step(r, "remove", To(r, "serve"))
    <3>1. ~Alone
      BY <2>2, CurrentHere DEF Step, Settled
    <3>. QED  BY <1>0, <2>2, <3>1, CurrentTo DEF AnalystSteps
  <2>. QED  BY <1>4, <2>1, <2>2, Zenon DEF Remove
<1>5. CASE Install(r)
  <2>1. /\ Step(r, "install", To(r, "stamp")) /\ memory' = req[r].built
        /\ req[r].step = "install"
    BY <1>5 DEF Install, Step
  <2>2. Alone /\ columns = req[r].since => memory'.catalog = Fingerprint
    BY <2>1, CurrentHere DEF Read
  <2>. QED  BY <1>0, <2>1, <2>2, CurrentTo DEF AnalystSteps
<1>6. CASE Stamp(r)
  <2>1. CASE Step(r, "stamp", To(r, "failed"))
    BY <1>0, <2>1, CurrentTo DEF AnalystSteps
  <2>2. ASSUME NEW fp \in FingerprintRead, memory # None, Step(r, "stamp", To(r, "open")),
               memory' = [memory EXCEPT !.fp = fp]
        PROVE  Current'
    <3>1. memory \in Contexts /\ req[r].step = "stamp"
      BY <2>2, Here DEF IInv, Step
    <3>2. memory'.catalog = memory.catalog
      BY <2>2, <3>1 DEF Contexts
    <3>3. Alone /\ columns = req[r].since /\ req[r].built # None => memory'.catalog = Fingerprint
      BY <3>1, <3>2, CurrentHere DEF Read
    <3>. QED  BY <1>0, <2>2, <3>3, CurrentTo DEF AnalystSteps
  <2>. QED  BY <1>6, <2>1, <2>2, Zenon DEF Stamp
<1>7. CASE WriteFile(r)
  <2>1. Step(r, "write", To(r, "serve")) /\ memory' = memory /\ req[r].step = "write"
    BY <1>7 DEF WriteFile, Step
  <2>2. Alone /\ columns = req[r].since /\ req[r].built # None => memory'.catalog = Fingerprint
    BY <2>1, CurrentHere DEF Read
  <2>. QED  BY <1>0, <2>1, <2>2, CurrentTo DEF AnalystSteps
<1>. QED  BY <1>1, <1>2, <1>3, <1>4, <1>5, <1>6, <1>7

(* The steps that change more of what a request carries *)
LEMMA CurrentCarries ==
    ASSUME IInv, Quiet, Current, NEW r \in Request,
           ReadFingerprint(r) \/ Build(r) \/ OpenFile(r) \/ Serve(r) \/ SaveIndex(r)
    PROVE  Current'
<1>0. /\ "compare" \in Steps /\ "install" \in Steps /\ "write" \in Steps
      /\ "analyzed" \in Steps /\ "failed" \in Steps /\ "pickle" \in Steps
  BY DEF Steps, AnalystSteps, CacheSteps
<1>1. CASE ReadFingerprint(r)
  <2>1. PICK fp \in FingerprintRead :
           Step(r, "fingerprint", [To(r, "compare") EXCEPT !.seen = fp])
    BY <1>1 DEF ReadFingerprint
  <2>. DEFINE l == [To(r, "compare") EXCEPT !.seen = fp]
  <2>2. To(r, "compare") \in Requests /\ To(r, "compare").step = "compare"
    BY <1>0, ToTyped DEF IInv, CachesInv
  <2>3. /\ l.step = "compare" /\ l.seen = fp /\ l.since = req[r].since
        /\ l.built = req[r].built
    BY <1>0, <2>2, ToTyped DEF Requests, IInv, CachesInv
  <2>4. req[r].step = "fingerprint" /\ req' = [req EXCEPT ![r] = l] /\ UNCHANGED dbVars
    BY <2>1 DEF Step
  <2>. HIDE DEF l
  <2>5. Alone /\ columns = l.since => Read(l, memory', Fingerprint)
    BY <2>1, <2>3, <2>4, CurrentHere DEF Read, FingerprintRead
  <2>. QED  BY <2>4, <2>5, CurrentMove
<1>2. CASE Build(r)
  <2>1. CASE Step(r, "build", To(r, "failed"))
    BY <1>0, <2>1, CurrentTo
  <2>2. CASE Step(r, "build", [To(r, "install") EXCEPT !.built = Extracted])
    <3>. DEFINE l == [To(r, "install") EXCEPT !.built = Extracted]
    <3>1. /\ To(r, "install") \in Requests /\ To(r, "install").step = "install"
          /\ To(r, "install").seen = req[r].seen /\ To(r, "install").since = req[r].since
      BY <1>0, ToTyped DEF IInv, CachesInv
    <3>2. l.step = "install" /\ l.built = Extracted /\ l.seen = req[r].seen /\ l.since = req[r].since
      BY <3>1 DEF Requests
    <3>3. req[r].step = "build" /\ req' = [req EXCEPT ![r] = l] /\ UNCHANGED dbVars
      BY <2>2 DEF Step
    <3>. HIDE DEF l
    <3>4. Alone /\ columns = l.since => Read(l, memory', Fingerprint)
      BY <3>2, <3>3, CurrentHere DEF Read, Extracted
    <3>. QED  BY <3>3, <3>4, CurrentMove
  <2>. QED  BY <1>2, <2>1, <2>2, Zenon DEF Build
<1>3. CASE OpenFile(r)
  <2>. DEFINE l == [To(r, "write") EXCEPT !.built = memory]
  <2>1. /\ To(r, "write") \in Requests /\ To(r, "write").step = "write"
        /\ To(r, "write").seen = req[r].seen /\ To(r, "write").since = req[r].since
    BY <1>0, ToTyped DEF IInv, CachesInv
  <2>2. l.step = "write" /\ l.seen = req[r].seen /\ l.since = req[r].since
    BY <2>1 DEF Requests
  <2>3. /\ req[r].step = "open" /\ req' = [req EXCEPT ![r] = l] /\ UNCHANGED dbVars
        /\ memory' = memory
    BY <1>3 DEF OpenFile, Step
  <2>. HIDE DEF l
  <2>4. Alone /\ columns = l.since => Read(l, memory', Fingerprint)
    BY <2>2, <2>3, CurrentHere DEF Read, Settled
  <2>. QED  BY <2>3, <2>4, CurrentMove
<1>4. CASE Serve(r)
  <2>1. CASE Step(r, "serve", To(r, "failed"))
    BY <1>0, <2>1, CurrentTo
  <2>2. CASE Step(r, "serve", [To(r, "analyzed") EXCEPT !.served = memory])
    <3>. DEFINE l == [To(r, "analyzed") EXCEPT !.served = memory]
    <3>1. /\ To(r, "analyzed") \in Requests /\ To(r, "analyzed").step = "analyzed"
          /\ To(r, "analyzed").seen = req[r].seen /\ To(r, "analyzed").since = req[r].since
          /\ To(r, "analyzed").built = req[r].built
      BY <1>0, ToTyped DEF IInv, CachesInv
    <3>2. /\ l.step = "analyzed" /\ l.served = memory /\ l.seen = req[r].seen
          /\ l.since = req[r].since /\ l.built = req[r].built
      BY <3>1 DEF Requests
    <3>3. req[r].step = "serve" /\ req' = [req EXCEPT ![r] = l] /\ UNCHANGED dbVars
      BY <2>2 DEF Step
    <3>. HIDE DEF l
    <3>4. Alone /\ columns = l.since => Read(l, memory', Fingerprint)
      BY <3>2, <3>3, CurrentHere DEF Read
    <3>. QED  BY <3>3, <3>4, CurrentMove
  <2>. QED  BY <1>4, <2>1, <2>2, Zenon DEF Serve
<1>5. CASE SaveIndex(r)
  BY <1>0, <1>5, CurrentTo DEF SaveIndex
<1>. QED  BY <1>1, <1>2, <1>3, <1>4, <1>5

LEMMA CurrentStep == ASSUME IInv, Quiet, Current, [Next]_vars PROVE Current'
<1>0. Idle.seen = None /\ Idle.built = None
  BY DEF Idle
<1>1. ASSUME NEW r \in Request, RequestStep(r) PROVE Current'
  <2>1. ASSUME NEW q \in Query, Arrive(r, q) PROVE Current'
    <3>. DEFINE l == [Idle EXCEPT !.step = "load", !.query = q, !.asked = finished,
                                  !.since = columns]
    <3>1. Step(r, "idle", l) /\ Admitted /\ l.step = "load" /\ l.seen = None /\ l.built = None
      BY <1>1, <2>1 DEF Arrive, RequestStep, Step, Idle
    <3>. HIDE DEF l
    <3>. QED  BY <3>1, CurrentElse
  <2>2. CASE StoreLoads(r)
    <3>1. PICK loaded \in {TRUE, Saving \ {r} = {}} :
             Step(r, "analyzed", [Idle EXCEPT !.step = "save", !.query = req[r].query,
                                        !.copy = IF loaded THEN store ELSE {},
                                        !.mixed = loaded /\ Mixed])
      BY <2>2, Zenon DEF StoreLoads
    <3>. DEFINE l == [Idle EXCEPT !.step = "save", !.query = req[r].query,
                                  !.copy = IF loaded THEN store ELSE {},
                                  !.mixed = loaded /\ Mixed]
    <3>2. Step(r, "analyzed", l) /\ l.step = "save" /\ l.seen = None /\ l.built = None
      BY <3>1 DEF Idle
    <3>. HIDE DEF l
    <3>. QED  BY <3>2, CurrentElse
  <2>3. CASE SavePickle(r)
    BY <2>3, CurrentElse DEF SavePickle, Idle
  <2>4. CASE Leave(r)
    BY <2>4, CurrentElse DEF Leave, Idle
  <2>. QED  BY <1>1, <2>1, <2>2, <2>3, <2>4, CurrentAnalyst, CurrentCarries, Zenon
            DEF RequestStep, CacheStep
<1>2. ASSUME NEW r \in Request, StartIndexing(r) PROVE Current'
  BY <1>2, CurrentElse DEF StartIndexing, Idle
<1>3. ASSUME NEW r \in Request, FinishIndexing(r) PROVE Current'
  BY <1>3, CurrentElse DEF FinishIndexing, Idle
<1>4. CASE Invalidate
  <2>1. UNCHANGED <<req, setting, indexes, columns>>
    BY <1>4 DEF Invalidate, Purge, dbVars
  <2>2. Alone => \A r \in Request : req[r].step = "idle"
    BY <1>4, NobodyActive DEF Invalidate, IInv
  <2>. QED  BY <2>1, <2>2 DEF Current, Read, Fingerprint, Alone
<1>5. CASE Restart
  <2>1. \A r \in Request : req'[r].step = "idle" /\ req'[r].seen = None
    BY <1>0, <1>5, IdleTyped DEF Restart, RestartCaches
  <2>. QED  BY <2>1 DEF Current, Read
<1>6. ASSUME NEW r \in Request, Simulates(r) PROVE Current'
  <2>1. UNCHANGED <<req, memory, setting, columns>> /\ req[r].step = "indexing"
    BY <1>6 DEF Simulates, cacheVars, Gate, SimStep, ExplainOriginal, Sweep, Create, Measure,
       Drop, Rescue, Baseline, Hypothetical, PgBaseline, PgMeasure, Phase
  <2>2. Alone => \A s \in Request : s # r => req[s].step = "idle"
    BY <2>1 DEF IInv, CachesInv, Exclusive
  <2>3. Alone' = Alone
    BY <2>1 DEF Alone
  <2>4. ASSUME Alone, NEW s \in Request, columns' = req'[s].since
        PROVE  Read(req'[s], memory', Fingerprint')
    <3>1. Read(req[s], memory, Fingerprint) /\ (s # r => req[s].step = "idle")
      BY <2>1, <2>2, <2>4 DEF Current
    <3>. QED  BY <2>1, <3>1 DEF Read
  <2>. QED  BY <2>3, <2>4 DEF Current
<1>7. CASE Migration
  <2>1. UNCHANGED <<req, memory, setting>> /\ columns' = columns + 1
    BY <1>7 DEF Migration, Migrate, cacheVars
  <2>2. ASSUME NEW r \in Request PROVE columns' # req'[r].since
    <3>1. req[r].since \in Nat /\ req[r].since <= columns /\ columns \in Nat
      BY Here, RequestFields, IndexAssumption DEF IInv, SharedTyped, DatabaseTyped
    <3>. QED  BY <2>1, <3>1
  <2>. QED  BY <2>2 DEF Current
<1>8. CASE UNCHANGED vars
  BY <1>8 DEF Current, Fingerprint, vars, cacheVars, dbVars, Alone
<1>. QED  BY <1>1, <1>2, <1>3, <1>4, <1>5, <1>6, <1>7, <1>8 DEF Next

LEMMA CurrentAlways == Spec => []Current
<1>1. Init => Current
  BY DEF Init, CacheInit, Idle, Current, Read
<1>2. IInv /\ Quiet /\ Current /\ [Next]_vars => Current'
  BY CurrentStep
<1>. QED  BY <1>1, <1>2, Invariant, QuietAlways, PTL DEF Spec

(* schema_analyst.py:119-150: a request that waits for the one before it, and is
   not overtaken by a migration, goes on with the indexes there are, whatever was
   migrated, simulated or killed before it, if its context was stamped with the
   fingerprint of what was extracted and the fingerprint could be read. *)
THEOREM ServesWhatIsThere == Spec => []ServedIsCurrent
<1>1. IInv /\ Quiet /\ Current => ServedIsCurrent
  <2>1. ASSUME IInv, Quiet, Current, Alone, NEW r \in Request, req[r].step = "analyzed",
               columns = req[r].since,
               req[r].built = None => req[r].seen # None /\ req[r].served.fp = req[r].served.catalog
        PROVE  req[r].served.catalog = Fingerprint
    <3>1. /\ Settled(req[r], memory) /\ Read(req[r], memory, Fingerprint)
          /\ req[r].served \in Contexts \cup {None}
      BY <2>1, CurrentHere, Here, RequestFields DEF IInv
    <3>2. CASE req[r].built # None
      BY <2>1, <3>1, <3>2 DEF Read
    <3>3. CASE req[r].built = None
      <4>1. req[r].served \in Contexts /\ Agrees(req[r], req[r].served) /\ req[r].seen = Fingerprint
        BY <2>1, <3>1, <3>3 DEF Settled, Read
      <4>2. req[r].served.catalog \in SUBSET IndexName
        BY <4>1 DEF Contexts
      <4>. QED  BY <2>1, <3>3, <4>1, <4>2, ContextAssumption DEF Agrees
    <3>. QED  BY <3>2, <3>3
  <2>. QED  BY <2>1 DEF ServedIsCurrent
<1>. QED  BY <1>1, Invariant, QuietAlways, CurrentAlways, PTL
=============================================================================
