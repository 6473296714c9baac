------------------------ MODULE SharedIndexes_proofs ------------------------
(***************************************************************************)
(* More proofs about SharedResources: what the index simulations measure   *)
(* and leave in the database, for any candidates, foreign keys, failures   *)
(* and migrations.                                                         *)
(***************************************************************************)
EXTENDS SharedResources_proofs

Own(s) == SimIndex(s.cand)

MySQLPhases == {"sweep", "create", "measure", "drop", "rescue", "baseline"}
PgPhases == {"hypothetical", "pg_baseline", "pg_measure"}

Simulating == \A r \in Request : sim[r].phase # "none" => req[r].step = "indexing"

Kind(s) ==
    /\ s.phase # "none" => s.report # "executed"
    /\ s.phase \in MySQLPhases => setting.engine = "mysql"
    /\ s.phase \in PgPhases => setting.engine = "postgres"
    /\ s.phase \in {"explain", "hypothetical"} => ~s.timed

(* Nobody else changes the indexes while a simulation is at work. *)
Undivided == Alone \/ (setting.engine = "postgres" /\ ~setting.operator)

Paired(s) ==
    s.report = "executed" /\ s.dropped = "clean" =>
        Own(s) \notin s.base /\ s.with = s.base \cup {Own(s)}

(* What simulation s knows of the indexes ix *)
Needed(i, ix) == \E fk \in ForeignKeys : Prefix(fk, i) /\ \A j \in ix \ {i} : ~Prefix(fk, j)

At(s, ix) ==
    /\ s.phase \in {"measure", "drop", "rescue"} =>
          Own(s) \in ix /\ \A j \in ix : j.name = SimName[s.cand] => j = Own(s)
    /\ s.phase \in {"drop", "rescue"} /\ s.report # "error" => s.with = ix
    /\ s.phase = "rescue" => Needed(Own(s), ix)
    /\ s.phase = "baseline" /\ s.dropped = "clean" => Own(s) \notin ix /\ s.with = ix \cup {Own(s)}
    /\ s.phase = "pg_measure" /\ s.timed => s.base = ix

Invisible == setting.engine = "postgres" => \A i \in indexes : ~IsSim(i)

SimInv ==
    /\ Simulating
    /\ \A r \in Request : Kind(sim[r])
    /\ Invisible
    /\ Undivided => \A r \in Request : Paired(sim[r]) /\ At(sim[r], indexes)

-----------------------------------------------------------------------------
LEMMA OthersRest ==
    ASSUME IInv, SimInv, Alone, NEW r \in Request, req[r].step = "indexing"
    PROVE  \A t \in Request : t # r => sim[t].phase = "none"
  BY DEF IInv, CachesInv, Exclusive, SimInv, Simulating

LEMMA SimMove ==
    ASSUME IInv, SimInv, NEW r \in Request, NEW from, NEW s, Phase(r, from, s),
           req[r].step = "indexing", UNCHANGED cacheVars, Kind(s),
           indexes' = indexes \/ setting.engine = "mysql",
           Undivided => Paired(s) /\ At(s, indexes')
    PROVE  SimInv'
<1>1. /\ sim' = [sim EXCEPT ![r] = s] /\ UNCHANGED <<setting, req>>
      /\ Undivided' = Undivided
  BY DEF Phase, cacheVars, Undivided, Alone
<1>2. \A t \in Request : sim'[t] = IF t = r THEN s ELSE sim[t]
  BY <1>1 DEF IInv, SharedTyped, SimTyped
<1>3. Simulating'
  BY <1>1, <1>2 DEF SimInv, Simulating
<1>4. ASSUME NEW t \in Request PROVE Kind(sim[t])'
  <2>1. sim'[t] = s \/ sim'[t] = sim[t]
    BY <1>2
  <2>. QED  BY <1>1, <2>1 DEF SimInv, Kind
<1>5. Invisible'
  <2>1. setting'.engine = "postgres" => indexes' = indexes
    BY <1>1
  <2>. QED  BY <1>1, <2>1 DEF SimInv, Invisible, IsSim
<1>6. ASSUME Undivided, NEW t \in Request PROVE Paired(sim'[t]) /\ At(sim'[t], indexes')
  <2>1. CASE t = r
    BY <1>2, <1>6, <2>1
  <2>2. CASE t # r /\ Alone
    <3>1. sim'[t] = sim[t] /\ sim[t].phase = "none"
      BY <1>2, <2>2, OthersRest
    <3>2. Paired(sim[t])
      BY <1>6 DEF SimInv
    <3>. QED  BY <3>1, <3>2 DEF At
  <2>3. CASE t # r /\ ~Alone
    <3>1. sim'[t] = sim[t] /\ indexes' = indexes
      BY <1>2, <1>6, <2>3 DEF Undivided
    <3>. QED  BY <1>6, <3>1 DEF SimInv
  <2>. QED  BY <2>1, <2>2, <2>3
<1>7. Undivided' => \A t \in Request : (Paired(sim[t]) /\ At(sim[t], indexes))'
  BY <1>1, <1>6 DEF Paired, At, Own, Needed
<1>. QED  BY <1>3, <1>4, <1>5, <1>7 DEF SimInv

(* What every step can use of the simulation it moves *)
LEMMA SimHere ==
    ASSUME IInv, SimInv, NEW r \in Request
    PROVE  /\ sim[r] \in Simulations /\ Kind(sim[r])
           /\ sim[r].phase # "none" => sim[r].cand \in Candidate
           /\ Undivided => Paired(sim[r]) /\ At(sim[r], indexes)
           /\ setting.engine \in {"mysql", "postgres"}
<1>1. setting \in Setting
  BY IndexAssumption DEF IInv, SharedTyped, DatabaseTyped
<1>. QED  BY <1>1 DEF IInv, SharedTyped, SimTyped, SimInv, Setting

LEMMA OwnName ==
    ASSUME NEW c \in Candidate
    PROVE  SimIndex(c).name = SimName[c] /\ SimName[c] \in SimNames
  BY CandidateAssumption DEF SimIndex

(* AfterDrop goes on to the baseline, or ends without a pair. *)
LEMMA AfterDropSays ==
    ASSUME NEW r \in Request, NEW d, sim[r] \in Simulations, sim[r].report # "executed"
    PROVE  /\ AfterDrop(r, d).phase \in {"none", "baseline"}
           /\ AfterDrop(r, d).report # "executed"
           /\ AfterDrop(r, d).cand = sim[r].cand
           /\ AfterDrop(r, d).with = sim[r].with
           /\ AfterDrop(r, d).dropped = d
           /\ AfterDrop(r, d).phase = "baseline" => sim[r].report # "error"
<1>. DEFINE s == [sim[r] EXCEPT !.dropped = d]
<1>1. /\ s.cand = sim[r].cand /\ s.with = sim[r].with /\ s.report = sim[r].report
      /\ s.dropped = d /\ DOMAIN s = DOMAIN sim[r]
  BY DEF Simulations
<1>2. DOMAIN s = {"phase", "cand", "before", "with", "base", "timed", "dropped", "report"}
  BY <1>1 DEF Simulations
<1>. HIDE DEF s
<1>3. CASE s.report = "error"
  <2>1. AfterDrop(r, d) = [s EXCEPT !.phase = "none"]
    BY <1>3, Zenon DEF AfterDrop, s
  <2>. QED  BY <1>1, <1>2, <1>3, <2>1
<1>4. CASE s.report # "error" /\ s.timed
  <2>1. AfterDrop(r, d) = [s EXCEPT !.phase = "baseline"]
    BY <1>4, Zenon DEF AfterDrop, s
  <2>. QED  BY <1>1, <1>2, <1>4, <2>1
<1>5. CASE s.report # "error" /\ ~s.timed
  <2>1. AfterDrop(r, d) = [s EXCEPT !.phase = "none", !.report = "estimated"]
    BY <1>5, Zenon DEF AfterDrop, s
  <2>. QED  BY <1>1, <1>2, <1>5, <2>1
<1>. QED  BY <1>3, <1>4, <1>5

LEMMA ThenSays ==
    ASSUME NEW r \in Request, sim[r] \in Simulations, NEW phase, NEW report
    PROVE  /\ DOMAIN sim[r] = {"phase", "cand", "before", "with", "base", "timed", "dropped", "report"}
           /\ DOMAIN Then(r, phase) = DOMAIN sim[r] /\ DOMAIN Report(r, report) = DOMAIN sim[r]
           /\ Then(r, phase).phase = phase /\ Then(r, phase).cand = sim[r].cand
           /\ Then(r, phase).with = sim[r].with /\ Then(r, phase).report = sim[r].report
           /\ Then(r, phase).timed = sim[r].timed /\ Then(r, phase).dropped = sim[r].dropped
           /\ Report(r, report).phase = "none" /\ Report(r, report).report = report
           /\ Report(r, report).cand = sim[r].cand /\ Report(r, report).with = sim[r].with
           /\ Report(r, report).base = sim[r].base
           /\ Report(r, report).dropped = sim[r].dropped
  BY DEF Simulations, Then, Report

(* A simulation that ends without a pair: nothing is to be shown of it. *)
LEMMA Ends ==
    ASSUME NEW s, NEW ix, s.phase = "none", s.report # "executed"
    PROVE  Kind(s) /\ Paired(s) /\ At(s, ix)
  BY DEF Kind, Paired, At, MySQLPhases, PgPhases

LEMMA GateMove ==
    ASSUME IInv, SimInv, NEW r \in Request, req[r].step = "indexing", UNCHANGED cacheVars,
           NEW c \in Candidate, Gate(r, c)
    PROVE  SimInv'
<1>. DEFINE phase == IF Covered(c) THEN "none" ELSE "explain"
            report == IF Covered(c) THEN "skipped" ELSE "none"
            s == [NoSim EXCEPT !.cand = c, !.phase = phase, !.report = report]
<1>1. Phase(r, "none", s) /\ indexes' = indexes
  BY DEF Gate
<1>2. phase \in {"none", "explain"} /\ report \in {"skipped", "none"}
  OBVIOUS
<1>. HIDE DEF phase, report
<1>3. s.phase = phase /\ s.report = report /\ ~s.timed
  BY DEF NoSim
<1>. HIDE DEF s
<1>4. Kind(s) /\ Paired(s) /\ At(s, indexes')
  BY <1>2, <1>3 DEF Kind, Paired, At, MySQLPhases, PgPhases
<1>. QED  BY <1>1, <1>4, SimMove

LEMMA ExplainMove ==
    ASSUME IInv, SimInv, NEW r \in Request, req[r].step = "indexing", UNCHANGED cacheVars,
           ExplainOriginal(r)
    PROVE  SimInv'
<1>. DEFINE phase == IF setting.engine = "mysql" THEN "sweep"
                     ELSE IF setting.executed THEN "pg_baseline" ELSE "hypothetical"
            s == [sim[r] EXCEPT !.before = indexes, !.phase = phase]
<1>1. Phase(r, "explain", s) /\ indexes' = indexes /\ sim[r].phase = "explain"
  BY DEF ExplainOriginal, Phase
<1>2. \/ phase = "sweep" /\ setting.engine = "mysql"
      \/ phase \in {"pg_baseline", "hypothetical"} /\ setting.engine = "postgres"
  BY SimHere
<1>. HIDE DEF phase
<1>3. s.phase = phase /\ s.report = sim[r].report /\ s.timed = sim[r].timed
  BY SimHere DEF Simulations
<1>. HIDE DEF s
<1>4. s.report # "executed" /\ ~s.timed
  BY <1>1, <1>3, SimHere DEF Kind
<1>5. Kind(s) /\ Paired(s) /\ At(s, indexes')
  BY <1>2, <1>3, <1>4 DEF Kind, Paired, At, MySQLPhases, PgPhases
<1>. QED  BY <1>1, <1>5, SimMove

(* The steps of MySQL that come before the DROP *)
LEMMA MySQLMoves ==
    ASSUME IInv, SimInv, NEW r \in Request, req[r].step = "indexing", UNCHANGED cacheVars,
           Sweep(r) \/ Create(r) \/ Measure(r)
    PROVE  SimInv'
<1>1. /\ sim[r] \in Simulations /\ sim[r].report # "executed" /\ setting.engine = "mysql"
      /\ sim[r].cand \in Candidate
  <2>1. sim[r].phase \in {"sweep", "create", "measure"}
    BY DEF Sweep, Create, Measure, Phase
  <2>. QED  BY <2>1, SimHere DEF Kind, MySQLPhases
<1>2. CASE Sweep(r)
  <2>1. Phase(r, "sweep", Then(r, "create"))
    BY <1>2 DEF Sweep
  <2>2. Then(r, "create").phase = "create" /\ Then(r, "create").report # "executed"
    BY <1>1, ThenSays
  <2>3. Kind(Then(r, "create")) /\ Paired(Then(r, "create")) /\ At(Then(r, "create"), indexes')
    BY <1>1, <2>2 DEF Kind, Paired, At, MySQLPhases, PgPhases
  <2>. QED  BY <1>1, <2>1, <2>3, SimMove
<1>3. CASE Create(r)
  <2>. DEFINE i == SimIndex(sim[r].cand)
              s == Then(r, "measure")
  <2>1. CASE ~Taken(i.name) /\ Phase(r, "create", s) /\ indexes' = Added(i)
    <3>1. s.phase = "measure" /\ s.report # "executed" /\ s.cand = sim[r].cand
      BY <1>1, ThenSays
    <3>2. i.name = SimName[sim[r].cand]
      BY <1>1, OwnName
    <3>3. i \in indexes' /\ \A j \in indexes' : j.name = i.name => j = i
      BY <2>1 DEF Added, Taken, Fingerprint
    <3>. HIDE DEF s, i
    <3>4. Kind(s) /\ Paired(s)
      BY <1>1, <3>1 DEF Kind, Paired, MySQLPhases, PgPhases
    <3>5. At(s, indexes')
      BY <3>1, <3>2, <3>3 DEF At, Own, i
    <3>. QED  BY <1>1, <2>1, <3>4, <3>5, SimMove
  <2>2. CASE Phase(r, "create", Report(r, "error"))
    <3>1. Report(r, "error").phase = "none" /\ Report(r, "error").report # "executed"
      BY <1>1, ThenSays
    <3>. QED  BY <1>1, <2>2, <3>1, Ends, SimMove
  <2>. QED  BY <1>3, <2>1, <2>2 DEF Create
<1>4. CASE Measure(r)
  <2>0. indexes' = indexes /\ sim[r].phase = "measure"
    BY <1>4 DEF Measure, Phase
  <2>1. Undivided => At(sim[r], indexes)
    BY SimHere
  <2>2. ASSUME NEW timed \in MeasuredExec,
               Phase(r, "measure", [Then(r, "drop") EXCEPT !.with = indexes, !.timed = timed])
        PROVE  SimInv'
    <3>. DEFINE s == [Then(r, "drop") EXCEPT !.with = indexes, !.timed = timed]
    <3>1. /\ s.phase = "drop" /\ s.cand = sim[r].cand /\ s.report = sim[r].report
          /\ s.with = indexes
      BY <1>1, ThenSays
    <3>. HIDE DEF s
    <3>2. Kind(s) /\ Paired(s)
      BY <1>1, <3>1 DEF Kind, Paired, MySQLPhases, PgPhases
    <3>3. Undivided => At(s, indexes')
      BY <2>0, <2>1, <3>1 DEF At, Own
    <3>4. Phase(r, "measure", s)
      BY <2>2, Zenon DEF s
    <3>. QED  BY <1>1, <3>2, <3>3, <3>4, SimMove
  <2>3. CASE Phase(r, "measure", [Then(r, "drop") EXCEPT !.report = "error"])
    <3>. DEFINE s == [Then(r, "drop") EXCEPT !.report = "error"]
    <3>1. s.phase = "drop" /\ s.cand = sim[r].cand /\ s.report = "error"
      BY <1>1, ThenSays
    <3>. HIDE DEF s
    <3>2. Kind(s) /\ Paired(s)
      BY <1>1, <3>1 DEF Kind, Paired, MySQLPhases, PgPhases
    <3>3. Undivided => At(s, indexes')
      BY <2>0, <2>1, <3>1 DEF At, Own
    <3>4. Phase(r, "measure", s)
      BY <2>3, Zenon DEF s
    <3>. QED  BY <1>1, <3>2, <3>3, <3>4, SimMove
  <2>. QED  BY <1>4, <2>2, <2>3, Zenon DEF Measure
<1>. QED  BY <1>2, <1>3, <1>4

(* The DROP and what follows it *)
LEMMA DropMoves ==
    ASSUME IInv, SimInv, NEW r \in Request, req[r].step = "indexing", UNCHANGED cacheVars,
           Drop(r) \/ Rescue(r) \/ Baseline(r)
    PROVE  SimInv'
<1>1. /\ sim[r] \in Simulations /\ sim[r].report # "executed" /\ setting.engine = "mysql"
      /\ sim[r].cand \in Candidate /\ (Undivided => At(sim[r], indexes))
  <2>1. sim[r].phase \in {"drop", "rescue", "baseline"}
    BY Zenon DEF Drop, Rescue, Baseline, Phase
  <2>. QED  BY <2>1, SimHere DEF Kind, MySQLPhases
<1>2. ASSUME NEW from, NEW d, Phase(r, from, AfterDrop(r, d)),
             Undivided /\ d = "clean" /\ sim[r].report # "error" =>
                 Own(sim[r]) \notin indexes' /\ sim[r].with = indexes' \cup {Own(sim[r])}
      PROVE  SimInv'
  <2>. DEFINE s == AfterDrop(r, d)
  <2>1. /\ s.phase \in {"none", "baseline"} /\ s.report # "executed" /\ s.cand = sim[r].cand
        /\ s.with = sim[r].with /\ s.dropped = d
        /\ s.phase = "baseline" => sim[r].report # "error"
    BY <1>1, AfterDropSays
  <2>. HIDE DEF s
  <2>2. Kind(s) /\ Paired(s)
    BY <1>1, <2>1 DEF Kind, Paired, MySQLPhases, PgPhases
  <2>3. Undivided => At(s, indexes')
    BY <1>2, <2>1 DEF At, Own
  <2>4. Phase(r, from, s)
    BY <1>2 DEF s
  <2>. QED  BY <1>1, <2>2, <2>3, <2>4, SimMove
<1>3. CASE Drop(r)
  <2>0. sim[r].phase = "drop"
    BY <1>3, Zenon DEF Drop, Phase
  <2>. DEFINE i == Own(sim[r])
  <2>1. Undivided => /\ i \in indexes /\ OwnSim(r) = {i}
                     /\ sim[r].report # "error" => sim[r].with = indexes
    BY <1>1, <2>0, OwnName DEF At, OwnSim, Own
  <2>2. CASE Phase(r, "drop", AfterDrop(r, "clean")) /\ indexes' = indexes \ OwnSim(r)
    <3>1. Undivided /\ sim[r].report # "error" => i \notin indexes' /\ sim[r].with = indexes' \cup {i}
      BY <2>1, <2>2
    <3>. QED  BY <1>2, <2>2, <3>1
  <2>3. CASE /\ \E j \in OwnSim(r) : NeededByForeignKey(j)
             /\ Phase(r, "drop", Then(r, "rescue")) /\ indexes' = indexes
    <3>. DEFINE s == Then(r, "rescue")
    <3>1. /\ s.phase = "rescue" /\ s.cand = sim[r].cand /\ s.report = sim[r].report
          /\ s.with = sim[r].with
      BY <1>1, ThenSays
    <3>. HIDE DEF s
    <3>2. Kind(s) /\ Paired(s)
      BY <1>1, <3>1 DEF Kind, Paired, MySQLPhases, PgPhases
    <3>3. Undivided => Needed(i, indexes)
      BY <2>1, <2>3 DEF NeededByForeignKey, Needed
    <3>4. Undivided => At(s, indexes')
      BY <1>1, <2>0, <2>1, <2>3, <3>1, <3>3 DEF At, Own
    <3>. QED  BY <1>1, <2>3, <3>2, <3>4, SimMove DEF s
  <2>4. CASE Phase(r, "drop", AfterDrop(r, "failed")) /\ indexes' = indexes
    BY <1>2, <2>4
  <2>. QED  BY <1>3, <2>2, <2>3, <2>4, Zenon DEF Drop
<1>4. CASE Rescue(r)
  <2>1. \E d \in {"rescued", "failed"} : Phase(r, "rescue", AfterDrop(r, d))
    BY <1>4, Zenon DEF Rescue
  <2>. QED  BY <1>2, <2>1
<1>5. CASE Baseline(r)
  <2>1. CASE Phase(r, "baseline", Report(r, "estimated"))
    <3>1. Report(r, "estimated").phase = "none" /\ Report(r, "estimated").report # "executed"
      BY <1>1, ThenSays
    <3>. QED  BY <1>1, <2>1, <3>1, Ends, SimMove
  <2>2. CASE Phase(r, "baseline", [Report(r, "executed") EXCEPT !.base = indexes])
    <3>. DEFINE s == [Report(r, "executed") EXCEPT !.base = indexes]
    <3>1. /\ s.phase = "none" /\ s.cand = sim[r].cand /\ s.with = sim[r].with
          /\ s.dropped = sim[r].dropped /\ s.base = indexes
      BY <1>1, ThenSays
    <3>2. sim[r].phase = "baseline" /\ Phase(r, "baseline", s)
      BY <2>2 DEF Phase
    <3>. HIDE DEF s
    <3>3. Kind(s) /\ At(s, indexes')
      BY <3>1 DEF Kind, At, MySQLPhases, PgPhases
    <3>4. Undivided => Paired(s)
      BY <1>1, <3>1, <3>2 DEF Paired, At, Own
    <3>. QED  BY <1>1, <3>2, <3>3, <3>4, SimMove
  <2>. QED  BY <1>5, <2>1, <2>2, Zenon DEF Baseline
<1>. QED  BY <1>3, <1>4, <1>5

LEMMA PostgresMoves ==
    ASSUME IInv, SimInv, NEW r \in Request, req[r].step = "indexing", UNCHANGED cacheVars,
           Hypothetical(r) \/ PgBaseline(r) \/ PgMeasure(r)
    PROVE  SimInv'
<1>1. /\ sim[r] \in Simulations /\ sim[r].report # "executed" /\ setting.engine = "postgres"
      /\ sim[r].cand \in Candidate /\ (Undivided => At(sim[r], indexes)) /\ indexes' = indexes
      /\ sim[r].phase = "hypothetical" => ~sim[r].timed
  <2>1. sim[r].phase \in {"hypothetical", "pg_baseline", "pg_measure"} /\ indexes' = indexes
    BY Zenon DEF Hypothetical, PgBaseline, PgMeasure, Phase
  <2>. QED  BY <2>1, SimHere DEF Kind, PgPhases
<1>2. ASSUME NEW from, NEW report \in {"error", "estimated"}, NEW with,
             \/ Phase(r, from, Report(r, report))
             \/ Phase(r, from, [Report(r, report) EXCEPT !.with = with])
      PROVE  SimInv'
  <2>. DEFINE s == [Report(r, report) EXCEPT !.with = with]
  <2>1. /\ s.phase = "none" /\ s.report # "executed"
        /\ Report(r, report).phase = "none" /\ Report(r, report).report # "executed"
    BY <1>1, ThenSays
  <2>. HIDE DEF s
  <2>2. CASE Phase(r, from, s)
    BY <1>1, <2>1, <2>2, Ends, SimMove
  <2>3. CASE Phase(r, from, Report(r, report))
    BY <1>1, <2>1, <2>3, Ends, SimMove
  <2>. QED  BY <1>2, <2>2, <2>3 DEF s
<1>. DEFINE i == SimIndex(sim[r].cand)
<1>3. CASE Hypothetical(r)
  <2>1. CASE Phase(r, "hypothetical", Then(r, "pg_measure"))
    <3>. DEFINE s == Then(r, "pg_measure")
    <3>1. s.phase = "pg_measure" /\ s.report # "executed" /\ s.timed = sim[r].timed
      BY <1>1, ThenSays
    <3>2. ~s.timed /\ Phase(r, "hypothetical", s)
      BY <1>1, <2>1, <3>1 DEF Phase
    <3>. HIDE DEF s
    <3>3. Kind(s) /\ Paired(s) /\ At(s, indexes')
      BY <1>1, <3>1, <3>2 DEF Kind, Paired, At, MySQLPhases, PgPhases
    <3>. QED  BY <1>1, <3>2, <3>3, SimMove
  <2>. QED  BY <1>2, <1>3, <2>1, Zenon DEF Hypothetical
<1>4. CASE PgBaseline(r)
  <2>1. CASE Phase(r, "pg_baseline", [Then(r, "pg_measure") EXCEPT !.base = indexes, !.timed = TRUE])
    <3>. DEFINE s == [Then(r, "pg_measure") EXCEPT !.base = indexes, !.timed = TRUE]
    <3>1. s.phase = "pg_measure" /\ s.report # "executed" /\ s.base = indexes
      BY <1>1, ThenSays
    <3>. HIDE DEF s
    <3>2. Kind(s) /\ Paired(s) /\ At(s, indexes')
      BY <1>1, <3>1 DEF Kind, Paired, At, MySQLPhases, PgPhases
    <3>3. Phase(r, "pg_baseline", s)
      BY <2>1, Zenon DEF s
    <3>. QED  BY <1>1, <3>2, <3>3, SimMove
  <2>. QED  BY <1>2, <1>4, <2>1, Zenon DEF PgBaseline
<1>5. CASE PgMeasure(r)
  <2>1. ASSUME NEW timed \in TimedExplainAnalyze(r),
               Phase(r, "pg_measure", [Report(r, IF timed THEN "executed" ELSE "estimated")
                                          EXCEPT !.with = indexes \cup {i}])
        PROVE  SimInv'
    <3>1. CASE timed
      <4>. DEFINE s == [Report(r, "executed") EXCEPT !.with = indexes \cup {i}]
      <4>1. /\ s.phase = "none" /\ s.base = sim[r].base /\ s.with = indexes \cup {i}
            /\ s.cand = sim[r].cand
        BY <1>1, ThenSays
      <4>2. Phase(r, "pg_measure", s) /\ sim[r].phase = "pg_measure" /\ sim[r].timed
        BY <2>1, <3>1 DEF Phase, TimedExplainAnalyze
      <4>. HIDE DEF s, i
      <4>3. Kind(s) /\ At(s, indexes')
        BY <4>1 DEF Kind, At, MySQLPhases, PgPhases
      <4>4. Undivided => sim[r].base = indexes
        BY <1>1, <4>2 DEF At
      <4>5. i \notin indexes
        BY <1>1, OwnName DEF SimInv, Invisible, IsSim, i
      <4>6. Undivided => Paired(s)
        BY <4>1, <4>4, <4>5 DEF Paired, Own, i
      <4>. QED  BY <1>1, <4>2, <4>3, <4>6, SimMove
    <3>2. CASE ~timed
      <4>1. Phase(r, "pg_measure", [Report(r, "estimated") EXCEPT !.with = indexes \cup {i}])
        BY <2>1, <3>2
      <4>. HIDE DEF i
      <4>. QED  BY <1>2, <4>1
    <3>. QED  BY <3>1, <3>2
  <2>. QED  BY <1>2, <1>5, <2>1, Zenon DEF PgMeasure
<1>. QED  BY <1>3, <1>4, <1>5

LEMMA SimulatesMove ==
    ASSUME IInv, SimInv, NEW r \in Request, Simulates(r) PROVE SimInv'
<1>1. req[r].step = "indexing" /\ UNCHANGED cacheVars
  BY DEF Simulates
<1>2. ASSUME NEW c \in Candidate, Gate(r, c) PROVE SimInv'
  BY <1>1, <1>2, GateMove
<1>3. CASE SimStep(r)
  BY <1>1, <1>3, ExplainMove, MySQLMoves, DropMoves, PostgresMoves DEF SimStep
<1>. QED  BY <1>2, <1>3 DEF Simulates

(* The simulations and the database are left alone, or start from nothing. *)
LEMMA SimKeeps ==
    ASSUME IInv, SimInv, UNCHANGED <<indexes, setting>>, Simulating',
           \A t \in Request : sim'[t] \in {sim[t], NoSim}
    PROVE  SimInv'
<1>1. Undivided' = Undivided
  BY DEF Undivided, Alone
<1>2. Invisible'
  BY DEF SimInv, Invisible, IsSim
<1>3. NoSim.phase = "none" /\ NoSim.report # "executed"
  BY DEF NoSim
<1>4. Kind(NoSim) /\ Paired(NoSim) /\ At(NoSim, indexes)
  BY <1>3, Ends
<1>5. ASSUME NEW t \in Request PROVE Kind(sim'[t]) /\ (Undivided => Paired(sim'[t]) /\ At(sim'[t], indexes))
  BY <1>4 DEF SimInv
<1>6. ASSUME NEW t \in Request
      PROVE  Kind(sim[t])' /\ (Undivided' => (Paired(sim[t]) /\ At(sim[t], indexes))')
  <2>1. Kind(sim[t])'
    BY <1>5 DEF Kind
  <2>2. Undivided => (Paired(sim[t]) /\ At(sim[t], indexes))'
    BY <1>5 DEF Paired, At, Own, Needed
  <2>. QED  BY <1>1, <2>1, <2>2
<1>. QED  BY <1>2, <1>6 DEF SimInv

LEMMA SimStays == ASSUME IInv, SimInv, [Next]_vars PROVE SimInv'
<1>1. ASSUME NEW r \in Request, NEW from, NEW l, Step(r, from, l), UNCHANGED sim,
             from # "indexing" \/ l.step = "indexing"
      PROVE  SimInv'
  <2>1. \A t \in Request : t # r => req'[t] = req[t]
    BY <1>1 DEF Step, IInv, CachesInv, CachesTyped
  <2>2. req[r].step = from /\ req'[r] = l /\ UNCHANGED <<indexes, setting>>
    BY <1>1 DEF Step, IInv, CachesInv, CachesTyped, dbVars
  <2>3. Simulating'
    BY <1>1, <2>1, <2>2 DEF SimInv, Simulating
  <2>. QED  BY <1>1, <2>2, <2>3, SimKeeps
<1>2. ASSUME NEW r \in Request, RequestStep(r) PROVE SimInv'
  <2>1. UNCHANGED <<sim, indexes, setting>> /\ req[r].step # "indexing"
    BY <1>2 DEF RequestStep, CacheStep, Arrive, Load, ReadFingerprint, Compare, Clear, Remove,
       Build, Install, Stamp, OpenFile, WriteFile, Serve, StoreLoads, SaveIndex, SavePickle,
       Leave, Step, dbVars
  <2>2. \A t \in Request : t # r => req'[t] = req[t]
    BY <1>2 DEF RequestStep, CacheStep, Arrive, Load, ReadFingerprint, Compare, Clear, Remove,
       Build, Install, Stamp, OpenFile, WriteFile, Serve, StoreLoads, SaveIndex, SavePickle,
       Leave, Step,
       IInv, CachesInv, CachesTyped
  <2>3. Simulating'
    BY <2>1, <2>2 DEF SimInv, Simulating
  <2>. QED  BY <2>1, <2>3, SimKeeps
<1>3. ASSUME NEW r \in Request, StartIndexing(r) PROVE SimInv'
  <2>1. Step(r, req[r].step, [Idle EXCEPT !.step = "indexing"]) /\ UNCHANGED sim
        /\ [Idle EXCEPT !.step = "indexing"].step = "indexing"
    BY <1>3 DEF StartIndexing, Idle
  <2>. QED  BY <1>1, <2>1
<1>4. ASSUME NEW r \in Request, Simulates(r) PROVE SimInv'
  BY <1>4, SimulatesMove
<1>5. ASSUME NEW r \in Request, FinishIndexing(r) PROVE SimInv'
  <2>1. /\ UNCHANGED <<indexes, setting>> /\ sim' = [sim EXCEPT ![r] = NoSim]
        /\ req' = [req EXCEPT ![r] = Idle]
    BY <1>5 DEF FinishIndexing, Step, dbVars
  <2>2. \A t \in Request : sim'[t] = IF t = r THEN NoSim ELSE sim[t]
    BY <2>1 DEF IInv, SharedTyped, SimTyped
  <2>3. \A t \in Request : t # r => req'[t] = req[t]
    BY <2>1 DEF IInv, CachesInv, CachesTyped
  <2>4. Simulating'
    BY <2>2, <2>3, NoSimTyped DEF SimInv, Simulating
  <2>. QED  BY <2>1, <2>2, <2>4, SimKeeps
<1>6. CASE Invalidate \/ UNCHANGED vars
  <2>1. UNCHANGED <<req, sim, indexes, setting>>
    BY <1>6 DEF Invalidate, Purge, dbVars, vars, cacheVars
  <2>2. Simulating'
    BY <2>1 DEF SimInv, Simulating
  <2>. QED  BY <2>1, <2>2, SimKeeps
<1>7. CASE Restart
  <2>1. (\A t \in Request : sim'[t] = NoSim) /\ UNCHANGED <<indexes, setting>>
    BY <1>7 DEF Restart, RestartSimulations, dbVars
  <2>2. Simulating'
    BY <2>1, NoSimTyped DEF Simulating
  <2>. QED  BY <2>1, <2>2, SimKeeps
<1>8. CASE Migration
  <2>1. /\ UNCHANGED <<req, sim, setting>> /\ indexes' \subseteq indexes \cup MigratedIndexes
        /\ Undivided => \A r \in Request : sim[r].phase = "none"
        /\ Undivided' = Undivided
    BY <1>8 DEF Migration, Migrate, cacheVars, Undivided, Alone
  <2>2. Simulating' /\ Invisible'
    BY <2>1, CandidateAssumption DEF SimInv, Simulating, Invisible, IsSim
  <2>3. \A r \in Request : Kind(sim[r])'
    BY <2>1 DEF SimInv, Kind
  <2>4. Undivided' => \A r \in Request : (Paired(sim[r]) /\ At(sim[r], indexes))'
    BY <2>1 DEF SimInv, Paired, At, Own
  <2>. QED  BY <2>2, <2>3, <2>4 DEF SimInv
<1>. QED  BY <1>2, <1>3, <1>4, <1>5, <1>6, <1>7, <1>8 DEF Next

LEMMA SimAlways == Spec => []SimInv
<1>1. Init => SimInv
  <2>1. ASSUME Init PROVE SimInv
    <3>1. \A r \in Request : sim[r] = NoSim /\ sim[r].phase = "none"
      BY <2>1, NoSimTyped DEF Init, SimInit
    <3>2. NoSim.phase = "none" /\ NoSim.report # "executed"
      BY DEF NoSim
    <3>3. Kind(NoSim) /\ Paired(NoSim) /\ At(NoSim, indexes)
      BY <3>2, Ends
    <3>4. Invisible
      BY <2>1, CandidateAssumption DEF Init, DatabaseInit, Invisible, IsSim
    <3>. QED  BY <3>1, <3>3, <3>4 DEF SimInv, Simulating
  <2>. QED  BY <2>1
<1>2. IInv /\ SimInv /\ [Next]_vars => SimInv'
  BY SimStays
<1>. QED  BY <1>1, <1>2, Invariant, PTL DEF Spec

(* mysql.py:567-645, postgres.py:712-759: the two times of an executed
   recommendation were taken with and without the index and with nothing else
   between them, unless the DROP failed: with requests that wait for one another,
   through kills, failures, orphans and foreign keys; with PostgreSQL for any
   number of them while nobody migrates. *)
THEOREM PairsDifferByTheIndex == Spec => []PairDiffersByTheIndex
<1>1. SimInv => PairDiffersByTheIndex
  BY DEF SimInv, Undivided, Paired, Own, PairDiffersByTheIndex
<1>. QED  BY <1>1, SimAlways, PTL

-----------------------------------------------------------------------------
RescueNamed == \A i \in indexes, c \in Candidate : i.name = RescueName[c] => i.cols = c.cols

Hot == {"measure", "drop", "rescue"}
Unfailing == Alone /\ ~setting.faults

(* A temporary index is there only between its CREATE and its DROP. *)
Temporary(ix, s) == \A j \in ix : IsSim(j) => s.phase \in Hot /\ j = Own(s)
Swept ==
    /\ RescueNamed
    /\ Unfailing /\ setting.engine = "mysql" =>
          \A j \in indexes : IsSim(j) =>
              \E r \in Request : sim[r].phase \in Hot /\ j = Own(sim[r])

LEMMA RescueNames ==
    ASSUME NamesIdentify, IInv, RescueNamed, NEW ix,
           \/ \E c \in Candidate : ix \subseteq indexes \cup {SimIndex(c), RescueIndex(c)}
           \/ ix \subseteq indexes \cup MigratedIndexes
    PROVE  \A i \in ix, c \in Candidate : i.name = RescueName[c] => i.cols = c.cols
<1>1. \A c \in Candidate : /\ SimIndex(c).name \in SimNames /\ RescueName[c] \notin SimNames
                           /\ RescueIndex(c).name = RescueName[c] /\ RescueIndex(c).cols = c.cols
  BY CandidateAssumption DEF SimIndex, RescueIndex
<1>. QED  BY <1>1 DEF NamesIdentify, RescueNamed

LEMMA SweptNow ==
    ASSUME IInv, SimInv, Swept, Unfailing, setting.engine = "mysql", NEW r \in Request,
           req[r].step = "indexing"
    PROVE  Temporary(indexes, sim[r])
<1>1. \A t \in Request : t # r => sim[t].phase = "none"
  BY OthersRest DEF Unfailing
<1>. QED  BY <1>1 DEF Swept, Temporary, Hot

(* Simulation r goes on as s: the temporary index, if any, is its own. *)
LEMMA SweptMove ==
    ASSUME IInv, SimInv, Swept, NEW r \in Request, NEW from, NEW s, Phase(r, from, s),
           req[r].step = "indexing", UNCHANGED cacheVars,
           Unfailing /\ setting.engine = "mysql" => Temporary(indexes', s),
           \A i \in indexes', c \in Candidate : i.name = RescueName[c] => i.cols = c.cols
    PROVE  Swept'
<1>1. sim'[r] = s /\ UNCHANGED setting /\ Unfailing' = Unfailing
  BY DEF Phase, IInv, SharedTyped, SimTyped, Unfailing, Alone
<1>2. RescueNamed'
  BY DEF RescueNamed
<1>3. ASSUME Unfailing, setting.engine = "mysql", NEW j \in indexes', IsSim(j)
      PROVE  \E t \in Request : sim'[t].phase \in Hot /\ j = Own(sim'[t])
  BY <1>1, <1>3 DEF Temporary
<1>. QED  BY <1>1, <1>2, <1>3 DEF Swept, Own, IsSim, SimIndex

(* The rescue is never in the way of itself: were its name taken, by an index on *)
(* the same columns, the foreign key would not have needed the temporary one.    *)
LEMMA RescueIsFree ==
    ASSUME IInv, SimInv, Swept, NEW r \in Request, sim[r].phase = "rescue", Undivided
    PROVE  ~Taken(RescueName[sim[r].cand])
<1>. DEFINE c == sim[r].cand
<1>1. c \in Candidate /\ At(sim[r], indexes)
  BY SimHere
<1>2. PICK fk \in ForeignKeys :
         Prefix(fk, SimIndex(c)) /\ \A j \in indexes \ {SimIndex(c)} : ~Prefix(fk, j)
  BY <1>1 DEF At, Needed, Own
<1>3. ASSUME NEW j \in indexes, j.name = RescueName[c] PROVE FALSE
  <2>1. j.cols = c.cols
    BY <1>1, <1>3 DEF Swept, RescueNamed
  <2>2. j # SimIndex(c)
    BY <1>1, <1>3, CandidateAssumption DEF SimIndex
  <2>3. Prefix(fk, j)
    BY <1>2, <2>1 DEF Prefix, SimIndex
  <2>. QED  BY <1>2, <2>2, <2>3
<1>. QED  BY <1>3 DEF Taken, Fingerprint

LEMMA SweptSimulates ==
    ASSUME NamesIdentify, IInv, SimInv, Swept, NEW r \in Request, Simulates(r)
    PROVE  Swept'
<1>0. /\ req[r].step = "indexing" /\ UNCHANGED cacheVars /\ sim[r] \in Simulations
      /\ sim[r].phase # "none" => sim[r].cand \in Candidate
      /\ Undivided => At(sim[r], indexes)
      /\ Unfailing /\ setting.engine = "mysql" => Temporary(indexes, sim[r])
      /\ Unfailing => Undivided
  BY SimHere, SweptNow DEF Simulates, Unfailing, Undivided
<1>. DEFINE i == SimIndex(sim[r].cand)
            j == RescueIndex(sim[r].cand)
(* The steps that leave the indexes as they are *)
<1>1. ASSUME NEW from, NEW s, Phase(r, from, s), indexes' = indexes,
             from \in Hot /\ Unfailing => s.phase \in Hot /\ Own(s) = Own(sim[r])
      PROVE  Swept'
  <2>1. sim[r].phase = from
    BY <1>1 DEF Phase
  <2>2. Unfailing /\ setting.engine = "mysql" => Temporary(indexes', s)
    BY <1>0, <1>1, <2>1 DEF Temporary
  <2>. QED  BY <1>0, <1>1, <2>2, SweptMove DEF Swept, RescueNamed
<1>2. ASSUME NEW c \in Candidate, Gate(r, c) PROVE Swept'
  <2>1. \E s : Phase(r, "none", s) /\ indexes' = indexes
    BY <1>2 DEF Gate
  <2>. QED  BY <1>1, <2>1 DEF Hot
<1>3. CASE ExplainOriginal(r)
  <2>1. \E s : Phase(r, "explain", s) /\ indexes' = indexes
    BY <1>3, Zenon DEF ExplainOriginal
  <2>. QED  BY <1>1, <2>1 DEF Hot
<1>4. CASE Sweep(r)
  <2>1. Phase(r, "sweep", Then(r, "create")) /\ indexes' \subseteq indexes /\ sim[r].phase = "sweep"
    BY <1>4 DEF Sweep, Phase
  <2>2. Unfailing /\ setting.engine = "mysql" => Temporary(indexes', Then(r, "create"))
    BY <1>0, <2>1 DEF Temporary, Hot
  <2>. QED  BY <1>0, <2>1, <2>2, SweptMove DEF Swept, RescueNamed
<1>5. CASE Create(r)
  <2>1. CASE Phase(r, "create", Then(r, "measure")) /\ indexes' = Added(i)
    <3>1. Then(r, "measure").phase = "measure" /\ Then(r, "measure").cand = sim[r].cand
          /\ sim[r].phase = "create"
      BY <1>0, <2>1, ThenSays DEF Phase
    <3>2. Unfailing /\ setting.engine = "mysql" => Temporary(indexes', Then(r, "measure"))
      BY <1>0, <2>1, <3>1 DEF Temporary, Hot, Added, Own
    <3>3. indexes' \subseteq indexes \cup {SimIndex(sim[r].cand), RescueIndex(sim[r].cand)}
      BY <2>1 DEF Added
    <3>4. \A k \in indexes', c \in Candidate : k.name = RescueName[c] => k.cols = c.cols
      BY <1>0, <3>1, <3>3, RescueNames DEF Swept
    <3>. QED  BY <1>0, <2>1, <3>2, <3>4, SweptMove
  <2>2. CASE Phase(r, "create", Report(r, "error")) /\ indexes' = indexes
    BY <1>1, <2>2 DEF Hot
  <2>. QED  BY <1>5, <2>1, <2>2 DEF Create
<1>6. CASE Measure(r)
  <2>1. indexes' = indexes /\ "measure" \in Hot /\ "drop" \in Hot
    BY <1>6 DEF Measure, Hot
  <2>2. ASSUME NEW timed,
               Phase(r, "measure", [Then(r, "drop") EXCEPT !.with = indexes, !.timed = timed])
        PROVE  Swept'
    <3>. DEFINE s == [Then(r, "drop") EXCEPT !.with = indexes, !.timed = timed]
    <3>1. s.phase = "drop" /\ s.cand = sim[r].cand
      BY <1>0, ThenSays
    <3>2. Phase(r, "measure", s)
      BY <2>2
    <3>. HIDE DEF s
    <3>. QED  BY <1>1, <2>1, <3>1, <3>2 DEF Own
  <2>3. CASE Phase(r, "measure", [Then(r, "drop") EXCEPT !.report = "error"])
    <3>. DEFINE s == [Then(r, "drop") EXCEPT !.report = "error"]
    <3>1. s.phase = "drop" /\ s.cand = sim[r].cand
      BY <1>0, ThenSays
    <3>2. Phase(r, "measure", s)
      BY <2>3
    <3>. HIDE DEF s
    <3>. QED  BY <1>1, <2>1, <3>1, <3>2 DEF Own
  <2>. QED  BY <1>6, <2>2, <2>3, Zenon DEF Measure
<1>7. ASSUME NEW from, NEW s, Phase(r, from, s), from \in {"drop", "rescue"},
             indexes' \subseteq (indexes \cup {j}) \ OwnSim(r)
      PROVE  Swept'
  <2>1. sim[r].phase = from /\ sim[r].cand \in Candidate
    BY <1>0, <1>7 DEF Phase
  <2>2. j.name \notin SimNames /\ i.name = SimName[sim[r].cand]
    BY <2>1, CandidateAssumption DEF SimIndex, RescueIndex
  <2>. HIDE DEF i, j
  <2>3. Unfailing /\ setting.engine = "mysql" => \A k \in indexes' : ~IsSim(k)
    <3>1. ASSUME Unfailing, setting.engine = "mysql", NEW k \in indexes', IsSim(k) PROVE FALSE
      <4>1. k \in indexes /\ k \notin OwnSim(r)
        BY <1>7, <2>2, <3>1 DEF IsSim
      <4>2. k = i
        BY <1>0, <3>1, <4>1 DEF Temporary, Own, i
      <4>. QED  BY <2>2, <4>1, <4>2 DEF OwnSim
    <3>. QED  BY <3>1
  <2>4. \A k \in indexes', c \in Candidate : k.name = RescueName[c] => k.cols = c.cols
    <3>1. indexes' \subseteq indexes \cup {SimIndex(sim[r].cand), RescueIndex(sim[r].cand)}
      BY <1>7 DEF j
    <3>. QED  BY <2>1, <3>1, RescueNames DEF Swept
  <2>. QED  BY <1>0, <1>7, <2>3, <2>4, SweptMove DEF Temporary
<1>8. CASE Drop(r)
  <2>0. sim[r].phase = "drop" /\ "drop" \in Hot /\ "rescue" \in Hot
    BY <1>8, Zenon DEF Drop, Phase, Hot
  <2>1. CASE Phase(r, "drop", AfterDrop(r, "clean")) /\ indexes' = indexes \ OwnSim(r)
    BY <1>7, <2>1
  <2>2. CASE Phase(r, "drop", Then(r, "rescue")) /\ indexes' = indexes
    <3>1. Then(r, "rescue").phase = "rescue" /\ Own(Then(r, "rescue")) = Own(sim[r])
      BY <1>0, ThenSays DEF Own
    <3>. QED  BY <1>1, <2>0, <2>2, <3>1
  <2>3. CASE /\ OwnSim(r) = {} \/ setting.faults
             /\ Phase(r, "drop", AfterDrop(r, "failed")) /\ indexes' = indexes
    <3>1. ~Unfailing
      BY <1>0, <2>0, <2>3, OwnName DEF At, Own, OwnSim, Unfailing
    <3>. QED  BY <1>1, <2>3, <3>1
  <2>. QED  BY <1>8, <2>1, <2>2, <2>3, Zenon DEF Drop
<1>9. CASE Rescue(r)
  <2>1. CASE Phase(r, "rescue", AfterDrop(r, "rescued")) /\ indexes' = (indexes \cup {j}) \ OwnSim(r)
    BY <1>7, <2>1
  <2>2. CASE /\ Taken(j.name) \/ setting.faults
             /\ Phase(r, "rescue", AfterDrop(r, "failed"))
             /\ indexes' \subseteq indexes \cup {j}
    <3>1. sim[r].phase = "rescue" /\ sim[r].cand \in Candidate
      BY <1>0, <2>2 DEF Phase
    <3>2. j.name = RescueName[sim[r].cand]
      BY DEF RescueIndex
    <3>3. ~Unfailing
      BY <1>0, <2>2, <3>1, <3>2, RescueIsFree DEF Unfailing
    <3>4. indexes' \subseteq indexes \cup {SimIndex(sim[r].cand), RescueIndex(sim[r].cand)}
      BY <2>2
    <3>5. \A k \in indexes', c \in Candidate : k.name = RescueName[c] => k.cols = c.cols
      BY <3>1, <3>4, RescueNames DEF Swept
    <3>. QED  BY <1>0, <2>2, <3>3, <3>5, SweptMove
  <2>. QED  BY <1>9, <2>1, <2>2 DEF Rescue
<1>10. CASE Baseline(r)
  <2>1. \E s : Phase(r, "baseline", s) /\ indexes' = indexes
    BY <1>10, Zenon DEF Baseline
  <2>. QED  BY <1>1, <2>1 DEF Hot
<1>11. CASE Hypothetical(r) \/ PgBaseline(r) \/ PgMeasure(r)
  <2>1. \E from \in PgPhases : \E s : Phase(r, from, s) /\ indexes' = indexes
    BY <1>11, Zenon DEF Hypothetical, PgBaseline, PgMeasure, PgPhases
  <2>. QED  BY <1>1, <2>1 DEF Hot, PgPhases
<1>. QED  BY <1>2, <1>3, <1>4, <1>5, <1>6, <1>8, <1>9, <1>10, <1>11 DEF Simulates, SimStep

LEMMA SweptStep == ASSUME NamesIdentify, IInv, SimInv, Swept, [Next]_vars PROVE Swept'
<1>1. ASSUME UNCHANGED <<indexes, setting>>, Unfailing => UNCHANGED sim PROVE Swept'
  <2>1. Unfailing' = Unfailing
    BY <1>1 DEF Unfailing, Alone
  <2>2. RescueNamed'
    BY <1>1 DEF Swept, RescueNamed
  <2>3. ASSUME Unfailing, setting.engine = "mysql", NEW j \in indexes', IsSim(j)
        PROVE  \E r \in Request : sim'[r].phase \in Hot /\ j = Own(sim'[r])
    BY <1>1, <2>3 DEF Swept
  <2>. QED  BY <1>1, <2>1, <2>2, <2>3 DEF Swept, Own, IsSim, SimIndex
<1>2. ASSUME NEW r \in Request, RequestStep(r) PROVE Swept'
  <2>1. UNCHANGED <<sim, indexes, setting>>
    BY <1>2 DEF RequestStep, CacheStep, Arrive, Load, ReadFingerprint, Compare, Clear, Remove,
       Build, Install, Stamp, OpenFile, WriteFile, Serve, StoreLoads, SaveIndex, SavePickle,
       Leave, Step, dbVars
  <2>. QED  BY <1>1, <2>1
<1>3. ASSUME NEW r \in Request, Simulates(r) PROVE Swept'
  BY <1>3, SweptSimulates
<1>4. ASSUME NEW r \in Request, FinishIndexing(r) PROVE Swept'
  <2>1. UNCHANGED <<indexes, setting>> /\ sim' = [sim EXCEPT ![r] = NoSim] /\ sim[r].phase = "none"
    BY <1>4 DEF FinishIndexing, Step, dbVars
  <2>2. \A t \in Request : sim[t].phase \in Hot => sim'[t] = sim[t]
    BY <2>1 DEF IInv, SharedTyped, SimTyped, Hot
  <2>3. RescueNamed' /\ Unfailing' = Unfailing
    BY <2>1 DEF Swept, RescueNamed, Unfailing, Alone
  <2>4. ASSUME Unfailing, setting.engine = "mysql", NEW j \in indexes', IsSim(j)
        PROVE  \E t \in Request : sim'[t].phase \in Hot /\ j = Own(sim'[t])
    <3>1. PICK t \in Request : sim[t].phase \in Hot /\ j = Own(sim[t])
      BY <2>1, <2>4 DEF Swept
    <3>. QED  BY <2>2, <3>1
  <2>. QED  BY <2>1, <2>3, <2>4 DEF Swept, Own, IsSim, SimIndex
<1>5. ASSUME NEW r \in Request, StartIndexing(r) PROVE Swept'
  BY <1>1, <1>5 DEF StartIndexing, Step, dbVars
<1>6. CASE Invalidate \/ UNCHANGED vars
  BY <1>1, <1>6 DEF Invalidate, Purge, dbVars, vars
<1>7. CASE Restart
  <2>1. ~Unfailing /\ UNCHANGED <<indexes, setting>>
    BY <1>7 DEF Restart, Unfailing, dbVars
  <2>. QED  BY <1>1, <2>1
<1>8. CASE Migration
  <2>1. /\ UNCHANGED <<sim, setting>> /\ indexes' \subseteq indexes \cup MigratedIndexes
        /\ Unfailing => \A r \in Request : sim[r].phase = "none"
        /\ Unfailing' = Unfailing
    BY <1>8 DEF Migration, Migrate, Unfailing, Alone
  <2>2. RescueNamed'
    BY <2>1, RescueNames DEF Swept, RescueNamed
  <2>3. ASSUME Unfailing, setting.engine = "mysql", NEW j \in indexes' PROVE ~IsSim(j)
    BY <2>1, <2>3, CandidateAssumption DEF Swept, Hot, IsSim
  <2>. QED  BY <2>1, <2>2, <2>3 DEF Swept, IsSim
<1>. QED  BY <1>2, <1>3, <1>4, <1>5, <1>6, <1>7, <1>8 DEF Next, vars

LEMMA SweptAlways == NamesIdentify /\ Spec => []Swept
<1>. SUFFICES ASSUME NamesIdentify PROVE Spec => []Swept
  OBVIOUS
<1>1. Init => Swept
  BY CandidateAssumption DEF Init, DatabaseInit, Swept, RescueNamed, IsSim, NamesIdentify
<1>2. IInv /\ SimInv /\ Swept /\ [Next]_vars => Swept'
  BY SweptStep
<1>. QED  BY <1>1, <1>2, Invariant, SimAlways, PTL DEF Spec

(* mysql.py:504 "The index is always dropped in a finally block": between two
   simulations no temporary index is there, whatever was proposed, failed to be
   created or was adopted by a foreign key and rescued.  With PostgreSQL always;
   with MySQL if requests wait for one another and no statement fails, and if the
   names of the indexes that replace the temporary ones identify them. *)
THEOREM NothingIsLeftBehind == NamesIdentify /\ Spec => []NothingTemporaryStays
<1>. SUFFICES ASSUME NamesIdentify PROVE Spec => []NothingTemporaryStays
  OBVIOUS
<1>1. IInv /\ SimInv /\ Swept => NothingTemporaryStays
  <2>1. ASSUME IInv, SimInv, Swept, setting.engine = "postgres" \/ Unfailing,
               \A r \in Request : sim[r].phase = "none", NEW i \in indexes, IsSim(i)
        PROVE  FALSE
    <3>1. setting.engine \in {"mysql", "postgres"}
      BY <2>1, IndexAssumption DEF IInv, SharedTyped, DatabaseTyped, Setting
    <3>. QED  BY <2>1, <3>1 DEF SimInv, Invisible, Swept, Hot
  <2>. QED  BY <2>1 DEF NothingTemporaryStays, Unfailing
<1>. QED  BY <1>1, Invariant, SimAlways, SweptAlways, PTL

-----------------------------------------------------------------------------
(* No fingerprint that is kept, in memory, on disk or by a request, has the name *)
(* of a temporary index in it.                                                    *)
Calm == setting.engine = "postgres" \/ Unfailing

Pure(names) == names # None => names \cap SimNames = {}
PureContext(c) == c \notin {None, Torn} => Pure(c.fp)

PureInv ==
    Calm => /\ PureContext(memory) /\ PureContext(file)
            /\ \A r \in Request : Pure(req[r].seen) /\ PureContext(req[r].built)

LEMMA PureFingerprint ==
    ASSUME IInv, SimInv, Swept, Calm, NEW r \in Request, req[r].step \notin {"idle", "indexing"},
           NEW fp \in FingerprintRead
    PROVE  Pure(fp)
<1>1. setting.engine \in {"mysql", "postgres"}
  BY IndexAssumption DEF IInv, SharedTyped, DatabaseTyped, Setting
<1>2. ASSUME NEW i \in indexes PROVE ~IsSim(i)
  <2>1. CASE setting.engine = "postgres"
    BY <2>1 DEF SimInv, Invisible
  <2>2. CASE setting.engine = "mysql"
    <3>1. Unfailing
      BY <2>2 DEF Calm
    <3>2. \A t \in Request : t # r => req[t].step = "idle"
      BY <3>1 DEF Unfailing, IInv, CachesInv, Exclusive
    <3>3. \A t \in Request : sim[t].phase = "none"
      BY <3>2 DEF SimInv, Simulating
    <3>. QED  BY <2>2, <3>1, <3>3 DEF Swept, Hot
  <2>. QED  BY <1>1, <2>1, <2>2
<1>3. Fingerprint \cap SimNames = {}
  BY <1>2 DEF Fingerprint, IsSim
<1>. QED  BY <1>3 DEF FingerprintRead, Pure

LEMMA PureMove ==
    ASSUME IInv, PureInv, NEW r \in Request, NEW l, req' = [req EXCEPT ![r] = l],
           UNCHANGED setting,
           Calm => /\ PureContext(memory') /\ PureContext(file')
                   /\ Pure(l.seen) /\ PureContext(l.built)
    PROVE  PureInv'
<1>1. Calm' = Calm
  BY DEF Calm, Unfailing, Alone
<1>2. \A t \in Request : req'[t] = IF t = r THEN l ELSE req[t]
  BY DEF IInv, CachesInv, CachesTyped
<1>3. Calm => \A t \in Request : Pure(req'[t].seen) /\ PureContext(req'[t].built)
  BY <1>2 DEF PureInv
<1>. QED  BY <1>1, <1>3 DEF PureInv, PureContext, Pure

(* A step that takes no fingerprint: what r carries is as before or empty *)
LEMMA PureTo ==
    ASSUME IInv, PureInv, NEW r \in Request, NEW from, NEW l, Step(r, from, l),
           l.seen \in {req[r].seen, None}, l.built \in {req[r].built, memory, None},
           memory' \in {memory, file, req[r].built, None}, file' \in {file, memory, req[r].built, None, Torn}
    PROVE  PureInv'
<1>1. req' = [req EXCEPT ![r] = l] /\ UNCHANGED setting
  BY DEF Step, dbVars
<1>2. Calm => /\ PureContext(memory') /\ PureContext(file')
              /\ Pure(l.seen) /\ PureContext(l.built)
  BY DEF PureInv, PureContext, Pure
<1>. QED  BY <1>1, <1>2, PureMove

LEMMA PureRequest ==
    ASSUME IInv, SimInv, Swept, PureInv, NEW r \in Request, RequestStep(r)
    PROVE  PureInv'
<1>0. /\ \A step \in Steps : To(r, step).seen = req[r].seen /\ To(r, step).built = req[r].built
      /\ \A step \in {"fingerprint", "failed", "build", "serve", "clear", "remove", "stamp", "open",
                      "write", "compare", "install", "analyzed", "pickle"} : step \in Steps
  BY ToTyped DEF IInv, CachesInv, Steps, AnalystSteps, CacheSteps
<1>1. ASSUME NEW from, NEW step \in Steps, Step(r, from, To(r, step)),
             memory' \in {memory, file, req[r].built, None}, file' \in {file, memory, req[r].built, None, Torn}
      PROVE  PureInv'
  BY <1>0, <1>1, PureTo
<1>2. ASSUME NEW q \in Query, Arrive(r, q) PROVE PureInv'
  <2>. DEFINE l == [Idle EXCEPT !.step = "load", !.query = q, !.asked = finished,
                                !.since = columns]
  <2>1. Step(r, "idle", l) /\ UNCHANGED <<memory, file>> /\ l.seen = None /\ l.built = None
    BY <1>2 DEF Arrive, Idle
  <2>. HIDE DEF l
  <2>. QED  BY <2>1, PureTo
<1>3. CASE Load(r)
  <2>1. \E step \in {"fingerprint", "failed", "build"} : Step(r, "load", To(r, step))
    BY <1>3, Zenon DEF Load
  <2>2. memory' \in {memory, file} /\ file' = file
    BY <1>3, Zenon DEF Load
  <2>. QED  BY <1>0, <1>1, <2>1, <2>2
<1>4. CASE ReadFingerprint(r)
  <2>1. PICK fp \in FingerprintRead :
           Step(r, "fingerprint", [To(r, "compare") EXCEPT !.seen = fp])
    BY <1>4 DEF ReadFingerprint
  <2>. DEFINE l == [To(r, "compare") EXCEPT !.seen = fp]
  <2>2. To(r, "compare") \in Requests /\ To(r, "compare").built = req[r].built
    BY <1>0, ToTyped DEF IInv, CachesInv
  <2>3. l.seen = fp /\ l.built = req[r].built
    BY <2>2 DEF Requests
  <2>4. req[r].step = "fingerprint" /\ req' = [req EXCEPT ![r] = l]
        /\ UNCHANGED <<memory, file, setting>>
    BY <1>4, <2>1 DEF Step, dbVars, ReadFingerprint
  <2>. HIDE DEF l
  <2>5. Calm => Pure(fp)
    BY <2>4, PureFingerprint
  <2>6. Calm => PureContext(memory) /\ PureContext(file) /\ PureContext(req[r].built)
    BY DEF PureInv
  <2>. QED  BY <2>3, <2>4, <2>5, <2>6, PureMove
<1>5. CASE Compare(r)
  <2>1. \E step \in {"failed", "serve", "clear"} : Step(r, "compare", To(r, step))
    BY <1>5, Zenon DEF Compare
  <2>2. memory' \in {memory, None} /\ file' = file
    BY <1>5, Zenon DEF Compare
  <2>. QED  BY <1>0, <1>1, <2>1, <2>2
<1>6. CASE Clear(r)
  BY <1>0, <1>1, <1>6 DEF Clear
<1>7. CASE Remove(r)
  <2>1. \E step \in {"build", "serve"} : Step(r, "remove", To(r, step))
    BY <1>7, Zenon DEF Remove
  <2>2. memory' = memory /\ file' = None
    BY <1>7 DEF Remove
  <2>. QED  BY <1>0, <1>1, <2>1, <2>2
<1>8. CASE Build(r)
  <2>0. UNCHANGED <<memory, file>>
    BY <1>8 DEF Build
  <2>1. CASE Step(r, "build", To(r, "failed"))
    BY <1>0, <1>1, <2>0, <2>1
  <2>2. CASE Step(r, "build", [To(r, "install") EXCEPT !.built = Extracted])
    <3>. DEFINE l == [To(r, "install") EXCEPT !.built = Extracted]
    <3>1. To(r, "install") \in Requests /\ To(r, "install").seen = req[r].seen
      BY <1>0, ToTyped DEF IInv, CachesInv
    <3>2. l.seen = req[r].seen /\ l.built = Extracted
      BY <3>1 DEF Requests
    <3>3. req' = [req EXCEPT ![r] = l] /\ UNCHANGED setting
      BY <2>2 DEF Step, dbVars
    <3>. HIDE DEF l
    <3>4. PureContext(Extracted)
      BY DEF PureContext, Pure, Extracted
    <3>5. Calm => PureContext(memory) /\ PureContext(file) /\ Pure(req[r].seen)
      BY DEF PureInv
    <3>. QED  BY <2>0, <3>2, <3>3, <3>4, <3>5, PureMove
  <2>. QED  BY <1>8, <2>1, <2>2, Zenon DEF Build
<1>9. CASE Install(r)
  BY <1>0, <1>1, <1>9 DEF Install
<1>10. CASE Stamp(r)
  <2>1. CASE Step(r, "stamp", To(r, "failed")) /\ UNCHANGED <<memory, file>>
    BY <1>0, <1>1, <2>1
  <2>2. ASSUME NEW fp \in FingerprintRead, memory # None, Step(r, "stamp", To(r, "open")),
               memory' = [memory EXCEPT !.fp = fp], file' = file
        PROVE  PureInv'
    <3>1. memory \in Contexts /\ req[r].step = "stamp"
      BY <2>2, Here DEF IInv, Step
    <3>2. memory'.fp = fp
      BY <2>2, <3>1 DEF Contexts
    <3>3. Calm => Pure(fp)
      BY <3>1, PureFingerprint
    <3>4. req' = [req EXCEPT ![r] = To(r, "open")] /\ UNCHANGED setting
      BY <2>2 DEF Step, dbVars
    <3>5. Calm => PureContext(file) /\ Pure(req[r].seen) /\ PureContext(req[r].built)
      BY DEF PureInv
    <3>6. Calm => PureContext(memory')
      BY <3>2, <3>3 DEF PureContext
    <3>. QED  BY <1>0, <2>2, <3>4, <3>5, <3>6, PureMove
  <2>. QED  BY <1>10, <2>1, <2>2, Zenon DEF Stamp
<1>11. CASE OpenFile(r)
  <2>. DEFINE l == [To(r, "write") EXCEPT !.built = memory]
  <2>1. To(r, "write") \in Requests /\ To(r, "write").seen = req[r].seen
    BY <1>0, ToTyped DEF IInv, CachesInv
  <2>2. l.seen = req[r].seen /\ l.built = memory
    BY <2>1 DEF Requests
  <2>3. Step(r, "open", l) /\ memory' = memory /\ file' = Torn
    BY <1>11 DEF OpenFile
  <2>. HIDE DEF l
  <2>. QED  BY <2>2, <2>3, PureTo
<1>12. CASE WriteFile(r)
  BY <1>0, <1>1, <1>12 DEF WriteFile
<1>13. CASE Serve(r)
  <2>0. UNCHANGED <<memory, file>>
    BY <1>13 DEF Serve
  <2>1. CASE Step(r, "serve", To(r, "failed"))
    BY <1>0, <1>1, <2>0, <2>1
  <2>2. CASE Step(r, "serve", [To(r, "analyzed") EXCEPT !.served = memory])
    <3>. DEFINE l == [To(r, "analyzed") EXCEPT !.served = memory]
    <3>1. /\ To(r, "analyzed") \in Requests /\ To(r, "analyzed").seen = req[r].seen
          /\ To(r, "analyzed").built = req[r].built
      BY <1>0, ToTyped DEF IInv, CachesInv
    <3>2. l.seen = req[r].seen /\ l.built = req[r].built
      BY <3>1 DEF Requests
    <3>. HIDE DEF l
    <3>. QED  BY <2>0, <2>2, <3>2, PureTo DEF l
  <2>. QED  BY <1>13, <2>1, <2>2, Zenon DEF Serve
<1>14. CASE StoreLoads(r)
  <2>1. PICK loaded \in {TRUE, Saving \ {r} = {}} :
           Step(r, "analyzed", [Idle EXCEPT !.step = "save", !.query = req[r].query,
                                      !.copy = IF loaded THEN store ELSE {},
                                      !.mixed = loaded /\ Mixed])
    BY <1>14, Zenon DEF StoreLoads
  <2>. DEFINE l == [Idle EXCEPT !.step = "save", !.query = req[r].query,
                                !.copy = IF loaded THEN store ELSE {},
                                !.mixed = loaded /\ Mixed]
  <2>2. Step(r, "analyzed", l)
    BY <2>1
  <2>3. l.seen = None /\ l.built = None /\ UNCHANGED <<memory, file>>
    BY <1>14 DEF Idle, StoreLoads
  <2>. HIDE DEF l
  <2>. QED  BY <2>2, <2>3, PureTo
<1>15. CASE SaveIndex(r) \/ SavePickle(r)
  <2>1. CASE SaveIndex(r)
    BY <1>0, <1>1, <2>1 DEF SaveIndex
  <2>2. CASE SavePickle(r)
    BY <2>2, PureTo DEF SavePickle, Idle
  <2>. QED  BY <1>15, <2>1, <2>2
<1>16. CASE Leave(r)
  BY <1>16, PureTo DEF Leave, Idle
<1>. QED  BY <1>2, <1>3, <1>4, <1>5, <1>6, <1>7, <1>8, <1>9, <1>10, <1>11, <1>12, <1>13, <1>14,
             <1>15, <1>16 DEF RequestStep, CacheStep

LEMMA PureStep == ASSUME IInv, SimInv, Swept, PureInv, [Next]_vars PROVE PureInv'
<1>1. ASSUME NEW r \in Request, RequestStep(r) PROVE PureInv'
  BY <1>1, PureRequest
<1>2. ASSUME NEW r \in Request, StartIndexing(r) \/ FinishIndexing(r) PROVE PureInv'
  BY <1>2, PureTo DEF StartIndexing, FinishIndexing, Idle
<1>3. CASE UNCHANGED <<cacheVars, setting>>
  BY <1>3 DEF PureInv, PureContext, Pure, cacheVars, Calm, Unfailing, Alone
<1>4. ASSUME NEW r \in Request, Simulates(r) PROVE UNCHANGED <<cacheVars, setting>>
  BY <1>4 DEF Simulates, Gate, SimStep, ExplainOriginal, Sweep, Create, Measure, Drop, Rescue,
     Baseline, Hypothetical, PgBaseline, PgMeasure, Phase
<1>5. Migration \/ UNCHANGED vars => UNCHANGED <<cacheVars, setting>>
  BY DEF Migration, Migrate, vars, dbVars
<1>6. CASE Invalidate
  <2>1. UNCHANGED <<req, setting>> /\ memory' \in {memory, None} /\ file' \in {file, None}
        /\ Calm' = Calm
    BY <1>6 DEF Invalidate, Purge, PurgeMemory, PurgeFile, PurgeStore, storeVars, dbVars, Calm,
                Unfailing, Alone
  <2>. QED  BY <2>1 DEF PureInv, PureContext, Pure
<1>7. CASE Restart
  <2>1. memory' = None /\ file' = file /\ UNCHANGED setting /\ Calm' = Calm
    BY <1>7 DEF Restart, RestartCaches, dbVars, Calm, Unfailing, Alone
  <2>2. \A r \in Request : req'[r].seen = None /\ req'[r].built = None
    BY <1>7 DEF Restart, RestartCaches, Idle
  <2>. QED  BY <2>1, <2>2 DEF PureInv, PureContext, Pure
<1>. QED  BY <1>1, <1>2, <1>3, <1>4, <1>5, <1>6, <1>7 DEF Next

(* mysql.py:400-411 and 583-624, postgres.py:716-759: what the analyst takes for a
   change of the schema is never a temporary index alone, but one of the indexes of
   a migration or the permanent one a simulation of a foreign key leaves: with PostgreSQL always; with MySQL if requests wait for
   one another, nothing fails and the rescued indexes have names of their own. *)
THEOREM TemporariesAreNoDrift == NamesIdentify /\ Spec => []TemporaryIsNoDrift
<1>. SUFFICES ASSUME NamesIdentify PROVE Spec => []TemporaryIsNoDrift
  OBVIOUS
<1>1. Init => PureInv
  BY DEF Init, CacheInit, PureInv, PureContext, Pure, Idle
<1>2. IInv /\ SimInv /\ Swept /\ PureInv /\ [Next]_vars => PureInv'
  BY PureStep
<1>3. IInv /\ PureInv => TemporaryIsNoDrift
  <2>1. ASSUME IInv, PureInv, Calm, NEW r \in Request, req[r].step = "compare", memory # None,
               Drifted(r)
        PROVE  req[r].seen \ SimNames # memory.fp \ SimNames
    <3>1. memory # Torn
      BY <2>1, Here, ContextAssumption DEF IInv
    <3>2. Pure(req[r].seen) /\ Pure(memory.fp)
      BY <2>1, <3>1 DEF PureInv, PureContext
    <3>3. req[r].seen # None /\ memory.fp # None /\ req[r].seen # memory.fp
      BY <2>1 DEF Drifted
    <3>4. req[r].seen \cap SimNames = {} /\ memory.fp \cap SimNames = {}
      BY <3>2, <3>3 DEF Pure
    <3>5. req[r].seen \ SimNames = req[r].seen /\ memory.fp \ SimNames = memory.fp
      BY <3>4
    <3>. QED  BY <3>3, <3>5
  <2>. QED  BY <2>1 DEF TemporaryIsNoDrift, Calm, Unfailing
<1>. QED  BY <1>1, <1>2, <1>3, Invariant, SimAlways, SweptAlways, PTL DEF Spec
=============================================================================
