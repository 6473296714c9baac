------------------------ MODULE StrategyCache_proofs ------------------------
(***************************************************************************)
(* Proofs about StrategyCache for every number of concurrent requests,     *)
(* every set of shapes, queries and strategies, and every threshold.       *)
(***************************************************************************)
EXTENDS StrategyCache, FiniteSetTheorems, TLAPS

(* What save_landed leaves unjudged stays above the floor because of the size *)
(* of the shipped thresholds, 34 percent judged from the third try on.        *)
FloorIsLenient == MinPrecision * MinHitsToJudge <= 200

(* An entry that landed once and was never below the floor when it was judged *)
AboveFloor(e) ==
    FloorIsLenient =>
        /\ 1 <= e.lands /\ e.lands <= e.hits
        /\ e.hits >= MinHitsToJudge => e.lands * 100 >= MinPrecision * e.hits

EntriesKept ==
    \A s \in Shape : Readable(s) => AboveFloor(entry[s]) /\ <<s, entry[s].strategy>> \in landed

(* What a request is about to write was an entry when it read it. *)
CopiesKept ==
    \A r \in Request : run[r].stage \in {"open", "write"} =>
        /\ run[r].copy \in Entry /\ run[r].target \in Shape
        /\ AboveFloor(run[r].copy)
        /\ <<run[r].target, run[r].copy.strategy>> \in landed

StagesMatch ==
    \A r \in Request :
        /\ run[r].stage = "hook" => run[r].strategy # None
        /\ run[r].stage = "evict" => run[r].served \in Shape

ServedKept ==
    \A r \in Request : (run[r].served # NoShape /\ run[r].strategy # None) =>
        /\ run[r].served \subseteq Signature[run[r].query]
        /\ <<run[r].served, run[r].strategy>> \in landed

IInv == TypeOK /\ EntriesKept /\ CopiesKept /\ StagesMatch /\ ServedKept

-----------------------------------------------------------------------------
LEMMA ReadEntry ==
    ASSUME TypeOK, NEW s \in Shape, Readable(s)
    PROVE  entry[s] \in Entry
  BY DEF TypeOK, Readable

LEMMA LoadedEntry ==
    ASSUME TypeOK, EntriesKept, NEW s \in Shape, LoadEntry(s) # None
    PROVE  /\ LoadEntry(s) \in Entry /\ AboveFloor(LoadEntry(s))
           /\ <<s, LoadEntry(s).strategy>> \in landed
  BY ReadEntry DEF LoadEntry, EntriesKept

(* Gains are integers, down to the lowest. *)
LEMMA GainsAre == /\ 0 \in Gain /\ Lowest \in Gain /\ Gain \subseteq Int
                  /\ \A g \in Gain : Lowest <= g
  BY NumbersAssumption DEF Gain, Lowest

LEMMA IdleIsTyped == Idle \in Run
<1>1. (CHOOSE q \in Query : TRUE) \in Query
  BY SignatureAssumption
<1>. QED  BY <1>1, GainsAre DEF Idle, Run, Stage, NoShape

(* One more try and one more land do not take an entry below the floor. *)
LEMMA SavedStaysAbove ==
    ASSUME NEW e, NEW text \in Strategy, NEW g \in Gain,
           e # None => e \in Entry /\ AboveFloor(e)
    PROVE  Saved(e, text, g) \in Entry /\ AboveFloor(Saved(e, text, g))
<1>. DEFINE n == Saved(e, text, g)
<1>. MinPrecision \in Nat /\ MinPrecision <= 100 /\ MinHitsToJudge \in Nat /\ MaxGain \in Nat
  BY NumbersAssumption
<1>1. CASE e = None
  <2>1. n = [strategy |-> text, gain |-> g, hits |-> 1, lands |-> 1]
    BY <1>1 DEF Saved
  <2>. QED  BY <2>1 DEF Entry, AboveFloor
<1>2. CASE e # None
  <2>1. e \in Entry /\ AboveFloor(e)
    BY <1>2
  <2>2. e.hits \in Nat /\ e.lands \in Nat /\ e.gain \in Gain /\ e.strategy \in Strategy
    BY <2>1 DEF Entry
  <2>3. /\ n.hits = e.hits + 1 /\ n.lands = e.lands + 1
        /\ n.strategy \in Strategy /\ n.gain \in Gain
        /\ n = [strategy |-> n.strategy, gain |-> n.gain, hits |-> n.hits, lands |-> n.lands]
    BY <1>2, <2>2 DEF Saved
  <2>4. n \in Entry
    BY <2>2, <2>3 DEF Entry
  <2>5. ASSUME FloorIsLenient
        PROVE  n.hits >= MinHitsToJudge => n.lands * 100 >= MinPrecision * n.hits
    <3>1. MinPrecision * (e.hits + 1) = MinPrecision * e.hits + MinPrecision
      BY <2>2
    <3>2. CASE e.hits >= MinHitsToJudge
      BY <2>5, <3>1, <3>2, <2>1, <2>2, <2>3 DEF AboveFloor
    <3>3. CASE e.hits + 1 = MinHitsToJudge
      BY <2>5, <3>3, <2>1, <2>2, <2>3 DEF AboveFloor, FloorIsLenient
    <3>. QED  BY <3>2, <3>3, <2>2, <2>3
  <2>. QED  BY <2>1, <2>2, <2>3, <2>4, <2>5 DEF AboveFloor
<1>. QED  BY <1>1, <1>2

LEMMA ReinforcedIsJudged ==
    ASSUME NEW e \in Entry, AboveFloor(e), NEW ok \in BOOLEAN,
           ~BelowFloor(Reinforced(e, ok))
    PROVE  /\ Reinforced(e, ok) \in Entry /\ AboveFloor(Reinforced(e, ok))
           /\ Reinforced(e, ok).strategy = e.strategy
<1>. DEFINE n == Reinforced(e, ok)
<1>1. e.hits \in Nat /\ e.lands \in Nat /\ e.gain \in Gain /\ e.strategy \in Strategy
  BY DEF Entry
<1>. DEFINE more == IF ok THEN 1 ELSE 0
<1>2. more \in {0, 1}
  OBVIOUS
<1>. HIDE DEF more
<1>3. n = [e EXCEPT !.hits = e.hits + 1, !.lands = e.lands + more]
  BY DEF Reinforced, more
<1>4. n = [strategy |-> e.strategy, gain |-> e.gain, hits |-> e.hits + 1, lands |-> e.lands + more]
  BY <1>3 DEF Entry
<1>. HIDE DEF n
<1>5. /\ n.hits = e.hits + 1 /\ n.lands \in {e.lands, e.lands + 1}
      /\ n.strategy = e.strategy /\ n \in Entry
  BY <1>1, <1>2, <1>4 DEF Entry
<1>. MinPrecision \in Nat /\ MinHitsToJudge \in Nat
  BY NumbersAssumption
<1>6. ~BelowFloor(n)
  BY DEF n
<1>7. MinPrecision * n.hits \in Nat /\ n.lands * 100 \in Nat /\ n.hits \in Nat /\ n.lands \in Nat
  BY <1>1, <1>5
<1>8. n.hits >= MinHitsToJudge => n.lands * 100 >= MinPrecision * n.hits
  BY <1>6, <1>7 DEF BelowFloor
<1>9. n \in Entry /\ AboveFloor(n) /\ n.strategy = e.strategy
  BY <1>1, <1>5, <1>8 DEF AboveFloor
<1>. QED  BY <1>9 DEF n

-----------------------------------------------------------------------------
(* What each step does to the request that takes it: fields of run'[r], and  *)
(* the runs of the others left alone.                                        *)
Others(r) == \A x \in Request \ {r} : run'[x] = run[x]

LEMMA RunFields ==
    ASSUME NEW x \in Run
    PROVE  /\ x.stage \in Stage /\ x.query \in Query /\ x.served \in SUBSET Tag
           /\ x.strategy \in Strategy \cup {None} /\ x.tries \in Nat /\ x.approved \in BOOLEAN
           /\ x.gain \in Gain /\ x.target \in SUBSET Tag /\ x.copy \in Entry \cup {None}
  BY DEF Run

LEMMA AskStep ==
    ASSUME TypeOK, NEW r \in Request, NEW q \in Query, Ask(r, q)
    PROVE  /\ run' \in [Request -> Run] /\ Others(r)
           /\ run'[r].stage = "first" /\ run'[r].served = NoShape
<1>1. [Idle EXCEPT !.stage = "first", !.query = q] \in Run
  BY IdleIsTyped DEF Run, Stage
<1>2. /\ [Idle EXCEPT !.stage = "first", !.query = q].stage = "first"
      /\ [Idle EXCEPT !.stage = "first", !.query = q].served = NoShape
  BY DEF Idle
<1>. QED  BY <1>1, <1>2 DEF Ask, TypeOK, Others

LEMMA BypassStep ==
    ASSUME TypeOK, NEW r \in Request, NEW s \in Shape, Bypass(r, s)
    PROVE  /\ run' \in [Request -> Run] /\ Others(r)
           /\ run'[r].stage = "again" /\ run'[r].served = s /\ run'[r].query = run[r].query
           /\ run'[r].strategy = entry[s].strategy
           /\ Readable(s) /\ s \subseteq Signature[run[r].query]
<1>1. Readable(s) /\ s \subseteq Signature[run[r].query]
  BY DEF Bypass, BestMatches, Matching
<1>2. entry[s] \in Entry
  BY <1>1, ReadEntry
<1>3. entry[s].strategy \in Strategy
  BY <1>2 DEF Entry
<1>4. run[r] \in Run
  BY DEF TypeOK
<1>. DEFINE x == [run[r] EXCEPT !.stage = "again", !.served = s, !.tries = 1,
                                !.strategy = entry[s].strategy]
<1>6. s \in SUBSET Tag
  BY DEF Shape
<1>7. run' = [run EXCEPT ![r] = x]
  BY Zenon DEF Bypass
<1>8. x \in Run
  BY <1>3, <1>4, <1>6 DEF Run, Stage
<1>9. x.stage = "again" /\ x.served = s /\ x.query = run[r].query /\ x.strategy = entry[s].strategy
  BY <1>4 DEF Run
<1>. HIDE DEF x
<1>. QED  BY <1>1, <1>7, <1>8, <1>9 DEF TypeOK, Others

LEMMA ReasonStep ==
    ASSUME TypeOK, NEW r \in Request, NEW text \in Strategy, Reason(r, text)
    PROVE  /\ run' \in [Request -> Run] /\ Others(r)
           /\ run'[r].stage = "again" /\ run'[r].served = NoShape
<1>. DEFINE n == run[r].tries + 1
            x == [run[r] EXCEPT !.stage = "again", !.served = NoShape,
                                !.strategy = text, !.tries = n]
<1>1. run[r] \in Run
  BY DEF TypeOK
<1>2. run' = [run EXCEPT ![r] = x]
  BY Zenon DEF Reason
<1>3. n \in Nat /\ NoShape \in SUBSET Tag
  BY <1>1 DEF Run, NoShape
<1>. HIDE DEF n
<1>4. x \in Run
  BY <1>1, <1>3 DEF Run, Stage
<1>5. x.stage = "again" /\ x.served = NoShape
  BY <1>1 DEF Run
<1>. HIDE DEF x
<1>. QED  BY <1>2, <1>4, <1>5 DEF TypeOK, Others

LEMMA VerdictStep ==
    ASSUME TypeOK, NEW r \in Request, NEW ok \in BOOLEAN, NEW g \in Gain, Verdict(r, ok, g)
    PROVE  /\ run' \in [Request -> Run] /\ Others(r)
           /\ run'[r].stage \in {"again", "hook"}
           /\ run'[r].served = run[r].served /\ run'[r].query = run[r].query
           /\ run'[r].strategy \in {run[r].strategy, None}
           /\ run'[r].stage = "hook" => run'[r].strategy = run[r].strategy
           /\ run[r].strategy # None
           /\ tally' \in [Shape -> Tally]
<1>. DEFINE back == SentBack(r, ok, g)
            stage == IF back THEN "again" ELSE "hook"
            text == IF back THEN None ELSE run[r].strategy
            x == [run[r] EXCEPT !.approved = ok, !.gain = g, !.stage = stage, !.strategy = text]
<1>1. run[r] \in Run
  BY DEF TypeOK
<1>2. run' = [run EXCEPT ![r] = x]
  BY Zenon DEF Verdict
<1>3. stage \in {"again", "hook"} /\ text \in {run[r].strategy, None}
  BY Zenon
<1>4. stage = "hook" => text = run[r].strategy
  OBVIOUS
<1>. HIDE DEF stage, text, back
<1>5. x \in Run
  BY <1>1, <1>3 DEF Run, Stage
<1>6. /\ x.stage = stage /\ x.served = run[r].served /\ x.query = run[r].query
      /\ x.strategy = text
  BY <1>1 DEF Run
<1>. HIDE DEF x
<1>7. tally' \in [Shape -> Tally]
  <2>1. CASE tally' = tally
    BY <2>1 DEF TypeOK
  <2>2. CASE /\ run[r].served # NoShape
             /\ tally' = [tally EXCEPT ![run[r].served].failed = @ + 1]
    <3>1. run[r].served \in Shape
      BY <1>1, <2>2 DEF Run, Shape, NoShape
    <3>2. tally[run[r].served] \in Tally
      BY <3>1 DEF TypeOK
    <3>3. [tally[run[r].served] EXCEPT !.failed = @ + 1] \in Tally
      BY <3>2 DEF Tally
    <3>. QED  BY <2>2, <3>1, <3>3 DEF TypeOK
  <2>. QED  BY <2>1, <2>2, Zenon DEF Verdict
<1>8. run[r].strategy # None
  BY DEF Verdict
<1>. QED  BY <1>2, <1>3, <1>4, <1>5, <1>6, <1>7, <1>8 DEF TypeOK, Others

LEMMA FinishStep ==
    ASSUME TypeOK, NEW r \in Request, run' = Finish(r)
    PROVE  /\ run' \in [Request -> Run] /\ Others(r)
           /\ run'[r].stage = "idle" /\ run'[r].served = NoShape
<1>1. Idle.stage = "idle" /\ Idle.served = NoShape
  BY DEF Idle
<1>. QED  BY <1>1, IdleIsTyped DEF Finish, TypeOK, Others

(* A copy on its way to the disk, and the credit it takes *)
LEMMA CarryStep ==
    ASSUME TypeOK, NEW r \in Request, NEW s \in Shape, NEW e \in Entry, Carry(r, s, e)
    PROVE  /\ run' \in [Request -> Run] /\ Others(r)
           /\ run'[r].stage = "open" /\ run'[r].target = s /\ run'[r].copy = e
           /\ run'[r].served = run[r].served /\ run'[r].query = run[r].query
           /\ run'[r].strategy = run[r].strategy
<1>. DEFINE x == [run[r] EXCEPT !.stage = "open", !.target = s, !.copy = e]
<1>1. run[r] \in Run
  BY DEF TypeOK
<1>2. run' = [run EXCEPT ![r] = x]
  BY Zenon DEF Carry
<1>3. x \in Run
  BY <1>1 DEF Run, Stage, Shape
<1>4. /\ x.stage = "open" /\ x.target = s /\ x.copy = e
      /\ x.served = run[r].served /\ x.query = run[r].query /\ x.strategy = run[r].strategy
  BY <1>1 DEF Run
<1>. HIDE DEF x
<1>. QED  BY <1>2, <1>3, <1>4 DEF TypeOK, Others

LEMMA CreditStep ==
    ASSUME TypeOK, NEW s \in Shape, NEW ok \in BOOLEAN, NEW g \in Gain, Credit(s, ok, g)
    PROVE  tally' \in [Shape -> Tally]
<1>. DEFINE more == IF ok THEN 1 ELSE 0
            best == IF g > tally[s].gain THEN g ELSE tally[s].gain
            t == [tally[s] EXCEPT !.hits = tally[s].hits + 1, !.lands = tally[s].lands + more,
                                  !.gain = best]
            new == Credited(tally[s], ok, g)
<1>1. tally[s] \in Tally
  BY DEF TypeOK
<1>2. more \in Nat
  OBVIOUS
<1>3. best \in Gain
  BY <1>1 DEF Tally
<1>4. tally' = [tally EXCEPT ![s] = new]
  BY Zenon DEF Credit
<1>5. new = t
  BY Zenon DEF Credited
<1>. HIDE DEF more, best, new
<1>6. tally[s].hits + 1 \in Nat /\ tally[s].lands + more \in Nat
  BY <1>1, <1>2 DEF Tally
<1>7. t \in Tally
  BY <1>1, <1>3, <1>6 DEF Tally
<1>. HIDE DEF t
<1>. QED  BY <1>4, <1>5, <1>7 DEF TypeOK

(* A step that only moves request r on to another stage *)
LEMMA StageStep ==
    ASSUME TypeOK, NEW r \in Request, NEW stage \in Stage,
           run' = [run EXCEPT ![r].stage = stage]
    PROVE  /\ run' \in [Request -> Run] /\ Others(r)
           /\ run'[r].stage = stage /\ run'[r].target = run[r].target /\ run'[r].copy = run[r].copy
           /\ run'[r].served = run[r].served /\ run'[r].query = run[r].query
           /\ run'[r].strategy = run[r].strategy
<1>. DEFINE x == [run[r] EXCEPT !.stage = stage]
<1>1. run[r] \in Run
  BY DEF TypeOK
<1>2. run' = [run EXCEPT ![r] = x]
  BY Zenon
<1>3. x \in Run
  BY <1>1 DEF Run
<1>4. /\ x.stage = stage /\ x.target = run[r].target /\ x.copy = run[r].copy
      /\ x.served = run[r].served /\ x.query = run[r].query /\ x.strategy = run[r].strategy
  BY <1>1 DEF Run
<1>. HIDE DEF x
<1>. QED  BY <1>2, <1>3, <1>4 DEF TypeOK, Others

-----------------------------------------------------------------------------
(* The invariant, over any step: what the entries, the copies and the served *)
(* strategies become is given by what the step does to entry and run.        *)

LEMMA InitIInv == Init => IInv
<1>. SUFFICES ASSUME Init PROVE IInv
  OBVIOUS
<1>1. TypeOK
  <2>1. NoTally \in Tally
    BY GainsAre DEF NoTally, Tally
  <2>. QED  BY <2>1, IdleIsTyped, NumbersAssumption DEF Init, TypeOK
<1>2. EntriesKept
  BY DEF Init, EntriesKept, Readable
<1>3. \A r \in Request : run[r].stage = "idle" /\ run[r].served = NoShape
  BY DEF Init, Idle
<1>. QED  BY <1>1, <1>2, <1>3 DEF IInv, CopiesKept, StagesMatch, ServedKept

(* Steps that leave entries and history alone, and carry no copy *)
LEMMA NoWrite ==
    ASSUME IInv, NEW r \in Request, Others(r), run' \in [Request -> Run],
           UNCHANGED <<entry, landed, setting>>, asks' \in 0 .. MaxAsks,
           tally' \in [Shape -> Tally],
           run'[r].stage \notin {"open", "write"},
           run'[r].stage = "hook" => run'[r].strategy # None,
           run'[r].stage = "evict" => run'[r].served \in Shape,
           (run'[r].served # NoShape /\ run'[r].strategy # None) =>
                /\ run'[r].served \subseteq Signature[run'[r].query]
                /\ <<run'[r].served, run'[r].strategy>> \in landed
    PROVE  IInv'
<1>1. TypeOK'
  BY DEF IInv, TypeOK
<1>2. EntriesKept'
  BY DEF IInv, EntriesKept, Readable
<1>3. \A x \in Request : x # r => run'[x] = run[x]
  BY DEF Others
<1>4. CopiesKept'
  BY <1>3 DEF IInv, CopiesKept
<1>5. StagesMatch'
  BY <1>3 DEF IInv, StagesMatch
<1>6. ServedKept'
  BY <1>3 DEF IInv, ServedKept
<1>. QED  BY <1>1, <1>2, <1>4, <1>5, <1>6 DEF IInv

(* Steps that read an entry and carry its copy e to be written for shape s *)
LEMMA ToWrite ==
    ASSUME IInv, NEW r \in Request, NEW s \in Shape, NEW e \in Entry, Carry(r, s, e),
           UNCHANGED <<entry, asks, setting>>, tally' \in [Shape -> Tally],
           landed \subseteq landed', landed' \subseteq Shape \X Strategy,
           AboveFloor(e), <<s, e.strategy>> \in landed'
    PROVE  IInv'
<1>0. /\ run' \in [Request -> Run] /\ Others(r)
      /\ run'[r].stage = "open" /\ run'[r].target = s /\ run'[r].copy = e
      /\ run'[r].served = run[r].served /\ run'[r].query = run[r].query
      /\ run'[r].strategy = run[r].strategy
  BY CarryStep DEF IInv
<1>1. TypeOK'
  BY <1>0 DEF IInv, TypeOK
<1>2. EntriesKept'
  BY DEF IInv, EntriesKept, Readable
<1>3. \A x \in Request : x # r => run'[x] = run[x]
  BY <1>0 DEF Others
<1>4. CopiesKept'
  BY <1>0, <1>3 DEF IInv, CopiesKept
<1>5. StagesMatch'
  BY <1>0, <1>3 DEF IInv, StagesMatch
<1>6. ServedKept'
  BY <1>0, <1>3 DEF IInv, ServedKept
<1>. QED  BY <1>1, <1>2, <1>4, <1>5, <1>6 DEF IInv

(* Steps that write shape s: nothing, a torn file or a copy *)
LEMMA Written ==
    ASSUME IInv, NEW r \in Request, Others(r), run' \in [Request -> Run],
           NEW s \in Shape, NEW e \in Entry \cup {None, Torn}, entry' = [entry EXCEPT ![s] = e],
           UNCHANGED <<asks, setting, landed>>, tally' \in [Shape -> Tally],
           e \in Entry => AboveFloor(e) /\ <<s, e.strategy>> \in landed,
           \/ run'[r].stage = "idle" /\ run'[r].served = NoShape
           \/ /\ run'[r].stage = "write" /\ run[r].stage = "open"
              /\ run'[r].target = run[r].target /\ run'[r].copy = run[r].copy
              /\ run'[r].served = run[r].served /\ run'[r].query = run[r].query
              /\ run'[r].strategy = run[r].strategy
    PROVE  IInv'
<1>1. TypeOK'
  BY DEF IInv, TypeOK
<1>2. EntriesKept'
  <2>1. SUFFICES ASSUME NEW t \in Shape, entry'[t] \notin {None, Torn}
                 PROVE  AboveFloor(entry'[t]) /\ <<t, entry'[t].strategy>> \in landed'
    BY Zenon DEF EntriesKept, Readable
  <2>2. CASE t = s
    BY <2>1, <2>2 DEF IInv, TypeOK
  <2>3. CASE t # s
    BY <2>1, <2>3 DEF IInv, TypeOK, EntriesKept, Readable
  <2>. QED  BY <2>2, <2>3
<1>3. \A x \in Request : x # r => run'[x] = run[x]
  BY DEF Others
<1>4. CopiesKept'
  BY <1>3 DEF IInv, CopiesKept
<1>5. StagesMatch'
  BY <1>3 DEF IInv, StagesMatch
<1>6. ServedKept'
  BY <1>3 DEF IInv, ServedKept
<1>. QED  BY <1>1, <1>2, <1>4, <1>5, <1>6 DEF IInv

-----------------------------------------------------------------------------
LEMMA StepIInv ==
    ASSUME IInv, NEW r \in Request, RequestStep(r)
    PROVE  IInv'
<1>. TypeOK
  BY DEF IInv
<1>0. run[r] \in Run /\ tally \in [Shape -> Tally] /\ landed \subseteq Shape \X Strategy
      /\ asks \in 0 .. MaxAsks /\ MaxAsks \in Nat
  BY NumbersAssumption DEF TypeOK
<1>1. ASSUME NEW q \in Query, Ask(r, q) PROVE IInv'
  <2>1. asks' \in 0 .. MaxAsks
    BY <1>0, <1>1 DEF Ask
  <2>2. UNCHANGED <<entry, setting, landed, tally>>
    BY <1>1 DEF Ask
  <2>. QED  BY <1>0, <1>1, <2>1, <2>2, AskStep, NoWrite
<1>2. ASSUME NEW s \in Shape, Bypass(r, s) PROVE IInv'
  <2>1. /\ run' \in [Request -> Run] /\ Others(r)
        /\ run'[r].stage = "again" /\ run'[r].served = s /\ run'[r].query = run[r].query
        /\ run'[r].strategy = entry[s].strategy
        /\ Readable(s) /\ s \subseteq Signature[run[r].query]
    BY <1>2, BypassStep
  <2>2. <<s, entry[s].strategy>> \in landed
    BY <2>1 DEF IInv, EntriesKept
  <2>3. UNCHANGED <<entry, asks, setting, landed, tally>>
    BY <1>2 DEF Bypass
  <2>. QED  BY <1>0, <2>1, <2>2, <2>3, NoWrite
<1>3. ASSUME NEW text \in Strategy, Reason(r, text) PROVE IInv'
  <2>1. UNCHANGED <<entry, asks, setting, landed, tally>>
    BY <1>3 DEF Reason
  <2>. QED  BY <1>0, <1>3, <2>1, ReasonStep, NoWrite
<1>4. ASSUME NEW ok \in BOOLEAN, NEW g \in Gain, Verdict(r, ok, g) PROVE IInv'
  <2>1. /\ run' \in [Request -> Run] /\ Others(r)
        /\ run'[r].stage \in {"again", "hook"}
        /\ run'[r].served = run[r].served /\ run'[r].query = run[r].query
        /\ run'[r].strategy \in {run[r].strategy, None}
        /\ run'[r].stage = "hook" => run'[r].strategy = run[r].strategy
        /\ run[r].strategy # None
        /\ tally' \in [Shape -> Tally]
    BY <1>4, VerdictStep
  <2>2. UNCHANGED <<entry, asks, setting, landed>>
    BY <1>4 DEF Verdict
  <2>3. (run'[r].served # NoShape /\ run'[r].strategy # None) =>
             /\ run'[r].served \subseteq Signature[run'[r].query]
             /\ <<run'[r].served, run'[r].strategy>> \in landed
    BY <2>1 DEF IInv, ServedKept
  <2>. QED  BY <1>0, <2>1, <2>2, <2>3, NoWrite
<1>5. CASE ReinforceReads(r)
  <2>. DEFINE s == run[r].served
              e == LoadEntry(s)
              n == Reinforced(e, run[r].approved)
  <2>1. s \in Shape /\ s # NoShape /\ UNCHANGED <<entry, asks, setting, landed>>
    BY <1>0, <1>5 DEF ReinforceReads, Run, Shape, NoShape
  <2>2. CASE e = None
    <3>1. run' = Finish(r) /\ UNCHANGED tally
      BY <1>5, <2>2 DEF ReinforceReads
    <3>. QED  BY <1>0, <2>1, <3>1, FinishStep, NoWrite
  <2>3. CASE e # None /\ BelowFloor(n)
    <3>1. run' = [run EXCEPT ![r].stage = "evict"] /\ UNCHANGED tally
      BY <1>5, <2>3 DEF ReinforceReads
    <3>2. "evict" \in Stage
      BY DEF Stage
    <3>3. /\ run' \in [Request -> Run] /\ Others(r)
          /\ run'[r].stage = "evict" /\ run'[r].served = run[r].served
          /\ run'[r].query = run[r].query /\ run'[r].strategy = run[r].strategy
      BY <3>1, <3>2, StageStep
    <3>4. (run'[r].served # NoShape /\ run'[r].strategy # None) =>
               /\ run'[r].served \subseteq Signature[run'[r].query]
               /\ <<run'[r].served, run'[r].strategy>> \in landed
      BY <3>3 DEF IInv, ServedKept
    <3>. QED  BY <1>0, <2>1, <3>1, <3>3, <3>4, NoWrite
  <2>4. CASE e # None /\ ~BelowFloor(n)
    <3>1. Carry(r, s, n) /\ Credit(s, run[r].approved, Lowest)
      BY <1>5, <2>4 DEF ReinforceReads
    <3>2. e \in Entry /\ AboveFloor(e) /\ <<s, e.strategy>> \in landed
      BY <2>1, <2>4, LoadedEntry DEF IInv
    <3>3. run[r].approved \in BOOLEAN /\ Lowest \in Gain
      BY <1>0, GainsAre DEF Run
    <3>4. n \in Entry /\ AboveFloor(n) /\ n.strategy = e.strategy
      BY <2>4, <3>2, <3>3, ReinforcedIsJudged
    <3>5. tally' \in [Shape -> Tally]
      BY <2>1, <3>1, <3>3, CreditStep
    <3>. HIDE DEF n, e, s
    <3>. QED  BY <1>0, <2>1, <3>1, <3>2, <3>4, <3>5, ToWrite
  <2>. QED  BY <2>2, <2>3, <2>4
<1>6. CASE Evict(r)
  <2>1. run[r].served \in Shape
    BY <1>6 DEF Evict, IInv, StagesMatch
  <2>2. run' \in [Request -> Run] /\ Others(r) /\ run'[r].stage = "idle" /\ run'[r].served = NoShape
    BY <1>6, FinishStep DEF Evict
  <2>3. NoTally \in Tally
    BY GainsAre DEF NoTally, Tally
  <2>4. tally' \in [Shape -> Tally]
    BY <1>0, <1>6, <2>1, <2>3 DEF Evict
  <2>5. entry' = [entry EXCEPT ![run[r].served] = None] /\ UNCHANGED <<asks, setting, landed>>
    BY <1>6 DEF Evict
  <2>6. None \notin Entry
    BY MarkersAssumption
  <2>. QED  BY <2>1, <2>2, <2>4, <2>5, <2>6, Written
<1>7. CASE SaveReads(r)
  <2>. DEFINE s == SavedSignature[run[r].query]
              text == run[r].strategy
              g == run[r].gain
              e == LoadEntry(s)
              n == Saved(e, text, g)
  <2>1. run[r].stage = "hook" /\ s # NoShape /\ Carry(r, s, n) /\ Credit(s, TRUE, g)
        /\ landed' = landed \cup {<<s, text>>} /\ UNCHANGED <<entry, asks, setting>>
    BY <1>7 DEF SaveReads
  <2>2. s \in Shape
    BY <1>0, <2>1, SignatureAssumption DEF Run, Shape, NoShape
  <2>3. text \in Strategy /\ g \in Gain
    BY <1>0, <2>1 DEF Run, IInv, StagesMatch
  <2>4. e # None => e \in Entry /\ AboveFloor(e) /\ <<s, e.strategy>> \in landed
    BY <2>2, LoadedEntry DEF IInv
  <2>5. n \in Entry /\ AboveFloor(n)
    BY <2>3, <2>4, SavedStaysAbove
  <2>6. n.strategy = text \/ (e # None /\ n.strategy = e.strategy)
    <3>1. CASE e = None
      BY <3>1 DEF Saved
    <3>2. CASE e # None
      BY <3>2 DEF Saved
    <3>. QED  BY <3>1, <3>2
  <2>7. <<s, n.strategy>> \in landed'
    BY <2>1, <2>4, <2>6
  <2>8. tally' \in [Shape -> Tally]
    BY <2>1, <2>2, <2>3, CreditStep
  <2>9. landed \subseteq landed' /\ landed' \subseteq Shape \X Strategy
    BY <1>0, <2>1, <2>2, <2>3
  <2>. HIDE DEF s, text, g, e, n
  <2>. QED  BY <2>1, <2>2, <2>5, <2>7, <2>8, <2>9, ToWrite
<1>8. CASE NothingToKeep(r)
  <2>1. run' = Finish(r) /\ UNCHANGED <<entry, asks, setting, landed, tally>>
    BY <1>8 DEF NothingToKeep
  <2>. QED  BY <1>0, <2>1, FinishStep, NoWrite
<1>9. CASE OpenEntry(r)
  <2>1. run[r].stage = "open" /\ entry' = [entry EXCEPT ![run[r].target] = Torn]
        /\ run' = [run EXCEPT ![r].stage = "write"] /\ UNCHANGED <<asks, setting, landed, tally>>
    BY <1>9 DEF OpenEntry
  <2>2. run[r].target \in Shape
    BY <2>1 DEF IInv, CopiesKept
  <2>3. "write" \in Stage
    BY DEF Stage
  <2>4. /\ run' \in [Request -> Run] /\ Others(r) /\ run'[r].stage = "write"
        /\ run'[r].target = run[r].target /\ run'[r].copy = run[r].copy
        /\ run'[r].served = run[r].served /\ run'[r].query = run[r].query
        /\ run'[r].strategy = run[r].strategy
    BY <2>1, <2>3, StageStep
  <2>5. Torn \notin Entry
    BY MarkersAssumption
  <2>. QED  BY <1>0, <2>1, <2>2, <2>4, <2>5, Written
<1>10. CASE WriteEntry(r)
  <2>1. run[r].stage = "write" /\ entry' = [entry EXCEPT ![run[r].target] = run[r].copy]
        /\ run' = Finish(r) /\ UNCHANGED <<asks, setting, landed, tally>>
    BY <1>10 DEF WriteEntry
  <2>2. /\ run[r].copy \in Entry /\ run[r].target \in Shape
        /\ AboveFloor(run[r].copy)
        /\ <<run[r].target, run[r].copy.strategy>> \in landed
    BY <2>1 DEF IInv, CopiesKept
  <2>3. run' \in [Request -> Run] /\ Others(r) /\ run'[r].stage = "idle" /\ run'[r].served = NoShape
    BY <2>1, FinishStep
  <2>. QED  BY <1>0, <2>1, <2>2, <2>3, Written
<1>. QED  BY <1>1, <1>2, <1>3, <1>4, <1>5, <1>6, <1>7, <1>8, <1>9, <1>10 DEF RequestStep

LEMMA RestartIInv == ASSUME IInv, RestartServer PROVE IInv'
<1>1. run' = [r \in Request |-> Idle] /\ UNCHANGED <<entry, asks, setting, landed, tally>>
  BY DEF RestartServer
<1>2. TypeOK'
  BY <1>1, IdleIsTyped DEF IInv, TypeOK
<1>3. EntriesKept'
  BY <1>1 DEF IInv, EntriesKept, Readable
<1>4. \A r \in Request : run'[r].stage = "idle" /\ run'[r].served = NoShape
  BY <1>1 DEF Idle
<1>. QED  BY <1>2, <1>3, <1>4 DEF IInv, CopiesKept, StagesMatch, ServedKept

LEMMA Invariance == Spec => []IInv
<1>1. ASSUME IInv, [Next]_vars PROVE IInv'
  <2>1. CASE UNCHANGED vars
    BY <1>1, <2>1 DEF vars, IInv, TypeOK, EntriesKept, Readable, CopiesKept, StagesMatch, ServedKept
  <2>2. CASE Next
    BY <1>1, <2>2, StepIInv, RestartIInv DEF Next
  <2>. QED  BY <1>1, <2>1, <2>2
<1>. QED  BY <1>1, InitIInv, PTL DEF Spec

(* Every field of every entry, request and tally keeps its type: in particular *)
(* what is written to a file is always a whole entry.                          *)
THEOREM TypeCorrect == Spec => []TypeOK
<1>1. IInv => TypeOK
  BY DEF IInv
<1>. QED  BY <1>1, Invariance, PTL

(* However requests interleave their reads and writes and whenever the server  *)
(* stops, no entry that can be read is below the precision floor, if the       *)
(* thresholds are as lenient as the shipped ones.                              *)
THEOREM FloorKept == FloorIsLenient /\ Spec => []PrecisionFloor
<1>1. ASSUME FloorIsLenient PROVE Spec => []PrecisionFloor
  <2>1. IInv => PrecisionFloor
    BY <1>1, ReadEntry DEF IInv, EntriesKept, AboveFloor, PrecisionFloor
  <2>. QED  BY <2>1, Invariance, PTL
<1>. QED  BY <1>1

(* A strategy from the cache landed on a query of every tag it is matched by. *)
THEOREM ServedLanded == Spec => []ServedLandedOnTheShape
<1>1. IInv => ServedLandedOnTheShape
  <2>1. SUFFICES ASSUME IInv, NEW r \in Request, run[r].served # NoShape, run[r].strategy # None
                 PROVE  \E s \in Shape : /\ s \subseteq Signature[run[r].query]
                                         /\ <<s, run[r].strategy>> \in landed
    BY DEF ServedLandedOnTheShape
  <2>2. run[r].served \in Shape
    BY <2>1 DEF IInv, TypeOK, Run, Shape, NoShape
  <2>. QED  BY <2>1, <2>2 DEF IInv, ServedKept
<1>. QED  BY <1>1, Invariance, PTL

-----------------------------------------------------------------------------
(* One request at a time: what the files count.  A shape that is not being  *)
(* written has the counts of its tally, and so has a copy on its way.       *)
InHand(r) == run[r].stage \in {"open", "write"}
Recorded(e, t) == e.hits = t.hits /\ e.lands = t.lands /\ e.gain = t.gain
Counts(s) == entry[s] # Torn /\ Recorded(IF entry[s] = None THEN NoTally ELSE entry[s], tally[s])

Single == \A r, x \in Request : run[r].stage # "idle" /\ run[x].stage # "idle" => r = x
Exact ==
    /\ \A s \in Shape : (\A r \in Request : ~(InHand(r) /\ run[r].target = s)) => Counts(s)
    /\ \A r \in Request : InHand(r) => Recorded(run[r].copy, tally[run[r].target])

CountInv == Alone => Single /\ Exact

LEMMA SinglePreserved ==
    ASSUME Single, NEW r \in Request, Others(r), run[r].stage # "idle"
    PROVE  Single' /\ \A x \in Request \ {r} : run[x].stage = "idle" /\ run'[x].stage = "idle"
  BY DEF Single, Others

(* Nobody else is running when a request is let in. *)
LEMMA LetInAlone ==
    ASSUME Alone, Cardinality({x \in Request : run[x].stage # "idle"}) < setting.capacity
    PROVE  \A x \in Request : run[x].stage = "idle"
<1>. DEFINE Busy == {x \in Request : run[x].stage # "idle"}
<1>1. IsFiniteSet(Busy)
  BY RequestsAssumption, FS_Subset
<1>2. Cardinality(Busy) \in Nat /\ Cardinality(Busy) < 1
  BY <1>1, FS_CardinalityType DEF Alone
<1>3. Busy = {}
  BY <1>1, <1>2, FS_EmptySet
<1>. QED  BY <1>3

(* Steps between the hooks touch no file and no count. *)
LEMMA NothingCounted ==
    ASSUME Exact, NEW r \in Request, Others(r), ~InHand(r), ~InHand(r)', entry' = entry,
           \A s \in Shape : /\ tally'[s].hits = tally[s].hits
                            /\ tally'[s].lands = tally[s].lands
                            /\ tally'[s].gain = tally[s].gain,
           \A x \in Request \ {r} : ~InHand(x)
    PROVE  Exact'
<1>1. \A x \in Request : ~InHand(x) /\ ~InHand(x)'
  BY DEF Others, InHand
<1>2. \A s \in Shape : Counts(s)
  BY <1>1 DEF Exact
<1>3. \A s \in Shape : Counts(s)'
  BY <1>2 DEF Counts, Recorded
<1>. QED  BY <1>1, <1>3 DEF Exact

(* A copy on its way has counted the request that carries it. *)
LEMMA CopyCounted ==
    ASSUME IInv, Exact, NEW r \in Request, ~InHand(r), NEW s \in Shape, NEW e \in Entry,
           NEW ok \in BOOLEAN, NEW g \in Gain, Carry(r, s, e), Credit(s, ok, g), entry' = entry,
           Recorded(e, Credited(tally[s], ok, g)),
           \A x \in Request \ {r} : ~InHand(x)
    PROVE  Exact'
<1>1. /\ Others(r) /\ run'[r].stage = "open" /\ run'[r].target = s /\ run'[r].copy = e
  BY CarryStep DEF IInv
<1>2. \A x \in Request \ {r} : ~InHand(x)'
  BY <1>1 DEF Others, InHand
<1>. DEFINE new == Credited(tally[s], ok, g)
<1>3. tally' = [tally EXCEPT ![s] = new] /\ tally \in [Shape -> Tally]
  BY Zenon DEF Credit, IInv, TypeOK
<1>. HIDE DEF new
<1>4. tally'[s] = new /\ \A t \in Shape \ {s} : tally'[t] = tally[t]
  BY <1>3
<1>5. \A t \in Shape : Counts(t)
  BY DEF Exact
<1>6. \A t \in Shape \ {s} : Counts(t)'
  BY <1>4, <1>5 DEF Counts
<1>7. InHand(r)' /\ Recorded(run'[r].copy, tally'[s])
  BY <1>1, <1>4 DEF InHand, new
<1>. QED  BY <1>1, <1>2, <1>6, <1>7 DEF Exact

(* Opening the file leaves the counts to the copy, writing it hands them to the file. *)
LEMMA FileCounted ==
    ASSUME IInv, Exact, NEW r \in Request, Others(r), OpenEntry(r) \/ WriteEntry(r),
           \A x \in Request \ {r} : ~InHand(x)
    PROVE  Exact'
<1>1. InHand(r) /\ tally' = tally /\ entry \in [Shape -> Entry \cup {None, Torn}]
  BY DEF InHand, OpenEntry, WriteEntry, IInv, TypeOK
<1>2. run[r].copy \in Entry /\ \E s \in Shape : s = run[r].target
  BY <1>1 DEF IInv, CopiesKept, InHand
<1>. PICK s \in Shape : s = run[r].target
  BY <1>2
<1>3. Recorded(run[r].copy, tally[s])
  BY <1>1 DEF Exact
<1>4. \A x \in Request \ {r} : ~InHand(x)'
  BY DEF Others, InHand
<1>5. \A t \in Shape \ {s} : Counts(t)
  BY DEF Exact
<1>6. \A t \in Shape \ {s} : Counts(t)'
  <2>1. \A t \in Shape \ {s} : entry'[t] = entry[t]
    BY <1>1 DEF OpenEntry, WriteEntry
  <2>. QED  BY <1>1, <1>5, <2>1 DEF Counts
<1>7. CASE OpenEntry(r)
  <2>1. "write" \in Stage /\ TypeOK /\ run' = [run EXCEPT ![r].stage = "write"]
    BY <1>7 DEF Stage, IInv, OpenEntry
  <2>2. run'[r].stage = "write" /\ run'[r].target = s /\ run'[r].copy = run[r].copy
    BY <2>1, StageStep
  <2>. QED  BY <1>1, <1>3, <1>4, <1>6, <2>2 DEF Exact, InHand
<1>8. CASE WriteEntry(r)
  <2>1. run'[r].stage = "idle"
    BY <1>8, FinishStep DEF WriteEntry, IInv
  <2>2. entry'[s] = run[r].copy
    BY <1>1, <1>2, <1>8 DEF WriteEntry
  <2>3. run[r].copy # None /\ run[r].copy # Torn
    BY <1>2, MarkersAssumption
  <2>4. Counts(s)'
    BY <1>1, <1>3, <2>2, <2>3 DEF Counts
  <2>. QED  BY <1>4, <1>6, <2>1, <2>4 DEF Exact, InHand
<1>. QED  BY <1>7, <1>8

(* An eviction takes the counts of the shape with it. *)
LEMMA EvictionCounted ==
    ASSUME IInv, Exact, NEW r \in Request, Evict(r), Others(r),
           \A x \in Request \ {r} : ~InHand(x)
    PROVE  Exact'
<1>. DEFINE s == run[r].served
<1>1. s \in Shape /\ entry \in [Shape -> Entry \cup {None, Torn}] /\ tally \in [Shape -> Tally]
  BY DEF Evict, IInv, StagesMatch, TypeOK
<1>2. run'[r].stage = "idle"
  BY FinishStep DEF Evict, IInv
<1>3. \A x \in Request : ~InHand(x) /\ ~InHand(x)'
  BY <1>2 DEF Others, InHand, Evict
<1>4. \A t \in Shape : Counts(t)
  BY <1>3 DEF Exact
<1>5. entry'[s] = None /\ tally'[s] = NoTally
  BY <1>1 DEF Evict
<1>6. \A t \in Shape \ {s} : entry'[t] = entry[t] /\ tally'[t] = tally[t]
  BY <1>1 DEF Evict
<1>7. None # Torn
  BY MarkersAssumption
<1>8. \A t \in Shape : Counts(t)'
  BY <1>4, <1>5, <1>6, <1>7 DEF Counts, Recorded
<1>. QED  BY <1>3, <1>8 DEF Exact

(* What the hook reads for a shape nobody writes has its counts. *)
LEMMA ReadIsCounted ==
    ASSUME IInv, Exact, NEW s \in Shape, \A x \in Request : ~InHand(x)
    PROVE  /\ tally[s] \in Tally
           /\ LoadEntry(s) = None => Recorded(NoTally, tally[s])
           /\ LoadEntry(s) # None => LoadEntry(s) \in Entry /\ Recorded(LoadEntry(s), tally[s])
<1>1. Counts(s)
  BY DEF Exact
<1>2. tally[s] \in Tally /\ entry[s] \in Entry \cup {None, Torn}
  BY DEF IInv, TypeOK
<1>. QED  BY <1>1, <1>2 DEF Counts, LoadEntry, Readable

LEMMA CountStep ==
    ASSUME IInv, Alone, Single, Exact, NEW r \in Request, RequestStep(r)
    PROVE  setting' = setting /\ Single' /\ Exact'
<1>. TypeOK
  BY DEF IInv
<1>0. run \in [Request -> Run] /\ run[r] \in Run /\ tally \in [Shape -> Tally]
  BY DEF TypeOK
<1>1. ASSUME NEW q \in Query, Ask(r, q) PROVE setting' = setting /\ Single' /\ Exact'
  <2>1. Others(r) /\ run'[r].stage = "first"
    BY <1>1, AskStep
  <2>2. \A x \in Request : run[x].stage = "idle"
    BY <1>1, LetInAlone DEF Ask
  <2>3. UNCHANGED <<entry, setting, tally>>
    BY <1>1 DEF Ask
  <2>4. Single'
    BY <2>1, <2>2 DEF Single, Others
  <2>5. /\ ~InHand(r) /\ ~InHand(r)' /\ \A x \in Request \ {r} : ~InHand(x)
        /\ \A s \in Shape : tally'[s] = tally[s]
    BY <2>1, <2>2, <2>3 DEF InHand
  <2>. QED  BY <2>1, <2>3, <2>4, <2>5, NothingCounted
<1>. SUFFICES ASSUME \A q \in Query : ~Ask(r, q)
              PROVE  setting' = setting /\ Single' /\ Exact'
  BY <1>1
<1>2. setting' = setting /\ run[r].stage # "idle" /\ Others(r)
  <2>1. ASSUME NEW s \in Shape, Bypass(r, s) PROVE setting' = setting /\ run[r].stage # "idle" /\ Others(r)
    BY <2>1, BypassStep DEF Bypass
  <2>2. ASSUME NEW text \in Strategy, Reason(r, text) PROVE setting' = setting /\ run[r].stage # "idle" /\ Others(r)
    BY <2>2, ReasonStep DEF Reason
  <2>3. ASSUME NEW ok \in BOOLEAN, NEW g \in Gain, Verdict(r, ok, g) PROVE setting' = setting /\ run[r].stage # "idle" /\ Others(r)
    BY <2>3, VerdictStep DEF Verdict
  <2>4. CASE \/ ReinforceReads(r) \/ Evict(r) \/ SaveReads(r) \/ NothingToKeep(r)
             \/ OpenEntry(r) \/ WriteEntry(r)
    BY <1>0, <2>4 DEF ReinforceReads, Evict, SaveReads, NothingToKeep, OpenEntry, WriteEntry,
                      Finish, Carry, Others
  <2>. QED  BY <2>1, <2>2, <2>3, <2>4 DEF RequestStep
<1>3. Single' /\ \A x \in Request \ {r} : ~InHand(x)
  BY <1>2, SinglePreserved DEF InHand
<1>4. ASSUME NEW s \in Shape, Bypass(r, s) PROVE Exact'
  <2>1. run'[r].stage = "again" /\ ~InHand(r) /\ UNCHANGED <<entry, tally>>
    BY <1>4, BypassStep DEF Bypass, InHand
  <2>. QED  BY <1>2, <1>3, <2>1, NothingCounted DEF InHand
<1>5. ASSUME NEW text \in Strategy, Reason(r, text) PROVE Exact'
  <2>1. run'[r].stage = "again" /\ ~InHand(r) /\ UNCHANGED <<entry, tally>>
    BY <1>5, ReasonStep DEF Reason, InHand
  <2>. QED  BY <1>2, <1>3, <2>1, NothingCounted DEF InHand
<1>6. ASSUME NEW ok \in BOOLEAN, NEW g \in Gain, Verdict(r, ok, g) PROVE Exact'
  <2>1. run'[r].stage \in {"again", "hook"} /\ ~InHand(r) /\ entry' = entry
    BY <1>6, VerdictStep DEF Verdict, InHand
  <2>2. \/ tally' = tally
        \/ run[r].served # NoShape /\ tally' = [tally EXCEPT ![run[r].served].failed = @ + 1]
    BY <1>6, Zenon DEF Verdict
  <2>3. run[r].served # NoShape => run[r].served \in Shape
    BY <1>0 DEF Run, Shape, NoShape
  <2>4. \A s \in Shape : /\ tally'[s].hits = tally[s].hits
                         /\ tally'[s].lands = tally[s].lands
                         /\ tally'[s].gain = tally[s].gain
    BY <1>0, <2>2, <2>3 DEF Tally
  <2>. QED  BY <1>2, <1>3, <2>1, <2>4, NothingCounted DEF InHand
<1>7. CASE ReinforceReads(r)
  <2>. DEFINE s == run[r].served
              e == LoadEntry(s)
              ok == run[r].approved
              n == Reinforced(e, ok)
  <2>1. s \in Shape /\ ~InHand(r) /\ entry' = entry /\ ok \in BOOLEAN /\ Lowest \in Gain
    BY <1>0, <1>7, GainsAre DEF ReinforceReads, Run, Shape, NoShape, InHand
  <2>2. CASE run' = Finish(r) /\ UNCHANGED tally
    <3>1. run'[r].stage = "idle"
      BY <2>2, FinishStep
    <3>. QED  BY <1>2, <1>3, <2>1, <2>2, <3>1, NothingCounted DEF InHand
  <2>3. CASE run' = [run EXCEPT ![r].stage = "evict"] /\ UNCHANGED tally
    <3>1. run'[r].stage = "evict"
      BY <1>0, <2>3 DEF Run
    <3>. QED  BY <1>2, <1>3, <2>1, <2>3, <3>1, NothingCounted DEF InHand
  <2>4. CASE e # None /\ ~BelowFloor(n) /\ Carry(r, s, n) /\ Credit(s, ok, Lowest)
    <3>1. e \in Entry /\ Recorded(e, tally[s]) /\ tally[s] \in Tally
      BY <1>3, <2>1, <2>4, ReadIsCounted
    <3>2. AboveFloor(e)
      BY <2>1, <2>4, LoadedEntry DEF IInv
    <3>3. n \in Entry
      BY <2>1, <2>4, <3>1, <3>2, ReinforcedIsJudged
    <3>4. Recorded(n, Credited(tally[s], ok, Lowest))
      <4>. DEFINE more == IF ok THEN 1 ELSE 0
                  t == tally[s]
                  c == Credited(t, ok, Lowest)
                  best == IF Lowest > t.gain THEN Lowest ELSE t.gain
      <4>1. /\ t.gain \in Int /\ Lowest \in Int /\ Lowest <= t.gain
            /\ e.gain = t.gain /\ e.hits = t.hits /\ e.lands = t.lands
        BY <3>1, GainsAre DEF Recorded, Tally
      <4>2. n = [e EXCEPT !.hits = e.hits + 1, !.lands = e.lands + more]
        BY Zenon DEF Reinforced
      <4>3. n.hits = e.hits + 1 /\ n.lands = e.lands + more /\ n.gain = e.gain
        BY <3>1, <4>2 DEF Entry
      <4>. HIDE DEF e
      <4>4. c = [t EXCEPT !.hits = t.hits + 1, !.lands = t.lands + more, !.gain = best]
        BY Zenon DEF Credited
      <4>5. best = t.gain
        BY <4>1
      <4>. HIDE DEF more, best
      <4>6. c.hits = t.hits + 1 /\ c.lands = t.lands + more /\ c.gain = best
        BY <3>1, <4>4 DEF Tally
      <4>. HIDE DEF n, c, t
      <4>7. n.hits = c.hits /\ n.lands = c.lands /\ n.gain = c.gain
        BY <4>1, <4>3, <4>5, <4>6
      <4>. QED  BY <4>7 DEF Recorded, c, t
    <3>. HIDE DEF n, e, s, ok
    <3>. QED  BY <1>2, <1>3, <2>1, <2>4, <3>3, <3>4, CopyCounted
  <2>. QED  BY <1>7, <2>2, <2>3, <2>4 DEF ReinforceReads
<1>8. CASE Evict(r)
  BY <1>2, <1>3, <1>8, EvictionCounted
<1>9. CASE SaveReads(r)
  <2>. DEFINE s == SavedSignature[run[r].query]
              text == run[r].strategy
              g == run[r].gain
              e == LoadEntry(s)
              n == Saved(e, text, g)
  <2>1. /\ run[r].stage = "hook" /\ s # NoShape /\ Carry(r, s, n) /\ Credit(s, TRUE, g)
        /\ entry' = entry /\ ~InHand(r)
    BY <1>9 DEF SaveReads, InHand
  <2>2. s \in Shape
    BY <1>0, <2>1, SignatureAssumption DEF Run, Shape, NoShape
  <2>3. text \in Strategy /\ g \in Gain /\ g \in Int /\ Lowest <= g /\ Lowest \in Int
    BY <1>0, <2>1, GainsAre DEF Run, IInv, StagesMatch
  <2>4. /\ tally[s] \in Tally
        /\ e = None => Recorded(NoTally, tally[s])
        /\ e # None => e \in Entry /\ Recorded(e, tally[s])
    BY <1>3, <2>1, <2>2, ReadIsCounted
  <2>5. e # None => e \in Entry /\ AboveFloor(e)
    BY <2>2, LoadedEntry DEF IInv
  <2>6. n \in Entry
    BY <2>3, <2>5, SavedStaysAbove
  <2>7. Recorded(n, Credited(tally[s], TRUE, g))
    <3>. DEFINE t == tally[s]
                c == Credited(t, TRUE, g)
                best == IF g > t.gain THEN g ELSE t.gain
    <3>1. t.gain \in Int /\ t.hits \in Nat /\ t.lands \in Nat
      BY <2>4, GainsAre DEF Tally
    <3>2. c = [t EXCEPT !.hits = t.hits + 1, !.lands = t.lands + 1, !.gain = best]
      BY Zenon DEF Credited
    <3>. HIDE DEF best
    <3>3. c.hits = t.hits + 1 /\ c.lands = t.lands + 1 /\ c.gain = best
      BY <2>4, <3>2 DEF Tally
    <3>. HIDE DEF c
    <3>4. CASE e = None
      <4>1. t.hits = 0 /\ t.lands = 0 /\ t.gain = Lowest
        BY <2>4, <3>4 DEF Recorded, NoTally
      <4>2. n.hits = 1 /\ n.lands = 1 /\ n.gain = g
        BY <3>4 DEF Saved
      <4>3. best = g
        BY <2>3, <4>1 DEF best
      <4>. HIDE DEF n, t
      <4>4. n.hits = c.hits /\ n.lands = c.lands /\ n.gain = c.gain
        BY <3>3, <4>1, <4>2, <4>3
      <4>. QED  BY <4>4 DEF Recorded, c, t
    <3>5. CASE e # None
      <4>1. e.hits = t.hits /\ e.lands = t.lands /\ e.gain = t.gain
        BY <2>4, <3>5 DEF Recorded
      <4>. HIDE DEF e
      <4>2. n.hits = e.hits + 1 /\ n.lands = e.lands + 1
            /\ n.gain = IF g > e.gain THEN g ELSE e.gain
        BY <3>5 DEF Saved
      <4>3. n.gain = best
        BY <4>1, <4>2 DEF best
      <4>. HIDE DEF n, t
      <4>4. n.hits = c.hits /\ n.lands = c.lands /\ n.gain = c.gain
        BY <3>3, <4>1, <4>2, <4>3
      <4>. QED  BY <4>4 DEF Recorded, c, t
    <3>. QED  BY <3>4, <3>5
  <2>. HIDE DEF s, text, g, e, n
  <2>. QED  BY <1>2, <1>3, <2>1, <2>2, <2>3, <2>6, <2>7, CopyCounted
<1>10. CASE NothingToKeep(r)
  <2>1. run'[r].stage = "idle" /\ ~InHand(r) /\ UNCHANGED <<entry, tally>>
    BY <1>10, FinishStep DEF NothingToKeep, InHand
  <2>. QED  BY <1>2, <1>3, <2>1, NothingCounted DEF InHand
<1>11. CASE OpenEntry(r) \/ WriteEntry(r)
  BY <1>2, <1>3, <1>11, FileCounted
<1>. QED  BY <1>2, <1>3, <1>4, <1>5, <1>6, <1>7, <1>8, <1>9, <1>10, <1>11 DEF RequestStep

(* For requests that come one after another, while the server runs, the file of  *)
(* a shape counts every reinforcement and every save since it was created, and   *)
(* has the best gain: no step between the read and the write loses one.          *)
THEOREM CountsAreExact == Spec => []CountsAreExactAlone
<1>1. Init => CountInv
  <2>. SUFFICES ASSUME Init PROVE Single /\ Exact
    BY DEF CountInv
  <2>1. \A r \in Request : run[r].stage = "idle"
    BY DEF Init, Idle
  <2>2. \A s \in Shape : Counts(s)
    BY MarkersAssumption DEF Init, Counts, Recorded
  <2>. QED  BY <2>1, <2>2 DEF Single, Exact, InHand
<1>2. IInv /\ CountInv /\ [Next]_vars => CountInv'
  <2>1. ASSUME IInv, CountInv, Next PROVE CountInv'
    <3>1. ASSUME NEW r \in Request, RequestStep(r), Alone' PROVE Single' /\ Exact'
      <4>1. setting' = setting
        BY <3>1 DEF RequestStep, Ask, Bypass, Reason, Verdict, ReinforceReads, Evict, SaveReads,
                    NothingToKeep, OpenEntry, WriteEntry
      <4>2. Alone /\ Single /\ Exact
        BY <2>1, <3>1, <4>1 DEF Alone, CountInv
      <4>. QED  BY <2>1, <3>1, <4>2, CountStep
    <3>2. RestartServer => ~Alone'
      BY DEF RestartServer, Alone
    <3>. QED  BY <2>1, <3>1, <3>2 DEF Next, CountInv
  <2>2. ASSUME CountInv, UNCHANGED vars PROVE CountInv'
    BY <2>2 DEF vars, CountInv, Alone, Single, Exact, InHand, Counts
  <2>. QED  BY <2>1, <2>2
<1>3. IInv /\ CountInv => CountsAreExactAlone
  <2>. SUFFICES ASSUME IInv, CountInv, Alone, NEW s \in Shape, Readable(s),
                       \A r \in Request : run[r].stage \notin {"open", "write"}
                PROVE  /\ entry[s].hits = tally[s].hits
                       /\ entry[s].lands = tally[s].lands
                       /\ entry[s].gain = tally[s].gain
    BY DEF CountsAreExactAlone
  <2>1. Counts(s)
    BY DEF CountInv, Exact, InHand
  <2>. QED  BY <2>1 DEF Counts, Recorded, Readable
<1>. QED  BY <1>1, <1>2, <1>3, Invariance, PTL DEF Spec
=============================================================================
