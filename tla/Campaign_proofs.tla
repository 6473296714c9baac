--------------------------- MODULE Campaign_proofs ---------------------------
(***************************************************************************)
(* Proofs about Campaign, for any legs, queries, models, thresholds, kills *)
(* and timeouts: what --resume counts, when a leg counts as done, and what *)
(* the discovery feed concludes of the store.                              *)
(***************************************************************************)
EXTENDS Campaign, FiniteSetTheorems, TLAPS

(* The pass is at a leg and at a file; what it waits for is one of the runs it *)
(* still has to do.                                                             *)
InPass == client.state # "none"
ClientInv ==
    /\ InPass => leg <= Len(setting.legs)
    /\ client.file >= 1
    /\ client.state \in {"ready", "waiting"} => client.file <= Len(Files)
    /\ client.state = "waiting" => client.todo > 0

(* The runs that the pass, having counted, may still do of the n-th file. *)
Pending(n) ==
    IF ~InPass \/ n < client.file THEN 0
    ELSE IF n = client.file /\ client.state # "choose" THEN client.todo
    ELSE IF Capped(Files[n]) THEN 0 ELSE Remaining(Files[n])

(* The two bounds, with what is pending: a late save is charged to late, every *)
(* other to Pending, and a pass starts with what was missing.                  *)
Bounded(q, l, pending) ==
    /\ RealRuns(q, l) + pending <= Runs + late
    /\ RealRuns(q, l) + Timeouts(q, l) + pending <= AttemptBudget - 1 + Runs + late
Counted ==
    \A i \in 1 .. Len(setting.legs) : Unaided(i) =>
        /\ \A q \in Query : Bounded(q, setting.legs[i], 0)
        /\ i = leg => \A n \in DOMAIN Files : Bounded(Files[n], setting.legs[i], Pending(n))

(* Something of the leg was measured, or it ran into the attempt ceiling. *)
Witnessed(l) ==
    \E r \in Recorded :
        /\ r.model = LabelOf(l)
        /\ Answer(r) \/ Timeouts(r.query, l) >= AttemptBudget
Snapshot ==
    InPass => \A q \in Query : /\ client.done[q] <= RealRuns(q, This)
                              /\ client.timedOut[q] <= Timeouts(q, This)
Faithful == ~setting.stream /\ ~setting.cache /\ Files # <<>>
PassMeasured ==
    /\ InPass /\ client.ok => Witnessed(This)
    /\ InPass /\ ~client.ok /\ ~client.fail =>
           /\ client.state = "choose" /\ client.file > 1 => Witnessed(This)
           /\ client.state # "choose" => client.todo > 0
Measured ==
    Faithful =>
        /\ \A i \in 1 .. Len(setting.legs) : ended[i] = "done" => Witnessed(setting.legs[i])
        /\ PassMeasured

IInv == TypeOK /\ ClientInv /\ Snapshot /\ Counted /\ Measured

-----------------------------------------------------------------------------
(* Counting files.                                                         *)

IsOf(r, q, l) == r.query = q /\ r.model = LabelOf(l) /\ r.guided = l.guided
IsReal(r, q, l) == IsOf(r, q, l) /\ r.outcome \notin Uncounted
IsTimeout(r, q, l) == IsOf(r, q, l) /\ r.outcome \in Uncounted

LEMMA CountsAreOfFiles ==
    ASSUME NEW q, NEW l
    PROVE  /\ RealRuns(q, l) = Cardinality({f \in store : IsReal(f.record, q, l)})
           /\ Timeouts(q, l) = Cardinality({f \in store : IsTimeout(f.record, q, l)})
<1>1. {f \in store : f.record \in {r \in Of(q, l) : r.outcome \notin Uncounted}}
        = {f \in store : IsReal(f.record, q, l)}
  BY DEF Of, Recorded, IsReal, IsOf
<1>2. {f \in store : f.record \in {r \in Of(q, l) : r.outcome \in Uncounted}}
        = {f \in store : IsTimeout(f.record, q, l)}
  BY DEF Of, Recorded, IsTimeout, IsOf
<1>. QED  BY <1>1, <1>2 DEF RealRuns, Timeouts, Copies

(* A finite store leaves one of its size + 1 numbers unused. *)
LEMMA UnusedIsNew ==
    ASSUME IsFiniteSet(store), NEW rec
    PROVE  Unused(rec) \in Nat /\ Named(rec, Unused(rec)) \notin store
<1>. DEFINE numbers == 0 .. Cardinality(store)
<1>1. Cardinality(store) \in Nat
  BY FS_CardinalityType
<1>2. IsFiniteSet(numbers) /\ Cardinality(numbers) = Cardinality(store) + 1
  BY <1>1, FS_Interval
<1>3. \E n \in numbers : Named(rec, n) \notin store
  <2>. SUFFICES ASSUME \A n \in numbers : Named(rec, n) \in store PROVE FALSE
    OBVIOUS
  <2>. DEFINE name == [n \in numbers |-> Named(rec, n)]
  <2>1. name \in Injection(numbers, store)
    BY DEF Injection, IsInjective, Named
  <2>2. Cardinality(numbers) <= Cardinality(store)
    BY <2>1, FS_Injection
  <2>. QED  BY <1>1, <1>2, <2>2
<1>. QED  BY <1>1, <1>3 DEF Unused

LEMMA CountsAreNumbers ==
    ASSUME IsFiniteSet(store), NEW q, NEW l
    PROVE  RealRuns(q, l) \in Nat /\ Timeouts(q, l) \in Nat
<1>1. /\ IsFiniteSet({f \in store : IsReal(f.record, q, l)})
      /\ IsFiniteSet({f \in store : IsTimeout(f.record, q, l)})
  BY FS_Subset
<1>. QED  BY <1>1, CountsAreOfFiles, FS_CardinalityType

(* A file that is saved counts for its own query, label and arm, and for no other. *)
LEMMA OneMoreRecord ==
    ASSUME IsFiniteSet(store), NEW rec, SaveRun(rec)
    PROVE  /\ IsFiniteSet(store') /\ Recorded' = Recorded \cup {rec}
           /\ \A q, l : /\ RealRuns(q, l)' = RealRuns(q, l) + (IF IsReal(rec, q, l) THEN 1 ELSE 0)
                       /\ Timeouts(q, l)' = Timeouts(q, l) + (IF IsTimeout(rec, q, l) THEN 1 ELSE 0)
<1>. DEFINE new == Named(rec, Unused(rec))
<1>1. store' = store \cup {new} /\ new \notin store /\ new.record = rec
  BY UnusedIsNew DEF SaveRun, Named
<1>. HIDE DEF new
<1>2. IsFiniteSet(store')
  BY <1>1, FS_AddElement
<1>3. Recorded' = Recorded \cup {rec}
  BY <1>1 DEF Recorded
<1>4. ASSUME NEW q, NEW l
      PROVE  RealRuns(q, l)' = RealRuns(q, l) + (IF IsReal(rec, q, l) THEN 1 ELSE 0)
  <2>. DEFINE S == {f \in store : IsReal(f.record, q, l)}
              T == {f \in store' : IsReal(f.record, q, l)}
  <2>1. T = IF IsReal(rec, q, l) THEN S \cup {new} ELSE S
    BY <1>1
  <2>2. IsFiniteSet(S) /\ new \notin S /\ Cardinality(S) \in Nat
    BY <1>1, FS_Subset, FS_CardinalityType
  <2>3. RealRuns(q, l) = Cardinality(S) /\ RealRuns(q, l)' = Cardinality(T)
    BY <1>3, CountsAreOfFiles DEF RealRuns, Copies, Of, Recorded, IsReal, IsOf
  <2>4. Cardinality(S \cup {new}) = Cardinality(S) + 1
    BY <2>2, FS_AddElement
  <2>. HIDE DEF S, T
  <2>5. CASE IsReal(rec, q, l)
    BY <2>1, <2>3, <2>4, <2>5
  <2>6. CASE ~IsReal(rec, q, l)
    BY <2>1, <2>2, <2>3, <2>6
  <2>. QED  BY <2>5, <2>6
<1>5. ASSUME NEW q, NEW l
      PROVE  Timeouts(q, l)' = Timeouts(q, l) + (IF IsTimeout(rec, q, l) THEN 1 ELSE 0)
  <2>. DEFINE S == {f \in store : IsTimeout(f.record, q, l)}
              T == {f \in store' : IsTimeout(f.record, q, l)}
  <2>1. T = IF IsTimeout(rec, q, l) THEN S \cup {new} ELSE S
    BY <1>1
  <2>2. IsFiniteSet(S) /\ new \notin S /\ Cardinality(S) \in Nat
    BY <1>1, FS_Subset, FS_CardinalityType
  <2>3. Timeouts(q, l) = Cardinality(S) /\ Timeouts(q, l)' = Cardinality(T)
    BY <1>3, CountsAreOfFiles DEF Timeouts, Copies, Of, Recorded, IsTimeout, IsOf
  <2>4. Cardinality(S \cup {new}) = Cardinality(S) + 1
    BY <2>2, FS_AddElement
  <2>. HIDE DEF S, T
  <2>5. CASE IsTimeout(rec, q, l)
    BY <2>1, <2>3, <2>4, <2>5
  <2>6. CASE ~IsTimeout(rec, q, l)
    BY <2>1, <2>2, <2>3, <2>6
  <2>. QED  BY <2>5, <2>6
<1>. QED  BY <1>2, <1>3, <1>4, <1>5

LEMMA SameRecords ==
    ASSUME store' = store
    PROVE  /\ Recorded' = Recorded
           /\ \A q, l : RealRuns(q, l)' = RealRuns(q, l) /\ Timeouts(q, l)' = Timeouts(q, l)
  BY DEF Recorded, RealRuns, Timeouts, Copies, Of

-----------------------------------------------------------------------------
(* Types.                                                                  *)

LEMMA FilesOfASetting ==
    ASSUME setting \in Settings
    PROVE  /\ Files \in Seq(Query) /\ Len(Files) \in Nat /\ DOMAIN Files = 1 .. Len(Files)
           /\ \A n \in DOMAIN Files : Files[n] \in Query
           /\ \A n, m \in DOMAIN Files : Files[n] = Files[m] => n = m
<1>1. setting.files \in Seq(Query)
  BY CampaignAssumption DEF Setting
<1>2. \A n, m \in DOMAIN Files : Files[n] = Files[m] => n = m
  BY CampaignAssumption DEF Files
<1>. QED  BY <1>1, <1>2 DEF Files

LEMMA LegsOfASetting ==
    ASSUME setting \in Settings
    PROVE  /\ setting.legs \in Seq(Leg) /\ Len(setting.legs) \in Nat
           /\ \A i \in 1 .. Len(setting.legs) : setting.legs[i] \in Leg
<1>1. setting.legs \in Seq(Leg)
  BY CampaignAssumption DEF Setting
<1>. QED  BY <1>1

LEMMA NumbersOfASetting ==
    ASSUME setting \in Settings
    PROVE  /\ Runs \in Nat \ {0} /\ AttemptBudget \in Nat /\ AttemptBudget >= Runs + 1
           /\ setting.outcomes \subseteq Outcome \ {"gaveUp"}
           /\ setting.kills \in Nat /\ setting.leaves \in Nat
<1>1. setting \in Setting
  BY CampaignAssumption
<1>2. setting.runs * AttemptFactor \in Nat
  BY <1>1, CampaignAssumption DEF Setting
<1>. QED  BY <1>1, <1>2 DEF Setting, Runs, AttemptBudget

LEMMA MaxTriesPositive == MaxTries \in Nat \ {0}
  BY CampaignAssumption

(* A run is recorded with its query, the label of its leg, and the arm it ran in. *)
LEMMA ServerRecordType ==
    ASSUME NEW q \in Query, NEW l \in Leg, NEW outcome, outcome \in OutcomesOf(l),
           setting \in Settings
    PROVE  /\ ServerRecord(q, l, outcome) \in Record
           /\ ServerRecord(q, l, outcome).query = q
           /\ ServerRecord(q, l, outcome).model = LabelOf(l)
           /\ Answer(ServerRecord(q, l, outcome))
<1>1. outcome \in Outcome \ {"gaveUp"}
  BY NumbersOfASetting DEF OutcomesOf
<1>2. LabelOf(l) \in Label
  BY DEF LabelOf, Label, Leg
<1>3. Guided(l.guided, l.ruleset) \in BOOLEAN
  BY DEF Guided, Leg
<1>. QED  BY <1>1, <1>2, <1>3 DEF ServerRecord, Record, Answer

LEMMA SavedIsFile ==
    ASSUME StoreOK, NEW rec \in Record, SaveRun(rec), rules' = rules
    PROVE  StoreOK'
<1>1. Named(rec, Unused(rec)) \in File
  BY UnusedIsNew DEF StoreOK, Named, File
<1>. QED  BY <1>1, OneMoreRecord DEF StoreOK, SaveRun

(* What the process waits for is a file of the pass. *)
LEMMA WaitingFacts ==
    ASSUME TypeOK, ClientInv, client.state \in {"ready", "waiting"}
    PROVE  /\ client.file \in DOMAIN Files /\ Current \in Query
           /\ leg \in 1 .. Len(setting.legs) /\ This \in Leg /\ LabelOf(This) \in Label
<1>1. client.file \in DOMAIN Files /\ leg \in 1 .. Len(setting.legs)
  <2>1. client \in Client /\ setting \in Settings /\ leg \in 1 .. Len(setting.legs) + 1
    BY DEF TypeOK, ChainOK
  <2>2. leg <= Len(setting.legs) /\ client.file >= 1 /\ client.file <= Len(Files)
    BY DEF ClientInv, InPass
  <2>3. client.file \in Nat
    BY <2>1 DEF Client
  <2>. QED  BY <2>1, <2>2, <2>3, FilesOfASetting, LegsOfASetting
<1>2. setting \in Settings
  BY DEF TypeOK, ChainOK
<1>3. Current \in Query
  BY <1>1, <1>2, FilesOfASetting DEF Current
<1>4. This \in Leg
  BY <1>1, <1>2, LegsOfASetting DEF This
<1>. QED  BY <1>1, <1>3, <1>4 DEF LabelOf, Label, Leg

LEMMA AbandonType ==
    ASSUME TypeOK, ClientInv, client.state = "waiting", leaves < setting.leaves, Abandon,
           late' = late
    PROVE  /\ IsFiniteSet(abandoned') /\ abandoned' \subseteq LeftBehind
           /\ leaves' \in 0 .. setting.leaves
           /\ late' + Cardinality(abandoned') <= leaves'
<1>0. setting \in Settings /\ setting.leaves \in Nat /\ leaves \in 0 .. setting.leaves
  <2>1. setting \in Settings /\ leaves \in 0 .. setting.leaves
    BY DEF TypeOK, ChainOK, FaultsOK
  <2>. QED  BY <2>1, NumbersOfASetting
<1>1. InFlight \in LeftBehind
  <2>1. leaves \in Nat
    BY <1>0
  <2>. QED  BY <2>1, WaitingFacts DEF InFlight, LeftBehind
<1>2. /\ IsFiniteSet(abandoned') /\ Cardinality(abandoned) \in Nat
      /\ Cardinality(abandoned') <= Cardinality(abandoned) + 1
      /\ Cardinality(abandoned') \in Nat
  <2>1. IsFiniteSet(abandoned) /\ abandoned' = abandoned \cup {InFlight}
    BY DEF TypeOK, FaultsOK, Abandon
  <2>2. IsFiniteSet(abandoned') /\ Cardinality(abandoned) \in Nat
    BY <2>1, FS_AddElement, FS_CardinalityType
  <2>3. Cardinality(abandoned') <= Cardinality(abandoned) + 1
    BY <2>1, <2>2, FS_AddElement
  <2>. QED  BY <2>2, <2>3, FS_CardinalityType
<1>3. abandoned \subseteq LeftBehind /\ late \in Nat /\ late + Cardinality(abandoned) <= leaves
  BY DEF TypeOK, FaultsOK
<1>. QED  BY <1>0, <1>1, <1>2, <1>3 DEF Abandon

LEMMA ForgetType ==
    ASSUME TypeOK, NEW f \in abandoned, abandoned' = abandoned \ {f}
    PROVE  /\ IsFiniteSet(abandoned') /\ abandoned' \subseteq LeftBehind
           /\ Cardinality(abandoned') + 1 = Cardinality(abandoned)
           /\ Cardinality(abandoned') \in Nat
<1>1. IsFiniteSet(abandoned') /\ Cardinality(abandoned') = Cardinality(abandoned) - 1
  BY FS_RemoveElement DEF TypeOK, FaultsOK
<1>2. Cardinality(abandoned') \in Nat /\ Cardinality(abandoned) \in Nat
  BY <1>1, FS_CardinalityType DEF TypeOK, FaultsOK
<1>. QED  BY <1>1, <1>2 DEF TypeOK, FaultsOK

LEMMA AttemptEnds ==
    ASSUME TypeOK, ClientInv, client.state = "waiting", Answered \/ Failed
    PROVE  /\ client' \in Client
           /\ client'.state = "ready" /\ client'.todo = client.todo - 1
           /\ client'.file = client.file /\ client'.done = client.done
           /\ client'.timedOut = client.timedOut
           /\ client'.todo \in Nat
<1>1. client \in Client /\ client.todo - 1 \in Nat
  BY DEF TypeOK, ClientInv, Client
<1>2. CASE Answered
  BY <1>1, <1>2 DEF Answered, Client
<1>3. CASE Failed
  BY <1>1, <1>3 DEF Failed, Client
<1>. QED  BY <1>2, <1>3

LEMMA NoClientType == NoClient \in Client /\ NoClient.state = "none" /\ NoClient.file = 1
  BY DEF NoClient, Client, Count

-----------------------------------------------------------------------------
(* TypeOK and ClientInv are inductive together. *)

LEMMA TypesStart == Init => TypeOK /\ ClientInv
<1>. SUFFICES ASSUME Init PROVE TypeOK /\ ClientInv
  OBVIOUS
<1>1. StoreOK
  BY FS_EmptySet DEF Init, StoreInit, StoreOK
<1>2. setting \in Settings /\ Len(setting.legs) \in Nat
  BY LegsOfASetting DEF Init
<1>3. setting.kills \in Nat /\ setting.leaves \in Nat
  BY <1>2, NumbersOfASetting
<1>4. FaultsOK
  <2>1. IsFiniteSet({}) /\ Cardinality({}) = 0
    BY FS_EmptySet
  <2>2. abandoned = {} /\ kills = 0 /\ leaves = 0 /\ late = 0
    BY DEF Init
  <2>3. late + Cardinality(abandoned) <= leaves
    BY <2>1, <2>2
  <2>. QED  BY <1>3, <2>1, <2>2, <2>3 DEF FaultsOK
<1>5. leg \in 1 .. Len(setting.legs) + 1 /\ tries \in 0 .. MaxTries - 1
  <2>1. leg = 1 /\ tries = 0
    BY DEF Init
  <2>. QED  BY <1>2, <2>1, MaxTriesPositive
<1>6. ChainOK
  BY <1>2, <1>5 DEF Init, ChainOK
<1>7. client \in Client /\ client.state = "none" /\ client.file = 1
  BY NoClientType DEF Init
<1>. QED  BY <1>1, <1>4, <1>6, <1>7 DEF TypeOK, ClientInv, InPass

LEMMA TypeFacts ==
    ASSUME TypeOK
    PROVE  /\ client \in Client /\ client.file \in Nat /\ client.todo \in Nat
           /\ client.done \in Count /\ client.timedOut \in Count
           /\ setting \in Settings /\ leg \in Nat /\ Len(setting.legs) \in Nat
           /\ leg \in 1 .. Len(setting.legs) + 1
           /\ IsFiniteSet(store) /\ rules \subseteq Technique /\ late \in Nat
<1>1. setting \in Settings /\ leg \in 1 .. Len(setting.legs) + 1
  BY DEF TypeOK, ChainOK
<1>2. Len(setting.legs) \in Nat
  BY <1>1, LegsOfASetting
<1>3. /\ client \in Client /\ client.file \in Nat /\ client.todo \in Nat
      /\ client.done \in Count /\ client.timedOut \in Count
  BY DEF TypeOK, Client
<1>4. IsFiniteSet(store) /\ rules \subseteq Technique /\ late \in Nat
  BY DEF TypeOK, StoreOK, FaultsOK
<1>. QED  BY <1>1, <1>2, <1>3, <1>4

(* A step of the process alone. *)
LEMMA ClientStepTypes ==
    ASSUME TypeOK, UNCHANGED <<store, rules, chain, faults>>, client' \in Client,
           client'.state # "none" => leg <= Len(setting.legs),
           client'.file >= 1,
           client'.state \in {"ready", "waiting"} => client'.file <= Len(Files),
           client'.state = "waiting" => client'.todo > 0
    PROVE  TypeOK' /\ ClientInv'
  BY DEF TypeOK, ChainOK, FaultsOK, ClientInv, InPass, chain, faults, StoreOK, Files

LEMMA EndPassTypes == ASSUME TypeOK, ClientInv, EndPass PROVE TypeOK' /\ ClientInv'
<1>1. /\ client' = NoClient /\ UNCHANGED <<store, rules, setting, faults>>
      /\ leg \in 1 .. Len(setting.legs) /\ Len(setting.legs) \in Nat
  <2>1. client.state # "none"
    BY DEF EndPass
  <2>2. leg <= Len(setting.legs)
    BY <2>1 DEF ClientInv, InPass
  <2>3. leg \in 1 .. Len(setting.legs) + 1 /\ Len(setting.legs) \in Nat
    BY TypeFacts
  <2>4. leg \in 1 .. Len(setting.legs)
    BY <2>2, <2>3
  <2>. QED  BY <2>3, <2>4 DEF EndPass
<1>2. /\ leg' \in 1 .. Len(setting.legs) + 1
      /\ tries' \in 0 .. MaxTries - 1
      /\ ended' \in [1 .. Len(setting.legs) -> {"not yet", "done", "given up"}]
  <2>1. /\ MaxTries \in Nat \ {0} /\ tries \in 0 .. MaxTries - 1
        /\ ended \in [1 .. Len(setting.legs) -> {"not yet", "done", "given up"}]
    BY MaxTriesPositive DEF TypeOK, ChainOK
  <2>2. ASSUME NEW how \in {"done", "given up"}, EndLeg(how)
        PROVE  /\ leg' = leg + 1 /\ tries' = 0
               /\ ended' \in [1 .. Len(setting.legs) -> {"not yet", "done", "given up"}]
    BY <2>1, <2>2 DEF EndLeg
  <2>3. ASSUME tries + 1 # MaxTries, Retry
        PROVE  leg' = leg /\ tries' = tries + 1 /\ ended' = ended
    BY <2>3 DEF Retry
  <2>4. EndLeg("done") \/ EndLeg("given up") \/ (tries + 1 # MaxTries /\ Retry)
    BY DEF EndPass
  <2>5. CASE EndLeg("done") \/ EndLeg("given up")
    <3>1. /\ leg' = leg + 1 /\ tries' = 0
          /\ ended' \in [1 .. Len(setting.legs) -> {"not yet", "done", "given up"}]
      BY <2>2, <2>5
    <3>2. leg \in 1 .. Len(setting.legs) /\ Len(setting.legs) \in Nat
      BY <1>1
    <3>3. leg + 1 \in 1 .. Len(setting.legs) + 1
      BY <3>2
    <3>4. 0 \in 0 .. MaxTries - 1
      BY MaxTriesPositive
    <3>. QED  BY <3>1, <3>3, <3>4
  <2>6. CASE tries + 1 # MaxTries /\ Retry
    <3>1. tries \in 0 .. MaxTries - 1 /\ tries + 1 # MaxTries
      BY <2>1, <2>6
    <3>2. tries + 1 \in 0 .. MaxTries - 1
      BY <3>1, MaxTriesPositive
    <3>3. leg \in 1 .. Len(setting.legs) + 1
      BY TypeFacts
    <3>. QED  BY <2>1, <2>3, <2>6, <3>2, <3>3
  <2>. QED  BY <2>4, <2>5, <2>6
<1>3. ChainOK'
  BY <1>1, <1>2 DEF TypeOK, ChainOK
<1>4. StoreOK' /\ FaultsOK'
  BY <1>1 DEF TypeOK, StoreOK, FaultsOK, faults
<1>. QED  BY <1>1, <1>3, <1>4, NoClientType DEF TypeOK, ClientInv, InPass

(* A step that leaves the chain and the process's place in it alone. *)
LEMMA SamePlace ==
    ASSUME TypeOK, ClientInv, UNCHANGED chain, client' \in Client,
           \/ client' = client
           \/ client'.state = "none" /\ client'.file = 1
           \/ client'.state = "ready" /\ client'.file = client.file /\ client.state = "waiting"
    PROVE  ChainOK' /\ client' \in Client /\ ClientInv'
<1>1. ChainOK'
  BY DEF TypeOK, ChainOK, chain
<1>2. setting' = setting /\ leg' = leg /\ Files' = Files
  BY DEF chain, Files
<1>. QED  BY <1>1, <1>2 DEF ClientInv, InPass

LEMMA TypesStep ==
    ASSUME TypeOK, ClientInv, [Next]_vars
    PROVE  TypeOK' /\ ClientInv'
<1>1. CASE StartPass
  <2>1. /\ [q \in Query |-> RealRuns(q, This)] \in Count
        /\ [q \in Query |-> Timeouts(q, This)] \in Count
    BY TypeFacts, CountsAreNumbers DEF Count
  <2>2. client' \in Client /\ client'.state = "choose" /\ client'.file = 1
    BY <1>1, <2>1, NoClientType DEF StartPass, Client, NoClient
  <2>3. leg <= Len(setting.legs)
    BY <1>1, TypeFacts DEF StartPass, Over
  <2>. QED  BY <1>1, <2>2, <2>3, ClientStepTypes DEF StartPass
<1>2. CASE ChooseFile
  <2>1. /\ client.state = "choose" /\ client.file <= Len(Files)
        /\ leg <= Len(setting.legs) /\ UNCHANGED <<store, rules, chain, faults>>
        /\ client.file >= 1
    BY <1>2 DEF ChooseFile, ClientInv, InPass
  <2>2. client \in Client /\ client.file \in Nat /\ client.done \in Count /\ setting \in Settings
    BY TypeFacts
  <2>3. CASE client' = [client EXCEPT !.file = @ + 1]
    <3>1. client' \in Client /\ client'.state = "choose" /\ client'.file >= 1
      BY <2>1, <2>2, <2>3 DEF Client
    <3>. QED  BY <2>1, <3>1, ClientStepTypes
  <2>4. CASE client' = [client EXCEPT !.state = "ready", !.todo = Remaining(Current)]
    <3>1. client.file \in DOMAIN Files
      BY <2>1, <2>2, FilesOfASetting
    <3>2. Current \in Query
      BY <2>2, <3>1, FilesOfASetting DEF Current
    <3>3. Runs \in Nat
      BY <2>2, NumbersOfASetting
    <3>4. client.done[Current] \in Nat
      BY <2>2, <3>2 DEF Count
    <3>5. Remaining(Current) \in Nat
      BY <3>3, <3>4 DEF Remaining
    <3>6. client' \in Client /\ client'.state = "ready" /\ client'.file = client.file
      BY <2>2, <2>4, <3>5 DEF Client
    <3>. QED  BY <2>1, <3>6, ClientStepTypes
  <2>. QED  BY <1>2, <2>3, <2>4 DEF ChooseFile
<1>3. CASE Post
  <2>1. /\ client.state = "ready" /\ client.file <= Len(Files) /\ client.file >= 1
        /\ leg <= Len(setting.legs) /\ UNCHANGED <<store, rules, chain, faults>>
    BY <1>3 DEF Post, ClientInv, InPass
  <2>2. client \in Client /\ client.file \in Nat /\ client.todo \in Nat
    BY TypeFacts
  <2>3. CASE client.todo = 0 /\ client' = [client EXCEPT !.state = "choose", !.file = @ + 1]
    <3>1. PICK n \in Nat : n = client.file + 1 /\ n >= 1
      BY <2>2
    <3>2. client' \in Client /\ client'.state = "choose" /\ client'.file = n
      BY <2>2, <2>3, <3>1 DEF Client
    <3>. QED  BY <2>1, <3>1, <3>2, ClientStepTypes
  <2>4. CASE client.todo # 0 /\ client' = [client EXCEPT !.state = "waiting"]
    <3>1. client' \in Client /\ client'.state = "waiting" /\ client'.file = client.file
          /\ client'.todo > 0
      BY <2>1, <2>2, <2>4 DEF Client
    <3>. QED  BY <2>1, <3>1, ClientStepTypes
  <2>. QED  BY <1>3, <2>3, <2>4 DEF Post
<1>4. CASE EndPass
  BY <1>4, EndPassTypes
<1>5. CASE \E outcome \in Outcome : ServerAnswers(outcome)
  <2>1. PICK outcome \in Outcome : ServerAnswers(outcome)
    BY <1>5
  <2>2. /\ client.state = "waiting" /\ outcome \in OutcomesOf(This) /\ Answered
        /\ SaveRun(ServerRecord(Current, This, outcome)) /\ UNCHANGED <<rules, chain, faults>>
    BY <2>1 DEF ServerAnswers
  <2>3. Current \in Query /\ This \in Leg
    BY <2>2, WaitingFacts
  <2>4. ServerRecord(Current, This, outcome) \in Record
    BY <2>2, <2>3, TypeFacts, ServerRecordType
  <2>5. StoreOK'
    BY <2>2, <2>4, SavedIsFile DEF TypeOK
  <2>6. client' \in Client /\ client'.state = "ready" /\ client'.file = client.file
    BY <2>2, AttemptEnds
  <2>7. FaultsOK'
    BY <2>2 DEF TypeOK, FaultsOK, faults, chain
  <2>. QED  BY <2>2, <2>5, <2>6, <2>7, SamePlace DEF TypeOK
<1>6. CASE CacheAnswers \/ ServerFails
  <2>1. /\ client.state = "waiting"
        /\ Answered \/ Failed
        /\ UNCHANGED <<store, rules, chain, faults>>
    BY <1>6 DEF CacheAnswers, ServerFails
  <2>2. client' \in Client /\ client'.state = "ready" /\ client'.file = client.file
    BY <2>1, AttemptEnds
  <2>. QED  BY <2>1, <2>2, ClientStepTypes DEF ClientInv, InPass
<1>7. CASE ClientTimesOut
  <2>. DEFINE rec == [query |-> Current, model |-> LabelOf(This), guided |-> This.guided,
                      outcome |-> "gaveUp"]
  <2>1. /\ client.state = "waiting" /\ leaves < setting.leaves /\ SaveRun(rec) /\ Failed
        /\ Abandon /\ UNCHANGED <<rules, chain, kills, late>>
    BY <1>7 DEF ClientTimesOut
  <2>2. rec \in Record
    <3>1. Current \in Query /\ This \in Leg /\ LabelOf(This) \in Label
      BY <2>1, WaitingFacts
    <3>. QED  BY <3>1 DEF Record, Outcome, Leg
  <2>3. StoreOK'
    BY <2>1, <2>2, SavedIsFile DEF TypeOK
  <2>4. client' \in Client /\ client'.state = "ready" /\ client'.file = client.file
    BY <2>1, AttemptEnds
  <2>5. /\ IsFiniteSet(abandoned') /\ abandoned' \subseteq LeftBehind
        /\ leaves' \in 0 .. setting.leaves /\ late' + Cardinality(abandoned') <= leaves'
    BY <2>1, AbandonType
  <2>6. FaultsOK'
    BY <2>1, <2>5 DEF TypeOK, FaultsOK, chain
  <2>. QED  BY <2>1, <2>3, <2>4, <2>6, SamePlace DEF TypeOK
<1>8. CASE Interrupt
  <2>1. /\ client' = NoClient /\ kills < setting.kills /\ kills' = kills + 1
        /\ UNCHANGED <<store, rules, chain, late>>
    BY <1>8 DEF Interrupt
  <2>2. kills' \in 0 .. setting.kills
    <3>1. setting.kills \in Nat /\ kills \in 0 .. setting.kills
      BY TypeFacts, NumbersOfASetting DEF TypeOK, FaultsOK
    <3>. QED  BY <2>1, <3>1
  <2>3. /\ IsFiniteSet(abandoned') /\ abandoned' \subseteq LeftBehind
        /\ leaves' \in 0 .. setting.leaves /\ late' + Cardinality(abandoned') <= leaves'
    <3>1. CASE client.state = "waiting"
      BY <1>8, <3>1, AbandonType DEF Interrupt
    <3>2. CASE client.state # "waiting"
      BY <1>8, <3>2 DEF Interrupt, TypeOK, FaultsOK
    <3>. QED  BY <3>1, <3>2
  <2>4. FaultsOK'
    BY <2>1, <2>2, <2>3 DEF TypeOK, FaultsOK, chain
  <2>5. StoreOK'
    BY <2>1 DEF TypeOK, StoreOK
  <2>. QED  BY <2>1, <2>4, <2>5, NoClientType, SamePlace DEF TypeOK
<1>9. CASE Feed
  <2>1. /\ client' = client /\ store' = store /\ UNCHANGED <<chain, faults>>
        /\ rules' = rules \cup {"own"} \/ rules' = rules \cup {"other"}
    BY <1>9 DEF Feed, AutoFeed, WriteHints, FeedOther
  <2>2. StoreOK' /\ FaultsOK'
    BY <2>1 DEF TypeOK, StoreOK, Technique, FaultsOK, chain, faults
  <2>. QED  BY <2>1, <2>2, TypeFacts, SamePlace DEF TypeOK
<1>10. ASSUME NEW f \in abandoned, LateRunDies(f)
       PROVE  TypeOK' /\ ClientInv'
  <2>1. abandoned' = abandoned \ {f} /\ UNCHANGED <<store, rules, chain, client, kills, leaves, late>>
    BY <1>10 DEF LateRunDies
  <2>2. /\ IsFiniteSet(abandoned') /\ abandoned' \subseteq LeftBehind
        /\ Cardinality(abandoned') \in Nat /\ Cardinality(abandoned) = Cardinality(abandoned') + 1
    BY <2>1, ForgetType
  <2>3. FaultsOK'
    <3>1. late \in Nat /\ leaves \in Nat /\ late + Cardinality(abandoned) <= leaves
      <4>1. setting.leaves \in Nat
        BY TypeFacts, NumbersOfASetting
      <4>. QED  BY <4>1 DEF TypeOK, FaultsOK
    <3>2. late' + Cardinality(abandoned') <= leaves'
      BY <2>1, <2>2, <3>1
    <3>. QED  BY <2>1, <2>2, <3>2 DEF TypeOK, FaultsOK, chain
  <2>4. StoreOK'
    BY <2>1 DEF TypeOK, StoreOK
  <2>. QED  BY <2>1, <2>3, <2>4, TypeFacts, SamePlace DEF TypeOK
<1>11. ASSUME NEW f \in abandoned, NEW outcome \in Outcome, LateSave(f, outcome)
       PROVE  TypeOK' /\ ClientInv'
  <2>1. /\ outcome \in OutcomesOf(f.leg) /\ SaveRun(ServerRecord(f.query, f.leg, outcome))
        /\ abandoned' = abandoned \ {f} /\ late' = late + 1
        /\ UNCHANGED <<rules, chain, client, kills, leaves>>
    BY <1>11 DEF LateSave
  <2>2. f.query \in Query /\ f.leg \in Leg
    BY <1>11 DEF TypeOK, FaultsOK, LeftBehind
  <2>3. ServerRecord(f.query, f.leg, outcome) \in Record
    BY <2>1, <2>2, TypeFacts, ServerRecordType
  <2>4. StoreOK'
    BY <2>1, <2>3, SavedIsFile DEF TypeOK
  <2>5. /\ IsFiniteSet(abandoned') /\ abandoned' \subseteq LeftBehind
        /\ Cardinality(abandoned') \in Nat /\ Cardinality(abandoned) = Cardinality(abandoned') + 1
    BY <2>1, ForgetType
  <2>6. FaultsOK'
    <3>1. late \in Nat /\ leaves \in Nat /\ late + Cardinality(abandoned) <= leaves
      <4>1. setting.leaves \in Nat
        BY TypeFacts, NumbersOfASetting
      <4>. QED  BY <4>1 DEF TypeOK, FaultsOK
    <3>2. late' \in Nat /\ late' + Cardinality(abandoned') <= leaves'
      BY <2>1, <2>5, <3>1
    <3>. QED  BY <2>1, <2>5, <3>2 DEF TypeOK, FaultsOK, chain
  <2>. QED  BY <2>1, <2>4, <2>6, TypeFacts, SamePlace DEF TypeOK
<1>12. CASE UNCHANGED vars
  <2>1. StoreOK' /\ FaultsOK'
    BY <1>12 DEF vars, TypeOK, StoreOK, FaultsOK
  <2>. QED  BY <1>12, <2>1, TypeFacts, SamePlace DEF TypeOK, vars, chain
<1>. QED  BY <1>1, <1>2, <1>3, <1>4, <1>5, <1>6, <1>7, <1>8, <1>9, <1>10, <1>11, <1>12
          DEF Next, ClientStep

(* Every value is of its kind, in every campaign: the budget of failures, kills *)
(* and abandoned runs is kept, and no late save is counted twice (perna() of    *)
(* fila_local_v10.sh, matrix() of run_matrix.py).                               *)
THEOREM TypeCorrect == Spec => []TypeOK
<1>1. Init => TypeOK /\ ClientInv
  BY TypesStart
<1>2. (TypeOK /\ ClientInv) /\ [Next]_vars => (TypeOK /\ ClientInv)'
  BY TypesStep
<1>. QED  BY <1>1, <1>2, PTL DEF Spec

-----------------------------------------------------------------------------
(* The two bounds.                                                         *)

LEMMA PendingType == TypeOK => \A n \in DOMAIN Files : Pending(n) \in Nat
<1>. SUFFICES ASSUME TypeOK, NEW n \in DOMAIN Files PROVE Pending(n) \in Nat
  OBVIOUS
<1>1. client.todo \in Nat /\ client.done \in Count /\ setting \in Settings
  BY TypeFacts
<1>2. Files[n] \in Query /\ Runs \in Nat
  BY <1>1, FilesOfASetting, NumbersOfASetting
<1>3. client.done[Files[n]] \in Nat
  BY <1>1, <1>2 DEF Count
<1>4. Remaining(Files[n]) \in Nat
  BY <1>2, <1>3 DEF Remaining
<1>. QED  BY <1>1, <1>4 DEF Pending

LEMMA PendingNextType == TypeOK' => (\A n \in DOMAIN Files : Pending(n) \in Nat)'
  BY PendingType, PTL

LEMMA SettingSame ==
    ASSUME setting' = setting
    PROVE  /\ Files' = Files /\ Runs' = Runs /\ AttemptBudget' = AttemptBudget
           /\ \A i : Unaided(i)' = Unaided(i)
  BY DEF Files, Runs, AttemptBudget, Unaided

(* Less to do and nothing saved. *)
LEMMA FewerPending ==
    ASSUME TypeOK, TypeOK', Counted, store' = store, setting' = setting, leg' = leg, late' = late,
           \A n \in DOMAIN Files : Pending(n)' <= Pending(n)
    PROVE  Counted'
<1>1. /\ Files' = Files /\ Runs' = Runs /\ AttemptBudget' = AttemptBudget
      /\ \A i : Unaided(i)' = Unaided(i)
  BY SettingSame
<1>2. \A q, l : RealRuns(q, l)' = RealRuns(q, l) /\ Timeouts(q, l)' = Timeouts(q, l)
  BY SameRecords
<1>. SUFFICES ASSUME NEW i \in 1 .. Len(setting.legs), Unaided(i)
              PROVE  /\ \A q \in Query : Bounded(q, setting.legs[i], 0)'
                     /\ i = leg => \A n \in DOMAIN Files : Bounded(Files[n], setting.legs[i], Pending(n))'
  BY <1>1 DEF Counted
<1>3. ASSUME NEW q \in Query PROVE Bounded(q, setting.legs[i], 0)'
  BY <1>1, <1>2 DEF Counted, Bounded
<1>4. ASSUME i = leg, NEW n \in DOMAIN Files
      PROVE  Bounded(Files[n], setting.legs[i], Pending(n))'
  <2>1. Bounded(Files[n], setting.legs[i], Pending(n))
    BY <1>4 DEF Counted
  <2>2. Pending(n)' <= Pending(n) /\ Pending(n)' \in Nat /\ Pending(n) \in Nat
    BY <1>1, PendingType, PendingNextType
  <2>3. /\ Files[n]' = Files[n] /\ setting.legs[i]' = setting.legs[i] /\ late' = late
        /\ \A q, l : RealRuns(q, l)' = RealRuns(q, l) /\ Timeouts(q, l)' = Timeouts(q, l)
    BY <1>1, <1>2
  <2>4. /\ RealRuns(Files[n], setting.legs[i])' = RealRuns(Files[n], setting.legs[i])
        /\ Timeouts(Files[n], setting.legs[i])' = Timeouts(Files[n], setting.legs[i])
    BY <2>3
  <2>5. RealRuns(Files[n], setting.legs[i]) \in Nat /\ Timeouts(Files[n], setting.legs[i]) \in Nat
    BY TypeFacts, CountsAreNumbers
  <2>6. late \in Nat /\ Runs \in Nat /\ AttemptBudget \in Nat
    BY TypeFacts, NumbersOfASetting
  <2>. QED  BY <1>1, <2>1, <2>2, <2>4, <2>5, <2>6 DEF Bounded
<1>. QED  BY <1>3, <1>4

LEMMA CountFacts ==
    ASSUME TypeOK
    PROVE  /\ \A q, l : RealRuns(q, l) \in Nat /\ Timeouts(q, l) \in Nat
           /\ late \in Nat /\ Runs \in Nat /\ Runs >= 1
           /\ AttemptBudget \in Nat /\ AttemptBudget >= Runs + 1
<1>1. IsFiniteSet(store) /\ late \in Nat /\ setting \in Settings
  BY TypeFacts
<1>2. \A q, l : RealRuns(q, l) \in Nat /\ Timeouts(q, l) \in Nat
  BY <1>1, CountsAreNumbers
<1>3. /\ Runs \in Nat /\ Runs >= 1 /\ AttemptBudget \in Nat /\ AttemptBudget >= Runs + 1
  BY <1>1, NumbersOfASetting
<1>. QED  BY <1>1, <1>2, <1>3

(* One more record, paid with what was pending or with a late save. *)
LEMMA StillBounded ==
    ASSUME TypeOK, NEW q, NEW l, NEW real \in {0, 1}, NEW timeout \in {0, 1},
           NEW pending \in Nat, NEW after \in Nat, NEW lateAfter \in Nat, Bounded(q, l, pending),
           after + real + timeout + late <= pending + lateAfter
    PROVE  /\ RealRuns(q, l) + real + after <= Runs + lateAfter
           /\ RealRuns(q, l) + real + (Timeouts(q, l) + timeout) + after
                  <= AttemptBudget - 1 + Runs + lateAfter
<1>. DEFINE r == RealRuns(q, l)
            t == Timeouts(q, l)
<1>1. r \in Nat /\ t \in Nat /\ late \in Nat /\ Runs \in Nat /\ AttemptBudget \in Nat
  BY CountFacts
<1>2. r + pending <= Runs + late /\ r + t + pending <= AttemptBudget - 1 + Runs + late
  BY DEF Bounded
<1>. HIDE DEF r, t
<1>3. r + real + after <= Runs + lateAfter
  BY <1>1, <1>2
<1>4. r + real + (t + timeout) + after <= AttemptBudget - 1 + Runs + lateAfter
  BY <1>1, <1>2
<1>. QED  BY <1>3, <1>4 DEF r, t

(* The bounds of one query after a record is added. *)
LEMMA BoundedAfter ==
    ASSUME TypeOK, setting' = setting, NEW lateAfter \in Nat, late' = lateAfter, NEW rec, SaveRun(rec), NEW q, NEW l,
           NEW pending \in Nat, NEW after \in Nat, Bounded(q, l, pending),
           NEW counted \in {0, 1}, IsOf(rec, q, l) => counted = 1,
           after + counted + late <= pending + lateAfter
    PROVE  /\ RealRuns(q, l)' + after <= Runs' + late'
           /\ RealRuns(q, l)' + Timeouts(q, l)' + after <= AttemptBudget' - 1 + Runs' + late'
<1>. DEFINE real == IF IsReal(rec, q, l) THEN 1 ELSE 0
            timeout == IF IsTimeout(rec, q, l) THEN 1 ELSE 0
<1>1. real \in {0, 1} /\ timeout \in {0, 1} /\ real + timeout <= counted
  BY DEF IsReal, IsTimeout
<1>2. /\ RealRuns(q, l)' = RealRuns(q, l) + real
      /\ Timeouts(q, l)' = Timeouts(q, l) + timeout
  BY TypeFacts, OneMoreRecord
<1>3. Runs' = Runs /\ AttemptBudget' = AttemptBudget /\ late \in Nat
  BY SettingSame, TypeFacts
<1>. HIDE DEF real, timeout
<1>4. after + real + timeout + late <= pending + lateAfter
  BY <1>1, <1>3
<1>5. /\ RealRuns(q, l) + real + after <= Runs + lateAfter
      /\ RealRuns(q, l) + real + (Timeouts(q, l) + timeout) + after
             <= AttemptBudget - 1 + Runs + lateAfter
  BY <1>1, <1>4, StillBounded
<1>. QED  BY <1>2, <1>3, <1>5

(* A record of a leg counts for no leg of another label. *)
LEMMA OtherLegs ==
    ASSUME TypeOK, NEW i \in 1 .. Len(setting.legs), Unaided(i), leg \in 1 .. Len(setting.legs),
           i # leg, NEW rec, rec.model = LabelOf(This)
    PROVE  \A q : ~IsOf(rec, q, setting.legs[i])
  BY DEF Unaided, IsOf, This

(* The file a pass is at is recorded, and there is one run less to do of it. *)
LEMMA PassSaves ==
    ASSUME TypeOK, TypeOK', ClientInv, Counted, client.state = "waiting", Answered \/ Failed,
           setting' = setting, leg' = leg, late' = late,
           NEW rec, SaveRun(rec), rec.query = Current, rec.model = LabelOf(This)
    PROVE  Counted'
<1>1. /\ Files' = Files /\ \A i : Unaided(i)' = Unaided(i)
      /\ late \in Nat /\ setting \in Settings /\ client.file \in Nat
  BY SettingSame, TypeFacts
<1>2. /\ client'.state = "ready" /\ client'.todo = client.todo - 1 /\ client'.file = client.file
      /\ client'.done = client.done /\ client'.timedOut = client.timedOut
      /\ client.todo \in Nat /\ client.todo > 0 /\ client'.todo \in Nat
  BY AttemptEnds, TypeFacts DEF ClientInv
<1>3. /\ client.file \in DOMAIN Files /\ Current \in Query /\ leg \in 1 .. Len(setting.legs)
      /\ Files[client.file] = Current
  BY WaitingFacts DEF Current
<1>4. \A n, m \in DOMAIN Files : Files[n] = Files[m] => n = m
  BY <1>1, FilesOfASetting
<1>5. Pending(client.file) = client.todo /\ Pending(client.file)' = client.todo - 1
  BY <1>1, <1>2, <1>3 DEF Pending, InPass
<1>. SUFFICES ASSUME NEW i \in 1 .. Len(setting.legs), Unaided(i)
              PROVE  /\ \A q \in Query : Bounded(q, setting.legs[i], 0)'
                     /\ i = leg => \A n \in DOMAIN Files : Bounded(Files[n], setting.legs[i], Pending(n))'
  BY <1>1 DEF Counted
<1>. DEFINE l == setting.legs[i]
<1>6. ASSUME NEW q \in Query, ~IsOf(rec, q, l) PROVE Bounded(q, setting.legs[i], 0)'
  <2>1. Bounded(q, l, 0)
    BY DEF Counted
  <2>2. 0 + 0 + late <= 0 + late'
    BY <1>1
  <2>3. /\ RealRuns(q, l)' + 0 <= Runs' + late'
        /\ RealRuns(q, l)' + Timeouts(q, l)' + 0 <= AttemptBudget' - 1 + Runs' + late'
    BY <1>1, <1>6, <2>1, <2>2, BoundedAfter
  <2>. QED  BY <2>3 DEF Bounded
<1>7. ASSUME i = leg, NEW n \in DOMAIN Files, n # client.file
      PROVE  Bounded(Files[n], setting.legs[i], Pending(n))'
  <2>1. Pending(n)' = Pending(n) /\ Pending(n) \in Nat
    <3>1. Pending(n) \in Nat
      BY PendingType
    <3>2. Pending(n)' = Pending(n)
      BY <1>1, <1>2, <1>7, SettingSame DEF Pending, InPass, Capped, Remaining
    <3>. QED  BY <3>1, <3>2
  <2>2. ~IsOf(rec, Files[n], l)
    BY <1>3, <1>4, <1>7 DEF IsOf
  <2>3. Bounded(Files[n], l, Pending(n))
    BY <1>7 DEF Counted
  <2>4. Pending(n) + 0 + late <= Pending(n) + late'
    BY <1>1, <2>1
  <2>5. /\ RealRuns(Files[n], l)' + Pending(n) <= Runs' + late'
        /\ RealRuns(Files[n], l)' + Timeouts(Files[n], l)' + Pending(n)
               <= AttemptBudget' - 1 + Runs' + late'
    BY <1>1, <2>1, <2>2, <2>3, <2>4, BoundedAfter
  <2>. QED  BY <1>1, <2>1, <2>5 DEF Bounded
<1>8. ASSUME i = leg, NEW q \in Query, q = Current, NEW after \in Nat, after <= client.todo - 1
      PROVE  /\ RealRuns(q, l)' + after <= Runs' + late'
             /\ RealRuns(q, l)' + Timeouts(q, l)' + after <= AttemptBudget' - 1 + Runs' + late'
  <2>1. Bounded(q, l, client.todo)
    BY <1>3, <1>5, <1>8 DEF Counted
  <2>2. after + 1 + late <= client.todo + late'
    BY <1>1, <1>2, <1>8
  <2>. QED  BY <1>1, <1>2, <2>1, <2>2, BoundedAfter
<1>9. CASE i = leg
  <2>1. ASSUME NEW q \in Query PROVE Bounded(q, setting.legs[i], 0)'
    <3>1. CASE q = Current
      <4>1. 0 <= client.todo - 1
        BY <1>2
      <4>2. /\ RealRuns(q, l)' + 0 <= Runs' + late'
            /\ RealRuns(q, l)' + Timeouts(q, l)' + 0 <= AttemptBudget' - 1 + Runs' + late'
        BY <1>8, <1>9, <3>1, <4>1
      <4>. QED  BY <4>2 DEF Bounded
    <3>2. CASE q # Current
      BY <1>6, <3>2 DEF IsOf
    <3>. QED  BY <3>1, <3>2
  <2>2. ASSUME NEW n \in DOMAIN Files, n = client.file
        PROVE  Bounded(Files[n], setting.legs[i], Pending(n))'
    <3>1. Files[n] = Current /\ Pending(n)' = client.todo - 1
      BY <1>1, <1>2, <1>3, <2>2 DEF Pending, InPass
    <3>2. /\ RealRuns(Files[n], l)' + (client.todo - 1) <= Runs' + late'
          /\ RealRuns(Files[n], l)' + Timeouts(Files[n], l)' + (client.todo - 1)
                 <= AttemptBudget' - 1 + Runs' + late'
      <4>1. client.todo - 1 \in Nat /\ client.todo - 1 <= client.todo - 1
        BY <1>2
      <4>2. \A q \in Query : q = Current =>
               /\ RealRuns(q, l)' + (client.todo - 1) <= Runs' + late'
               /\ RealRuns(q, l)' + Timeouts(q, l)' + (client.todo - 1)
                      <= AttemptBudget' - 1 + Runs' + late'
        BY <1>8, <1>9, <4>1
      <4>. QED  BY <1>1, <1>3, <3>1, <4>2
    <3>. QED  BY <1>1, <3>1, <3>2 DEF Bounded
  <2>. QED  BY <1>7, <1>9, <2>1, <2>2
<1>10. CASE i # leg
  BY <1>3, <1>6, <1>10, OtherLegs
<1>. QED  BY <1>9, <1>10

(* What the client left behind is saved, and late with it. *)
LEMMA LateSaveCounted ==
    ASSUME TypeOK, Counted, NEW f \in abandoned, NEW outcome, LateSave(f, outcome)
    PROVE  Counted'
<1>. DEFINE rec == ServerRecord(f.query, f.leg, outcome)
<1>0. SaveRun(rec) /\ late' = late + 1 /\ UNCHANGED <<setting, leg, client>>
  BY DEF LateSave, chain
<1>. HIDE DEF rec
<1>1. /\ Files' = Files /\ \A i : Unaided(i)' = Unaided(i)
      /\ late \in Nat /\ setting \in Settings
  BY <1>0, SettingSame, TypeFacts
<1>. SUFFICES ASSUME NEW i \in 1 .. Len(setting.legs), Unaided(i)
              PROVE  /\ \A q \in Query : Bounded(q, setting.legs[i], 0)'
                     /\ i = leg => \A n \in DOMAIN Files : Bounded(Files[n], setting.legs[i], Pending(n))'
  BY <1>0, <1>1 DEF Counted
<1>. DEFINE l == setting.legs[i]
<1>2. ASSUME NEW q, NEW pending \in Nat, Bounded(q, l, pending)
      PROVE  /\ RealRuns(q, l)' + pending <= Runs' + late'
             /\ RealRuns(q, l)' + Timeouts(q, l)' + pending <= AttemptBudget' - 1 + Runs' + late'
  <2>1. PICK after \in Nat : after = late + 1 /\ late' = after
    BY <1>0, <1>1
  <2>2. pending + 1 + late <= pending + after
    BY <1>1, <2>1
  <2>. QED  BY <1>0, <1>1, <1>2, <2>1, <2>2, BoundedAfter
<1>3. ASSUME NEW q \in Query PROVE Bounded(q, setting.legs[i], 0)'
  <2>1. Bounded(q, l, 0)
    BY DEF Counted
  <2>. QED  BY <1>0, <1>2, <2>1 DEF Bounded
<1>4. ASSUME i = leg, NEW n \in DOMAIN Files
      PROVE  Bounded(Files[n], setting.legs[i], Pending(n))'
  <2>1. Bounded(Files[n], l, Pending(n)) /\ Pending(n) \in Nat
    BY <1>4, PendingType DEF Counted
  <2>2. Pending(n)' = Pending(n)
    BY <1>0, <1>1, SettingSame DEF Pending, InPass, Capped, Remaining
  <2>. QED  BY <1>0, <1>1, <1>2, <2>1, <2>2 DEF Bounded
<1>. QED  BY <1>3, <1>4

(* A pass starts with what is missing of each file, unless it is capped. *)
LEMMA StartPassCounted == ASSUME TypeOK, Counted, StartPass PROVE Counted'
<1>1. /\ client'.state = "choose" /\ client'.file = 1
      /\ client'.done = [q \in Query |-> RealRuns(q, This)]
      /\ client'.timedOut = [q \in Query |-> Timeouts(q, This)]
      /\ UNCHANGED <<store, setting, leg, late>>
  BY DEF StartPass, NoClient, chain, faults
<1>2. /\ Files' = Files /\ Runs' = Runs /\ AttemptBudget' = AttemptBudget
      /\ \A i : Unaided(i)' = Unaided(i)
  BY <1>1, SettingSame
<1>3. \A q, l : RealRuns(q, l)' = RealRuns(q, l) /\ Timeouts(q, l)' = Timeouts(q, l)
  BY <1>1, SameRecords
<1>. SUFFICES ASSUME NEW i \in 1 .. Len(setting.legs), Unaided(i)
              PROVE  /\ \A q \in Query : Bounded(q, setting.legs[i], 0)'
                     /\ i = leg => \A n \in DOMAIN Files : Bounded(Files[n], setting.legs[i], Pending(n))'
  BY <1>1, <1>2 DEF Counted
<1>4. ASSUME NEW q \in Query PROVE Bounded(q, setting.legs[i], 0)'
  BY <1>1, <1>2, <1>3 DEF Counted, Bounded
<1>5. ASSUME i = leg, NEW n \in DOMAIN Files
      PROVE  Bounded(Files[n], setting.legs[i], Pending(n))'
  <2>. DEFINE q == Files[n]
              r == RealRuns(q, This)
              t == Timeouts(q, This)
  <2>1. q \in Query /\ n \in Nat /\ n >= 1
    <3>1. setting \in Settings
      BY TypeFacts
    <3>. QED  BY <3>1, FilesOfASetting
  <2>2. /\ r \in Nat /\ t \in Nat /\ late \in Nat /\ Runs \in Nat
        /\ AttemptBudget \in Nat /\ AttemptBudget >= Runs + 1
    BY CountFacts
  <2>3. r <= Runs + late /\ r + t <= AttemptBudget - 1 + Runs + late
    <3>1. Bounded(q, This, 0)
      BY <1>5, <2>1 DEF Counted, This
    <3>. QED  BY <2>2, <3>1 DEF Bounded
  <2>4. client'.done[q] = r /\ client'.timedOut[q] = t
    BY <1>1, <2>1
  <2>5. /\ Capped(q)' = (r + t >= AttemptBudget)
        /\ Remaining(q)' = IF r >= Runs THEN 0 ELSE Runs - r
    BY <1>2, <2>4 DEF Capped, Remaining
  <2>6. Pending(n)' = IF Capped(q)' THEN 0 ELSE Remaining(q)'
    BY <1>1, <1>2, <2>1 DEF Pending, InPass
  <2>7. RealRuns(Files[n], setting.legs[i])' = r /\ Timeouts(Files[n], setting.legs[i])' = t
    BY <1>1, <1>2, <1>3, <1>5 DEF This
  <2>8. PICK p : p = Pending(n)'
    OBVIOUS
  <2>. HIDE DEF r, t
  <2>9. p \in Nat /\ r + p <= Runs + late /\ r + t + p <= AttemptBudget - 1 + Runs + late
    <3>1. CASE Capped(q)' \/ r >= Runs
      <4>1. p = 0
        BY <2>5, <2>6, <2>8, <3>1
      <4>. QED  BY <2>2, <2>3, <4>1
    <3>2. CASE ~Capped(q)' /\ ~(r >= Runs)
      <4>1. p = Runs - r /\ ~(r + t >= AttemptBudget)
        BY <2>5, <2>6, <2>8, <3>2
      <4>2. p \in Nat /\ r + p = Runs /\ r + t + p = Runs + t
        BY <2>2, <3>2, <4>1
      <4>. QED  BY <2>2, <3>2, <4>1, <4>2
    <3>. QED  BY <3>1, <3>2
  <2>. QED  BY <1>1, <1>2, <2>7, <2>8, <2>9 DEF Bounded
<1>. QED  BY <1>4, <1>5

(* The next leg begins with no pass, and nothing pending. *)
LEMMA EndLegCounted ==
    ASSUME TypeOK, TypeOK', Counted, NEW how, EndLeg(how), client' = NoClient, setting' = setting,
           store' = store, late' = late
    PROVE  Counted'
<1>1. /\ Files' = Files /\ Runs' = Runs /\ AttemptBudget' = AttemptBudget
      /\ \A i : Unaided(i)' = Unaided(i)
  BY SettingSame
<1>2. \A q, l : RealRuns(q, l)' = RealRuns(q, l) /\ Timeouts(q, l)' = Timeouts(q, l)
  BY SameRecords
<1>3. \A n : Pending(n)' = 0
  BY NoClientType DEF Pending, InPass
<1>. SUFFICES ASSUME NEW i \in 1 .. Len(setting.legs), Unaided(i)
              PROVE  /\ \A q \in Query : Bounded(q, setting.legs[i], 0)'
                     /\ \A n \in DOMAIN Files : Bounded(Files[n], setting.legs[i], Pending(n))'
  BY <1>1 DEF Counted
<1>4. ASSUME NEW q \in Query PROVE Bounded(q, setting.legs[i], 0)'
  BY <1>1, <1>2 DEF Counted, Bounded
<1>5. ASSUME NEW n \in DOMAIN Files PROVE Bounded(Files[n], setting.legs[i], Pending(n))'
  <2>1. Files[n] \in Query
    BY TypeFacts, FilesOfASetting
  <2>2. Bounded(Files[n], setting.legs[i], 0)
    BY <2>1 DEF Counted
  <2>3. /\ RealRuns(Files[n], setting.legs[i])' = RealRuns(Files[n], setting.legs[i])
        /\ Timeouts(Files[n], setting.legs[i])' = Timeouts(Files[n], setting.legs[i])
    BY <1>1, <1>2
  <2>. QED  BY <1>1, <1>3, <2>2, <2>3 DEF Bounded
<1>. QED  BY <1>4, <1>5

(* What the process has still to do of a file only shrinks while it goes on, and  *)
(* is nothing when it is gone.                                                     *)
LEMMA ProcessPending ==
    ASSUME TypeOK, ClientInv, TypeOK', setting' = setting, NEW n \in DOMAIN Files,
           \/ client' = client \/ client' = NoClient \/ ChooseFile \/ Post
           \/ client.state = "waiting" /\ (Answered \/ Failed)
    PROVE  Pending(n)' <= Pending(n)
<1>1. /\ n \in Nat /\ client.file \in Nat /\ client.todo \in Nat
      /\ client \in Client /\ setting \in Settings
  <2>1. setting \in Settings
    BY TypeFacts
  <2>. QED  BY <2>1, FilesOfASetting, TypeFacts
<1>2. /\ Files' = Files /\ Runs' = Runs /\ AttemptBudget' = AttemptBudget
  BY SettingSame
<1>3. Pending(n) \in Nat
  BY PendingType
<1>4. CASE client' = client
  <2>1. Pending(n)' = Pending(n)
    BY <1>2, <1>4 DEF Pending, InPass, Capped, Remaining
  <2>. QED  BY <1>3, <2>1
<1>5. CASE client' = NoClient
  <2>1. Pending(n)' = 0
    BY <1>5, NoClientType DEF Pending, InPass
  <2>. QED  BY <1>3, <2>1
<1>6. ASSUME client'.done = client.done, client'.timedOut = client.timedOut
      PROVE  \A q : Capped(q)' = Capped(q) /\ Remaining(q)' = Remaining(q)
  BY <1>2, <1>6 DEF Capped, Remaining
<1>7. CASE ChooseFile
  <2>1. /\ client.state = "choose"
        /\ client' = IF Remaining(Current) = 0 \/ Capped(Current)
                     THEN [client EXCEPT !.file = @ + 1]
                     ELSE [client EXCEPT !.state = "ready", !.todo = Remaining(Current)]
    BY <1>7 DEF ChooseFile
  <2>2. CASE Remaining(Current) = 0 \/ Capped(Current)
    <3>1. /\ client'.state = "choose" /\ client'.file = client.file + 1
          /\ client'.done = client.done /\ client'.timedOut = client.timedOut
      BY <1>1, <2>1, <2>2 DEF Client
    <3>2. Pending(n)' = IF n < client.file + 1 THEN 0 ELSE Pending(n)
      BY <1>1, <1>2, <1>6, <2>1, <3>1 DEF Pending, InPass
    <3>. QED  BY <1>3, <3>2
  <2>3. CASE ~(Remaining(Current) = 0 \/ Capped(Current))
    <3>1. /\ client'.state = "ready" /\ client'.file = client.file
          /\ client'.done = client.done /\ client'.timedOut = client.timedOut
          /\ client'.todo = Remaining(Current)
      BY <1>1, <2>1, <2>3 DEF Client
    <3>2. Pending(n)' = Pending(n)
      BY <1>1, <1>2, <1>6, <2>1, <2>3, <3>1 DEF Pending, InPass, Current
    <3>. QED  BY <1>3, <3>2
  <2>. QED  BY <2>2, <2>3
<1>8. CASE Post
  <2>1. /\ client.state = "ready"
        /\ client' = IF client.todo = 0 THEN [client EXCEPT !.state = "choose", !.file = @ + 1]
                     ELSE [client EXCEPT !.state = "waiting"]
    BY <1>8 DEF Post
  <2>2. CASE client.todo = 0
    <3>1. /\ client'.state = "choose" /\ client'.file = client.file + 1
          /\ client'.done = client.done /\ client'.timedOut = client.timedOut
      BY <1>1, <2>1, <2>2 DEF Client
    <3>2. Pending(n)' = IF n < client.file + 1 THEN 0 ELSE Pending(n)
      BY <1>1, <1>2, <1>6, <2>1, <3>1 DEF Pending, InPass
    <3>. QED  BY <1>3, <3>2
  <2>3. CASE client.todo # 0
    <3>1. /\ client'.state = "waiting" /\ client'.file = client.file /\ client'.todo = client.todo
          /\ client'.done = client.done /\ client'.timedOut = client.timedOut
      BY <1>1, <2>1, <2>3 DEF Client
    <3>2. Pending(n)' = Pending(n)
      BY <1>1, <1>2, <1>6, <2>1, <3>1 DEF Pending, InPass
    <3>. QED  BY <1>3, <3>2
  <2>. QED  BY <2>2, <2>3
<1>9. CASE client.state = "waiting" /\ (Answered \/ Failed)
  <2>1. /\ client'.state = "ready" /\ client'.file = client.file /\ client'.todo = client.todo - 1
        /\ client'.done = client.done /\ client'.timedOut = client.timedOut
    BY <1>9, AttemptEnds
  <2>2. Pending(n)' = IF n = client.file THEN Pending(n) - 1 ELSE Pending(n)
    BY <1>1, <1>2, <1>6, <1>9, <2>1 DEF Pending, InPass
  <2>. QED  BY <1>3, <2>2
<1>. QED  BY <1>4, <1>5, <1>7, <1>8, <1>9

LEMMA CountedStep ==
    ASSUME TypeOK, ClientInv, Counted, [Next]_vars, TypeOK'
    PROVE  Counted'
<1>1. ASSUME UNCHANGED <<store, setting, leg, late>>,
             \/ client' = client \/ client' = NoClient \/ ChooseFile \/ Post
             \/ client.state = "waiting" /\ (Answered \/ Failed)
      PROVE  Counted'
  BY <1>1, ProcessPending, FewerPending
<1>2. CASE StartPass
  BY <1>2, StartPassCounted
<1>3. CASE ChooseFile \/ Post
  BY <1>1, <1>3 DEF ChooseFile, Post, chain, faults
<1>4. CASE EndPass
  <2>1. client' = NoClient /\ UNCHANGED <<store, setting, late>>
    BY <1>4 DEF EndPass, faults
  <2>2. ASSUME NEW how, EndLeg(how) PROVE Counted'
    BY <2>1, <2>2, EndLegCounted
  <2>3. ASSUME Retry PROVE Counted'
    BY <1>1, <2>1, <2>3 DEF Retry
  <2>. QED  BY <1>4, <2>2, <2>3 DEF EndPass
<1>5. ASSUME NEW outcome \in Outcome, ServerAnswers(outcome) PROVE Counted'
  <2>1. /\ client.state = "waiting" /\ Answered /\ UNCHANGED <<setting, leg, late>>
        /\ SaveRun(ServerRecord(Current, This, outcome))
    BY <1>5 DEF ServerAnswers, chain, faults
  <2>2. /\ ServerRecord(Current, This, outcome).query = Current
        /\ ServerRecord(Current, This, outcome).model = LabelOf(This)
    BY DEF ServerRecord
  <2>. QED  BY <2>1, <2>2, PassSaves
<1>6. CASE CacheAnswers \/ ServerFails
  BY <1>1, <1>6 DEF CacheAnswers, ServerFails, chain, faults
<1>7. CASE ClientTimesOut
  <2>. DEFINE rec == [query |-> Current, model |-> LabelOf(This), guided |-> This.guided,
                      outcome |-> "gaveUp"]
  <2>1. /\ client.state = "waiting" /\ Failed /\ UNCHANGED <<setting, leg, late>> /\ SaveRun(rec)
    BY <1>7 DEF ClientTimesOut, chain
  <2>2. rec.query = Current /\ rec.model = LabelOf(This)
    OBVIOUS
  <2>. QED  BY <2>1, <2>2, PassSaves
<1>8. CASE Interrupt
  BY <1>1, <1>8 DEF Interrupt, chain
<1>9. CASE Feed
  BY <1>1, <1>9 DEF Feed, AutoFeed, WriteHints, FeedOther, chain, faults
<1>10. ASSUME NEW f \in abandoned, LateRunDies(f) PROVE Counted'
  BY <1>1, <1>10 DEF LateRunDies, chain
<1>11. ASSUME NEW f \in abandoned, NEW outcome \in Outcome, LateSave(f, outcome) PROVE Counted'
  BY <1>11, LateSaveCounted
<1>12. CASE UNCHANGED vars
  BY <1>1, <1>12 DEF vars
<1>. QED  BY <1>2, <1>3, <1>4, <1>5, <1>6, <1>7, <1>8, <1>9, <1>10, <1>11, <1>12 DEF Next, ClientStep

LEMMA CountedStart == Init => Counted
<1>. SUFFICES ASSUME Init PROVE Counted
  OBVIOUS
<1>1. setting \in Settings /\ store = {} /\ late = 0 /\ client = NoClient
  BY DEF Init, StoreInit
<1>2. /\ Runs \in Nat /\ AttemptBudget \in Nat /\ AttemptBudget >= Runs + 1
  BY <1>1, NumbersOfASetting
<1>3. \A q, l : RealRuns(q, l) = 0 /\ Timeouts(q, l) = 0
  BY <1>1, CountsAreOfFiles, FS_EmptySet
<1>4. \A n : Pending(n) = 0
  BY <1>1, NoClientType DEF Pending, InPass
<1>. QED  BY <1>1, <1>2, <1>3, <1>4 DEF Counted, Bounded

-----------------------------------------------------------------------------
(* When a leg counts as done.                                              *)

(* Records are never taken away, nor is a setting. *)
LEMMA RecordsGrow ==
    ASSUME TypeOK, [Next]_vars
    PROVE  /\ setting' = setting /\ Recorded \subseteq Recorded'
           /\ \A q, l : RealRuns(q, l)' \in Nat /\ Timeouts(q, l)' \in Nat
           /\ \A q, l : RealRuns(q, l) <= RealRuns(q, l)' /\ Timeouts(q, l) <= Timeouts(q, l)'
<1>1. setting' = setting
  BY DEF Next, ClientStep, StartPass, ChooseFile, Post, EndPass, ServerAnswers, CacheAnswers, ServerFails,
         ClientTimesOut, Interrupt, Feed, LateRunDies, LateSave, vars, chain
<1>2. store' = store \/ \E rec : SaveRun(rec)
  BY DEF Next, ClientStep, StartPass, ChooseFile, Post, EndPass, ServerAnswers, CacheAnswers, ServerFails,
         ClientTimesOut, Interrupt, Feed, AutoFeed, WriteHints, FeedOther, LateRunDies, LateSave, vars
<1>3. \A q, l : RealRuns(q, l) \in Nat /\ Timeouts(q, l) \in Nat
  BY CountFacts
<1>4. CASE store' = store
  <2>1. /\ Recorded' = Recorded
        /\ \A q, l : RealRuns(q, l)' = RealRuns(q, l) /\ Timeouts(q, l)' = Timeouts(q, l)
    BY <1>4, SameRecords
  <2>. QED  BY <1>1, <1>3, <2>1
<1>5. ASSUME NEW rec, SaveRun(rec)
      PROVE  /\ Recorded \subseteq Recorded'
             /\ \A q, l : RealRuns(q, l)' \in Nat /\ Timeouts(q, l)' \in Nat
             /\ \A q, l : RealRuns(q, l) <= RealRuns(q, l)' /\ Timeouts(q, l) <= Timeouts(q, l)'
  <2>1. /\ Recorded' = Recorded \cup {rec}
        /\ \A q, l : /\ RealRuns(q, l)' = RealRuns(q, l) + (IF IsReal(rec, q, l) THEN 1 ELSE 0)
                    /\ Timeouts(q, l)' = Timeouts(q, l) + (IF IsTimeout(rec, q, l) THEN 1 ELSE 0)
    BY <1>5, TypeFacts, OneMoreRecord
  <2>2. ASSUME NEW q, NEW l
        PROVE  /\ RealRuns(q, l)' \in Nat /\ Timeouts(q, l)' \in Nat
               /\ RealRuns(q, l) <= RealRuns(q, l)' /\ Timeouts(q, l) <= Timeouts(q, l)'
    <3>1. PICK a \in {0, 1}, b \in {0, 1} :
              RealRuns(q, l)' = RealRuns(q, l) + a /\ Timeouts(q, l)' = Timeouts(q, l) + b
      BY <2>1
    <3>. QED  BY <1>3, <3>1
  <2>. QED  BY <2>1, <2>2
<1>. QED  BY <1>1, <1>2, <1>4, <1>5

(* What is counted is some record. *)
LEMMA CountedIsRecorded ==
    ASSUME IsFiniteSet(store), NEW q, NEW l
    PROVE  /\ RealRuns(q, l) > 0 => \E r \in Recorded : IsReal(r, q, l)
           /\ Timeouts(q, l) > 0 => \E r \in Recorded : IsTimeout(r, q, l)
<1>. DEFINE real == {f \in store : IsReal(f.record, q, l)}
            timeout == {f \in store : IsTimeout(f.record, q, l)}
<1>1. RealRuns(q, l) = Cardinality(real) /\ Timeouts(q, l) = Cardinality(timeout)
  BY CountsAreOfFiles
<1>2. RealRuns(q, l) \in Nat /\ Timeouts(q, l) \in Nat /\ Cardinality({}) = 0
  BY CountsAreNumbers, FS_EmptySet
<1>3. /\ real # {} => \E r \in Recorded : IsReal(r, q, l)
      /\ timeout # {} => \E r \in Recorded : IsTimeout(r, q, l)
  BY DEF Recorded
<1>. HIDE DEF real, timeout
<1>4. /\ RealRuns(q, l) > 0 => real # {}
      /\ Timeouts(q, l) > 0 => timeout # {}
  BY <1>1, <1>2
<1>. QED  BY <1>3, <1>4

(* A pass keeps what it counted when it began. *)
LEMMA PassGoesOn ==
    ASSUME TypeOK, ClientInv, [Next]_vars, client'.state # "none"
    PROVE  \/ StartPass
           \/ /\ InPass /\ leg' = leg
              /\ client'.done = client.done /\ client'.timedOut = client.timedOut
<1>0. client \in Client
  BY TypeFacts
<1>1. CASE ChooseFile
  BY <1>0, <1>1 DEF ChooseFile, Client, InPass, chain
<1>2. CASE Post
  BY <1>0, <1>2 DEF Post, Client, InPass, chain
<1>3. CASE EndPass \/ Interrupt
  BY <1>3, NoClientType DEF EndPass, Interrupt
<1>4. ASSUME client.state = "waiting", Answered \/ Failed, UNCHANGED chain
      PROVE  /\ InPass /\ leg' = leg
             /\ client'.done = client.done /\ client'.timedOut = client.timedOut
  BY <1>4, AttemptEnds DEF InPass, chain
<1>5. CASE (\E outcome \in Outcome : ServerAnswers(outcome)) \/ CacheAnswers \/ ServerFails \/ ClientTimesOut
  BY <1>4, <1>5 DEF ServerAnswers, CacheAnswers, ServerFails, ClientTimesOut
<1>6. ASSUME UNCHANGED <<client, leg>>
      PROVE  /\ InPass /\ leg' = leg
             /\ client'.done = client.done /\ client'.timedOut = client.timedOut
  BY <1>6 DEF InPass
<1>7. CASE Feed \/ UNCHANGED vars
  BY <1>6, <1>7 DEF Feed, vars, chain
<1>8. CASE \E f \in abandoned : LateRunDies(f) \/ \E outcome \in Outcome : LateSave(f, outcome)
  BY <1>6, <1>8 DEF LateRunDies, LateSave, chain
<1>. QED  BY <1>1, <1>2, <1>3, <1>5, <1>7, <1>8 DEF Next, ClientStep

LEMMA SnapshotStep ==
    ASSUME TypeOK, ClientInv, Snapshot, [Next]_vars
    PROVE  Snapshot'
<1>. SUFFICES ASSUME client'.state # "none", NEW q \in Query
              PROVE  /\ client'.done[q] <= RealRuns(q, This)'
                     /\ client'.timedOut[q] <= Timeouts(q, This)'
  BY DEF Snapshot, InPass
<1>1. \A p, l : /\ RealRuns(p, l) \in Nat /\ Timeouts(p, l) \in Nat
               /\ RealRuns(p, l) <= RealRuns(p, l)' /\ Timeouts(p, l) <= Timeouts(p, l)'
               /\ RealRuns(p, l)' \in Nat /\ Timeouts(p, l)' \in Nat
  BY CountFacts, RecordsGrow
<1>2. setting' = setting
  BY RecordsGrow
<1>3. CASE StartPass
  <2>1. /\ client'.done[q] = RealRuns(q, This) /\ client'.timedOut[q] = Timeouts(q, This)
        /\ store' = store /\ leg' = leg
    BY <1>3 DEF StartPass, NoClient, chain
  <2>2. This' = This
    BY <1>2, <2>1 DEF This
  <2>3. RealRuns(q, This)' = RealRuns(q, This) /\ Timeouts(q, This)' = Timeouts(q, This)
    BY <2>1, <2>2, SameRecords
  <2>4. RealRuns(q, This) \in Nat /\ Timeouts(q, This) \in Nat
    BY <1>1
  <2>. QED  BY <2>1, <2>3, <2>4
<1>4. CASE InPass /\ leg' = leg /\ client'.done = client.done /\ client'.timedOut = client.timedOut
  <2>0. client.done[q] \in Nat /\ client.timedOut[q] \in Nat
    BY TypeFacts DEF Count
  <2>1. client.done[q] <= RealRuns(q, This) /\ client.timedOut[q] <= Timeouts(q, This)
    BY <1>4 DEF Snapshot
  <2>2. This' = This
    BY <1>2, <1>4 DEF This
  <2>3. RealRuns(q, This) <= RealRuns(q, This)' /\ Timeouts(q, This) <= Timeouts(q, This)'
    BY <1>1, <2>2
  <2>4. /\ RealRuns(q, This) \in Nat /\ Timeouts(q, This) \in Nat
        /\ RealRuns(q, This)' \in Nat /\ Timeouts(q, This)' \in Nat
    BY <1>1, <2>2
  <2>. QED  BY <1>4, <2>0, <2>1, <2>3, <2>4
<1>. QED  BY <1>3, <1>4, PassGoesOn

LEMMA WitnessKeeps ==
    ASSUME TypeOK, [Next]_vars, NEW l, Witnessed(l)
    PROVE  Witnessed(l)'
<1>1. PICK r \in Recorded : r.model = LabelOf(l) /\ (Answer(r) \/ Timeouts(r.query, l) >= AttemptBudget)
  BY DEF Witnessed
<1>2. /\ r \in Recorded' /\ AttemptBudget' = AttemptBudget
      /\ Timeouts(r.query, l) <= Timeouts(r.query, l)'
  BY RecordsGrow, SettingSame
<1>3. /\ Timeouts(r.query, l) \in Nat /\ AttemptBudget \in Nat
  BY CountFacts
<1>4. CASE Answer(r)
  BY <1>1, <1>2, <1>4 DEF Witnessed
<1>5. CASE Timeouts(r.query, l) >= AttemptBudget
  <2>1. Timeouts(r.query, l)' \in Nat
    BY RecordsGrow
  <2>. QED  BY <1>1, <1>2, <1>3, <1>5, <2>1 DEF Witnessed
<1>. QED  BY <1>1, <1>4, <1>5

LEMMA FaithfulSame ==
    ASSUME TypeOK, [Next]_vars
    PROVE  Faithful' = Faithful /\ Files' = Files /\ setting' = setting
  BY RecordsGrow DEF Faithful, Files

(* A file is skipped for what was recorded of it. *)
LEMMA SkippedIsWitnessed ==
    ASSUME TypeOK, Snapshot, InPass, Current \in Query, Remaining(Current) = 0 \/ Capped(Current)
    PROVE  Witnessed(This)
<1>1. /\ client.done[Current] \in Nat /\ client.timedOut[Current] \in Nat
      /\ Runs \in Nat /\ Runs >= 1 /\ AttemptBudget \in Nat /\ AttemptBudget >= Runs + 1
  BY TypeFacts, CountFacts DEF Count
<1>2. /\ client.done[Current] <= RealRuns(Current, This)
      /\ client.timedOut[Current] <= Timeouts(Current, This)
  BY DEF Snapshot
<1>3. /\ RealRuns(Current, This) \in Nat /\ Timeouts(Current, This) \in Nat /\ IsFiniteSet(store)
  BY TypeFacts, CountFacts
<1>4. CASE client.done[Current] >= 1
  <2>1. RealRuns(Current, This) > 0
    BY <1>1, <1>2, <1>3, <1>4
  <2>2. PICK r \in Recorded : IsReal(r, Current, This)
    BY <1>3, <2>1, CountedIsRecorded
  <2>. QED  BY <2>2 DEF Witnessed, IsReal, IsOf, Answer, Uncounted
<1>5. CASE client.done[Current] = 0
  <2>1. Remaining(Current) # 0
    BY <1>1, <1>5 DEF Remaining
  <2>2. client.timedOut[Current] >= AttemptBudget
    BY <1>1, <1>5, <2>1 DEF Capped
  <2>3. Timeouts(Current, This) > 0 /\ Timeouts(Current, This) >= AttemptBudget
    BY <1>1, <1>2, <1>3, <2>2
  <2>4. PICK r \in Recorded : IsTimeout(r, Current, This)
    BY <1>3, <2>3, CountedIsRecorded
  <2>. QED  BY <2>3, <2>4 DEF Witnessed, IsTimeout, IsOf
<1>. QED  BY <1>1, <1>4, <1>5

LEMMA SamePass ==
    ASSUME TypeOK, [Next]_vars, PassMeasured, client' = client, leg' = leg
    PROVE  PassMeasured'
<1>1. This' = This
  BY RecordsGrow DEF This
<1>2. ASSUME Witnessed(This) PROVE Witnessed(This)'
  <2>1. PICK l : l = This
    OBVIOUS
  <2>2. Witnessed(l)'
    BY <1>2, <2>1, WitnessKeeps
  <2>. QED  BY <1>1, <2>1, <2>2
<1>. QED  BY <1>2 DEF PassMeasured, InPass

LEMMA PassMeasuredStep ==
    ASSUME TypeOK, ClientInv, Snapshot, PassMeasured, Faithful, [Next]_vars
    PROVE  PassMeasured'
<1>0. client \in Client /\ client.file \in Nat /\ client.todo \in Nat /\ setting \in Settings
  BY TypeFacts
<1>1. setting' = setting
  BY RecordsGrow
<1>2. ASSUME Witnessed(This), leg' = leg PROVE Witnessed(This)'
  <2>1. PICK l : l = This /\ l = This'
    BY <1>1, <1>2 DEF This
  <2>2. Witnessed(l)'
    BY <1>2, <2>1, WitnessKeeps
  <2>. QED  BY <2>1, <2>2
<1>3. ASSUME client' = client, leg' = leg PROVE PassMeasured'
  BY <1>3, SamePass
<1>4. CASE client' = NoClient
  BY <1>4, NoClientType DEF PassMeasured, InPass
<1>5. CASE StartPass
  BY <1>5 DEF StartPass, NoClient, PassMeasured
<1>6. CASE ChooseFile
  <2>1. /\ client.state = "choose" /\ client.file <= Len(Files) /\ leg' = leg
        /\ client' = IF Remaining(Current) = 0 \/ Capped(Current)
                     THEN [client EXCEPT !.file = @ + 1]
                     ELSE [client EXCEPT !.state = "ready", !.todo = Remaining(Current)]
    BY <1>6 DEF ChooseFile, chain
  <2>2. client.file \in DOMAIN Files
    <3>1. client.file >= 1
      BY DEF ClientInv
    <3>. QED  BY <1>0, <2>1, <3>1, FilesOfASetting
  <2>3. Current \in Query
    BY <1>0, <2>2, FilesOfASetting DEF Current
  <2>4. CASE Remaining(Current) = 0 \/ Capped(Current)
    <3>1. Witnessed(This)
      BY <2>1, <2>3, <2>4, SkippedIsWitnessed DEF InPass
    <3>2. Witnessed(This)' /\ client'.state = "choose"
      BY <1>0, <1>2, <2>1, <2>4, <3>1 DEF Client
    <3>. QED  BY <3>2 DEF PassMeasured
  <2>5. CASE ~(Remaining(Current) = 0 \/ Capped(Current))
    <3>1. client.done[Current] \in Nat /\ Runs \in Nat
      BY <2>3, TypeFacts, CountFacts DEF Count
    <3>2. Remaining(Current) > 0
      BY <2>5, <3>1 DEF Remaining
    <3>3. /\ client'.state = "ready" /\ client'.todo = Remaining(Current)
          /\ client'.ok = client.ok /\ client'.fail = client.fail
      BY <1>0, <2>1, <2>5 DEF Client
    <3>. QED  BY <1>2, <2>1, <3>2, <3>3 DEF PassMeasured, InPass
  <2>. QED  BY <2>4, <2>5
<1>7. CASE Post
  <2>1. /\ client.state = "ready" /\ leg' = leg
        /\ client' = IF client.todo = 0 THEN [client EXCEPT !.state = "choose", !.file = @ + 1]
                     ELSE [client EXCEPT !.state = "waiting"]
    BY <1>7 DEF Post, chain
  <2>2. CASE client.todo = 0
    <3>1. client'.ok = client.ok /\ client'.fail = client.fail
      BY <1>0, <2>1, <2>2 DEF Client
    <3>2. client.ok \/ client.fail
      BY <1>0, <2>1, <2>2 DEF PassMeasured, InPass, Client
    <3>. QED  BY <1>2, <2>1, <3>1, <3>2 DEF PassMeasured, InPass
  <2>3. CASE client.todo # 0
    <3>1. /\ client'.state = "waiting" /\ client'.todo = client.todo
          /\ client'.ok = client.ok /\ client'.fail = client.fail
      BY <1>0, <2>1, <2>3 DEF Client
    <3>. QED  BY <1>0, <1>2, <2>1, <2>3, <3>1 DEF PassMeasured, InPass
  <2>. QED  BY <2>2, <2>3
<1>8. ASSUME NEW outcome \in Outcome, ServerAnswers(outcome) PROVE PassMeasured'
  <2>. DEFINE rec == ServerRecord(Current, This, outcome)
  <2>1. /\ client.state = "waiting" /\ outcome \in OutcomesOf(This) /\ Answered /\ SaveRun(rec)
        /\ leg' = leg
    BY <1>8 DEF ServerAnswers, chain
  <2>2. rec.model = LabelOf(This) /\ Answer(rec)
    BY <1>0, <2>1, WaitingFacts, ServerRecordType, TypeFacts
  <2>. HIDE DEF rec
  <2>3. rec \in Recorded'
    BY <2>1, TypeFacts, OneMoreRecord
  <2>4. PICK l : l = This /\ l = This'
    BY <1>1, <2>1 DEF This
  <2>5. Witnessed(l)'
    BY <2>2, <2>3, <2>4 DEF Witnessed
  <2>6. Witnessed(This)' /\ client'.ok
    BY <1>0, <2>1, <2>4, <2>5 DEF Answered, Client
  <2>. QED  BY <2>6 DEF PassMeasured
<1>9. CASE ServerFails \/ ClientTimesOut
  <2>1. Failed /\ leg' = leg /\ client.state = "waiting"
    BY <1>9 DEF ServerFails, ClientTimesOut, chain, Faithful
  <2>2. client'.fail /\ client'.ok = client.ok
    BY <1>0, <2>1 DEF Failed, Client
  <2>. QED  BY <1>2, <2>1, <2>2 DEF PassMeasured, InPass
<1>10. CASE CacheAnswers
  BY <1>10 DEF CacheAnswers, Faithful
<1>11. CASE EndPass \/ Interrupt
  BY <1>4, <1>11 DEF EndPass, Interrupt
<1>12. CASE Feed \/ UNCHANGED vars
  BY <1>3, <1>12 DEF Feed, vars, chain
<1>13. CASE \E f \in abandoned : LateRunDies(f) \/ \E outcome \in Outcome : LateSave(f, outcome)
  BY <1>3, <1>13 DEF LateRunDies, LateSave, chain
<1>. QED  BY <1>5, <1>6, <1>7, <1>8, <1>9, <1>10, <1>11, <1>12, <1>13 DEF Next, ClientStep

LEMMA MeasuredStep ==
    ASSUME TypeOK, ClientInv, Snapshot, Measured, [Next]_vars
    PROVE  Measured'
<1>. SUFFICES ASSUME Faithful'
              PROVE  /\ \A i \in 1 .. Len(setting.legs) : ended'[i] = "done" => Witnessed(setting.legs[i])'
                     /\ PassMeasured'
  BY FaithfulSame DEF Measured
<1>1. Faithful /\ setting' = setting
  BY FaithfulSame
<1>2. /\ PassMeasured
      /\ \A i \in 1 .. Len(setting.legs) : ended[i] = "done" => Witnessed(setting.legs[i])
  BY <1>1 DEF Measured
<1>3. PassMeasured'
  BY <1>1, <1>2, PassMeasuredStep
<1>4. ASSUME NEW i \in 1 .. Len(setting.legs), Witnessed(setting.legs[i])
      PROVE  Witnessed(setting.legs[i])'
  <2>1. PICK l : l = setting.legs[i]
    OBVIOUS
  <2>2. Witnessed(l)'
    BY <1>4, <2>1, WitnessKeeps
  <2>. QED  BY <1>1, <2>1, <2>2
<1>5. ASSUME NEW i \in 1 .. Len(setting.legs), ended'[i] = "done"
      PROVE  Witnessed(setting.legs[i])
  <2>1. CASE ended' = ended
    BY <1>2, <1>5, <2>1
  <2>2. CASE ended' # ended
    <3>1. EndPass /\ ended \in [1 .. Len(setting.legs) -> {"not yet", "done", "given up"}]
      BY <2>2 DEF Next, ClientStep, StartPass, ChooseFile, Post, ServerAnswers, CacheAnswers, ServerFails,
                  ClientTimesOut, Interrupt, Feed, LateRunDies, LateSave, vars, chain, TypeOK, ChainOK
    <3>2. \/ ExitCode = 0 /\ ended' = [ended EXCEPT ![leg] = "done"]
          \/ ended' = [ended EXCEPT ![leg] = "given up"]
      BY <2>2, <3>1 DEF EndPass, EndLeg, Retry
    <3>3. CASE i # leg \/ ended' = [ended EXCEPT ![leg] = "given up"]
      BY <1>2, <1>5, <3>1, <3>2, <3>3
    <3>4. CASE i = leg /\ ExitCode = 0
      <4>1. InPass /\ client.state = "choose" /\ client.file > Len(Files)
        BY <3>1 DEF EndPass, InPass
      <4>2. client \in Client /\ client.file \in Nat /\ Len(Files) \in Nat /\ Len(Files) # 0
        <5>1. Files \in Seq(Query) /\ Len(Files) \in Nat
          BY TypeFacts, FilesOfASetting
        <5>2. Files # <<>>
          BY <1>1 DEF Faithful
        <5>. QED  BY <5>1, <5>2, TypeFacts
      <4>3. client.file > 1
        BY <4>1, <4>2
      <4>4. client.ok \/ ~client.fail
        BY <3>4 DEF ExitCode
      <4>5. Witnessed(This)
        BY <1>2, <4>1, <4>2, <4>3, <4>4 DEF PassMeasured
      <4>. QED  BY <3>4, <4>5 DEF This
    <3>. QED  BY <3>2, <3>3, <3>4
  <2>. QED  BY <2>1, <2>2
<1>. QED  BY <1>3, <1>4, <1>5

-----------------------------------------------------------------------------
(* The inductive invariant, and what follows from it.                      *)

LEMMA InvariantStarts == Init => IInv
<1>1. Init => TypeOK /\ ClientInv /\ Counted
  BY TypesStart, CountedStart
<1>2. Init => Snapshot /\ Measured
  <2>. SUFFICES ASSUME Init PROVE Snapshot /\ Measured
    OBVIOUS
  <2>1. /\ client = NoClient /\ setting \in Settings
        /\ ended = [i \in 1 .. Len(setting.legs) |-> "not yet"]
    BY DEF Init
  <2>. QED  BY <2>1, NoClientType DEF Snapshot, Measured, PassMeasured, InPass
<1>. QED  BY <1>1, <1>2 DEF IInv

LEMMA InvariantHolds == Spec => []IInv
<1>1. IInv /\ [Next]_vars => IInv'
  BY TypesStep, CountedStep, SnapshotStep, MeasuredStep DEF IInv
<1>. QED  BY <1>1, InvariantStarts, PTL DEF Spec

(* --resume measures a query Runs times in a leg, and exceeds it only by the    *)
(* runs the client left behind and the server saved after it had counted         *)
(* (_done_counts and matrix() of run_matrix.py).                                 *)
THEOREM RunsAreNotExceeded == Spec => []RunsNotExceeded
<1>1. IInv => RunsNotExceeded
  <2>. SUFFICES ASSUME IInv, NEW i \in 1 .. Len(setting.legs), NEW q \in Query, Unaided(i)
                PROVE  RealRuns(q, setting.legs[i]) <= Runs + late
    BY DEF RunsNotExceeded
  <2>1. Bounded(q, setting.legs[i], 0) /\ RealRuns(q, setting.legs[i]) \in Nat
    BY CountFacts DEF IInv, Counted
  <2>. QED  BY <2>1 DEF Bounded
<1>. QED  BY <1>1, InvariantHolds, PTL

(* The attempt ceiling: however often the process was killed and its requests ran *)
(* out, real runs and timeouts exceed it only by what a pass was about to do when *)
(* it read it, and by the late saves (RUN_ATTEMPT_FACTOR of run_matrix.py).        *)
THEOREM AttemptsAreBounded == Spec => []AttemptsBounded
<1>1. IInv => AttemptsBounded
  <2>. SUFFICES ASSUME IInv, NEW i \in 1 .. Len(setting.legs), NEW q \in Query, Unaided(i)
                PROVE  RealRuns(q, setting.legs[i]) + Timeouts(q, setting.legs[i])
                           <= AttemptBudget - 1 + Runs + late
    BY DEF AttemptsBounded
  <2>1. /\ Bounded(q, setting.legs[i], 0)
        /\ RealRuns(q, setting.legs[i]) \in Nat /\ Timeouts(q, setting.legs[i]) \in Nat
    BY CountFacts DEF IInv, Counted
  <2>. QED  BY <2>1 DEF Bounded
<1>. QED  BY <1>1, InvariantHolds, PTL

(* A leg that counts as done has something recorded of it, or ran into the attempt *)
(* ceiling: with the answers of the server itself (no --stream and no semantic    *)
(* cache) and a file to measure, perna() never marks a cell done in which nothing *)
(* was measured (the exit code of matrix(), run_matrix.py:280-302).               *)
THEOREM EmptyCellsAreNotDone == Spec => []EmptyCellNeverDone
<1>1. IInv => EmptyCellNeverDone
  BY DEF IInv, Measured, EmptyCellNeverDone, Faithful, Witnessed
<1>. QED  BY <1>1, InvariantHolds, PTL

-----------------------------------------------------------------------------
(* While there is no rule no member of the cluster was aided; afterwards enough *)
(* models had reached the technique without it.  A run left behind is one of the *)
(* chain's legs.                                                                  *)
OfTheChain == \A f \in abandoned : \E i \in 1 .. Len(setting.legs) : f.leg = setting.legs[i]
Independent ==
    /\ IsFiniteSet(store)
    /\ OfTheChain
    /\ OnlyItsOwnRule =>
           /\ rules = {} => \A r \in Members : ~r.guided
           /\ rules # {} => Cardinality(UnaidedModels) >= MinModels

-----------------------------------------------------------------------------
LEMMA RecordsAreFinite == ASSUME IsFiniteSet(store) PROVE IsFiniteSet(Recorded)
<1>. DEFINE f == [x \in store |-> x.record]
<1>1. f \in Surjection(store, Recorded)
  BY DEF Surjection, Recorded
<1>. QED  BY <1>1, FS_Surjection

LEMMA ModelsAreFinite ==
    ASSUME NEW S, IsFiniteSet(S)
    PROVE  IsFiniteSet(ModelsOf(S)) /\ Cardinality(ModelsOf(S)) \in Nat
<1>. DEFINE f == [r \in S |-> r.model]
<1>1. f \in Surjection(S, ModelsOf(S))
  BY DEF Surjection, ModelsOf
<1>2. IsFiniteSet(ModelsOf(S))
  BY <1>1, FS_Surjection
<1>. QED  BY <1>2, FS_CardinalityType

(* Records are only ever added, so a model that got there unaided did so for good. *)
LEMMA RecordKeeps ==
    ASSUME Independent, NEW rec, SaveRun(rec), rules' = rules, setting' = setting, OfTheChain',
           OnlyItsOwnRule /\ rules = {} => ~(rec.guided /\ InCluster(rec))
    PROVE  Independent'
<1>0. OnlyItsOwnRule' = OnlyItsOwnRule
  BY DEF OnlyItsOwnRule
<1>1. Recorded' = Recorded \cup {rec} /\ IsFiniteSet(store')
  BY OneMoreRecord DEF Independent
<1>2. IsFiniteSet(Recorded')
  BY <1>1, RecordsAreFinite, FS_AddElement DEF Independent
<1>3. ASSUME OnlyItsOwnRule, rules = {} PROVE \A r \in Members' : ~r.guided
  BY <1>1, <1>3 DEF Independent, Members, InCluster
<1>4. ASSUME OnlyItsOwnRule, rules # {} PROVE Cardinality(UnaidedModels') >= MinModels
  <2>. DEFINE before == {r \in Members : ~r.guided}
              after == {r \in Members' : ~r.guided}
  <2>1. before \subseteq after /\ after \subseteq Recorded'
    BY <1>1 DEF Members, InCluster
  <2>2. IsFiniteSet(after)
    BY <1>2, <2>1, FS_Subset
  <2>3. IsFiniteSet(ModelsOf(after)) /\ ModelsOf(before) \subseteq ModelsOf(after)
    BY <2>1, <2>2, ModelsAreFinite DEF ModelsOf
  <2>4. /\ Cardinality(ModelsOf(before)) <= Cardinality(ModelsOf(after))
        /\ Cardinality(ModelsOf(before)) \in Nat /\ Cardinality(ModelsOf(after)) \in Nat
    BY <2>3, FS_Subset, FS_CardinalityType
  <2>5. UnaidedModels = ModelsOf(before) /\ UnaidedModels' = ModelsOf(after)
    BY DEF UnaidedModels, ModelsOf
  <2>6. Cardinality(ModelsOf(before)) >= MinModels
    BY <1>4, <2>5 DEF Independent
  <2>. HIDE DEF before, after
  <2>. QED  BY <2>4, <2>5, <2>6, ThresholdsAssumption
<1>. QED  BY <1>0, <1>1, <1>3, <1>4 DEF Independent

(* While no member is aided, the models counted are the models that got there alone. *)
LEMMA UnaidedAreAll ==
    ASSUME \A r \in Members : ~r.guided
    PROVE  UnaidedModels = ModelsOf(Members)
  BY DEF UnaidedModels, ModelsOf

(* A technique that can be taught has two models. *)
LEMMA TeachableIsOfTwo ==
    ASSUME IsFiniteSet(store), Teachable
    PROVE  Cardinality(ModelsOf(Members)) \in Nat /\ Cardinality(ModelsOf(Members)) >= 2
<1>1. PICK a \in LandedModels : TRUE
  BY DEF Teachable
<1>2. PICK b \in Students : TRUE
  BY DEF Teachable
<1>3. a \in ModelsOf(Members) /\ b \in ModelsOf(Members) /\ a # b
  BY DEF LandedModels, Students, ModelsOf
<1>4. IsFiniteSet(Members)
  BY RecordsAreFinite, FS_Subset DEF Members
<1>5. IsFiniteSet(ModelsOf(Members))
  BY <1>4, ModelsAreFinite
<1>6. {a, b} \subseteq ModelsOf(Members) /\ IsFiniteSet({a, b}) /\ Cardinality({a, b}) = 2
  <2>1. IsFiniteSet({a}) /\ Cardinality({a}) = 1 /\ b \notin {a} /\ {a, b} = {a} \cup {b}
    BY <1>3, FS_Singleton
  <2>2. IsFiniteSet({a} \cup {b}) /\ Cardinality({a} \cup {b}) = 1 + 1
    BY <2>1, FS_AddElement
  <2>. QED  BY <1>3, <2>1, <2>2
<1>. QED  BY <1>5, <1>6, FS_Subset, FS_CardinalityType

LEMMA FeedKeeps == ASSUME Independent, MinModels <= 2, Feed PROVE Independent'
<1>1. /\ store' = store /\ abandoned' = abandoned /\ setting' = setting
      /\ rules \subseteq rules'
  BY DEF Feed, AutoFeed, WriteHints, FeedOther, chain, faults
<1>2. OfTheChain'
  BY <1>1 DEF Independent, OfTheChain
<1>3. UnaidedModels' = UnaidedModels /\ Members' = Members
  BY <1>1 DEF UnaidedModels, Members, Recorded
<1>4. CASE ~OnlyItsOwnRule'
  BY <1>1, <1>2, <1>4 DEF Independent
<1>5. CASE OnlyItsOwnRule'
  <2>1. OnlyItsOwnRule
    BY <1>1, <1>5 DEF OnlyItsOwnRule
  <2>2. Teachable /\ rules' # {}
    BY <1>5 DEF Feed, AutoFeed, WriteHints, FeedOther, OnlyItsOwnRule
  <2>3. CASE rules # {}
    BY <1>1, <1>2, <1>3, <2>1, <2>2, <2>3 DEF Independent
  <2>4. CASE rules = {}
    <3>1. UnaidedModels = ModelsOf(Members)
      BY <2>1, <2>4, UnaidedAreAll DEF Independent
    <3>2. Cardinality(ModelsOf(Members)) \in Nat /\ Cardinality(ModelsOf(Members)) >= 2
      BY <2>2, TeachableIsOfTwo DEF Independent
    <3>3. Cardinality(UnaidedModels') >= MinModels
      BY <1>3, <3>1, <3>2, ThresholdsAssumption
    <3>. QED  BY <1>1, <1>2, <2>2, <3>3 DEF Independent
  <2>. QED  BY <2>3, <2>4
<1>. QED  BY <1>4, <1>5

LEMMA IndependentStep ==
    ASSUME IInv, Independent, MinModels <= 2, [Next]_vars
    PROVE  Independent'
<1>1. ASSUME UNCHANGED <<store, rules, setting>>, OfTheChain' PROVE Independent'
  BY <1>1 DEF Independent, UnaidedModels, Members, Recorded, OnlyItsOwnRule
<1>2. ASSUME NEW q, NEW i \in 1 .. Len(setting.legs), NEW outcome, OfTheChain',
             SaveRun(ServerRecord(q, setting.legs[i], outcome)), UNCHANGED <<rules, setting>>
      PROVE  Independent'
  <2>1. OnlyItsOwnRule /\ rules = {} => ~Guided(setting.legs[i].guided, setting.legs[i].ruleset)
    BY DEF OnlyItsOwnRule, Guided
  <2>. QED  BY <1>2, <2>1, RecordKeeps DEF ServerRecord
<1>3. ASSUME abandoned' \subseteq abandoned, setting' = setting PROVE OfTheChain'
  BY <1>3 DEF Independent, OfTheChain
<1>4. ASSUME client.state = "waiting", Abandon, setting' = setting PROVE OfTheChain'
  <2>1. leg \in 1 .. Len(setting.legs)
    BY <1>4, WaitingFacts DEF IInv
  <2>2. \A f \in abandoned' : f \in abandoned \/ f.leg = setting.legs[leg]
    BY <1>4 DEF Abandon, InFlight, This
  <2>. QED  BY <1>4, <2>1, <2>2 DEF Independent, OfTheChain
<1>5. CASE ClientStep
  <2>1. CASE StartPass \/ ChooseFile \/ Post \/ EndPass \/ CacheAnswers \/ ServerFails
    BY <1>1, <1>3, <2>1
    DEF StartPass, ChooseFile, Post, EndPass, CacheAnswers, ServerFails, chain, faults
  <2>2. ASSUME NEW outcome \in Outcome, ServerAnswers(outcome) PROVE Independent'
    <3>1. leg \in 1 .. Len(setting.legs)
      BY <2>2, WaitingFacts DEF IInv, ServerAnswers
    <3>2. /\ SaveRun(ServerRecord(Current, setting.legs[leg], outcome))
          /\ UNCHANGED <<rules, setting>> /\ abandoned' = abandoned
      BY <2>2 DEF ServerAnswers, This, chain, faults
    <3>. QED  BY <1>2, <1>3, <3>1, <3>2
  <2>3. CASE ClientTimesOut
    <3>1. OfTheChain'
      BY <1>4, <2>3 DEF ClientTimesOut, chain
    <3>. QED  BY <2>3, <3>1, RecordKeeps DEF ClientTimesOut, InCluster, chain
  <2>. QED  BY <1>5, <2>1, <2>2, <2>3 DEF ClientStep
<1>6. CASE Interrupt
  <2>1. OfTheChain'
    BY <1>3, <1>4, <1>6 DEF Interrupt, chain
  <2>. QED  BY <1>1, <1>6, <2>1 DEF Interrupt, chain
<1>7. CASE Feed
  BY <1>7, FeedKeeps
<1>8. ASSUME NEW f \in abandoned, LateRunDies(f) PROVE Independent'
  BY <1>1, <1>3, <1>8 DEF LateRunDies, chain
<1>9. ASSUME NEW f \in abandoned, NEW outcome \in Outcome, LateSave(f, outcome)
      PROVE  Independent'
  <2>1. PICK i \in 1 .. Len(setting.legs) : f.leg = setting.legs[i]
    BY DEF Independent, OfTheChain
  <2>. QED  BY <1>2, <1>3, <1>9, <2>1 DEF LateSave, chain
<1>10. CASE UNCHANGED vars
  BY <1>1, <1>3, <1>10 DEF vars
<1>. QED  BY <1>5, <1>6, <1>7, <1>8, <1>9, <1>10 DEF Next

(* promotion.py:37 (b) "discovered independently", as far as it holds: while no
   rule of another technique and no other rule set is in a prompt, a technique
   that counts as convergent was reached by MinModels models with no rule in
   theirs, in every campaign, although heuristic_discoverer.py counts guided
   records too: its own rule only comes once two models had reached it, and
   MIN_MODELS is 2.  Without the restriction it does not hold. *)
THEOREM OwnRuleDoesNotConverge == MinModels <= 2 /\ Spec => []OwnRuleIsNoConvergence
<1>. SUFFICES ASSUME MinModels <= 2 PROVE Spec => []OwnRuleIsNoConvergence
  OBVIOUS
<1>1. Init => Independent
  <2>. SUFFICES ASSUME Init PROVE Independent
    OBVIOUS
  <2>1. store = {} /\ Recorded = {} /\ rules = {} /\ abandoned = {}
    BY DEF Init, StoreInit, Recorded
  <2>. QED  BY <2>1, FS_EmptySet DEF Independent, Members, OfTheChain
<1>2. IInv /\ Independent /\ [Next]_vars => Independent'
  BY IndependentStep
<1>3. Independent => OwnRuleIsNoConvergence
  <2>. SUFFICES ASSUME Independent, Convergent, OnlyItsOwnRule, rules = {}
                PROVE  Cardinality(UnaidedModels) >= MinModels
    BY DEF Independent, OwnRuleIsNoConvergence, ConvergenceIsUnaided
  <2>1. UnaidedModels = ModelsOf(Members)
    BY UnaidedAreAll DEF Independent
  <2>. QED  BY <2>1 DEF Convergent
<1>. QED  BY <1>1, <1>2, <1>3, InvariantHolds, PTL DEF Spec
=============================================================================
