------------------------------ MODULE Campaign -------------------------------
(***************************************************************************)
(* A measurement campaign: the chain of legs of scripts/campanhas/*.sh,    *)
(* whose perna() runs scripts/run_matrix.py --resume until it exits 0 or   *)
(* has failed MaxTries times, against the server, which saves a record of  *)
(* every run it completes.  The client gives up a request after --timeout; *)
(* the server does not notice and may save the run later.  Between legs    *)
(* the batch of auto_feed may turn what was recorded into a rule.          *)
(***************************************************************************)
EXTENDS Discovery, Sequences

CONSTANTS
    AttemptFactor,         \* RUN_ATTEMPT_FACTOR
    MaxTries,              \* failures perna() takes before it gives up
    Settings               \* the campaigns, and the faults each may meet

(* guided: APPLY_HEURISTICS; ruleset: LEARNED_RULES_FILE *)
Leg == [family : Family, variant : Variant, guided : BOOLEAN, writer : BOOLEAN,
        ruleset : BOOLEAN]
Setting == [legs : Seq(Leg),
            files : Seq(Query),   \* the query files of a pass, in order
            runs : Nat \ {0},     \* --runs
            stream : BOOLEAN,     \* --stream
            cache : BOOLEAN,      \* DISABLE_SEMANTIC_CACHE is not on
            outcomes : SUBSET (Outcome \ {"gaveUp"}),  \* bound: how its runs end
            others : BOOLEAN,     \* other techniques are fed too
            kills : Nat,          \* bound: times the client process is killed
            leaves : Nat]         \* bound: runs the client leaves behind

ASSUME CampaignAssumption ==
    /\ AttemptFactor \in Nat /\ MaxTries \in Nat \ {0}
    /\ \A s \in Settings : s \in Setting
    \* no two query files of the repository have the same text
    /\ \A s \in Settings : \A i, j \in DOMAIN s.files : s.files[i] = s.files[j] => i = j

VARIABLES
    setting,
    leg,                   \* the leg the chain is at
    tries,                 \* its failed passes
    ended,                 \* ended[i]: how leg i ended
    client,                \* the run_matrix process
    abandoned,             \* the runs the server still works on that nobody waits for
    kills, leaves,         \* how often the client was killed, and left a run behind
    late                   \* the runs saved after the client had left them
vars == <<store, rules, setting, leg, tries, ended, client, abandoned, kills, leaves, late>>
chain == <<setting, leg, tries, ended>>
faults == <<abandoned, kills, leaves, late>>

(* done and timedOut: what _done_counts found when the pass began; file: the *)
(* file it is at; todo: the runs left of it; ok, fail: whether any was.       *)
Count == [Query -> Nat]
Client == [state : {"none", "choose", "ready", "waiting"}, done : Count, timedOut : Count,
           file : Nat, todo : Nat, ok : BOOLEAN, fail : BOOLEAN]
NoClient == [state |-> "none", done |-> [q \in Query |-> 0], timedOut |-> [q \in Query |-> 0],
             file |-> 1, todo |-> 0, ok |-> FALSE, fail |-> FALSE]

(* number: which of the runs left behind it is *)
LeftBehind == [query : Query, leg : Leg, number : Nat]

ChainOK ==
    /\ setting \in Settings
    /\ leg \in 1 .. Len(setting.legs) + 1
    /\ tries \in 0 .. MaxTries - 1
    /\ ended \in [1 .. Len(setting.legs) -> {"not yet", "done", "given up"}]
FaultsOK ==
    /\ IsFiniteSet(abandoned) /\ abandoned \subseteq LeftBehind
    /\ kills \in 0 .. setting.kills /\ leaves \in 0 .. setting.leaves
    /\ late \in Nat /\ late + Cardinality(abandoned) <= leaves
TypeOK == StoreOK /\ ChainOK /\ client \in Client /\ FaultsOK

Init ==
    /\ StoreInit
    /\ setting \in Settings
    /\ leg = 1 /\ tries = 0
    /\ ended = [i \in 1 .. Len(setting.legs) |-> "not yet"]
    /\ client = NoClient
    /\ abandoned = {}
    /\ kills = 0 /\ leaves = 0 /\ late = 0

Over == leg > Len(setting.legs)
This == setting.legs[leg]
LabelOf(l) == [family |-> l.family, variant |-> l.variant]
Files == setting.files
Current == Files[client.file]

(* _done_counts: the records of this model and this arm; a timeout without a *)
(* writer, the server's own included, is no run.                             *)
Uncounted == {"deadline", "gaveUp"}
Of(q, l) ==
    {r \in Recorded : r.query = q /\ r.model = LabelOf(l) /\ r.guided = l.guided}
RealRuns(q, l) == Copies({r \in Of(q, l) : r.outcome \notin Uncounted})
Timeouts(q, l) == Copies({r \in Of(q, l) : r.outcome \in Uncounted})

(* perna() starts a pass. *)
StartPass ==
    /\ ~Over /\ client.state = "none" /\ tries < MaxTries
    /\ client' = [NoClient EXCEPT !.state = "choose",
                                  !.done = [q \in Query |-> RealRuns(q, This)],
                                  !.timedOut = [q \in Query |-> Timeouts(q, This)]]
    /\ UNCHANGED <<store, rules, chain, faults>>

(* max(runs + 1, int(runs * factor)) *)
Runs == setting.runs
AttemptBudget == IF Runs * AttemptFactor > Runs + 1 THEN Runs * AttemptFactor ELSE Runs + 1

(* The next file: skipped when it has its runs, capped at the attempt ceiling. *)
(* mutants: what is unfinished starts over; max(0, .) left out *)
RemainingAnew(q) == IF client.done[q] >= Runs THEN 0 ELSE Runs
RemainingUnclamped(q) == Runs - client.done[q]
Remaining(q) == IF client.done[q] >= Runs THEN 0 ELSE Runs - client.done[q]
(* mutant: timeouts are not attempts *)
CappedByRuns(q) == client.done[q] >= AttemptBudget
Capped(q) == client.done[q] + client.timedOut[q] >= AttemptBudget

ChooseFile ==
    /\ client.state = "choose" /\ client.file <= Len(Files)
    /\ client' = IF Remaining(Current) = 0 \/ Capped(Current)
                 THEN [client EXCEPT !.file = @ + 1]
                 ELSE [client EXCEPT !.state = "ready", !.todo = Remaining(Current)]
    /\ UNCHANGED <<store, rules, chain, faults>>

Post ==
    /\ client.state = "ready"
    /\ client' = IF client.todo = 0 THEN [client EXCEPT !.state = "choose", !.file = @ + 1]
                 ELSE [client EXCEPT !.state = "waiting"]
    /\ UNCHANGED <<store, rules, chain, faults>>

(* The attempt is over, one way or the other. *)
Answered == client' = [client EXCEPT !.state = "ready", !.todo = @ - 1, !.ok = TRUE]
Failed == client' = [client EXCEPT !.state = "ready", !.todo = @ - 1, !.fail = TRUE]

(* What a run of query q in leg l may be recorded as. *)
OutcomesOf(l) == IF l.writer THEN setting.outcomes ELSE setting.outcomes \ {"written"}
ServerRecord(q, l, outcome) ==
    [query |-> q, model |-> LabelOf(l), guided |-> Guided(l.guided, l.ruleset),
     outcome |-> outcome]

(* _build_result saves the run and the server answers. *)
ServerAnswers(outcome) ==
    /\ client.state = "waiting" /\ outcome \in OutcomesOf(This)
    /\ SaveRun(ServerRecord(Current, This, outcome))
    /\ Answered
    /\ UNCHANGED <<rules, chain, faults>>

(* A hit in the semantic cache has no outcome and no suggestion: no record.  *)
(* The cache outlives campaigns, and approvals without a gain are in it too: *)
(* it may have a rewrite of any query.                                       *)
CacheAnswers ==
    /\ client.state = "waiting" /\ setting.cache
    /\ Answered
    /\ UNCHANGED <<store, rules, chain, faults>>

(* The server is down, or the pipeline raises before it saves: HTTP 500, which *)
(* is a failure; a stream that began ends with an error event instead, and     *)
(* _run_stream returns {}.                                                     *)
ServerFails ==
    /\ client.state = "waiting"
    /\ Failed \/ (setting.stream /\ Answered)
    /\ UNCHANGED <<store, rules, chain, faults>>

(* The request exceeds --timeout: the client records it and goes on, and the  *)
(* server goes on too.                                                         *)
InFlight == [query |-> Current, leg |-> This, number |-> leaves]
Abandon == abandoned' = abandoned \cup {InFlight} /\ leaves' = leaves + 1
ClientTimesOut ==
    /\ client.state = "waiting" /\ leaves < setting.leaves
    /\ SaveRun([query |-> Current, model |-> LabelOf(This), guided |-> This.guided,
                outcome |-> "gaveUp"])
    /\ Failed
    /\ Abandon
    /\ UNCHANGED <<rules, chain, kills, late>>

LateSave(f, outcome) ==
    /\ f \in abandoned /\ outcome \in OutcomesOf(f.leg)
    /\ SaveRun(ServerRecord(f.query, f.leg, outcome))
    /\ abandoned' = abandoned \ {f}
    /\ late' = late + 1
    /\ UNCHANGED <<rules, chain, client, kills, leaves>>

(* The next leg restarts the server, or the late run raises. *)
LateRunDies(f) ==
    /\ f \in abandoned
    /\ abandoned' = abandoned \ {f}
    /\ UNCHANGED <<store, rules, chain, client, kills, leaves, late>>

(* The window closes and the client is killed; perna() does not count it. *)
Interrupt ==
    /\ client.state # "none" /\ kills < setting.kills
    /\ kills' = kills + 1
    /\ client' = NoClient
    /\ IF client.state = "waiting" THEN leaves < setting.leaves /\ Abandon
                                   ELSE UNCHANGED <<abandoned, leaves>>
    /\ UNCHANGED <<store, rules, chain, late>>

(* matrix() returns 2 when nothing answered and something failed. *)
(* mutant: it returned nothing, and the process always exited 0 *)
ExitCodeAlwaysZero == 0
ExitCode == IF ~client.ok /\ client.fail THEN 2 ELSE 0

EndLeg(how) ==
    /\ ended' = [ended EXCEPT ![leg] = how]
    /\ leg' = leg + 1 /\ tries' = 0

(* mutant: a failed pass is not counted *)
RetryFree == UNCHANGED <<tries, leg, ended>>
Retry == tries' = tries + 1 /\ UNCHANGED <<leg, ended>>

EndPass ==
    /\ client.state = "choose" /\ client.file > Len(Files)
    /\ client' = NoClient
    /\ IF ExitCode = 0 THEN EndLeg("done")
       ELSE IF tries + 1 = MaxTries THEN EndLeg("given up")
       ELSE Retry
    /\ UNCHANGED <<store, rules, setting, faults>>

(* scripts/run_auto_feed.py or discover_heuristics.py, at the end of a phase *)
Feed ==
    /\ client.state = "none"
    /\ \/ "own" \notin rules /\ (AutoFeed \/ WriteHints)
       \/ "other" \notin rules /\ setting.others /\ FeedOther
    /\ UNCHANGED <<chain, client, faults>>

ClientStep ==
    \/ StartPass \/ ChooseFile \/ Post \/ EndPass
    \/ \E outcome \in Outcome : ServerAnswers(outcome)
    \/ CacheAnswers \/ ServerFails \/ ClientTimesOut

Next ==
    \/ ClientStep \/ Interrupt \/ Feed
    \/ \E f \in abandoned :
           LateRunDies(f) \/ \E outcome \in Outcome : LateSave(f, outcome)

(* The client always goes on: an answer, an error or its own timeout. *)
Spec == Init /\ [][Next]_vars /\ WF_vars(ClientStep)

-----------------------------------------------------------------------------
(* Properties.                                                             *)

(* --resume measures a query Runs times and no more, but for the runs the      *)
(* client left behind and the server saved after it had counted (run_matrix saw *)
(* 8 records where 5 were asked for).  A guided leg without rules is out of     *)
(* this and the next: its records count in the other arm, which see README.     *)
Unaided(i) == ~setting.legs[i].guided /\ \A j \in 1 .. Len(setting.legs) :
                  LabelOf(setting.legs[j]) = LabelOf(setting.legs[i]) => j = i
RunsNotExceeded ==
    \A i \in 1 .. Len(setting.legs), q \in Query :
        Unaided(i) => RealRuns(q, setting.legs[i]) <= Runs + late

(* The ceiling keeps a query that never finishes from costing a leg all its    *)
(* time.  It is read when a pass reaches the file, so that a pass may exceed   *)
(* it by what it was about to do.                                              *)
AttemptsBounded ==
    \A i \in 1 .. Len(setting.legs), q \in Query :
        LET l == setting.legs[i] IN
        Unaided(i) => RealRuns(q, l) + Timeouts(q, l) <= AttemptBudget - 1 + Runs + late

(* run_matrix.py:280-302: a leg in which nothing was measured is not marked as  *)
(* done, unless the attempt ceiling ended it.  Not so under --stream, or with   *)
(* the semantic cache on: there the client counts answers nobody recorded; nor  *)
(* when --dirs and --only leave no file, which main() reports and exits 0 from. *)
Answer(r) == r.outcome # "gaveUp"
EmptyCellNeverDone ==
    (~setting.stream /\ ~setting.cache /\ Files # <<>>) =>
        \A i \in 1 .. Len(setting.legs) :
            ended[i] = "done" =>
                \E r \in Recorded :
                    /\ r.model = LabelOf(setting.legs[i])
                    /\ Answer(r) \/ Timeouts(r.query, setting.legs[i]) >= AttemptBudget

(* promotion.py:37 "(b) discovered independently by >= 2 of the 3 matrix         *)
(* models": when a cluster is convergent, MinModels models reached it unaided.  *)
(* Not so: discover_clusters counts guided records like any other.              *)
ConvergenceIsUnaided ==
    (IsCluster /\ Convergent) => Cardinality(UnaidedModels) >= MinModels

(* A technique's own rule does not make it look convergent (teaching needs a     *)
(* model that landed it and another that reached it, evaluate_teachable): as     *)
(* long as no rule of another technique and no other rule set is in a prompt.    *)
OnlyItsOwnRule ==
    "other" \notin rules /\ \A i \in 1 .. Len(setting.legs) : ~setting.legs[i].ruleset
OwnRuleIsNoConvergence == OnlyItsOwnRule => ConvergenceIsUnaided

(* promotion.py:37 "discovered independently by >= 2 of the 3 matrix models":   *)
(* a convergent technique was reached by MinModels different models.            *)
ConvergenceIsOfModels ==
    (IsCluster /\ Convergent) =>
        Cardinality({r.model.family : r \in Members}) >= MinModels

(* Every leg ends, done or given up, and with it the campaign. *)
CampaignEnds == <>Over
=============================================================================
