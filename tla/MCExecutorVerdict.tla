------------------------- MODULE MCExecutorVerdict -------------------------
(***************************************************************************)
(* The verdict of ExecutorVerdict over every combination of what the       *)
(* database can return at the interesting times.  A behaviour measures one *)
(* pair; a step measures the same pair again and gets another time.        *)
(***************************************************************************)
EXTENDS ExecutorVerdict

VARIABLES original, candidate

vars == <<original, candidate>>

OriginalTimes == {NoValue, 600, 5000, 20000}

(* On both sides of the three noise thresholds and of the two budgets. *)
CandidateTimes == {NoValue, 570, 590, 4700, 4800, 17000, 19000, 29400, 30000}

VerifyTimes == {<<NoValue, NoValue>>, <<1000, 1000>>, <<1000, 500>>}

Originals == {o \in [hash : {"ok", "timeout", "error"}, ms : OriginalTimes] :
                 o.hash # "ok" => o.ms = NoValue}

(* What one connection returns hangs together: a failed explain has no plan, *)
(* cost or rows, and one plan has one cost.                                  *)
Coherent(c) ==
    /\ c.hash # "error" => c.text = "plain"
    /\ c.hash = "error" => c.ms = NoValue
    /\ c.ms = NoValue => c.rows = "unknown" /\ c.plan = "other" /\ c.cost = "not_up"
    /\ c.plan = "same" => c.rows # "diff" /\ c.cost = "not_up"

(* The same candidate, with the verification instance's answer v and its times t. *)
WithVerify(c, v, t) ==
    [hash |-> c.hash, text |-> c.text, ms |-> c.ms, rows |-> c.rows, plan |-> c.plan,
     cost |-> c.cost, unknownRefs |-> c.unknownRefs, structural |-> c.structural,
     sf1 |-> v, sf1Original |-> t[1], sf1Optimized |-> t[2]]

FullScale ==
    {c \in [hash : {"same", "diff", "timeout", "error"},
            text : {"plain", "undefined", "syntax"},
            ms : CandidateTimes, rows : {"same", "diff", "unknown"},
            plan : {"same", "other"}, cost : {"up", "not_up"},
            unknownRefs : BOOLEAN,
            structural : {{}, {"structural"}, {"precedence"}}] : Coherent(c)}

Init ==
    /\ original \in Originals
    /\ candidate \in {WithVerify(c, v, t) : c \in FullScale,
                                           v \in {"same", "diff", "none"}, t \in VerifyTimes}

(* Timing is the one thing that changes when the same SQL is measured again. *)
Remeasure ==
    \E ms \in CandidateTimes :
        /\ candidate' = [candidate EXCEPT !.ms = ms]
        /\ Coherent(candidate')
        /\ UNCHANGED original

Next == Remeasure

Spec == Init /\ [][Next]_vars

-----------------------------------------------------------------------------
(* Every approval that is not a plan identity rests on an equality of result
   sets, at full scale or on the verification instance (executor.py:601-607,
   "Equivalence (S=1) is MANDATORY"), whatever timed out, failed or was flagged
   on the way. *)
ApprovedIsEquivalent ==
    /\ Approved(original, candidate) => Integrity(original, candidate) = "same"
    /\ Stored(original, candidate) => Integrity(original, candidate) = "same"

(* A difference established at full scale, by hash or by row count, is final:
   the verification instance cannot overturn it and nothing approves the rewrite
   (executor.py:520-528, bug #17). *)
FullScaleVerdictStands ==
    FullScaleIntegrity(original, candidate) = "diff" =>
        /\ Integrity(original, candidate) = "diff"
        /\ ~Approved(original, candidate)
        /\ ~PlanIdentical(original, candidate)

(* A land was faster than the original at some scale: both completed there and
   the rewrite took less time, or the original hit its budget and the rewrite
   finished inside its own (executor.py:450-470 and 683-692, bugs #16 and #16b). *)
LandsWereFaster ==
    Lands(original, candidate) =>
        \/ /\ original.ms # NoValue /\ candidate.ms # NoValue
           /\ candidate.ms < original.ms
        \/ /\ original.hash = "timeout" /\ candidate.hash \in {"same", "diff"}
           /\ candidate.ms # NoValue /\ candidate.ms < FastBudgetMs
        \/ /\ candidate.sf1Original # NoValue /\ candidate.sf1Optimized # NoValue
           /\ candidate.sf1Optimized < candidate.sf1Original

(* When the original cannot finish, a rewrite that is verified and finishes well
   inside its budget lands, however much more the planner thinks it costs and
   whatever the structural proxy says (executor.py:440-447, bugs #6, #7 and #8). *)
FastRewriteLands ==
    /\ original.hash = "timeout"
    /\ candidate.hash \in {"same", "diff"} /\ candidate.sf1 = "same"
    /\ candidate.ms # NoValue /\ candidate.ms + 1000 < FastBudgetMs
    /\ ~candidate.unknownRefs
    => Lands(original, candidate) \/ PlanIdentical(original, candidate)

(* Measuring the same candidate again and finding it faster never costs it its
   land: no gate, threshold or fallback between the two scales is passed by the
   slower of two completed measurements only (executor.py:440-564 and 683-698). *)
FasterNeverWorse ==
    [][ /\ candidate.ms # NoValue /\ candidate'.ms # NoValue
        /\ candidate'.ms < candidate.ms
        /\ Lands(original, candidate)
        => Lands(original', candidate') ]_vars
=============================================================================
