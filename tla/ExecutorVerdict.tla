-------------------------- MODULE ExecutorVerdict --------------------------
(***************************************************************************)
(* The verdict the executor node (pipeline/nodes/executor.py) draws from   *)
(* what the database returned for one pair (original query, candidate).    *)
(* Everything here is a pure function of two measures:                     *)
(*                                                                         *)
(*   o  what was seen of the original: its sample hash and its time;       *)
(*   c  what was seen of the candidate: its sample hash relative to the    *)
(*      original's, its time, the row count and plan relative to the       *)
(*      original's, the direction of the planner cost, what the smaller    *)
(*      verification instance said, and the structural proxy's finding.    *)
(*                                                                         *)
(* Hashes, plans, costs and row counts are abstracted to the comparison    *)
(* the executor makes of them.  Times stay numbers (milliseconds) because  *)
(* every gate is a threshold on them, and gains are in basis points (one   *)
(* hundredth of the percent that the code rounds to two decimals).         *)
(***************************************************************************)
EXTENDS Integers

CONSTANTS
    NoValue,            \* Python's None for a time or a gain
    ExplainBudgetMs,    \* EXPLAIN_ANALYZE_TIMEOUT_S, in ms: the original's floor
    FastBudgetMs,       \* OPTIMIZED_FAST_TIMEOUT_S, in ms
    VerifyInstance,     \* VERIFY_DB_URI is configured
    TimeoutSaysTimeout  \* the engine's timeout message holds the word "timeout"

ASSUME NoValueIsNotANumber == NoValue \notin Int
ASSUME BudgetsAreTimes == ExplainBudgetMs \in Nat \ {0} /\ FastBudgetMs \in Nat \ {0}
ASSUME FlagsAreBoolean == VerifyInstance \in BOOLEAN /\ TimeoutSaysTimeout \in BOOLEAN

Ms == Nat \cup {NoValue}

(* The memoised measure of the original query. *)
OriginalMeasure == [hash : {"ok", "timeout", "error"}, ms : Ms]

(* What the structural proxy reports: a finding the later marker words know, or *)
(* an OR-group that lost its parentheses, which none of them names.             *)
StructuralKind == {"structural", "precedence"}

(***************************************************************************)
(* The measure of a candidate.  hash is "same" or "diff" when the          *)
(* candidate's own sample was computed (the comparison only counts if the  *)
(* original's was too).  text classifies the engine's error message by the *)
(* marker words later code looks for.                                      *)
(***************************************************************************)
CandidateMeasure ==
    [hash : {"same", "diff", "timeout", "error"},
     text : {"plain", "undefined", "syntax"},
     ms : Ms,
     rows : {"same", "diff", "unknown"},
     plan : {"same", "other"},
     cost : {"up", "not_up"},
     unknownRefs : BOOLEAN,
     structural : SUBSET StructuralKind,
     sf1 : {"same", "diff", "none"},
     sf1Original : Ms,
     sf1Optimized : Ms]

ErrorKind ==
    {"no_output", "architect_timeout", "duplicate", "syntax", "deviated",
     "unknown_refs", "original_exec", "optimized_timeout", "optimized_plain",
     "optimized_undefined", "optimized_syntax", "integrity", "cost",
     "regression", "unverified"} \cup StructuralKind

ExecutionFailure ==
    {"optimized_timeout", "optimized_plain", "optimized_undefined", "optimized_syntax"}

-----------------------------------------------------------------------------
(* Timing helpers *)

RoundedDiv(n, d) == (2 * n + d) \div (2 * d)

(* Mutant: the operands of the subtraction swapped. *)
ImprovementSwapped(before, after) ==
    IF before = NoValue \/ after = NoValue THEN NoValue
    ELSE IF before = 0 THEN 0
    ELSE RoundedDiv((after - before) * 10000, before)

Improvement(before, after) ==
    IF before = NoValue \/ after = NoValue THEN NoValue
    ELSE IF before = 0 THEN 0
    ELSE RoundedDiv((before - after) * 10000, before)

(* Slower originals need a larger gain before it counts as more than noise. *)
MinImprovementThreshold(originalMs) ==
    IF originalMs = NoValue THEN 300
    ELSE IF originalMs > 10000 THEN 1000
    ELSE IF originalMs > 1000 THEN 500
    ELSE 300

-----------------------------------------------------------------------------
(* What the full-scale database established *)

OriginalTimedOut(o) == o.hash = "timeout"

CandidateTimedOut(c) == c.hash = "timeout"

Hashed(c) == c.hash \in {"same", "diff"}

(* A timed-out original is only explained (cost, no time). *)
OriginalMs(o) == IF OriginalTimedOut(o) THEN NoValue ELSE o.ms

(* The row counts come from the two EXPLAIN ANALYZE results. *)
RowCountsDiffer(o, c) ==
    c.rows = "diff" /\ c.ms # NoValue /\ OriginalMs(o) # NoValue

FullScaleIntegrity(o, c) ==
    IF RowCountsDiffer(o, c) THEN "diff"
    ELSE IF o.hash = "ok" /\ Hashed(c) THEN c.hash
    ELSE "none"

ExecutionError(c) ==
    CASE c.hash = "timeout" -> {"optimized_timeout"}
      [] c.hash = "error" /\ c.text = "plain" -> {"optimized_plain"}
      [] c.hash = "error" /\ c.text = "undefined" -> {"optimized_undefined"}
      [] c.hash = "error" /\ c.text = "syntax" -> {"optimized_syntax"}
      [] OTHER -> {}

ErrorsBeforeGates(o, c) ==
    ExecutionError(c) \cup
    {e \in ErrorKind : \/ e = "unknown_refs" /\ c.unknownRefs
                       \/ e = "original_exec" /\ o.hash = "error"
                       \/ e = "integrity" /\ FullScaleIntegrity(o, c) = "diff"}

(* The planner normalised the rewrite away: nothing to approve or reject. *)
PlanIdentical(o, c) == ErrorsBeforeGates(o, c) = {} /\ c.plan = "same"

FullScaleImprovement(o, c) == Improvement(OriginalMs(o), c.ms)

(* Mutant: bug #16b of fixed_bugs.md, one timeout floor measured against another. *)
LowerBoundFloorAgainstFloor(o, c) ==
    IF /\ OriginalTimedOut(o) /\ ~CandidateTimedOut(c)
       /\ FullScaleIntegrity(o, c) # "diff"
       /\ c.ms # NoValue /\ c.ms < ExplainBudgetMs
    THEN RoundedDiv((ExplainBudgetMs - c.ms) * 10000, ExplainBudgetMs)
    ELSE NoValue

(* A gain against the original's timeout floor, only from a candidate that completed. *)
LowerBound(o, c) ==
    IF /\ OriginalTimedOut(o) /\ ~CandidateTimedOut(c)
       /\ FullScaleIntegrity(o, c) # "diff"
       /\ c.ms # NoValue /\ c.ms < FastBudgetMs - 500 /\ c.ms < ExplainBudgetMs
    THEN RoundedDiv((ExplainBudgetMs - c.ms) * 10000, ExplainBudgetMs)
    ELSE NoValue

(* The gain known when the cost gate runs. *)
GainAtCostGate(o, c) ==
    IF FullScaleImprovement(o, c) # NoValue THEN FullScaleImprovement(o, c)
    ELSE LowerBound(o, c)

(* Mutant: bugs #7/#8, the gate runs before the lower bound is known. *)
CostVetoBeforeLowerBound(o, c) ==
    /\ c.cost = "up"
    /\ FullScaleImprovement(o, c) = NoValue \/ FullScaleImprovement(o, c) <= 0

CostVeto(o, c) ==
    /\ c.cost = "up"
    /\ GainAtCostGate(o, c) = NoValue \/ GainAtCostGate(o, c) <= 0

Regression(o, c) ==
    /\ FullScaleImprovement(o, c) # NoValue
    /\ FullScaleImprovement(o, c) < -10

-----------------------------------------------------------------------------
(* What the smaller verification instance adds *)

(* Mutant: the retired scale_divergence path, bug #17. *)
AdjudicatedOverFullScale(o, c) ==
    VerifyInstance /\ FullScaleIntegrity(o, c) # "same" /\ (Hashed(c) \/ CandidateTimedOut(c))

(* It adjudicates equivalence only where full scale gave no verdict. *)
Adjudicated(o, c) ==
    /\ VerifyInstance
    /\ FullScaleIntegrity(o, c) = "none"
    /\ OriginalTimedOut(o) \/ CandidateTimedOut(c)
    /\ Hashed(c) \/ CandidateTimedOut(c)

Integrity(o, c) ==
    IF Adjudicated(o, c) THEN c.sf1 ELSE FullScaleIntegrity(o, c)

(* Gain measured on the verification instance when full scale has none to offer. *)
VerifyImprovement(o, c) ==
    IF VerifyInstance /\ Integrity(o, c) = "same" /\ GainAtCostGate(o, c) = NoValue
    THEN Improvement(c.sf1Original, c.sf1Optimized)
    ELSE NoValue

MeasuredImprovement(o, c) ==
    IF VerifyImprovement(o, c) # NoValue THEN VerifyImprovement(o, c)
    ELSE FullScaleImprovement(o, c)

TimedOriginalMs(o, c) ==
    IF VerifyImprovement(o, c) # NoValue THEN c.sf1Original ELSE OriginalMs(o)

(* Mutant: the check asked of the rewrites that could not be hashed. *)
UnverifiedIfUnhashed(o, c) ==
    Integrity(o, c) = "none" /\ ~Hashed(c) /\ OriginalTimedOut(o)

Unverified(o, c) ==
    Integrity(o, c) = "none" /\ Hashed(c) /\ OriginalTimedOut(o)

-----------------------------------------------------------------------------
(* The verdict *)

(* A match on the verification instance withdraws the candidate's own execution error. *)
Errors(o, c) ==
    (IF Adjudicated(o, c) /\ c.sf1 = "same"
     THEN ErrorsBeforeGates(o, c) \ ExecutionFailure
     ELSE ErrorsBeforeGates(o, c))
    \cup {e \in ErrorKind : \/ e = "cost" /\ CostVeto(o, c)
                            \/ e = "regression" /\ Regression(o, c)
                            \/ e = "integrity" /\ Integrity(o, c) = "diff"
                            \/ e = "unverified" /\ Unverified(o, c)}

Approved(o, c) == Errors(o, c) = {}

(* The structural proxy advises: it joins the errors of a rejected attempt only. *)
ReflectionErrors(o, c) ==
    IF Approved(o, c) THEN {}
    ELSE Errors(o, c) \cup c.structural

(* Deterministic failures enter the loop detection; timing regressions do not. *)
Remembered(o, c) ==
    /\ ~Approved(o, c)
    /\ \/ CandidateTimedOut(c)
       \/ ReflectionErrors(o, c) \cap {"optimized_syntax", "structural"} # {}

LowImprovement(o, c) ==
    /\ Approved(o, c)
    /\ MeasuredImprovement(o, c) # NoValue
    /\ MeasuredImprovement(o, c) < MinImprovementThreshold(TimedOriginalMs(o, c))

(* The lower bound is withdrawn once the rewrite is known to be wrong. *)
Gain(o, c) ==
    IF MeasuredImprovement(o, c) # NoValue THEN MeasuredImprovement(o, c)
    ELSE IF Integrity(o, c) = "diff" THEN NoValue
    ELSE LowerBound(o, c)

GainEvidence(o, c) == Gain(o, c) # NoValue

(* Written to the semantic cache. *)
Stored(o, c) ==
    Approved(o, c) /\ ~LowImprovement(o, c) /\ ~Unverified(o, c)

(* Mutant: a measured gain lands even inside the noise. *)
LandsWithoutThreshold(o, c) == Approved(o, c) /\ GainEvidence(o, c)

(* Eligible to be the best result of the request. *)
Lands(o, c) ==
    Approved(o, c) /\ GainEvidence(o, c) /\ ~LowImprovement(o, c)

(* A class of failure a code model may repair (is_mechanical_failure).  MySQL's *)
(* message for a timeout does not hold the word, PostgreSQL's does.             *)
MechanicalFailure(errors) ==
    /\ TimeoutSaysTimeout => "optimized_timeout" \notin errors
    /\ "architect_timeout" \notin errors
    /\ errors \cap {"syntax", "unknown_refs", "structural", "optimized_undefined",
                    "optimized_syntax"} # {}
=============================================================================
