----------------------- MODULE ExecutorVerdict_proofs -----------------------
(***************************************************************************)
(* Facts about the executor's verdict for every measure, whatever the      *)
(* budgets and whether or not a verification instance is configured.       *)
(***************************************************************************)
EXTENDS ExecutorVerdict, TLAPS

(* The executor reports only errors of the known kinds (executor.py:195-719). *)
LEMMA ErrorsAreKinds ==
    ASSUME NEW o, NEW c \in CandidateMeasure
    PROVE  Errors(o, c) \subseteq ErrorKind /\ ReflectionErrors(o, c) \subseteq ErrorKind
<1>1. ExecutionError(c) \subseteq ErrorKind
  BY DEF ExecutionError, ErrorKind
<1>2. ErrorsBeforeGates(o, c) \subseteq ErrorKind
  BY <1>1 DEF ErrorsBeforeGates
<1>3. Errors(o, c) \subseteq ErrorKind
  BY <1>2 DEF Errors
<1>. QED  BY <1>3 DEF ReflectionErrors, ErrorKind, CandidateMeasure, StructuralKind

(* A candidate that failed to run carries an execution error of its own. *)
LEMMA FailureIsAnError ==
    ASSUME NEW o \in OriginalMeasure, NEW c \in CandidateMeasure,
           c.hash \in {"timeout", "error"}
    PROVE  ErrorsBeforeGates(o, c) \cap ExecutionFailure # {}
<1>1. c.text \in {"plain", "undefined", "syntax"}
  BY DEF CandidateMeasure
<1>2. ExecutionError(c) \cap ExecutionFailure # {}
  BY <1>1 DEF ExecutionError, ExecutionFailure
<1>. QED  BY <1>2 DEF ErrorsBeforeGates

(* The row counts or the hashes establish a difference at full scale only as an error. *)
LEMMA DifferenceIsAnError ==
    ASSUME NEW o, NEW c, Integrity(o, c) = "diff" \/ FullScaleIntegrity(o, c) = "diff"
    PROVE  "integrity" \in Errors(o, c)
<1>1. "integrity" \in ErrorKind /\ "integrity" \notin ExecutionFailure
  BY DEF ErrorKind, ExecutionFailure
<1>2. FullScaleIntegrity(o, c) = "diff" => "integrity" \in ErrorsBeforeGates(o, c)
  BY <1>1 DEF ErrorsBeforeGates
<1>. QED  BY <1>1, <1>2 DEF Errors

(* Equivalence is mandatory: an approved rewrite returned the original's rows, at full
   scale or on the verification instance (executor.py:601-616). *)
THEOREM ApprovedMeansEquivalent ==
    ASSUME NEW o \in OriginalMeasure, NEW c \in CandidateMeasure, Approved(o, c)
    PROVE  Integrity(o, c) = "same"
<1>1. Errors(o, c) = {}
  BY DEF Approved
<1>2. /\ o.hash \in {"ok", "timeout", "error"}
      /\ c.hash \in {"same", "diff", "timeout", "error"}
      /\ c.sf1 \in {"same", "diff", "none"}
  BY DEF OriginalMeasure, CandidateMeasure
<1>3. Integrity(o, c) # "diff" /\ FullScaleIntegrity(o, c) # "diff"
  BY <1>1, DifferenceIsAnError
<1>4. o.hash # "error"
  <2>1. o.hash = "error" => "original_exec" \in ErrorsBeforeGates(o, c)
    BY DEF ErrorsBeforeGates, ErrorKind
  <2>. QED  BY <1>1, <2>1 DEF Errors, ExecutionFailure
<1>5. ~Unverified(o, c)
  BY <1>1 DEF Errors, ErrorKind
<1>6. CASE Adjudicated(o, c)
  <2>1. Integrity(o, c) = c.sf1
    BY <1>6 DEF Integrity
  <2>2. c.sf1 = "none" => Hashed(c)
    <3>1. c.sf1 = "none" => ErrorsBeforeGates(o, c) = {}
      BY <1>1 DEF Errors
    <3>2. ErrorsBeforeGates(o, c) = {} => c.hash \notin {"timeout", "error"}
      BY FailureIsAnError
    <3>. QED  BY <1>2, <3>1, <3>2 DEF Hashed
  <2>3. c.sf1 # "none"
    <3>1. ASSUME c.sf1 = "none" PROVE FALSE
      <4>1. OriginalTimedOut(o)
        BY <2>2, <3>1, <1>6 DEF Adjudicated, Hashed, CandidateTimedOut
      <4>. QED  BY <4>1, <2>1, <2>2, <3>1, <1>5 DEF Unverified
    <3>. QED  BY <3>1
  <2>. QED  BY <1>2, <1>3, <2>1, <2>3
<1>7. CASE ~Adjudicated(o, c)
  <2>1. Integrity(o, c) = FullScaleIntegrity(o, c)
    BY <1>7 DEF Integrity
  <2>2. ErrorsBeforeGates(o, c) = {}
    BY <1>1, <1>7 DEF Errors
  <2>3. Hashed(c)
    BY <1>2, <2>2, FailureIsAnError DEF Hashed
  <2>4. FullScaleIntegrity(o, c) \in {"same", "diff", "none"}
    BY <2>3 DEF FullScaleIntegrity, Hashed
  <2>5. FullScaleIntegrity(o, c) # "none"
    BY <2>1, <2>3, <1>2, <1>4, <1>5
       DEF Unverified, OriginalTimedOut, FullScaleIntegrity, Hashed
  <2>. QED  BY <2>1, <2>4, <2>5, <1>3
<1>. QED  BY <1>6, <1>7

(* A difference seen at full scale is final: the verification instance is not asked,
   and the rewrite is neither approved nor taken for a plan identity
   (executor.py:520-535, bug #17). *)
THEOREM FullScaleDifferenceIsFinal ==
    ASSUME NEW o, NEW c, FullScaleIntegrity(o, c) = "diff"
    PROVE  /\ Integrity(o, c) = "diff"
           /\ ~Approved(o, c) /\ ~PlanIdentical(o, c) /\ ~Lands(o, c) /\ ~Stored(o, c)
<1>1. ~Adjudicated(o, c)
  BY DEF Adjudicated
<1>2. "integrity" \in Errors(o, c)
  BY DifferenceIsAnError
<1>3. "integrity" \in ErrorsBeforeGates(o, c)
  BY DEF ErrorsBeforeGates, ErrorKind
<1>. QED  BY <1>1, <1>2, <1>3 DEF Integrity, Approved, PlanIdentical, Lands, Stored

(* A rewrite that lands asks for no further attempt: its feedback to the loop is no
   error and no hint (executor.py:669-717). *)
LEMMA LandsAsksNothing ==
    ASSUME NEW o, NEW c, Lands(o, c)
    PROVE  /\ Approved(o, c) /\ ReflectionErrors(o, c) = {}
           /\ GainEvidence(o, c) /\ ~LowImprovement(o, c)
  BY DEF Lands, ReflectionErrors
=============================================================================
