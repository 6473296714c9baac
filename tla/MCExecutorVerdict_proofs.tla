---------------------- MODULE MCExecutorVerdict_proofs ----------------------
(***************************************************************************)
(* The state properties of the verdict for every pair of measures, not     *)
(* only the times and records of the instance.                             *)
(***************************************************************************)
EXTENDS MCExecutorVerdict, ExecutorVerdict_proofs

(* A rounded quotient of at least one hundredth of a percent has a dividend
   of at least half the divisor. *)
LEMMA QuotientPositive ==
    ASSUME NEW n \in Int, NEW d \in Nat \ {0}
    PROVE  /\ RoundedDiv(n, d) \in Int
           /\ RoundedDiv(n, d) >= 1 <=> 2 * n >= d
<1>. DEFINE a == 2 * n + d
            b == 2 * d
            q == a \div b
<1>1. a \in Int /\ b \in Nat \ {0}
  OBVIOUS
<1>2. q \in Int /\ b * q <= a /\ a < b * (q + 1)
  <2>. HIDE DEF a, b
  <2>. QED  BY <1>1 DEF q
<1>3. q >= 1 <=> a >= b
  <2>. HIDE DEF a, b, q
  <2>1. q >= 1 => b * q >= b
    BY <1>1, <1>2
  <2>2. q <= 0 => b * (q + 1) <= b
    BY <1>1, <1>2
  <2>. QED  BY <1>1, <1>2, <2>1, <2>2
<1>. QED  BY <1>2, <1>3 DEF RoundedDiv

(* A gain above a noise threshold means both runs completed and the second was faster. *)
LEMMA GainIsFaster ==
    ASSUME NEW before \in Ms, NEW after \in Ms,
           Improvement(before, after) # NoValue, Improvement(before, after) >= 1
    PROVE  before # NoValue /\ after # NoValue /\ after < before
<1>1. before \in Nat /\ after \in Nat
  BY DEF Improvement, Ms
<1>2. before # NoValue /\ after # NoValue
  BY <1>1, NoValueIsNotANumber
<1>3. before # 0 /\ RoundedDiv((before - after) * 10000, before) >= 1
  BY <1>2 DEF Improvement
<1>4. 2 * ((before - after) * 10000) >= before
  BY <1>1, <1>3, QuotientPositive
<1>. QED  BY <1>1, <1>2, <1>3, <1>4

(* What two readings of a clock give is no gain, or a number. *)
LEMMA ImprovementIsANumber ==
    ASSUME NEW before \in Ms, NEW after \in Ms
    PROVE  Improvement(before, after) \in Int \cup {NoValue}
<1>1. CASE before = NoValue \/ after = NoValue
  BY <1>1 DEF Improvement
<1>2. CASE before # NoValue /\ after # NoValue
  <2>1. before \in Nat /\ after \in Nat
    BY <1>2 DEF Ms
  <2>2. before # 0 => RoundedDiv((before - after) * 10000, before) \in Int
    BY <2>1, QuotientPositive
  <2>. QED  BY <1>2, <2>1, <2>2 DEF Improvement
<1>. QED  BY <1>1, <1>2

-----------------------------------------------------------------------------
(* Whatever the database returned of the two, an approved or a stored rewrite
   returned the original's rows (executor.py:601-616). *)
THEOREM ApprovalsAreEquivalent ==
    ASSUME original \in OriginalMeasure, candidate \in CandidateMeasure
    PROVE  ApprovedIsEquivalent
<1>1. Approved(original, candidate) => Integrity(original, candidate) = "same"
  BY ApprovedMeansEquivalent
<1>. QED  BY <1>1 DEF ApprovedIsEquivalent, Stored

(* Whatever the database returned, a difference at full scale stands
   (executor.py:520-535). *)
THEOREM FullScaleStands == FullScaleVerdictStands
  BY FullScaleDifferenceIsFinal DEF FullScaleVerdictStands

(* Whatever the times, a land was faster at some scale: the threshold of the noise is
   above zero, and a lower bound on the gain is only given to a candidate that
   completed inside the fast budget (executor.py:450-470 and 683-692). *)
THEOREM LandsAreFaster ==
    ASSUME original \in OriginalMeasure, candidate \in CandidateMeasure
    PROVE  LandsWereFaster
<1>. SUFFICES ASSUME Lands(original, candidate)
              PROVE  \/ /\ original.ms # NoValue /\ candidate.ms # NoValue
                        /\ candidate.ms < original.ms
                     \/ /\ original.hash = "timeout" /\ candidate.hash \in {"same", "diff"}
                        /\ candidate.ms # NoValue /\ candidate.ms < FastBudgetMs
                     \/ /\ candidate.sf1Original # NoValue /\ candidate.sf1Optimized # NoValue
                        /\ candidate.sf1Optimized < candidate.sf1Original
  BY DEF LandsWereFaster
<1>. DEFINE o == original
            c == candidate
            m == MeasuredImprovement(o, c)
<1>1. /\ OriginalMs(o) \in Ms /\ o.ms \in Ms /\ c.ms \in Ms
      /\ c.sf1Original \in Ms /\ c.sf1Optimized \in Ms
      /\ c.hash \in {"same", "diff", "timeout", "error"}
  BY DEF OriginalMeasure, CandidateMeasure, OriginalMs, Ms
<1>2. m # NoValue => m >= MinImprovementThreshold(TimedOriginalMs(o, c))
  <2>1. m \in Int \cup {NoValue}
    BY <1>1, ImprovementIsANumber
       DEF MeasuredImprovement, VerifyImprovement, FullScaleImprovement
  <2>2. MinImprovementThreshold(TimedOriginalMs(o, c)) \in Int
    BY DEF MinImprovementThreshold
  <2>. QED  BY <2>1, <2>2 DEF Lands, LowImprovement
<1>3. m # NoValue => m >= 1
  <2>1. m \in Int \cup {NoValue}
    BY <1>1, ImprovementIsANumber
       DEF MeasuredImprovement, VerifyImprovement, FullScaleImprovement
  <2>2. MinImprovementThreshold(TimedOriginalMs(o, c)) \in {300, 500, 1000}
    BY DEF MinImprovementThreshold
  <2>. QED  BY <1>2, <2>1, <2>2
<1>4. CASE VerifyImprovement(o, c) # NoValue
  <2>1. m = Improvement(c.sf1Original, c.sf1Optimized)
    BY <1>4 DEF MeasuredImprovement, VerifyImprovement
  <2>. QED  BY <1>1, <1>3, <1>4, <2>1, GainIsFaster DEF MeasuredImprovement
<1>5. CASE VerifyImprovement(o, c) = NoValue /\ m # NoValue
  <2>1. m = Improvement(OriginalMs(o), c.ms)
    BY <1>5 DEF MeasuredImprovement, FullScaleImprovement
  <2>2. OriginalMs(o) # NoValue /\ c.ms # NoValue /\ c.ms < OriginalMs(o)
    BY <1>1, <1>3, <1>5, <2>1, GainIsFaster
  <2>. QED  BY <2>2 DEF OriginalMs
<1>6. CASE m = NoValue
  <2>1. LowerBound(o, c) # NoValue
    BY <1>6 DEF Lands, GainEvidence, Gain
  <2>2. /\ OriginalTimedOut(o) /\ ~CandidateTimedOut(c)
        /\ c.ms # NoValue /\ c.ms < FastBudgetMs - 500
    BY <2>1 DEF LowerBound
  <2>3. c.ms < FastBudgetMs
    BY <1>1, <2>2, BudgetsAreTimes DEF Ms
  <2>4. c.hash # "error"
    <3>1. c.hash = "error" => ErrorsBeforeGates(o, c) \cap ExecutionFailure # {}
      BY FailureIsAnError
    <3>2. c.hash = "error" => ~Adjudicated(o, c)
      BY DEF Adjudicated, Hashed, CandidateTimedOut
    <3>3. Errors(o, c) = {}
      BY DEF Lands, Approved
    <3>. QED  BY <3>1, <3>2, <3>3 DEF Errors
  <2>. QED  BY <1>1, <2>2, <2>3, <2>4 DEF OriginalTimedOut, CandidateTimedOut
<1>. QED  BY <1>4, <1>5, <1>6

(* The budgets as they are set: the fast one within the floor, and the floor below the
   five hours above which the gain against it would round to zero (executor.py:450-470). *)
BudgetsInOrder ==
    /\ FastBudgetMs <= ExplainBudgetMs
    /\ ExplainBudgetMs <= 20000000

(* With budgets in that order a rewrite that is verified and finishes a second inside its
   budget lands against an original that does not finish: the bound on its gain is known
   before the cost gate asks for it (executor.py:440-447). *)
THEOREM FastRewritesLand ==
    ASSUME original \in OriginalMeasure, candidate \in CandidateMeasure,
           VerifyInstance, BudgetsInOrder
    PROVE  FastRewriteLands
<1>. DEFINE o == original
            c == candidate
<1>. SUFFICES ASSUME o.hash = "timeout", c.hash \in {"same", "diff"}, c.sf1 = "same",
                     c.ms # NoValue, c.ms + 1000 < FastBudgetMs, ~c.unknownRefs
              PROVE  Lands(o, c)
  BY DEF FastRewriteLands
<1>1. c.ms \in Nat
  BY DEF CandidateMeasure, Ms
<1>2. OriginalTimedOut(o) /\ OriginalMs(o) = NoValue /\ FullScaleIntegrity(o, c) = "none"
  BY DEF OriginalTimedOut, OriginalMs, FullScaleIntegrity, RowCountsDiffer
<1>3. Adjudicated(o, c) /\ Integrity(o, c) = "same"
  BY <1>2 DEF Adjudicated, Integrity, Hashed
<1>4. LowerBound(o, c) = RoundedDiv((ExplainBudgetMs - c.ms) * 10000, ExplainBudgetMs)
  BY <1>1, <1>2, BudgetsAreTimes DEF LowerBound, CandidateTimedOut, BudgetsInOrder
<1>5. LowerBound(o, c) \in Int /\ LowerBound(o, c) >= 1
  <2>. DEFINE n == (ExplainBudgetMs - c.ms) * 10000
  <2>1. n \in Int /\ 2 * n >= ExplainBudgetMs
    BY <1>1, BudgetsAreTimes DEF BudgetsInOrder
  <2>. HIDE DEF n
  <2>2. RoundedDiv(n, ExplainBudgetMs) \in Int /\ RoundedDiv(n, ExplainBudgetMs) >= 1
    BY <2>1, BudgetsAreTimes, QuotientPositive
  <2>. QED  BY <1>4, <2>2 DEF n
<1>6. LowerBound(o, c) # NoValue
  BY <1>5, NoValueIsNotANumber
<1>7. FullScaleImprovement(o, c) = NoValue
  BY <1>2 DEF FullScaleImprovement, Improvement
<1>8. MeasuredImprovement(o, c) = NoValue
  BY <1>6, <1>7 DEF MeasuredImprovement, VerifyImprovement, GainAtCostGate
<1>9. Errors(o, c) = {}
  <2>1. ErrorsBeforeGates(o, c) \ ExecutionFailure = {}
    <3>1. ExecutionError(c) = {}
      BY DEF ExecutionError
    <3>. QED  BY <1>2, <3>1 DEF ErrorsBeforeGates
  <2>2. ~CostVeto(o, c)
    BY <1>5, <1>6, <1>7 DEF CostVeto, GainAtCostGate
  <2>3. ~Regression(o, c) /\ ~Unverified(o, c)
    BY <1>3, <1>7 DEF Regression, Unverified
  <2>. QED  BY <1>3, <2>1, <2>2, <2>3 DEF Errors
<1>. QED  BY <1>3, <1>6, <1>8, <1>9 DEF Lands, Approved, GainEvidence, Gain, LowImprovement

-----------------------------------------------------------------------------
(* A larger dividend does not give a smaller rounded quotient. *)
LEMMA QuotientGrows ==
    ASSUME NEW m \in Int, NEW n \in Int, m <= n, NEW d \in Nat \ {0}
    PROVE  RoundedDiv(m, d) <= RoundedDiv(n, d)
<1>. DEFINE a == 2 * m + d
            z == 2 * n + d
            b == 2 * d
            p == a \div b
            q == z \div b
<1>1. a \in Int /\ z \in Int /\ a <= z /\ b \in Nat \ {0}
  OBVIOUS
<1>2. p \in Int /\ b * p <= a /\ q \in Int /\ z < b * (q + 1)
  <2>. HIDE DEF a, z, b
  <2>. QED  BY <1>1 DEF p, q
<1>3. p <= q
  <2>. HIDE DEF a, z, b, p, q
  <2>1. b * p < b * (q + 1)
    BY <1>1, <1>2
  <2>2. p >= q + 1 => b * p >= b * (q + 1)
    BY <1>1, <1>2
  <2>. QED  BY <1>1, <1>2, <2>1, <2>2
<1>. QED  BY <1>3 DEF RoundedDiv

(* A shorter second run does not give a smaller gain. *)
LEMMA ImprovementGrows ==
    ASSUME NEW before \in Ms, NEW slow \in Nat, NEW fast \in Nat, fast < slow
    PROVE  /\ Improvement(before, slow) = NoValue <=> before = NoValue
           /\ Improvement(before, fast) = NoValue <=> before = NoValue
           /\ before # NoValue => Improvement(before, slow) <= Improvement(before, fast)
<1>1. slow # NoValue /\ fast # NoValue
  BY NoValueIsNotANumber
<1>2. CASE before = NoValue
  BY <1>2 DEF Improvement
<1>3. CASE before = 0
  BY <1>1, <1>3, NoValueIsNotANumber DEF Improvement
<1>4. CASE before \in Nat \ {0}
  <2>. DEFINE m == (before - slow) * 10000
              n == (before - fast) * 10000
  <2>1. m \in Int /\ n \in Int /\ m <= n
    BY <1>4
  <2>2. before # NoValue
    BY <1>4, NoValueIsNotANumber
  <2>3. Improvement(before, slow) = RoundedDiv(m, before)
        /\ Improvement(before, fast) = RoundedDiv(n, before)
    BY <1>1, <1>4, <2>2 DEF Improvement
  <2>. HIDE DEF m, n
  <2>4. /\ RoundedDiv(m, before) \in Int /\ RoundedDiv(n, before) \in Int
        /\ RoundedDiv(m, before) <= RoundedDiv(n, before)
    BY <1>4, <2>1, QuotientGrows, QuotientPositive
  <2>. QED  BY <2>2, <2>3, <2>4, NoValueIsNotANumber
<1>. QED  BY <1>2, <1>3, <1>4 DEF Ms

(* No gate is passed by the slower of two completed measurements only. *)
LEMMA FasterStillLands ==
    ASSUME NEW o \in OriginalMeasure, NEW c \in CandidateMeasure, NEW ms \in Nat,
           c.ms # NoValue, ms < c.ms, Lands(o, c)
    PROVE  Lands(o, [c EXCEPT !.ms = ms])
<1>. DEFINE d == [c EXCEPT !.ms = ms]
<1>0. /\ c.ms \in Nat /\ d.ms = ms /\ d.ms # NoValue
      /\ d.hash = c.hash /\ d.text = c.text /\ d.rows = c.rows /\ d.cost = c.cost
      /\ d.unknownRefs = c.unknownRefs /\ d.sf1 = c.sf1
      /\ d.sf1Original = c.sf1Original /\ d.sf1Optimized = c.sf1Optimized
  BY NoValueIsNotANumber DEF CandidateMeasure, Ms
<1>. HIDE DEF d
<1>1. OriginalMs(o) \in Ms
  BY DEF OriginalMeasure, OriginalMs, Ms
<1>2. /\ FullScaleImprovement(o, c) = NoValue <=> OriginalMs(o) = NoValue
      /\ FullScaleImprovement(o, d) = NoValue <=> OriginalMs(o) = NoValue
      /\ OriginalMs(o) # NoValue => FullScaleImprovement(o, c) <= FullScaleImprovement(o, d)
  BY <1>0, <1>1, ImprovementGrows DEF FullScaleImprovement
<1>3. /\ FullScaleImprovement(o, c) \in Int \cup {NoValue}
      /\ FullScaleImprovement(o, d) \in Int \cup {NoValue}
  BY <1>0, <1>1, ImprovementIsANumber DEF FullScaleImprovement, Ms
<1>4. /\ FullScaleIntegrity(o, d) = FullScaleIntegrity(o, c)
      /\ ErrorsBeforeGates(o, d) = ErrorsBeforeGates(o, c)
      /\ Adjudicated(o, d) = Adjudicated(o, c)
      /\ Integrity(o, d) = Integrity(o, c)
      /\ Unverified(o, d) = Unverified(o, c)
  <2>1. FullScaleIntegrity(o, d) = FullScaleIntegrity(o, c)
    BY <1>0 DEF FullScaleIntegrity, RowCountsDiffer, Hashed
  <2>2. ErrorsBeforeGates(o, d) = ErrorsBeforeGates(o, c)
    BY <1>0, <2>1 DEF ErrorsBeforeGates, ExecutionError
  <2>3. Adjudicated(o, d) = Adjudicated(o, c)
    BY <1>0, <2>1 DEF Adjudicated, Hashed, CandidateTimedOut
  <2>4. Integrity(o, d) = Integrity(o, c)
    BY <1>0, <2>1, <2>3 DEF Integrity
  <2>. QED  BY <1>0, <2>1, <2>2, <2>3, <2>4 DEF Unverified, Hashed
<1>5. Approved(o, c) /\ GainEvidence(o, c) /\ ~LowImprovement(o, c)
  BY DEF Lands
<1>6. Integrity(o, c) # "diff"
  BY <1>5, DifferenceIsAnError DEF Approved
<1>7. CASE OriginalMs(o) # NoValue
  <2>1. /\ FullScaleImprovement(o, c) \in Int /\ FullScaleImprovement(o, d) \in Int
        /\ FullScaleImprovement(o, c) <= FullScaleImprovement(o, d)
        /\ FullScaleImprovement(o, c) # NoValue /\ FullScaleImprovement(o, d) # NoValue
    BY <1>2, <1>3, <1>7
  <2>2. /\ VerifyImprovement(o, c) = NoValue /\ VerifyImprovement(o, d) = NoValue
    BY <2>1 DEF VerifyImprovement, GainAtCostGate
  <2>3. /\ MeasuredImprovement(o, c) = FullScaleImprovement(o, c)
        /\ MeasuredImprovement(o, d) = FullScaleImprovement(o, d)
        /\ TimedOriginalMs(o, c) = TimedOriginalMs(o, d)
    BY <2>2 DEF MeasuredImprovement, TimedOriginalMs
  <2>4. (CostVeto(o, d) => CostVeto(o, c)) /\ (Regression(o, d) => Regression(o, c))
    BY <1>0, <2>1 DEF CostVeto, Regression, GainAtCostGate
  <2>5. Approved(o, d)
    BY <1>4, <1>0, <1>5, <2>4 DEF Approved, Errors
  <2>6. ~LowImprovement(o, d)
    <3>1. MinImprovementThreshold(TimedOriginalMs(o, c)) \in Int
      BY DEF MinImprovementThreshold
    <3>2. FullScaleImprovement(o, c) >= MinImprovementThreshold(TimedOriginalMs(o, c))
      BY <1>5, <2>1, <2>3, <3>1 DEF LowImprovement
    <3>. QED  BY <2>1, <2>3, <3>1, <3>2 DEF LowImprovement
  <2>. QED  BY <2>1, <2>3, <2>5, <2>6 DEF Lands, GainEvidence, Gain, d
<1>8. CASE OriginalMs(o) = NoValue
  <2>1. FullScaleImprovement(o, c) = NoValue /\ FullScaleImprovement(o, d) = NoValue
    BY <1>2, <1>8
  <2>2. /\ GainAtCostGate(o, c) = LowerBound(o, c)
        /\ GainAtCostGate(o, d) = LowerBound(o, d)
    BY <2>1 DEF GainAtCostGate
  <2>3. ASSUME LowerBound(o, c) # NoValue
        PROVE  /\ LowerBound(o, d) # NoValue
               /\ LowerBound(o, c) <= LowerBound(o, d)
               /\ LowerBound(o, c) \in Int /\ LowerBound(o, d) \in Int
    <3>. DEFINE m == (ExplainBudgetMs - c.ms) * 10000
                n == (ExplainBudgetMs - ms) * 10000
    <3>1. /\ LowerBound(o, c) = RoundedDiv(m, ExplainBudgetMs)
          /\ c.ms < FastBudgetMs - 500 /\ c.ms < ExplainBudgetMs
          /\ OriginalTimedOut(o) /\ ~CandidateTimedOut(c) /\ FullScaleIntegrity(o, c) # "diff"
      BY <2>3 DEF LowerBound
    <3>2. ms < FastBudgetMs - 500 /\ ms < ExplainBudgetMs
      BY <1>0, <3>1, BudgetsAreTimes
    <3>3. LowerBound(o, d) = RoundedDiv(n, ExplainBudgetMs)
      BY <1>0, <1>4, <3>1, <3>2 DEF LowerBound, CandidateTimedOut
    <3>4. m \in Int /\ n \in Int /\ m <= n
      BY <1>0, BudgetsAreTimes
    <3>. HIDE DEF m, n
    <3>5. /\ RoundedDiv(m, ExplainBudgetMs) \in Int /\ RoundedDiv(n, ExplainBudgetMs) \in Int
          /\ RoundedDiv(m, ExplainBudgetMs) <= RoundedDiv(n, ExplainBudgetMs)
      BY <3>4, BudgetsAreTimes, QuotientGrows, QuotientPositive
    <3>. QED  BY <3>1, <3>3, <3>5, NoValueIsNotANumber
  <2>4. CostVeto(o, d) => CostVeto(o, c)
    BY <1>0, <2>2, <2>3 DEF CostVeto
  <2>5. ~Regression(o, d)
    BY <2>1 DEF Regression
  <2>6. Approved(o, d)
    BY <1>0, <1>4, <1>5, <2>4, <2>5 DEF Approved, Errors
  <2>7. CASE LowerBound(o, d) # NoValue
    <3>1. MeasuredImprovement(o, d) = NoValue
      BY <2>1, <2>2, <2>7 DEF MeasuredImprovement, VerifyImprovement
    <3>. QED  BY <1>4, <1>6, <2>6, <2>7, <3>1 DEF Lands, GainEvidence, Gain, LowImprovement, d
  <2>8. CASE LowerBound(o, d) = NoValue
    <3>1. LowerBound(o, c) = NoValue
      BY <2>3, <2>8
    <3>2. VerifyImprovement(o, d) = VerifyImprovement(o, c)
      BY <1>0, <1>4, <2>2, <2>8, <3>1 DEF VerifyImprovement
    <3>3. /\ MeasuredImprovement(o, d) = MeasuredImprovement(o, c)
          /\ TimedOriginalMs(o, d) = TimedOriginalMs(o, c)
      BY <1>0, <2>1, <3>2 DEF MeasuredImprovement, TimedOriginalMs
    <3>. QED  BY <1>4, <1>5, <2>6, <2>8, <3>1, <3>3 DEF Lands, GainEvidence, Gain, LowImprovement, d
  <2>. QED  BY <2>7, <2>8
<1>. QED  BY <1>7, <1>8

(* Every pair the instance measures is a pair of measures. *)
LEMMA PairsAreMeasures ==
    Spec => [](original \in OriginalMeasure /\ candidate \in CandidateMeasure)
<1>. DEFINE Typed == original \in OriginalMeasure /\ candidate \in CandidateMeasure
<1>1. OriginalTimes \subseteq Ms /\ CandidateTimes \subseteq Ms
  BY DEF OriginalTimes, CandidateTimes, Ms
<1>2. Init => Typed
  <2>. SUFFICES ASSUME Init PROVE Typed
    OBVIOUS
  <2>1. original \in OriginalMeasure
    BY <1>1 DEF Init, Originals, OriginalMeasure
  <2>2. PICK c \in FullScale, v \in {"same", "diff", "none"}, t \in VerifyTimes :
            candidate = WithVerify(c, v, t)
    BY DEF Init
  <2>3. t[1] \in Ms /\ t[2] \in Ms
    BY DEF VerifyTimes, Ms
  <2>. QED  BY <1>1, <2>1, <2>2, <2>3 DEF FullScale, WithVerify, CandidateMeasure, StructuralKind
<1>3. Typed /\ [Next]_vars => Typed'
  <2>1. ASSUME Typed, Next PROVE Typed'
    BY <1>1, <2>1 DEF Next, Remeasure, CandidateMeasure
  <2>2. ASSUME Typed, UNCHANGED vars PROVE Typed'
    BY <2>2 DEF vars
  <2>. QED  BY <2>1, <2>2
<1>. QED  BY <1>2, <1>3, PTL DEF Spec

(* Measuring a rewrite again and finding it faster never costs it its land
   (executor.py:440-564 and 683-698). *)
THEOREM FasterIsNeverWorse == Spec => FasterNeverWorse
<1>. DEFINE Typed == original \in OriginalMeasure /\ candidate \in CandidateMeasure
            Faster == /\ candidate.ms # NoValue /\ candidate'.ms # NoValue
                      /\ candidate'.ms < candidate.ms
                      /\ Lands(original, candidate)
                      => Lands(original', candidate')
<1>1. Typed /\ [Next]_vars => [Faster]_vars
  <2>. SUFFICES ASSUME Typed, Next, candidate.ms # NoValue, candidate'.ms # NoValue,
                       candidate'.ms < candidate.ms, Lands(original, candidate)
                PROVE  Lands(original', candidate')
    BY DEF vars
  <2>1. PICK ms \in CandidateTimes : candidate' = [candidate EXCEPT !.ms = ms]
    BY DEF Next, Remeasure
  <2>2. original' = original
    BY DEF Next, Remeasure
  <2>3. ms = candidate'.ms
    BY <2>1 DEF CandidateMeasure
  <2>4. ms \in Nat
    BY <2>3 DEF CandidateTimes
  <2>. QED  BY <2>1, <2>2, <2>3, <2>4, FasterStillLands
<1>. QED  BY <1>1, PairsAreMeasures, PTL DEF Spec, FasterNeverWorse
=============================================================================
