------------------------- MODULE RewriteLoop_proofs -------------------------
(***************************************************************************)
(* Proofs about RewriteLoop for every set of texts, every measure the      *)
(* database may return, every setting of the toggles and every limit.      *)
(***************************************************************************)
EXTENDS RewriteLoop, ExecutorVerdict_proofs

(* What the executor takes from the database is a measure of the right kind. *)
LEMMA MeasuresAreTyped ==
    ASSUME DataOK, optimizedSql \in Sql,
           NEW o \in Baselines, NEW c \in MeasuresOf[Repair[optimizedSql]]
    PROVE  /\ Repair[optimizedSql] \in Sql
           /\ o \in OriginalMeasure /\ c \in CandidateMeasure
           /\ Validated(optimizedSql, o, c) \in Validation
<1>1. Repair[optimizedSql] \in Sql
  BY SqlAssumption
<1>2. o \in OriginalMeasure
  BY MeasureAssumption DEF Baselines, DataOK
<1>3. c \in CandidateMeasure
  BY <1>1, MeasureAssumption
<1>. QED  BY <1>1, <1>2, <1>3 DEF Validated, Validation

-----------------------------------------------------------------------------
(* Type correctness *)

LEMMA TypeInit == Init => TypeOK
<1>1. Init => DataOK
  BY BoundsAssumption DEF Init, FreshRequest, DataOK, Node
<1>2. Init => FlagsOK
  BY Zenon DEF Init, FreshRequest, FlagsOK
<1>. QED  BY <1>1, <1>2 DEF TypeOK

LEMMA FlagsStep == FlagsOK /\ [Next]_vars => FlagsOK'
<1>. SUFFICES ASSUME FlagsOK, [Next]_vars PROVE FlagsOK'
  OBVIOUS
<1>. USE DEF FlagsOK, counters, findVars, writeVars, verdictVars, memoryVars
<1>1. CASE ArchitectCacheHit
  BY <1>1, Zenon DEF ArchitectCacheHit
<1>2. ASSUME NEW s \in Sql \cup {NoSql}, ArchitectWrites(s) PROVE FlagsOK'
  BY <1>2, Zenon DEF ArchitectWrites, ArchitectPass
<1>3. CASE ArchitectTimesOut
  BY <1>3, Zenon DEF ArchitectTimesOut, ArchitectPass
<1>4. ASSUME NEW text \in {"empty", "given"}, NEW fromCache \in BOOLEAN,
             ArchitectDecides(text, fromCache)
      PROVE  FlagsOK'
  BY <1>4, Zenon DEF ArchitectDecides, ArchitectPass
<1>5. CASE ArchitectRaises
  BY <1>5, Zenon DEF ArchitectRaises
<1>6. CASE CorrectorDiscards
  BY <1>6, Zenon DEF CorrectorDiscards, CorrectorPass
<1>7. CASE CorrectorRejectsDeviation
  BY <1>7, Zenon DEF CorrectorRejectsDeviation, CorrectorPass
<1>8. ASSUME NEW s \in Sql, CorrectorWrites(s) PROVE FlagsOK'
  BY <1>8, Zenon DEF CorrectorWrites, CorrectorPass
<1>9. CASE ExecutorNoOutput
  BY <1>9, Zenon DEF ExecutorNoOutput, ExecutorPass
<1>10. CASE ExecutorIdentical
  BY <1>10, Zenon DEF ExecutorIdentical, ExecutorPass
<1>11. CASE ExecutorDuplicate
  BY <1>11, Zenon DEF ExecutorDuplicate, ExecutorPass
<1>12. CASE ExecutorSyntaxInvalid
  BY <1>12, Zenon DEF ExecutorSyntaxInvalid, ExecutorPass
<1>13. ASSUME NEW o, NEW c, ExecutorPlanIdentical(o, c) PROVE FlagsOK'
  BY <1>13, Zenon DEF ExecutorPlanIdentical, ExecutorPass
<1>14. ASSUME NEW o, NEW c, ExecutorValidates(o, c) PROVE FlagsOK'
  BY <1>14, Zenon DEF ExecutorValidates, ExecutorPass, HintAfter, Approved
<1>15. CASE IndexAdvisor \/ IndexSimulationValidator
  BY <1>15, Zenon DEF IndexAdvisor, IndexSimulationValidator, NodeLeavesLoop
<1>16. CASE RecursionLimitReached
  BY <1>16, Zenon DEF RecursionLimitReached
<1>19. CASE Hangs
  BY <1>19, Zenon DEF Hangs, NodeLeavesLoop
<1>17. CASE NewRequest
  BY <1>17, Zenon DEF NewRequest
<1>18. CASE UNCHANGED vars
  BY <1>18, Zenon DEF vars
<1>. QED
  BY <1>1, <1>2, <1>3, <1>4, <1>5, <1>6, <1>7, <1>8, <1>9, <1>10, <1>11, <1>12, <1>13,
     <1>14, <1>15, <1>16, <1>17, <1>18, <1>19, Zenon
     DEF Next, RunsANode, Architect, Corrector, Executor

LEMMA DataArchitect == DataOK /\ Architect => DataOK'
<1>. SUFFICES ASSUME DataOK, Architect PROVE DataOK'
  OBVIOUS
<1>. USE DEF DataOK, Superstep, Node
<1>1. RouteAfterArchitect \in {"corrector", "executor"}
  BY DEF RouteAfterArchitect
<1>2. CASE ArchitectCacheHit
  BY <1>1, <1>2, BoundsAssumption DEF ArchitectCacheHit, counters, verdictVars, memoryVars
<1>3. ASSUME ArchitectPass
      PROVE  /\ node' \in Node /\ steps' \in 2 .. RecursionLimit
             /\ retryAttempts' \in Nat /\ reflectionIterations' \in Nat
             /\ attemptHistory' \subseteq Sql /\ errors' \subseteq ErrorKind
             /\ validation' \in Validation \cup {NoValidation}
             /\ bestSql' \in Sql \cup {NoSql}
             /\ bestValidation' \in Validation \cup {NoValidation}
             /\ rejected' \subseteq Sql /\ semanticCache' \subseteq Sql
             /\ originalMeasure' \in OriginalMeasure \cup {NoMeasure}
             /\ config' \in Configs
  BY <1>1, <1>3, BoundsAssumption DEF ArchitectPass, KeepOverwritten, verdictVars, memoryVars
<1>4. ASSUME NEW s \in Sql \cup {NoSql}, ArchitectWrites(s) PROVE DataOK'
  BY <1>3, <1>4 DEF ArchitectWrites
<1>5. CASE ArchitectTimesOut
  BY <1>3, <1>5 DEF ArchitectTimesOut
<1>6. ASSUME NEW text \in {"empty", "given"}, NEW fromCache \in BOOLEAN,
             ArchitectDecides(text, fromCache)
      PROVE  DataOK'
  BY <1>3, <1>6 DEF ArchitectDecides
<1>7. CASE ArchitectRaises
  BY <1>7, BoundsAssumption
     DEF ArchitectRaises, Ended, writeVars, counters, verdictVars, memoryVars
<1>. QED  BY <1>2, <1>4, <1>5, <1>6, <1>7 DEF Architect

LEMMA DataCorrector == DataOK /\ Corrector => DataOK'
<1>. SUFFICES ASSUME DataOK, Corrector PROVE DataOK'
  OBVIOUS
<1>. USE DEF DataOK, Superstep, Node, CorrectorPass, findVars, verdictVars, memoryVars
<1>1. CASE CorrectorDiscards
  BY <1>1, BoundsAssumption DEF CorrectorDiscards
<1>2. CASE CorrectorRejectsDeviation
  BY <1>2, BoundsAssumption DEF CorrectorRejectsDeviation, ErrorKind
<1>3. ASSUME NEW s \in Sql, CorrectorWrites(s) PROVE DataOK'
  BY <1>3, BoundsAssumption DEF CorrectorWrites
<1>. QED  BY <1>1, <1>2, <1>3 DEF Corrector

LEMMA DataExecutor == DataOK /\ Executor => DataOK'
<1>. SUFFICES ASSUME DataOK, Executor PROVE DataOK'
  OBVIOUS
<1>1. ASSUME ExecutorPass
      PROVE  /\ node' \in Node /\ steps' \in 2 .. RecursionLimit
             /\ author' \in {"none", "architect", "writer", "cache"}
             /\ retryAttempts' \in Nat /\ reflectionIterations' \in Nat
             /\ correctorAttempts' \in Nat /\ strategyAttempts' \in Nat
             /\ strategy' \in {"none", "empty", "given"}
             /\ attemptHistory' \subseteq Sql /\ config' \in Configs
  <2>1. node' \in Node
    BY <1>1 DEF ExecutorPass, Node, AfterLoopNodes, Ended, RouteAfterExecutor
  <2>. QED  BY <1>1, <2>1, BoundsAssumption DEF ExecutorPass, DataOK, Superstep, counters
<1>2. CASE ExecutorNoOutput
  BY <1>1, <1>2 DEF ExecutorNoOutput, DataOK, memoryVars, ErrorKind
<1>3. CASE ExecutorIdentical
  BY <1>1, <1>3 DEF ExecutorIdentical, DataOK, memoryVars
<1>4. CASE ExecutorDuplicate
  BY <1>1, <1>4 DEF ExecutorDuplicate, DataOK, memoryVars, ErrorKind
<1>5. CASE ExecutorSyntaxInvalid
  BY <1>1, <1>5 DEF ExecutorSyntaxInvalid, DataOK, memoryVars, ErrorKind
<1>6. ASSUME optimizedSql \in Sql, NEW o \in Baselines,
             NEW c \in MeasuresOf[Repair[optimizedSql]], ExecutorPlanIdentical(o, c)
      PROVE  DataOK'
  BY <1>1, <1>6, MeasuresAreTyped DEF ExecutorPlanIdentical, DataOK, memoryVars
<1>7. ASSUME optimizedSql \in Sql, NEW o \in Baselines,
             NEW c \in MeasuresOf[Repair[optimizedSql]], ExecutorValidates(o, c)
      PROVE  DataOK'
  <2>1. /\ Repair[optimizedSql] \in Sql /\ o \in OriginalMeasure
        /\ Validated(optimizedSql, o, c) \in Validation
    BY <1>7, MeasuresAreTyped
  <2>2. ReflectionErrors(o, c) \subseteq ErrorKind
    BY <1>7, MeasuresAreTyped, ErrorsAreKinds
  <2>. QED  BY <1>1, <1>7, <2>1, <2>2 DEF ExecutorValidates, DataOK
<1>8. CASE /\ optimizedSql \in Sql
           /\ \E o \in Baselines, c \in MeasuresOf[Repair[optimizedSql]] :
                 ExecutorPlanIdentical(o, c) \/ ExecutorValidates(o, c)
  BY <1>6, <1>7, <1>8
<1>. QED  BY <1>2, <1>3, <1>4, <1>5, <1>8 DEF Executor

LEMMA TypeStep == TypeOK /\ [Next]_vars => TypeOK'
<1>. SUFFICES ASSUME TypeOK, [Next]_vars PROVE TypeOK'
  OBVIOUS
<1>. USE DEF DataOK, writeVars, counters, verdictVars, memoryVars
<1>. DataOK
  BY DEF TypeOK
<1>1. CASE IndexAdvisor \/ IndexSimulationValidator \/ Hangs
  <2>. DataOK'
    BY <1>1, BoundsAssumption
       DEF Hangs, IndexAdvisor, IndexSimulationValidator, NodeLeavesLoop, Superstep, Node,
           AfterLoopNodes, Ended
  <2>. QED  BY FlagsStep DEF TypeOK
<1>2. CASE RecursionLimitReached
  <2>. DataOK'
    BY <1>2 DEF RecursionLimitReached, Node, Ended
  <2>. QED  BY FlagsStep DEF TypeOK
<1>3. CASE NewRequest
  <2>. DataOK'
    BY <1>3, BoundsAssumption DEF NewRequest, Node
  <2>. QED  BY FlagsStep DEF TypeOK
<1>4. CASE UNCHANGED vars
  <2>. DataOK'
    BY <1>4 DEF vars
  <2>. QED  BY FlagsStep DEF TypeOK
<1>5. CASE Architect \/ Corrector \/ Executor
  BY <1>5, DataArchitect, DataCorrector, DataExecutor, FlagsStep, Zenon DEF TypeOK
<1>. QED  BY <1>1, <1>2, <1>3, <1>4, <1>5, Zenon DEF Next, RunsANode

(* Every field of the pipeline state keeps its type (state.py:4-58). *)
THEOREM TypeCorrect == Spec => []TypeOK
  BY TypeInit, TypeStep, PTL DEF Spec

-----------------------------------------------------------------------------
(* What each node leaves alone *)

LEMMA ArchitectKeeps ==
    Architect => /\ node = "architect" /\ node' \in {"corrector", "executor", "raised"}
                 /\ UNCHANGED <<verdictVars, memoryVars>>
<1>. USE DEF Superstep, RouteAfterArchitect, ArchitectPass
<1>1. ArchitectCacheHit \/ ArchitectRaises =>
          /\ node = "architect" /\ node' \in {"corrector", "executor", "raised"}
          /\ UNCHANGED <<verdictVars, memoryVars>>
  BY DEF ArchitectCacheHit, ArchitectRaises
<1>2. ArchitectPass =>
          /\ node = "architect" /\ node' \in {"corrector", "executor", "raised"}
          /\ UNCHANGED <<verdictVars, memoryVars>>
  OBVIOUS
<1>3. ArchitectTimesOut => ArchitectPass
  BY DEF ArchitectTimesOut
<1>4. \A s : ArchitectWrites(s) => ArchitectPass
  BY DEF ArchitectWrites
<1>5. \A t, f : ArchitectDecides(t, f) => ArchitectPass
  BY DEF ArchitectDecides
<1>. HIDE DEF ArchitectPass
<1>. QED  BY <1>1, <1>2, <1>3, <1>4, <1>5 DEF Architect

LEMMA CorrectorKeeps ==
    Corrector => /\ node = "corrector" /\ node' = "executor"
                 /\ UNCHANGED <<verdictVars, memoryVars>>
  BY DEF Corrector, CorrectorDiscards, CorrectorRejectsDeviation, CorrectorWrites,
         CorrectorPass, Superstep

(* The executor decides on a candidate, or returns early and keeps the best result. *)
LEMMA ExecutorCases ==
    ASSUME DataOK, Executor
    PROVE  /\ node = "executor" /\ node' = RouteAfterExecutor'
           /\ \/ ExecutorNoOutput \/ ExecutorIdentical \/ ExecutorDuplicate
              \/ ExecutorSyntaxInvalid
              \/ /\ optimizedSql \in Sql
                 /\ \E o \in Baselines, c \in MeasuresOf[Repair[optimizedSql]] :
                       ExecutorPlanIdentical(o, c) \/ ExecutorValidates(o, c)
  BY DEF Executor, ExecutorNoOutput, ExecutorIdentical, ExecutorDuplicate,
         ExecutorSyntaxInvalid, ExecutorPlanIdentical, ExecutorValidates, ExecutorPass, Superstep

LEMMA AfterLoopKeeps ==
    IndexAdvisor \/ IndexSimulationValidator \/ RecursionLimitReached \/ Hangs =>
        /\ node' \in {"index_simulation_validator", "end", "recursion_limit", "hung"}
        /\ UNCHANGED <<writeVars, cacheHit, errors, retryHint, counters, verdictVars,
                       memoryVars, config>>
  BY DEF IndexAdvisor, IndexSimulationValidator, RecursionLimitReached, Hangs, NodeLeavesLoop,
         Superstep

-----------------------------------------------------------------------------
(* A rewrite that lands ends the loop *)

LEMMA QuietAttemptEnds ==
    errors' = {} /\ ~retryHint' => RouteAfterExecutor' \in {"index_advisor", "end"}
  BY DEF RouteAfterExecutor, WriterRetries, MechanicalRepair, MechanicalFailure, Restrategises,
         Reflects, RetriesForQuality

LEMMA BestInit == Init => BestEndsTheLoop
  BY DEF Init, FreshRequest, BestEndsTheLoop

LEMMA BestStep == DataOK /\ BestEndsTheLoop /\ [Next]_vars => BestEndsTheLoop'
<1>. SUFFICES ASSUME DataOK, BestEndsTheLoop, [Next]_vars PROVE BestEndsTheLoop'
  OBVIOUS
<1>. USE DEF verdictVars, writeVars
<1>1. CASE Architect
  BY <1>1, ArchitectKeeps DEF BestEndsTheLoop, AfterLoopNodes
<1>2. CASE Corrector
  BY <1>2, CorrectorKeeps DEF BestEndsTheLoop, AfterLoopNodes
<1>3. CASE Executor
  <2>1. bestSql = NoSql
    BY <1>3, ExecutorCases DEF BestEndsTheLoop, AfterLoopNodes
  <2>2. CASE bestSql' = NoSql
    BY <2>2 DEF BestEndsTheLoop
  <2>3. ASSUME NEW o, NEW c, ExecutorValidates(o, c), bestSql' # NoSql
        PROVE  BestEndsTheLoop'
    <3>1. /\ Lands(o, c) /\ bestSql' = optimizedSql' /\ bestValidation' = validation'
          /\ validation' = Validated(optimizedSql, o, c)
      BY <2>1, <2>3 DEF ExecutorValidates, BecomesBest
    <3>2. errors' = {} /\ ~retryHint' /\ approved'
      BY <2>3, <3>1, LandsAsksNothing, Zenon DEF ExecutorValidates, HintAfter
    <3>3. node' \in {"index_advisor", "end"}
      BY <2>3, <3>2, QuietAttemptEnds DEF ExecutorValidates, ExecutorPass
    <3>4. bestValidation'.original = o /\ bestValidation'.candidate = c
      BY <3>1 DEF Validated
    <3>. QED  BY <3>1, <3>2, <3>3, <3>4 DEF BestEndsTheLoop, AfterLoopNodes
  <2>4. CASE bestSql' # NoSql
    <3>1. PICK o, c : ExecutorPlanIdentical(o, c) \/ ExecutorValidates(o, c)
      BY <1>3, <2>1, <2>4, ExecutorCases
         DEF ExecutorNoOutput, ExecutorIdentical, ExecutorDuplicate, ExecutorSyntaxInvalid
    <3>2. ~ExecutorPlanIdentical(o, c)
      BY <2>1, <2>4 DEF ExecutorPlanIdentical
    <3>. QED  BY <2>3, <2>4, <3>1, <3>2
  <2>. QED  BY <2>2, <2>4
<1>4. CASE IndexAdvisor \/ IndexSimulationValidator \/ RecursionLimitReached \/ Hangs
  BY <1>4, AfterLoopKeeps DEF BestEndsTheLoop, AfterLoopNodes
<1>5. CASE NewRequest
  BY <1>5 DEF NewRequest, BestEndsTheLoop
<1>6. CASE UNCHANGED vars
  BY <1>6 DEF vars, BestEndsTheLoop
<1>. QED  BY <1>1, <1>2, <1>3, <1>4, <1>5, <1>6 DEF Next, RunsANode

(* Once a rewrite has landed no attempt follows it, and the fields of the last attempt
   are those of the best one (graph.py:85-120, executor.py:683-702). *)
THEOREM BestEnds == Spec => []BestEndsTheLoop
<1>1. TypeOK => DataOK
  BY DEF TypeOK
<1>. QED  BY <1>1, TypeCorrect, BestInit, BestStep, PTL DEF Spec

-----------------------------------------------------------------------------
(* What is served was verified *)

(* Past the loop an approval of a text the models wrote is an approval of its measure. *)
ApprovalIsCertified ==
    node \in {"end"} \cup AfterLoopNodes /\ approved /\ optimizedSql \notin {NoSql, Raw} =>
        /\ validation # NoValidation
        /\ validation.sql = Repair[optimizedSql]
        /\ Certified(validation)

LEMMA ServedInit == Init => ApprovalIsCertified
  BY DEF Init, FreshRequest, ApprovalIsCertified

LEMMA ServedStep ==
    DataOK /\ ApprovalIsCertified /\ [Next]_vars => ApprovalIsCertified'
<1>. SUFFICES ASSUME DataOK, ApprovalIsCertified, [Next]_vars PROVE ApprovalIsCertified'
  OBVIOUS
<1>. USE DEF verdictVars, writeVars
<1>1. CASE Architect
  BY <1>1, ArchitectKeeps DEF ApprovalIsCertified, AfterLoopNodes
<1>2. CASE Corrector
  BY <1>2, CorrectorKeeps DEF ApprovalIsCertified, AfterLoopNodes
<1>3. CASE Executor
  <2>1. CASE ~approved' \/ optimizedSql' = Raw
    BY <2>1 DEF ApprovalIsCertified
  <2>2. ASSUME optimizedSql \in Sql, NEW o \in Baselines,
               NEW c \in MeasuresOf[Repair[optimizedSql]], ExecutorPlanIdentical(o, c)
        PROVE  ApprovalIsCertified'
    <3>1. /\ validation' = Validated(optimizedSql, o, c) /\ optimizedSql' = optimizedSql
          /\ PlanIdentical(o, c)
      BY <2>2 DEF ExecutorPlanIdentical
    <3>2. /\ validation'.sql = Repair[optimizedSql]
          /\ validation'.original = o /\ validation'.candidate = c
      BY <3>1 DEF Validated
    <3>3. validation' # NoValidation
      BY <2>2, <3>1, MeasuresAreTyped, MeasureAssumption
    <3>. QED  BY <3>1, <3>2, <3>3 DEF ApprovalIsCertified, Certified
  <2>3. ASSUME optimizedSql \in Sql, NEW o \in Baselines,
               NEW c \in MeasuresOf[Repair[optimizedSql]], ExecutorValidates(o, c), approved'
        PROVE  ApprovalIsCertified'
    <3>1. /\ validation' = Validated(optimizedSql, o, c)
          /\ optimizedSql' = Repair[optimizedSql]
      BY <2>3 DEF ExecutorValidates
    <3>2. Approved(o, c)
      BY <2>3, Zenon DEF ExecutorValidates
    <3>3. /\ validation'.sql = Repair[optimizedSql]
          /\ validation'.original = o /\ validation'.candidate = c
      BY <3>1 DEF Validated
    <3>4. validation' # NoValidation
      BY <2>3, <3>1, MeasuresAreTyped, MeasureAssumption
    <3>5. Repair[optimizedSql'] = Repair[optimizedSql]
      BY <2>3, <3>1, SqlAssumption
    <3>. QED  BY <3>2, <3>3, <3>4, <3>5 DEF ApprovalIsCertified, Certified
  <2>4. CASE ExecutorNoOutput \/ ExecutorIdentical \/ ExecutorDuplicate \/ ExecutorSyntaxInvalid
    <3>1. ~approved' \/ optimizedSql' = Raw
      BY <2>4 DEF ExecutorNoOutput, ExecutorIdentical, ExecutorDuplicate, ExecutorSyntaxInvalid
    <3>. QED  BY <2>1, <3>1
  <2>. QED  BY <1>3, <2>1, <2>2, <2>3, <2>4, ExecutorCases
<1>4. CASE IndexAdvisor \/ IndexSimulationValidator
  <2>1. node \in AfterLoopNodes
    BY <1>4 DEF IndexAdvisor, IndexSimulationValidator, NodeLeavesLoop, Superstep, AfterLoopNodes
  <2>. QED  BY <1>4, <2>1, AfterLoopKeeps DEF ApprovalIsCertified, Certified
<1>5. CASE RecursionLimitReached \/ Hangs
  BY <1>5 DEF RecursionLimitReached, Hangs, NodeLeavesLoop, ApprovalIsCertified, AfterLoopNodes
<1>6. CASE NewRequest
  BY <1>6 DEF NewRequest, ApprovalIsCertified
<1>7. CASE UNCHANGED vars
  BY <1>7 DEF vars, ApprovalIsCertified, Certified
<1>. QED  BY <1>1, <1>2, <1>3, <1>4, <1>5, <1>6, <1>7 DEF Next, RunsANode

(* What a request serves, unless it is the query itself, was measured and found equivalent
   or found to have the original's plan (executor.py:400-438, 583-616). *)
THEOREM ServedVerified == Spec => []ServedIsVerified
<1>1. BestEndsTheLoop /\ ApprovalIsCertified => ServedIsVerified
  BY DEF BestEndsTheLoop, ApprovalIsCertified, ServedIsVerified, ServedSql, ServedValidation
<1>2. TypeOK => DataOK
  BY DEF TypeOK
<1>. QED  BY <1>1, <1>2, TypeCorrect, BestEnds, ServedInit, ServedStep, PTL DEF Spec

-----------------------------------------------------------------------------
(* One measure of the original per request *)

LEMMA BaselineStep ==
    DataOK /\ BestEndsTheLoop /\ OneBaseline /\ [Next]_vars => OneBaseline'
<1>. SUFFICES ASSUME DataOK, BestEndsTheLoop, OneBaseline, [Next]_vars PROVE OneBaseline'
  OBVIOUS
<1>. USE DEF verdictVars, memoryVars
<1>1. CASE Architect
  BY <1>1, ArchitectKeeps DEF OneBaseline
<1>2. CASE Corrector
  BY <1>2, CorrectorKeeps DEF OneBaseline
<1>3. CASE Executor
  <2>1. bestSql = NoSql
    BY <1>3, ExecutorCases DEF BestEndsTheLoop, AfterLoopNodes
  <2>2. CASE ExecutorNoOutput \/ ExecutorIdentical \/ ExecutorDuplicate \/ ExecutorSyntaxInvalid
    BY <2>1, <2>2
       DEF ExecutorNoOutput, ExecutorIdentical, ExecutorDuplicate, ExecutorSyntaxInvalid,
           OneBaseline
  <2>3. ASSUME NEW o \in Baselines, NEW c, ExecutorPlanIdentical(o, c)
        PROVE  OneBaseline'
    <3>1. validation'.original = o /\ bestSql' = NoSql /\ originalMeasure' = originalMeasure
      BY <2>1, <2>3 DEF ExecutorPlanIdentical, Validated
    <3>. QED  BY <3>1 DEF OneBaseline, Baselines
  <2>4. ASSUME NEW o \in Baselines, NEW c, ExecutorValidates(o, c)
        PROVE  OneBaseline'
    <3>1. validation'.original = o /\ originalMeasure' = o
      BY <2>4 DEF ExecutorValidates, Validated
    <3>2. bestSql' # NoSql => bestValidation' = validation'
      BY <2>1, <2>4 DEF ExecutorValidates
    <3>. QED  BY <3>1, <3>2 DEF OneBaseline
  <2>. QED  BY <1>3, <2>2, <2>3, <2>4, ExecutorCases
<1>4. CASE IndexAdvisor \/ IndexSimulationValidator \/ RecursionLimitReached \/ Hangs
  BY <1>4, AfterLoopKeeps DEF OneBaseline
<1>5. CASE NewRequest
  BY <1>5 DEF NewRequest, OneBaseline
<1>6. CASE UNCHANGED vars
  BY <1>6 DEF vars, OneBaseline
<1>. QED  BY <1>1, <1>2, <1>3, <1>4, <1>5, <1>6 DEF Next, RunsANode

(* Every verdict a request keeps compares with one measure of the original
   (executor.py:288-295, 369-371). *)
THEOREM BaselineIsOne == Spec => []OneBaseline
<1>1. Init => OneBaseline
  BY DEF Init, FreshRequest, OneBaseline
<1>2. TypeOK => DataOK
  BY DEF TypeOK
<1>. QED  BY <1>1, <1>2, TypeCorrect, BestEnds, BaselineStep, PTL DEF Spec

-----------------------------------------------------------------------------
(* What landed is cached *)

(* The condition of a land implies the condition of a store. *)
LEMMA LandsAreStored ==
  ASSUME NEW o, NEW c, Lands(o, c)
  PROVE  Stored(o, c)
<1>1. "unverified" \in ErrorKind
  BY DEF ErrorKind
<1>2. Errors(o, c) = {}
  BY DEF Lands, Approved
<1>3. ASSUME Unverified(o, c) PROVE FALSE
  BY <1>1, <1>2, <1>3 DEF Errors
<1>. QED  BY <1>3 DEF Lands, Stored

LEMMA CachedStep ==
    DataOK /\ BestEndsTheLoop /\ LandIsCached /\ [Next]_vars => LandIsCached'
<1>. SUFFICES ASSUME DataOK, BestEndsTheLoop, LandIsCached, [Next]_vars PROVE LandIsCached'
  OBVIOUS
<1>. USE DEF verdictVars, memoryVars
<1>1. CASE Architect
  BY <1>1, ArchitectKeeps DEF LandIsCached
<1>2. CASE Corrector
  BY <1>2, CorrectorKeeps DEF LandIsCached
<1>3. CASE Executor
  <2>1. bestSql = NoSql
    BY <1>3, ExecutorCases DEF BestEndsTheLoop, AfterLoopNodes
  <2>2. CASE ExecutorNoOutput \/ ExecutorIdentical \/ ExecutorDuplicate \/ ExecutorSyntaxInvalid
    BY <2>1, <2>2
       DEF ExecutorNoOutput, ExecutorIdentical, ExecutorDuplicate, ExecutorSyntaxInvalid,
           LandIsCached
  <2>3. ASSUME NEW o \in Baselines, NEW c, ExecutorPlanIdentical(o, c)
        PROVE  LandIsCached'
    BY <2>1, <2>3 DEF ExecutorPlanIdentical, LandIsCached
  <2>4. ASSUME NEW o \in Baselines, NEW c, ExecutorValidates(o, c), bestSql' # NoSql
        PROVE  bestSql' \in semanticCache'
    <3>1. Lands(o, c) /\ bestSql' = optimizedSql'
      BY <2>1, <2>4 DEF ExecutorValidates, BecomesBest
    <3>2. Stored(o, c)
      BY <3>1, LandsAreStored
    <3>. QED  BY <2>4, <3>1, <3>2 DEF ExecutorValidates
  <2>. QED  BY <1>3, <2>2, <2>3, <2>4, ExecutorCases DEF LandIsCached
<1>4. CASE IndexAdvisor \/ IndexSimulationValidator \/ RecursionLimitReached \/ Hangs
  BY <1>4, AfterLoopKeeps DEF LandIsCached
<1>5. CASE NewRequest
  BY <1>5 DEF NewRequest, LandIsCached
<1>6. CASE UNCHANGED vars
  BY <1>6 DEF vars, LandIsCached
<1>. QED  BY <1>1, <1>2, <1>3, <1>4, <1>5, <1>6 DEF Next, RunsANode

(* A rewrite that landed stays in the semantic cache while its request lives, also when
   LangGraph cuts the request off in the index nodes (executor.py:666-667, 690-700). *)
THEOREM LandCached == Spec => []LandIsCached
<1>1. Init => LandIsCached
  BY DEF Init, FreshRequest, LandIsCached
<1>2. TypeOK => DataOK
  BY DEF TypeOK
<1>. QED  BY <1>1, <1>2, TypeCorrect, BestEnds, CachedStep, PTL DEF Spec

-----------------------------------------------------------------------------
(* How long a request can loop, for every value of the limits: LangGraph's *)
(* recursion limit never ends a request when it leaves room for what the   *)
(* loop's own counters allow, and every overwritten attempt is kept.       *)

(* Every pass of the architect but the first has something to react to. *)
FirstPass == node = "architect" /\ ~Reenters => optimizedSql = NoSql

Capped(n, max) == IF n < max THEN n ELSE max

(* One agent: the returns to a model that a counter has paid for. *)
Paid ==
    Capped(reflectionIterations, MaxReflectionIterations)
    + Capped(retryAttempts, MaxRetryAttempts) + correctorAttempts

PaysForReturn ==
    \/ errors # {} /\ reflectionIterations < MaxReflectionIterations
    \/ retryHint /\ retryAttempts < MaxRetryAttempts

(* The steps allowed at each node for the returns already paid for. *)
RawSteps(n) ==
    CASE n = "executor" -> 3
      [] n \in {"architect", "corrector", "index_advisor"} -> 4
      [] n = "index_simulation_validator" -> 5
      [] OTHER -> 6

RawBudget ==
    ~config.twoAgent =>
        /\ correctorAttempts <= MaxCorrectorAttempts
        /\ node = "architect" => (PaysForReturn \/ (~Reenters /\ steps = 2))
        /\ node = "corrector" => correctorAttempts < MaxCorrectorAttempts
        /\ steps <= RawSteps(node) + 2 * Paid

(* Two agents: the steps of one strategy, the architect's and the writer's. *)
Round == 1 + 2 * MaxCorrectorAttempts

Rounds(n) == n * Round

TwoAgentSteps(n) ==
    CASE n = "executor" -> 2
      [] n = "index_simulation_validator" -> 4
      [] OTHER -> 3

TwoAgentBudget ==
    config.twoAgent /\ ~config.deadline =>
        /\ strategyAttempts <= MaxStrategyAttempts
        /\ correctorAttempts <= MaxCorrectorAttempts
        /\ node = "corrector" => correctorAttempts < MaxCorrectorAttempts
        /\ node = "architect" =>
              /\ strategyAttempts < MaxStrategyAttempts
              /\ steps <= 2 + Rounds(strategyAttempts + 1)
              /\ ~Reenters => steps = 2 /\ strategyAttempts = 0 /\ correctorAttempts = 0
        /\ node \notin Ended \cup {"architect"} =>
              steps <= TwoAgentSteps(node) + Rounds(strategyAttempts) + 2 * correctorAttempts

-----------------------------------------------------------------------------
(* What the executor's routing and each step do to the counters *)

LEMMA FirstPassStep == FirstPass /\ [Next]_vars => FirstPass'
<1>. SUFFICES ASSUME FirstPass, [Next]_vars PROVE FirstPass'
  OBVIOUS
<1>1. CASE Architect
  BY <1>1, ArchitectKeeps DEF FirstPass
<1>2. CASE Corrector
  BY <1>2, CorrectorKeeps DEF FirstPass
<1>3. CASE Executor
  <2>1. node' = RouteAfterExecutor'
    BY <1>3 DEF Executor, ExecutorNoOutput, ExecutorIdentical, ExecutorDuplicate,
           ExecutorSyntaxInvalid, ExecutorPlanIdentical, ExecutorValidates, ExecutorPass
  <2>2. RouteAfterExecutor' = "architect" => Reenters'
    BY DEF RouteAfterExecutor, Restrategises, Reflects, RetriesForQuality, Reenters
  <2>. QED  BY <2>1, <2>2 DEF FirstPass
<1>4. CASE IndexAdvisor \/ IndexSimulationValidator \/ RecursionLimitReached \/ Hangs
  BY <1>4, AfterLoopKeeps DEF FirstPass
<1>5. CASE NewRequest
  BY <1>5 DEF NewRequest, FirstPass
<1>6. CASE UNCHANGED vars
  BY <1>6 DEF vars, writeVars, FirstPass, Reenters
<1>. QED  BY <1>1, <1>2, <1>3, <1>4, <1>5, <1>6 DEF Next, RunsANode

LEMMA KeepsOverwritten ==
    FirstPass /\ [Next]_vars =>
        [ /\ node \in {"architect", "corrector"} /\ node' \in Node \ Ended
          /\ optimizedSql \notin {Raw, NoSql} /\ optimizedSql' # optimizedSql
          => optimizedSql \in attemptHistory' ]_vars
<1>. SUFFICES ASSUME FirstPass, Next, node \in {"architect", "corrector"},
                     node' \in Node \ Ended,
                     optimizedSql \notin {Raw, NoSql}, optimizedSql' # optimizedSql
              PROVE  optimizedSql \in attemptHistory'
  OBVIOUS
<1>1. CASE Architect
  <2>1. node = "architect"
    BY <1>1, ArchitectKeeps
  <2>2. Reenters
    BY <2>1 DEF FirstPass
  <2>3. ~ArchitectCacheHit /\ ~ArchitectRaises
    BY <2>2 DEF ArchitectCacheHit, SemanticHit, ArchitectRaises, Ended
  <2>4. ArchitectPass
    BY <1>1, <2>3 DEF Architect, ArchitectWrites, ArchitectTimesOut, ArchitectDecides
  <2>. QED  BY <2>2, <2>4 DEF ArchitectPass, KeepOverwritten
<1>2. CASE Corrector
  <2>1. CorrectorPass
    BY <1>2 DEF Corrector, CorrectorDiscards, CorrectorRejectsDeviation, CorrectorWrites
  <2>. QED  BY <2>1 DEF CorrectorPass
<1>3. CASE Executor
  BY <1>3 DEF Executor, ExecutorNoOutput, ExecutorIdentical, ExecutorDuplicate,
         ExecutorSyntaxInvalid, ExecutorPlanIdentical, ExecutorValidates, ExecutorPass, Superstep
<1>4. CASE \/ IndexAdvisor \/ IndexSimulationValidator \/ RecursionLimitReached \/ Hangs
           \/ NewRequest
  BY <1>4 DEF IndexAdvisor, IndexSimulationValidator, NodeLeavesLoop, Superstep,
         RecursionLimitReached, Hangs, NewRequest, Ended
<1>. QED  BY <1>1, <1>2, <1>3, <1>4 DEF Next, RunsANode

(* No attempt that a model overwrites is lost to the discovery feed
   (architect.py:169-178, corrector.py:136-145). *)
THEOREM AttemptsKept == Spec => AttemptsNeverLost
<1>1. Init => FirstPass
  BY DEF Init, FreshRequest, FirstPass
<1>. QED  BY <1>1, FirstPassStep, KeepsOverwritten, PTL DEF Spec, AttemptsNeverLost

-----------------------------------------------------------------------------
(* The routing and the counters *)

LEMMA ExecutorRoutes ==
    Executor => /\ node = "executor" /\ node' = RouteAfterExecutor'
                /\ steps < RecursionLimit /\ steps' = steps + 1
                /\ UNCHANGED <<config, counters>>
  BY DEF Executor, ExecutorNoOutput, ExecutorIdentical, ExecutorDuplicate,
         ExecutorSyntaxInvalid, ExecutorPlanIdentical, ExecutorValidates, ExecutorPass, Superstep

LEMMA CorrectorCounts ==
    Corrector => /\ node = "corrector" /\ node' = "executor"
                 /\ steps' = steps + 1 /\ correctorAttempts' = correctorAttempts + 1
                 /\ UNCHANGED <<config, reflectionIterations, retryAttempts, strategyAttempts>>
  BY DEF Corrector, CorrectorDiscards, CorrectorRejectsDeviation, CorrectorWrites,
         CorrectorPass, Superstep, findVars

LEMMA LeaversCount ==
    IndexAdvisor \/ IndexSimulationValidator =>
        /\ \/ node = "index_advisor" /\ node' = "index_simulation_validator"
           \/ node = "index_simulation_validator" /\ node' = "end"
        /\ steps' = steps + 1
        /\ UNCHANGED <<config, counters>>
  BY DEF IndexAdvisor, IndexSimulationValidator, NodeLeavesLoop, Superstep

(* A pass of the architect: from the semantic cache, an answer, or an exception. *)
LEMMA ArchitectCounts ==
    Architect =>
        /\ node = "architect" /\ steps' = steps + 1 /\ config' = config
        /\ node' \in {RouteAfterArchitect, "raised"}
        /\ \/ UNCHANGED counters /\ (node' # "raised" => ~Reenters)
           \/ /\ retryAttempts' = retryAttempts + (IF retryHint THEN 1 ELSE 0)
              /\ reflectionIterations' = reflectionIterations + (IF errors # {} THEN 1 ELSE 0)
              /\ IF config.twoAgent
                 THEN /\ correctorAttempts' = 0
                      /\ config.deadline \/ strategyAttempts' = strategyAttempts + 1
                 ELSE correctorAttempts' = correctorAttempts
<1>1. ArchitectCacheHit =>
          /\ node = "architect" /\ steps' = steps + 1 /\ config' = config
          /\ node' = RouteAfterArchitect /\ UNCHANGED counters /\ ~Reenters
  BY DEF ArchitectCacheHit, Superstep, SemanticHit
<1>2. ArchitectRaises =>
          /\ node = "architect" /\ steps' = steps + 1 /\ config' = config
          /\ node' = "raised" /\ UNCHANGED counters
  BY DEF ArchitectRaises, Superstep
<1>3. ArchitectPass =>
          /\ node = "architect" /\ steps' = steps + 1 /\ config' = config
          /\ node' = RouteAfterArchitect
          /\ retryAttempts' = retryAttempts + (IF retryHint THEN 1 ELSE 0)
          /\ reflectionIterations' = reflectionIterations + (IF errors # {} THEN 1 ELSE 0)
  BY DEF ArchitectPass, Superstep
<1>4. \A s : ArchitectWrites(s) =>
          ArchitectPass /\ ~config.twoAgent /\ correctorAttempts' = correctorAttempts
  BY DEF ArchitectWrites
<1>5. ArchitectTimesOut =>
          /\ ArchitectPass /\ config.deadline
          /\ correctorAttempts' = IF config.twoAgent THEN 0 ELSE correctorAttempts
  BY DEF ArchitectTimesOut
<1>6. \A t, f : ArchitectDecides(t, f) =>
          /\ ArchitectPass /\ config.twoAgent
          /\ strategyAttempts' = strategyAttempts + 1 /\ correctorAttempts' = 0
  BY DEF ArchitectDecides
<1>. QED  BY <1>1, <1>2, <1>3, <1>4, <1>5, <1>6 DEF Architect

LEMMA RawRoute ==
    ASSUME ~config'.twoAgent
    PROVE  /\ RouteAfterExecutor' \in {"architect", "corrector", "index_advisor", "end"}
           /\ RouteAfterExecutor' = "corrector" => correctorAttempts' < MaxCorrectorAttempts
           /\ RouteAfterExecutor' = "architect" => PaysForReturn'
  BY DEF RouteAfterExecutor, WriterRetries, MechanicalRepair, Restrategises, Reflects,
         RetriesForQuality, PaysForReturn

LEMMA TwoAgentRoute ==
    ASSUME config'.twoAgent
    PROVE  /\ RouteAfterExecutor' \in {"architect", "corrector", "index_advisor", "end"}
           /\ RouteAfterExecutor' = "corrector" => correctorAttempts' < MaxCorrectorAttempts
           /\ RouteAfterExecutor' = "architect" =>
                 strategyAttempts' < MaxStrategyAttempts /\ Reenters'
  BY DEF RouteAfterExecutor, WriterRetries, MechanicalRepair, Restrategises, Reflects,
         RetriesForQuality, Reenters

-----------------------------------------------------------------------------
(* One agent *)

LEMMA RawInit == Init => RawBudget
  BY BoundsAssumption DEF Init, FreshRequest, RawBudget, RawSteps, Reenters, Paid, Capped

LEMMA RawStep == DataOK /\ RawBudget /\ [Next]_vars => RawBudget'
<1>. SUFFICES ASSUME DataOK, RawBudget, [Next]_vars, ~config'.twoAgent PROVE RawBudget'
  BY DEF RawBudget
<1>1. /\ steps \in Int /\ reflectionIterations \in Nat /\ retryAttempts \in Nat
      /\ correctorAttempts \in Nat
      /\ MaxReflectionIterations \in Nat /\ MaxRetryAttempts \in Nat
      /\ MaxCorrectorAttempts \in Nat
  BY BoundsAssumption DEF DataOK
<1>2. CASE Architect
  <2>1. ~config.twoAgent /\ node = "architect" /\ steps' = steps + 1
    BY <1>2, ArchitectCounts
  <2>2. node' \in {"executor", "raised"}
    BY <1>2, <2>1, ArchitectCounts DEF RouteAfterArchitect
  <2>3. correctorAttempts' = correctorAttempts
    BY <1>2, <2>1, ArchitectCounts DEF counters
  <2>4. CASE /\ retryAttempts' = retryAttempts + (IF retryHint THEN 1 ELSE 0)
             /\ reflectionIterations' = reflectionIterations + (IF errors # {} THEN 1 ELSE 0)
    <3>1. Paid' >= Paid
      BY <1>1, <2>3, <2>4 DEF Paid, Capped
    <3>2. PaysForReturn => Paid' >= Paid + 1
      BY <1>1, <2>3, <2>4 DEF Paid, Capped, PaysForReturn
    <3>3. PICK p \in Nat : Paid' = p
      BY <1>1, <2>3, <2>4 DEF Paid, Capped
    <3>. Paid \in Nat
      BY <1>1 DEF Paid, Capped
    <3>4. PaysForReturn \/ steps = 2
      BY <2>1 DEF RawBudget
    <3>5. steps <= 4 + 2 * Paid
      BY <2>1 DEF RawBudget, RawSteps
    <3>6. steps \in Int /\ steps' = steps + 1
      BY <1>1, <2>1
    <3>7. steps' <= 3 + 2 * Paid'
      <4>1. CASE PaysForReturn
        <5>1. p >= Paid + 1
          BY <3>2, <3>3, <4>1
        <5>. QED  BY <3>3, <3>5, <3>6, <5>1
      <4>2. CASE steps = 2
        BY <3>3, <3>6, <4>2
      <4>. QED  BY <3>4, <4>1, <4>2
    <3>8. steps' <= RawSteps(node') + 2 * Paid'
      <4>1. RawSteps(node') \in {3, 6}
        BY <2>2 DEF RawSteps
      <4>. QED  BY <3>3, <3>6, <3>7, <4>1
    <3>. QED  BY <2>1, <2>2, <2>3, <3>8 DEF RawBudget
  <2>5. CASE UNCHANGED counters /\ (node' # "raised" => ~Reenters)
    <3>1. Paid' = Paid /\ Paid \in Nat
      BY <1>1, <2>5 DEF counters, Paid, Capped
    <3>2. node' = "executor" => steps = 2
      BY <2>1, <2>5 DEF RawBudget, PaysForReturn, Reenters
    <3>3. steps <= 4 + 2 * Paid
      BY <2>1 DEF RawBudget, RawSteps
    <3>4. steps' <= RawSteps(node') + 2 * Paid'
      BY <1>1, <2>1, <2>2, <3>1, <3>2, <3>3 DEF RawSteps
    <3>. QED  BY <2>1, <2>2, <2>3, <3>4 DEF RawBudget
  <2>. QED  BY <1>2, <2>1, <2>4, <2>5, ArchitectCounts
<1>3. CASE Corrector
  <2>1. /\ node = "corrector" /\ node' = "executor" /\ steps' = steps + 1
        /\ correctorAttempts' = correctorAttempts + 1
        /\ reflectionIterations' = reflectionIterations /\ retryAttempts' = retryAttempts
        /\ ~config.twoAgent
    BY <1>3, CorrectorCounts
  <2>2. /\ correctorAttempts < MaxCorrectorAttempts
        /\ steps <= 4 + 2 * Paid
    BY <2>1 DEF RawBudget, RawSteps
  <2>3. Paid' = Paid + 1 /\ Paid \in Nat
    BY <1>1, <2>1 DEF Paid, Capped
  <2>4. steps' <= RawSteps(node') + 2 * Paid'
    BY <1>1, <2>1, <2>2, <2>3 DEF RawSteps
  <2>. QED  BY <1>1, <2>1, <2>2, <2>4 DEF RawBudget
<1>4. CASE Executor
  <2>1. /\ node = "executor" /\ node' = RouteAfterExecutor' /\ steps' = steps + 1
        /\ UNCHANGED counters /\ ~config.twoAgent
    BY <1>4, ExecutorRoutes
  <2>2. steps <= 3 + 2 * Paid /\ Paid' = Paid /\ Paid \in Nat
        /\ correctorAttempts' <= MaxCorrectorAttempts
    BY <1>1, <2>1 DEF RawBudget, RawSteps, Paid, Capped, counters
  <2>3. steps' <= RawSteps(node') + 2 * Paid'
    <3>1. node' \in {"architect", "corrector", "index_advisor", "end"}
      BY <2>1, RawRoute
    <3>2. RawSteps(node') \in {4, 6}
      BY <3>1 DEF RawSteps
    <3>. QED  BY <1>1, <2>1, <2>2, <3>2
  <2>. QED  BY <2>1, <2>2, <2>3, RawRoute DEF RawBudget
<1>5. CASE IndexAdvisor \/ IndexSimulationValidator
  <2>1. /\ \/ node = "index_advisor" /\ node' = "index_simulation_validator"
           \/ node = "index_simulation_validator" /\ node' = "end"
        /\ steps' = steps + 1 /\ UNCHANGED counters /\ ~config.twoAgent
    BY <1>5, LeaversCount
  <2>2. Paid' = Paid /\ Paid \in Nat /\ correctorAttempts' <= MaxCorrectorAttempts
    BY <1>1, <2>1 DEF RawBudget, Paid, Capped, counters
  <2>3. steps <= RawSteps(node) + 2 * Paid
    BY <2>1 DEF RawBudget
  <2>4. RawSteps(node') = RawSteps(node) + 1
    BY <2>1 DEF RawSteps
  <2>5. RawSteps(node) \in {4, 5}
    BY <2>1 DEF RawSteps
  <2>6. steps' <= RawSteps(node') + 2 * Paid'
    BY <1>1, <2>1, <2>2, <2>3, <2>4, <2>5
  <2>. QED  BY <2>1, <2>2, <2>6 DEF RawBudget
<1>6. CASE RecursionLimitReached
  <2>1. /\ node' = "recursion_limit" /\ UNCHANGED <<steps, counters, config>>
    BY <1>6 DEF RecursionLimitReached
  <2>2. Paid' = Paid /\ Paid \in Nat /\ correctorAttempts' <= MaxCorrectorAttempts
    BY <1>1, <2>1 DEF RawBudget, Paid, Capped, counters
  <2>3. RawSteps(node) \in 3 .. 6 /\ RawSteps(node') = 6
    BY <2>1 DEF RawSteps
  <2>4. steps <= RawSteps(node) + 2 * Paid
    BY <2>1 DEF RawBudget
  <2>. QED  BY <1>1, <2>1, <2>2, <2>3, <2>4 DEF RawBudget
<1>9. CASE Hangs
  <2>1. /\ node' = "hung" /\ steps' = steps + 1 /\ UNCHANGED <<counters, config>>
        /\ node \in {"architect", "executor", "corrector"} \cup AfterLoopNodes
    BY <1>9 DEF Hangs, CallsOut, NodeLeavesLoop, Superstep
  <2>2. Paid' = Paid /\ Paid \in Nat /\ correctorAttempts' <= MaxCorrectorAttempts
    BY <1>1, <2>1 DEF RawBudget, Paid, Capped, counters
  <2>3. RawSteps(node) \in 3 .. 5 /\ RawSteps(node') = 6
    BY <2>1 DEF RawSteps, AfterLoopNodes
  <2>4. steps <= RawSteps(node) + 2 * Paid
    BY <2>1 DEF RawBudget
  <2>. QED  BY <1>1, <2>1, <2>2, <2>3, <2>4 DEF RawBudget
<1>7. CASE NewRequest
  BY <1>7, BoundsAssumption DEF NewRequest, RawBudget, RawSteps, Reenters, Paid, Capped
<1>8. CASE UNCHANGED vars
  <2>1. UNCHANGED <<node, steps, counters, config, errors, retryHint>>
    BY <1>8 DEF vars
  <2>2. /\ Paid' = Paid /\ PaysForReturn' = PaysForReturn /\ Reenters' = Reenters
        /\ RawSteps(node') = RawSteps(node)
    BY <2>1 DEF counters, Paid, Capped, PaysForReturn, Reenters
  <2>. QED  BY <2>1, <2>2 DEF RawBudget, counters
<1>. QED
  BY <1>2, <1>3, <1>4, <1>5, <1>6, <1>7, <1>8, <1>9 DEF Next, RunsANode

(* With one agent no request takes more steps than its counters pay for, whatever the
   models answer and the database returns (graph.py:107-120, architect.py:333-334). *)
THEOREM RawLoopEnds == Spec => []RawLoopBounded
<1>1. DataOK /\ RawBudget => RawLoopBounded
  <2>. SUFFICES ASSUME DataOK, RawBudget, ~config.twoAgent
                PROVE  steps <= 6 + 2 * (MaxReflectionIterations + MaxRetryAttempts
                                         + MaxCorrectorAttempts)
    BY DEF RawLoopBounded
  <2>1. /\ steps \in Int
        /\ MaxReflectionIterations \in Nat /\ MaxRetryAttempts \in Nat
        /\ MaxCorrectorAttempts \in Nat /\ reflectionIterations \in Nat
        /\ retryAttempts \in Nat /\ correctorAttempts \in Nat
    BY BoundsAssumption DEF DataOK
  <2>2. /\ correctorAttempts <= MaxCorrectorAttempts
        /\ steps <= RawSteps(node) + 2 * Paid
    BY DEF RawBudget
  <2>3. RawSteps(node) \in 3 .. 6
    BY DEF RawSteps
  <2>4. /\ Paid \in Nat
        /\ Paid <= MaxReflectionIterations + MaxRetryAttempts + MaxCorrectorAttempts
    BY <2>1, <2>2 DEF Paid, Capped
  <2>. QED  BY <2>1, <2>2, <2>3, <2>4
<1>2. TypeOK => DataOK
  BY DEF TypeOK
<1>. QED  BY <1>1, <1>2, TypeCorrect, RawInit, RawStep, PTL DEF Spec

-----------------------------------------------------------------------------
(* Two agents *)

LEMMA RoundsGrow ==
    ASSUME NEW n \in Nat, NEW m \in Nat, n <= m
    PROVE  /\ Rounds(n) \in Nat /\ Rounds(n + 1) = Rounds(n) + 1 + 2 * MaxCorrectorAttempts
           /\ Rounds(n) <= Rounds(m)
<1>1. Round \in Nat
  BY BoundsAssumption DEF Round
<1>2. n * Round \in Nat /\ (n + 1) * Round = n * Round + Round /\ n * Round <= m * Round
  BY <1>1
<1>. QED  BY <1>2, BoundsAssumption DEF Rounds, Round

LEMMA TwoAgentInit ==
    ASSUME MaxStrategyAttempts >= 1 PROVE Init => TwoAgentBudget
<1>. SUFFICES ASSUME Init PROVE TwoAgentBudget
  OBVIOUS
<1>1. Rounds(0 + 1) \in Nat
  BY RoundsGrow
<1>. QED  BY <1>1, BoundsAssumption DEF Init, FreshRequest, TwoAgentBudget, Reenters

LEMMA TwoAgentStep ==
    ASSUME MaxStrategyAttempts >= 1, MaxCorrectorAttempts >= 1
    PROVE  DataOK /\ TwoAgentBudget /\ [Next]_vars => TwoAgentBudget'
<1>. SUFFICES ASSUME DataOK, TwoAgentBudget, [Next]_vars,
                     config'.twoAgent, ~config'.deadline
              PROVE  TwoAgentBudget'
  BY DEF TwoAgentBudget
<1>1. /\ steps \in Int /\ strategyAttempts \in Nat /\ correctorAttempts \in Nat
      /\ MaxStrategyAttempts \in Nat /\ MaxCorrectorAttempts \in Nat
  BY BoundsAssumption DEF DataOK
<1>2. /\ Rounds(strategyAttempts) \in Nat
      /\ Rounds(strategyAttempts + 1) = Rounds(strategyAttempts) + 1 + 2 * MaxCorrectorAttempts
  BY <1>1, RoundsGrow
<1>3. CASE Architect
  <2>1. /\ config.twoAgent /\ ~config.deadline /\ node = "architect" /\ steps' = steps + 1
        /\ node' \in {"corrector", "raised"}
    BY <1>3, ArchitectCounts DEF RouteAfterArchitect
  <2>2. /\ strategyAttempts < MaxStrategyAttempts
        /\ strategyAttempts <= MaxStrategyAttempts
        /\ correctorAttempts <= MaxCorrectorAttempts
        /\ steps <= 2 + Rounds(strategyAttempts + 1)
        /\ ~Reenters => steps = 2 /\ strategyAttempts = 0 /\ correctorAttempts = 0
    BY <2>1 DEF TwoAgentBudget
  <2>3. /\ node' # "architect" /\ node' # "raised" => TwoAgentSteps(node') = 3
        /\ node' = "raised" => node' \in Ended
    BY <2>1 DEF TwoAgentSteps, Ended
  <2>4. CASE correctorAttempts' = 0 /\ strategyAttempts' = strategyAttempts + 1
    <3>1. /\ strategyAttempts' <= MaxStrategyAttempts
          /\ correctorAttempts' <= MaxCorrectorAttempts
          /\ correctorAttempts' < MaxCorrectorAttempts
      BY <1>1, <2>2, <2>4
    <3>2. steps' <= 3 + Rounds(strategyAttempts') + 2 * correctorAttempts'
      BY <1>1, <1>2, <2>1, <2>2, <2>4
    <3>. QED  BY <2>1, <2>3, <3>1, <3>2 DEF TwoAgentBudget
  <2>5. CASE UNCHANGED counters /\ (node' # "raised" => ~Reenters)
    <3>1. strategyAttempts' = strategyAttempts /\ correctorAttempts' = correctorAttempts
      BY <2>5 DEF counters
    <3>2. CASE node' = "raised"
      BY <2>1, <2>2, <3>1, <3>2 DEF TwoAgentBudget, Ended
    <3>3. CASE node' = "corrector"
      <4>1. steps' = 3 /\ strategyAttempts' = 0 /\ correctorAttempts' = 0 /\ Rounds(0) \in Nat
        BY <1>2, <2>1, <2>2, <2>5, <3>1, <3>3
      <4>2. steps' <= 3 + Rounds(strategyAttempts') + 2 * correctorAttempts'
        BY <4>1
      <4>. QED  BY <1>1, <2>2, <2>3, <3>3, <4>1, <4>2 DEF TwoAgentBudget
    <3>. QED  BY <2>1, <3>2, <3>3
  <2>. QED  BY <1>3, <2>1, <2>4, <2>5, ArchitectCounts
<1>4. CASE Corrector
  <2>1. /\ node = "corrector" /\ node' = "executor" /\ steps' = steps + 1
        /\ correctorAttempts' = correctorAttempts + 1 /\ strategyAttempts' = strategyAttempts
        /\ config.twoAgent /\ ~config.deadline
    BY <1>4, CorrectorCounts
  <2>2. /\ strategyAttempts <= MaxStrategyAttempts
        /\ correctorAttempts < MaxCorrectorAttempts
        /\ steps <= 3 + Rounds(strategyAttempts) + 2 * correctorAttempts
    BY <2>1 DEF TwoAgentBudget, TwoAgentSteps, Ended
  <2>3. /\ correctorAttempts' <= MaxCorrectorAttempts
        /\ steps' <= 2 + Rounds(strategyAttempts') + 2 * correctorAttempts'
    BY <1>1, <1>2, <2>1, <2>2
  <2>. QED  BY <2>1, <2>2, <2>3 DEF TwoAgentBudget, TwoAgentSteps
<1>5. CASE Executor
  <2>1. /\ node = "executor" /\ node' = RouteAfterExecutor' /\ steps' = steps + 1
        /\ strategyAttempts' = strategyAttempts /\ correctorAttempts' = correctorAttempts
        /\ config.twoAgent /\ ~config.deadline
    BY <1>5, ExecutorRoutes DEF counters
  <2>2. /\ strategyAttempts <= MaxStrategyAttempts
        /\ correctorAttempts <= MaxCorrectorAttempts
        /\ steps <= 2 + Rounds(strategyAttempts) + 2 * correctorAttempts
    BY <2>1 DEF TwoAgentBudget, TwoAgentSteps, Ended
  <2>3. /\ node' \in {"architect", "corrector", "index_advisor", "end"}
        /\ node' = "corrector" => correctorAttempts' < MaxCorrectorAttempts
        /\ node' = "architect" => strategyAttempts' < MaxStrategyAttempts /\ Reenters'
    BY <2>1, TwoAgentRoute
  <2>4. /\ steps' <= 3 + Rounds(strategyAttempts') + 2 * correctorAttempts'
        /\ steps' <= 2 + Rounds(strategyAttempts' + 1)
    BY <1>1, <1>2, <2>1, <2>2
  <2>5. node' # "architect" => node' = "end" \/ TwoAgentSteps(node') = 3
    BY <2>3 DEF TwoAgentSteps
  <2>. QED  BY <2>1, <2>2, <2>3, <2>4, <2>5 DEF TwoAgentBudget, Ended
<1>6. CASE IndexAdvisor \/ IndexSimulationValidator
  <2>1. /\ \/ node = "index_advisor" /\ node' = "index_simulation_validator"
           \/ node = "index_simulation_validator" /\ node' = "end"
        /\ steps' = steps + 1
        /\ strategyAttempts' = strategyAttempts /\ correctorAttempts' = correctorAttempts
        /\ config.twoAgent /\ ~config.deadline
    BY <1>6, LeaversCount DEF counters
  <2>2. /\ strategyAttempts <= MaxStrategyAttempts
        /\ correctorAttempts <= MaxCorrectorAttempts
        /\ node = "index_advisor" =>
              steps <= 3 + Rounds(strategyAttempts) + 2 * correctorAttempts
    BY <2>1 DEF TwoAgentBudget, TwoAgentSteps, Ended
  <2>3. node = "index_advisor" =>
            steps' <= 4 + Rounds(strategyAttempts') + 2 * correctorAttempts'
    BY <1>1, <1>2, <2>1, <2>2
  <2>. QED  BY <2>1, <2>2, <2>3 DEF TwoAgentBudget, TwoAgentSteps, Ended
<1>7. CASE RecursionLimitReached \/ Hangs
  BY <1>7 DEF RecursionLimitReached, Hangs, NodeLeavesLoop, Superstep, TwoAgentBudget, counters,
              Ended
<1>8. CASE NewRequest
  <2>1. Rounds(0 + 1) \in Nat
    BY RoundsGrow
  <2>. QED  BY <1>1, <1>8, <2>1 DEF NewRequest, TwoAgentBudget, Reenters
<1>9. CASE UNCHANGED vars
  BY <1>9 DEF vars, TwoAgentBudget, counters, Reenters
<1>. QED
  BY <1>3, <1>4, <1>5, <1>6, <1>7, <1>8, <1>9 DEF Next, RunsANode

-----------------------------------------------------------------------------
LEMMA LimitNotReached ==
    ASSUME RecursionLimit >= 6 + 2 * (MaxReflectionIterations + MaxRetryAttempts
                                      + MaxCorrectorAttempts),
           RecursionLimit >= 4 + Rounds(MaxStrategyAttempts + 1)
    PROVE  DataOK /\ RawBudget /\ TwoAgentBudget /\ LoopFitsTheLimit /\ [Next]_vars
           => LoopFitsTheLimit'
<1>. SUFFICES ASSUME DataOK, RawBudget, TwoAgentBudget, LoopFitsTheLimit, [Next]_vars,
                     ~(config'.twoAgent /\ config'.deadline), node' = "recursion_limit"
              PROVE  FALSE
  BY DEF LoopFitsTheLimit
<1>1. CASE RecursionLimitReached
  <2>1. node \notin Ended /\ steps = RecursionLimit /\ config' = config
    BY <1>1 DEF RecursionLimitReached
  <2>2. /\ steps \in Int /\ strategyAttempts \in Nat /\ correctorAttempts \in Nat
        /\ reflectionIterations \in Nat /\ retryAttempts \in Nat
        /\ MaxReflectionIterations \in Nat /\ MaxRetryAttempts \in Nat
        /\ MaxCorrectorAttempts \in Nat /\ MaxStrategyAttempts \in Nat
    BY BoundsAssumption DEF DataOK
  <2>3. CASE ~config.twoAgent
    <3>1. /\ correctorAttempts <= MaxCorrectorAttempts
          /\ steps <= RawSteps(node) + 2 * Paid
      BY <2>3 DEF RawBudget
    <3>2. RawSteps(node) \in 3 .. 5
      BY <2>1 DEF RawSteps, Ended, DataOK, Node, AfterLoopNodes
    <3>3. /\ Paid \in Nat
          /\ Paid <= MaxReflectionIterations + MaxRetryAttempts + MaxCorrectorAttempts
      BY <2>2, <3>1 DEF Paid, Capped
    <3>. QED  BY <2>1, <2>2, <3>1, <3>2, <3>3
  <2>4. CASE config.twoAgent
    <3>1. /\ strategyAttempts <= MaxStrategyAttempts
          /\ correctorAttempts <= MaxCorrectorAttempts
      BY <2>1, <2>4 DEF TwoAgentBudget
    <3>2. /\ Rounds(strategyAttempts) <= Rounds(MaxStrategyAttempts)
          /\ Rounds(strategyAttempts) \in Nat /\ Rounds(MaxStrategyAttempts) \in Nat
          /\ Rounds(strategyAttempts + 1)
                = Rounds(strategyAttempts) + 1 + 2 * MaxCorrectorAttempts
          /\ Rounds(MaxStrategyAttempts + 1)
                = Rounds(MaxStrategyAttempts) + 1 + 2 * MaxCorrectorAttempts
      BY <2>2, <3>1, RoundsGrow
    <3>3. CASE node = "architect"
      <4>1. steps <= 2 + Rounds(strategyAttempts + 1)
        BY <2>1, <2>4, <3>3 DEF TwoAgentBudget
      <4>. QED  BY <2>1, <2>2, <3>2, <4>1
    <3>4. CASE node # "architect"
      <4>1. steps <= TwoAgentSteps(node) + Rounds(strategyAttempts) + 2 * correctorAttempts
        BY <2>1, <2>4, <3>4 DEF TwoAgentBudget
      <4>2. TwoAgentSteps(node) \in 2 .. 4
        BY DEF TwoAgentSteps
      <4>. QED  BY <2>1, <2>2, <3>1, <3>2, <4>1, <4>2
    <3>. QED  BY <3>3, <3>4
  <2>. QED  BY <2>3, <2>4
<1>2. CASE Architect \/ Corrector \/ IndexAdvisor \/ IndexSimulationValidator \/ NewRequest
  BY <1>2, ArchitectKeeps, CorrectorKeeps, LeaversCount DEF NewRequest
<1>3. CASE Executor
  <2>1. node' \in {"architect", "corrector", "index_advisor", "end"}
    BY <1>3, ExecutorRoutes DEF RouteAfterExecutor
  <2>. QED  BY <2>1
<1>4. CASE UNCHANGED vars
  BY <1>4 DEF vars, LoopFitsTheLimit
<1>5. CASE Hangs
  BY <1>5 DEF Hangs, NodeLeavesLoop
<1>. QED  BY <1>1, <1>2, <1>3, <1>4, <1>5 DEF Next, RunsANode

(* LangGraph's recursion limit ends no request, of either mode, that runs without an
   architect deadline in two-agent mode, as long as it leaves room for the loop's own
   limits: 18 and 24 steps for those of graph.py:14-20 and architect.py:12, against the
   default of 25. *)
THEOREM LimitSuffices ==
    ASSUME MaxStrategyAttempts >= 1, MaxCorrectorAttempts >= 1,
           RecursionLimit >= 6 + 2 * (MaxReflectionIterations + MaxRetryAttempts
                                      + MaxCorrectorAttempts),
           RecursionLimit >= 4 + Rounds(MaxStrategyAttempts + 1)
    PROVE  Spec => []LoopFitsTheLimit
<1>1. TypeOK => DataOK
  BY DEF TypeOK
<1>2. Init => LoopFitsTheLimit
  BY DEF Init, FreshRequest, LoopFitsTheLimit
<1>3. Init => TwoAgentBudget
  BY TwoAgentInit
<1>4. DataOK /\ TwoAgentBudget /\ [Next]_vars => TwoAgentBudget'
  BY TwoAgentStep
<1>5. DataOK /\ RawBudget /\ TwoAgentBudget /\ LoopFitsTheLimit /\ [Next]_vars
      => LoopFitsTheLimit'
  BY LimitNotReached
<1>. QED  BY <1>1, <1>2, <1>3, <1>4, <1>5, TypeCorrect, RawInit, RawStep, PTL DEF Spec
=============================================================================
