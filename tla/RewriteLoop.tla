----------------------------- MODULE RewriteLoop -----------------------------
(***************************************************************************)
(* The rewrite loop: the LangGraph graph of pipeline/graph.py with its     *)
(* architect, corrector and executor nodes, over the shared PipelineState. *)
(* One step is one node run (one superstep); LangGraph runs one node at a  *)
(* time and aborts a request that takes more than RecursionLimit of them.  *)
(* Requests follow one another and share the semantic cache.               *)
(*                                                                         *)
(* The models' answers are arbitrary SQL texts; what the database returns  *)
(* is an arbitrary measure, and ExecutorVerdict says what the executor     *)
(* makes of it.  Environment toggles are the fields of config.             *)
(***************************************************************************)
EXTENDS ExecutorVerdict, FiniteSets

CONSTANTS
    Sql,                   \* the SQL texts a model can write
    Raw,                   \* the query of the request
    NoSql,                 \* optimized_sql is None or empty
    Unparseable,           \* texts validate_syntax refuses
    Repair,                \* Repair[s]: s with the ORDER BY/LIMIT it dropped restored
    OriginalMeasures,      \* what the database may say of Raw
    MeasuresOf,            \* MeasuresOf[s]: what it may say of s
    NoMeasure,             \* original_measure_cache is absent
    NoValidation,          \* validation_result is None
    Configs,               \* the settings of the toggles
    MaxReflectionIterations,
    MaxRetryAttempts,
    MaxCorrectorAttempts,
    MaxStrategyAttempts,
    ComboThreshold,        \* REWRITE_INDEX_COMBO_THRESHOLD_PCT, basis points
    ComboMinMs,            \* REWRITE_INDEX_COMBO_MIN_MS
    RecursionLimit         \* LangGraph's recursion_limit

Config ==
    [twoAgent : BOOLEAN,       \* TWO_AGENT_MODE
     corrector : BOOLEAN,      \* CORRECTOR_ENABLED
     discovery : BOOLEAN,      \* DISCOVERY_MODE
     deadline : BOOLEAN,       \* ARCHITECT_TIMEOUT_S > 0
     adherenceGate : BOOLEAN,  \* WRITER_ADHERENCE_CHECK and ADHERENCE_GATE
     semanticCache : BOOLEAN,  \* DISABLE_SEMANTIC_CACHE unset
     strategyCache : BOOLEAN]  \* STRATEGY_CACHE

(* A validation_result: the SQL that was measured and what was measured. *)
Validation == [sql : Sql, original : OriginalMeasure, candidate : CandidateMeasure]

ASSUME SqlAssumption ==
    /\ Raw \in Sql /\ NoSql \notin Sql /\ Unparseable \subseteq Sql
    /\ Repair \in [Sql -> Sql]
    /\ \A s \in Sql : Repair[Repair[s]] = Repair[s]

ASSUME MeasureAssumption ==
    /\ OriginalMeasures \subseteq OriginalMeasure /\ NoMeasure \notin OriginalMeasure
    /\ MeasuresOf \in [Sql -> SUBSET CandidateMeasure]
    /\ NoValidation \notin Validation

ASSUME BoundsAssumption ==
    /\ Configs \subseteq Config
    /\ MaxReflectionIterations \in Nat /\ MaxRetryAttempts \in Nat
    /\ MaxCorrectorAttempts \in Nat /\ MaxStrategyAttempts \in Nat
    /\ ComboThreshold \in Int /\ ComboMinMs \in Nat
    /\ RecursionLimit \in Nat /\ RecursionLimit >= 2

VARIABLES
    node,                  \* the node to run next, or how the request ended
    steps,                 \* supersteps taken
    optimizedSql, cacheHit, fromCorrector,
    author,                \* history variable: who wrote optimizedSql
    errors,                \* reflection_errors
    retryHint,             \* retry_hint is set
    reflectionIterations, retryAttempts, correctorAttempts, strategyAttempts,
    strategy,              \* none, the empty text, or a text
    cachedStrategy,        \* cached_strategy_id is set
    architectTimedOut,
    approved, validation, bestSql, bestValidation,
    rejected,              \* rejected_sql_attempts
    attemptHistory,
    originalMeasure,       \* original_measure_cache
    semanticCache,         \* the rewrites stored for Raw
    config

counters == <<reflectionIterations, retryAttempts, correctorAttempts, strategyAttempts>>
findVars == <<strategy, cachedStrategy, architectTimedOut, strategyAttempts>>
writeVars == <<optimizedSql, author, fromCorrector>>
verdictVars == <<approved, validation, bestSql, bestValidation>>
memoryVars == <<rejected, originalMeasure, semanticCache>>
vars == <<node, steps, writeVars, cacheHit, errors, retryHint, counters, strategy,
          cachedStrategy, architectTimedOut, verdictVars, memoryVars, attemptHistory, config>>

(* A request whose node waits for a call that never returns has ended for good too. *)
Ended == {"end", "raised", "recursion_limit", "hung"}
AfterLoopNodes == {"index_advisor", "index_simulation_validator"}
Node == {"architect", "corrector", "executor"} \cup AfterLoopNodes \cup Ended

FlagsOK ==
    /\ cacheHit \in BOOLEAN /\ fromCorrector \in BOOLEAN
    /\ retryHint \in BOOLEAN /\ approved \in BOOLEAN
    /\ cachedStrategy \in BOOLEAN /\ architectTimedOut \in BOOLEAN

DataOK ==
    /\ node \in Node
    /\ steps \in 2 .. RecursionLimit
    /\ optimizedSql \in Sql \cup {NoSql}
    /\ author \in {"none", "architect", "writer", "cache"}
    /\ errors \subseteq ErrorKind
    /\ reflectionIterations \in Nat /\ retryAttempts \in Nat
    /\ correctorAttempts \in Nat /\ strategyAttempts \in Nat
    /\ strategy \in {"none", "empty", "given"}
    /\ validation \in Validation \cup {NoValidation}
    /\ bestSql \in Sql \cup {NoSql}
    /\ bestValidation \in Validation \cup {NoValidation}
    /\ rejected \subseteq Sql /\ attemptHistory \subseteq Sql
    /\ originalMeasure \in OriginalMeasure \cup {NoMeasure}
    /\ semanticCache \subseteq Sql
    /\ config \in Configs

TypeOK == FlagsOK /\ DataOK

(* The state a request starts the loop with: the router and the schema analyst *)
(* have run and set none of these fields.                                      *)
FreshRequest ==
    /\ node = "architect" /\ steps = 2
    /\ optimizedSql = NoSql /\ cacheHit = FALSE /\ fromCorrector = FALSE /\ author = "none"
    /\ errors = {} /\ retryHint = FALSE
    /\ reflectionIterations = 0 /\ retryAttempts = 0
    /\ correctorAttempts = 0 /\ strategyAttempts = 0
    /\ strategy = "none" /\ cachedStrategy = FALSE /\ architectTimedOut = FALSE
    /\ approved = FALSE /\ validation = NoValidation
    /\ bestSql = NoSql /\ bestValidation = NoValidation
    /\ rejected = {} /\ attemptHistory = {} /\ originalMeasure = NoMeasure

Init ==
    /\ FreshRequest
    /\ semanticCache = {}
    /\ config \in Configs

(* LangGraph: a node runs only within the recursion limit. *)
Superstep(n) ==
    /\ node = n /\ steps < RecursionLimit
    /\ steps' = steps + 1
    /\ UNCHANGED config

-----------------------------------------------------------------------------
(* Routing *)

RouteAfterArchitect == IF config.twoAgent THEN "corrector" ELSE "executor"

(* Two agents: the writer rewrites the same strategy. *)
WriterRetries ==
    config.twoAgent /\ errors # {} /\ correctorAttempts < MaxCorrectorAttempts

(* Two agents: the writer is exhausted, or the rewrite was valid but no gain. *)
Restrategises ==
    /\ config.twoAgent /\ strategyAttempts < MaxStrategyAttempts
    /\ \/ errors # {} /\ correctorAttempts >= MaxCorrectorAttempts
       \/ errors = {} /\ retryHint /\ ~cacheHit /\ ~cachedStrategy

(* One agent: a mechanical failure goes to the code model. *)
MechanicalRepair ==
    /\ ~config.twoAgent /\ config.corrector
    /\ MechanicalFailure(errors) /\ correctorAttempts < MaxCorrectorAttempts

Reflects ==
    ~config.twoAgent /\ errors # {} /\ reflectionIterations < MaxReflectionIterations

(* Mutant: the attempts are not counted against the limit. *)
RetriesForQualityForever == ~config.twoAgent /\ retryHint /\ ~cacheHit

RetriesForQuality ==
    ~config.twoAgent /\ retryHint /\ retryAttempts < MaxRetryAttempts /\ ~cacheHit

(* The time a validation_result reports, with the plan-identity path's zero gain. *)
ReportedImprovement(v) ==
    IF PlanIdentical(v.original, v.candidate)
    THEN 0
    ELSE MeasuredImprovement(v.original, v.candidate)

ReportedMs(v) ==
    IF ~PlanIdentical(v.original, v.candidate)
       /\ VerifyImprovement(v.original, v.candidate) # NoValue
    THEN v.candidate.sf1Optimized ELSE v.candidate.ms

RewriteIsMarginal(v) ==
    /\ v # NoValidation
    /\ ReportedImprovement(v) # NoValue /\ ReportedMs(v) # NoValue
    /\ ReportedImprovement(v) < ComboThreshold /\ ReportedMs(v) > ComboMinMs

EscalatesToIndex ==
    /\ config.discovery
    /\ \/ ~approved
       \/ bestSql = NoSql /\ ~cacheHit
       \/ ~cacheHit /\ RewriteIsMarginal(IF bestValidation # NoValidation
                                         THEN bestValidation ELSE validation)

RouteAfterExecutor ==
    IF WriterRetries \/ MechanicalRepair THEN "corrector"
    ELSE IF Restrategises \/ Reflects \/ RetriesForQuality THEN "architect"
    ELSE IF EscalatesToIndex THEN "index_advisor" ELSE "end"

-----------------------------------------------------------------------------
(* The architect *)

Reenters == errors # {} \/ retryHint

SemanticHit == config.semanticCache /\ ~Reenters /\ semanticCache # {}

(* A cached rewrite skips the model; nothing else of the state is touched. *)
ArchitectCacheHit ==
    /\ Superstep("architect")
    /\ SemanticHit
    /\ optimizedSql' \in semanticCache
    /\ author' = "cache"
    /\ cacheHit' = TRUE
    /\ node' = RouteAfterArchitect
    /\ UNCHANGED <<fromCorrector, errors, retryHint, counters, strategy, cachedStrategy,
                   architectTimedOut, verdictVars, memoryVars, attemptHistory>>

(* Mutant: only an attempt rejected with an error is kept. *)
KeepOverwrittenOnError ==
    attemptHistory' = IF errors # {} /\ optimizedSql # NoSql
                      THEN attemptHistory \cup {optimizedSql} ELSE attemptHistory

(* Mutant: the empty text is kept as if it were an attempt. *)
KeepOverwrittenEvenEmpty ==
    attemptHistory' = IF Reenters THEN attemptHistory \cup {optimizedSql} ELSE attemptHistory

KeepOverwritten ==
    attemptHistory' = IF Reenters /\ optimizedSql # NoSql
                      THEN attemptHistory \cup {optimizedSql} ELSE attemptHistory

(* What every pass that asks the model (or the strategy cache) does. *)
ArchitectPass ==
    /\ Superstep("architect")
    /\ ~SemanticHit
    /\ cacheHit' = FALSE
    /\ fromCorrector' = FALSE
    /\ retryHint' = FALSE
    /\ retryAttempts' = retryAttempts + (IF retryHint THEN 1 ELSE 0)
    /\ reflectionIterations' = reflectionIterations + (IF errors # {} THEN 1 ELSE 0)
    /\ KeepOverwritten
    /\ node' = RouteAfterArchitect
    /\ UNCHANGED <<errors, verdictVars, memoryVars>>

(* One agent: the model writes SQL, or nothing that can be extracted. *)
ArchitectWrites(s) ==
    /\ ArchitectPass
    /\ ~config.twoAgent
    /\ optimizedSql' = s
    /\ author' = IF s = NoSql THEN "none" ELSE "architect"
    /\ cachedStrategy' = FALSE
    /\ architectTimedOut' = FALSE
    /\ UNCHANGED <<strategy, strategyAttempts, correctorAttempts>>

(* The call hits ARCHITECT_TIMEOUT_S: no SQL, no strategy.  A strategy counts *)
(* as an attempt only when there is one; the writer's attempts start again.   *)
ArchitectTimesOut ==
    /\ ArchitectPass
    /\ config.deadline
    /\ optimizedSql' = NoSql
    /\ author' = "none"
    /\ cachedStrategy' = FALSE
    /\ architectTimedOut' = TRUE
    /\ UNCHANGED strategyAttempts
    /\ strategy' = IF config.twoAgent THEN "none" ELSE strategy
    /\ correctorAttempts' = IF config.twoAgent THEN 0 ELSE correctorAttempts

(* Two agents: the strategy is the model's answer, from the cache or new. *)
ArchitectDecides(text, fromCache) ==
    /\ ArchitectPass
    /\ config.twoAgent
    /\ fromCache => config.strategyCache /\ ~Reenters /\ text = "given"
    /\ optimizedSql' = NoSql
    /\ author' = "none"
    /\ strategy' = text
    /\ strategyAttempts' = strategyAttempts + 1
    /\ correctorAttempts' = 0
    /\ cachedStrategy' = fromCache
    /\ architectTimedOut' = FALSE

(* The model call raises; nothing catches it and the request is lost. *)
ArchitectRaises ==
    /\ Superstep("architect")
    /\ ~SemanticHit
    /\ node' = "raised"
    /\ UNCHANGED <<writeVars, cacheHit, errors, retryHint, counters, strategy, cachedStrategy,
                   architectTimedOut, verdictVars, memoryVars, attemptHistory>>

-----------------------------------------------------------------------------
(* The corrector: it writes from a strategy, or repairs a failed attempt. *)

Generates == config.twoAgent /\ strategy = "given"

CorrectorPass ==
    /\ Superstep("corrector")
    /\ correctorAttempts' = correctorAttempts + 1
    /\ attemptHistory' = attemptHistory \cup ({optimizedSql} \ {Raw, NoSql})
    /\ node' = "executor"
    /\ UNCHANGED <<cacheHit, retryHint, reflectionIterations, retryAttempts, findVars,
                   verdictVars, memoryVars>>

(* Failed call, empty answer, revert to the original, or another strategy than  *)
(* the one under repair: the attempt stays as it was.                           *)
CorrectorDiscards ==
    /\ CorrectorPass
    /\ fromCorrector' = FALSE
    /\ UNCHANGED <<optimizedSql, author, errors>>

(* The adherence judge says the writer substituted its own optimization. *)
CorrectorRejectsDeviation ==
    /\ CorrectorPass
    /\ Generates /\ config.adherenceGate
    /\ fromCorrector' = FALSE
    /\ errors' = {"deviated"}
    /\ UNCHANGED <<optimizedSql, author>>

CorrectorWrites(s) ==
    /\ CorrectorPass
    /\ s # Raw
    /\ Generates \/ s # optimizedSql
    /\ optimizedSql' = s
    /\ author' = "writer"
    /\ fromCorrector' = TRUE
    /\ errors' = {}

-----------------------------------------------------------------------------
(* The executor *)

ExecutorPass ==
    /\ Superstep("executor")
    /\ UNCHANGED <<cacheHit, counters, strategy, cachedStrategy, architectTimedOut, author,
                   fromCorrector, attemptHistory>>
    /\ node' = RouteAfterExecutor'

ExecutorNoOutput ==
    /\ optimizedSql = NoSql
    /\ errors' = IF architectTimedOut THEN {"architect_timeout"} ELSE {"no_output"}
    /\ approved' = FALSE
    /\ UNCHANGED <<optimizedSql, retryHint, validation, bestSql, bestValidation, memoryVars>>
    /\ ExecutorPass

ExecutorIdentical ==
    /\ optimizedSql = Raw
    /\ errors' = {}
    /\ approved' = TRUE
    /\ retryHint' = TRUE
    /\ validation' = NoValidation
    /\ UNCHANGED <<optimizedSql, bestSql, bestValidation, memoryVars>>
    /\ ExecutorPass

ExecutorDuplicate ==
    /\ optimizedSql \in rejected \ {Raw}
    /\ errors' = {"duplicate"}
    /\ approved' = FALSE
    /\ retryHint' = TRUE
    /\ UNCHANGED <<optimizedSql, validation, bestSql, bestValidation, memoryVars>>
    /\ ExecutorPass

(* Mutant: the verdict of the attempt before is not reset. *)
ExecutorSyntaxKeepsVerdict ==
    /\ optimizedSql \in Unparseable \ (rejected \cup {Raw})
    /\ errors' = {"syntax"}
    /\ UNCHANGED <<optimizedSql, retryHint, verdictVars, memoryVars>>
    /\ ExecutorPass

ExecutorSyntaxInvalid ==
    /\ optimizedSql \in Unparseable \ (rejected \cup {Raw})
    /\ errors' = {"syntax"}
    /\ approved' = FALSE
    /\ UNCHANGED <<optimizedSql, retryHint, validation, bestSql, bestValidation, memoryVars>>
    /\ ExecutorPass

(* The texts that reach the database, and the original's measure, taken once. *)
Executable(s) == s \in Sql \ ({Raw} \cup rejected \cup Unparseable)

(* Mutant: the memo is written and never read. *)
BaselinesForgotten == OriginalMeasures

Baselines == IF originalMeasure = NoMeasure THEN OriginalMeasures ELSE {originalMeasure}

Validated(s, o, c) == [sql |-> Repair[s], original |-> o, candidate |-> c]

(* The early return of the plan-identity gate: the repaired text is measured, *)
(* the state keeps the text the model wrote.                                  *)
ExecutorPlanIdentical(o, c) ==
    /\ Executable(optimizedSql)
    /\ PlanIdentical(o, c)
    /\ errors' = {}
    /\ approved' = TRUE
    /\ retryHint' = TRUE
    /\ validation' = Validated(optimizedSql, o, c)
    /\ UNCHANGED <<optimizedSql, bestSql, bestValidation, memoryVars>>
    /\ ExecutorPass

(* The best result so far is replaced by a land with a larger gain. *)
BecomesBest(o, c) ==
    /\ Lands(o, c)
    /\ \/ bestSql = NoSql
       \/ Gain(o, c) > Gain(bestValidation.original, bestValidation.candidate)

(* Mutant: every approval asks for a quality retry. *)
HintAfterAnyApproval(o, c) == retryHint' = Approved(o, c)

HintAfter(o, c) ==
    retryHint' = (Approved(o, c) /\ (~GainEvidence(o, c) \/ LowImprovement(o, c)))

ExecutorValidates(o, c) ==
    /\ Executable(optimizedSql)
    /\ ~PlanIdentical(o, c)
    /\ optimizedSql' = Repair[optimizedSql]
    /\ validation' = Validated(optimizedSql, o, c)
    /\ errors' = ReflectionErrors(o, c)
    /\ approved' = Approved(o, c)
    /\ HintAfter(o, c)
    /\ rejected' = rejected \cup (IF Remembered(o, c) THEN {optimizedSql'} ELSE {})
    /\ semanticCache' = semanticCache \cup (IF Stored(o, c) THEN {optimizedSql'} ELSE {})
    /\ originalMeasure' = o
    /\ bestSql' = IF BecomesBest(o, c) THEN optimizedSql' ELSE bestSql
    /\ bestValidation' = IF BecomesBest(o, c) THEN validation' ELSE bestValidation
    /\ ExecutorPass

-----------------------------------------------------------------------------
(* The rest of a request.  The index nodes leave every field of this module *)
(* as it is.                                                                *)

NodeLeavesLoop(n, next) ==
    /\ Superstep(n)
    /\ node' = next
    /\ UNCHANGED <<writeVars, cacheHit, errors, retryHint, counters, strategy, cachedStrategy,
                   architectTimedOut, verdictVars, memoryVars, attemptHistory>>

IndexAdvisor == NodeLeavesLoop("index_advisor", "index_simulation_validator")

IndexSimulationValidator == NodeLeavesLoop("index_simulation_validator", "end")

(* A model that never answers: the clients are built without a time limit and the *)
(* architect's deadline, where there is one, is looked at between two chunks.  A   *)
(* statement that waits for a lock has none either.  A hit in the semantic cache,  *)
(* and the executor's early returns, call nobody.                                  *)
CallsOut ==
    \/ node = "architect" /\ ~SemanticHit
    \/ node = "executor" /\ Executable(optimizedSql)
    \/ node \in {"corrector"} \cup AfterLoopNodes

Hangs ==
    /\ CallsOut
    /\ NodeLeavesLoop(node, "hung")

(* LangGraph raises GraphRecursionError. *)
RecursionLimitReached ==
    /\ node \notin Ended
    /\ steps = RecursionLimit
    /\ node' = "recursion_limit"
    /\ UNCHANGED <<steps, writeVars, cacheHit, errors, retryHint, counters, strategy,
                   cachedStrategy, architectTimedOut, verdictVars, memoryVars, attemptHistory,
                   config>>

(* The next request for the same query; a hung one keeps its thread and      *)
(* changes nothing any more.  The schema analyst clears the semantic cache   *)
(* when the schema changed in between.                                       *)
NewRequest ==
    /\ node \in Ended
    /\ node' = "architect" /\ steps' = 2
    /\ optimizedSql' = NoSql /\ cacheHit' = FALSE /\ fromCorrector' = FALSE
    /\ author' = "none" /\ errors' = {} /\ retryHint' = FALSE
    /\ reflectionIterations' = 0 /\ retryAttempts' = 0
    /\ correctorAttempts' = 0 /\ strategyAttempts' = 0
    /\ strategy' = "none" /\ cachedStrategy' = FALSE /\ architectTimedOut' = FALSE
    /\ approved' = FALSE /\ validation' = NoValidation
    /\ bestSql' = NoSql /\ bestValidation' = NoValidation
    /\ rejected' = {} /\ attemptHistory' = {} /\ originalMeasure' = NoMeasure
    /\ semanticCache' \in {semanticCache, {}}
    /\ UNCHANGED config

Architect ==
    \/ ArchitectCacheHit
    \/ \E s \in Sql \cup {NoSql} : ArchitectWrites(s)
    \/ ArchitectTimesOut
    \/ \E text \in {"empty", "given"}, fromCache \in BOOLEAN : ArchitectDecides(text, fromCache)
    \/ ArchitectRaises

Corrector ==
    \/ CorrectorDiscards
    \/ CorrectorRejectsDeviation
    \/ \E s \in Sql : CorrectorWrites(s)

Executor ==
    \/ ExecutorNoOutput
    \/ ExecutorIdentical
    \/ ExecutorDuplicate
    \/ ExecutorSyntaxInvalid
    \/ /\ optimizedSql \in Sql
       /\ \E o \in Baselines, c \in MeasuresOf[Repair[optimizedSql]] :
             ExecutorPlanIdentical(o, c) \/ ExecutorValidates(o, c)

RunsANode == Architect \/ Corrector \/ Executor \/ IndexAdvisor \/ IndexSimulationValidator

Next == RunsANode \/ Hangs \/ RecursionLimitReached \/ NewRequest

Spec == Init /\ [][Next]_vars

(* A node's call returns or does not, and nothing in the code makes it return; a *)
(* node whose calls returned makes its step.  Nothing makes a client ask again.  *)
FairSpec == Spec /\ WF_vars(RunsANode \/ Hangs) /\ WF_vars(RecursionLimitReached)

-----------------------------------------------------------------------------
(* What the router answers when the graph ends (_build_result) *)

ServedSql ==
    IF bestSql # NoSql THEN bestSql
    ELSE IF approved THEN optimizedSql ELSE NoSql

ServedValidation == IF bestSql # NoSql THEN bestValidation ELSE validation

EndedInMechanics ==
    ExecutionFailure \cup {"syntax", "original_exec", "unknown_refs", "duplicate", "no_output"}

Outcome ==
    CASE architectTimedOut -> "timeout"
      [] ~architectTimedOut /\ ServedSql # NoSql ->
            IF bestSql # NoSql THEN "rewrite_correct" ELSE "no_gain"
      [] OTHER ->
            IF "unverified" \in errors \/ (validation # NoValidation
                   /\ Unverified(validation.original, validation.candidate)) THEN "unverified"
            ELSE IF validation # NoValidation
                   /\ Integrity(validation.original, validation.candidate) = "diff"
                 THEN "equivalence_failed_semantic"
            ELSE IF errors \cap EndedInMechanics # {} THEN "mechanics_failed"
            ELSE IF "structural" \in errors THEN "equivalence_failed_structural"
            ELSE "no_gain"

-----------------------------------------------------------------------------
(* Properties *)

Certified(v) ==
    \/ Approved(v.original, v.candidate)
    \/ PlanIdentical(v.original, v.candidate)

(* What a request serves, unless it is the query itself, was measured: the
   validation it is reported with is of that text (with its presentation
   clauses) and approved it, or found its plan identical.  Approvals, validations
   and texts are separate fields that three nodes and five early returns of the
   executor overwrite one by one (executor.py:200-259, 400-438, 669-702,
   input_router.py:291-294). *)
ServedIsVerified ==
    node \in {"end"} \cup AfterLoopNodes /\ ServedSql \notin {NoSql, Raw} =>
        /\ ServedValidation # NoValidation
        /\ ServedValidation.sql = Repair[ServedSql]
        /\ Certified(ServedValidation)

(* A rewrite that lands ends the loop: no later attempt can replace it, and the
   fields that describe the last attempt describe the best one
   (graph.py:85-120 against executor.py:683-702). *)
BestEndsTheLoop ==
    bestSql # NoSql =>
        /\ node \in {"end", "recursion_limit", "hung"} \cup AfterLoopNodes
        /\ approved /\ bestSql = optimizedSql /\ bestValidation = validation
        /\ Lands(bestValidation.original, bestValidation.candidate)

(* An attempt that the architect or the corrector overwrites is kept for the
   discovery feed (architect.py:169-178, corrector.py:136-145). *)
AttemptsNeverLost ==
    [][ /\ node \in {"architect", "corrector"} /\ node' \in Node \ Ended
        /\ optimizedSql \notin {Raw, NoSql} /\ optimizedSql' # optimizedSql
        => optimizedSql \in attemptHistory' ]_vars

(* Every validation a request keeps compares with one measure of the original
   (executor.py:288-295 and 369-371, "memoize ... once per run"). *)
OneBaseline ==
    originalMeasure # NoMeasure =>
        /\ validation # NoValidation => validation.original = originalMeasure
        /\ bestSql # NoSql => bestValidation.original = originalMeasure

(* A rewrite that landed is in the semantic cache for as long as its request
   lives, so that a request LangGraph cuts off in the index nodes loses its record
   but not its rewrite: the next one for the query finds it.  Two different
   conditions decide the two writes (executor.py:666-667 against 690-700). *)
LandIsCached == bestSql # NoSql => bestSql \in semanticCache

(* With one agent the loop's own limits end it, long before LangGraph's: each
   return to a model is paid for by one of three counters, though a failed
   duplicate may be charged to two of them and pass its limit
   (graph.py:107-120, architect.py:333-334). *)
RawLoopBounded ==
    ~config.twoAgent =>
        steps <= 6 + 2 * (MaxReflectionIterations + MaxRetryAttempts + MaxCorrectorAttempts)

(* LangGraph's limit never ends a request whose architect calls have no deadline. *)
LoopFitsTheLimit ==
    ~(config.twoAgent /\ config.deadline) => node # "recursion_limit"

(* The loop never keeps a request going: it is answered, lost to a call that raised
   or never returned, or, only where the architect's deadline leaves no counter to
   end the loop, cut off by LangGraph. *)
EveryRequestAnswered ==
    node = "architect" ~>
        \/ node \in {"end", "raised", "hung"}
        \/ node = "recursion_limit" /\ config.twoAgent /\ config.deadline

-----------------------------------------------------------------------------
(* What comments of the code say and the code does not do *)

(* sql.py:1257-1258: the original's clauses are restored "so the served/timed
   query honours the contract". *)
ServedHonoursPresentation ==
    node = "end" /\ ServedSql # NoSql => ServedSql = Repair[ServedSql]

(* input_router.py:117-120: a run whose architect hit its deadline is "recorded as
   timeout" and its partial trace "is still saved"; the limits of graph.py:14-20
   bound the loop.  A request that LangGraph aborts records nothing. *)
TimeoutsAreRecorded == node # "recursion_limit"

(* input_router.py:108-116: the outcome is "how a rewrite attempt ended" and
   mechanics_failed is "invalid SQL". *)
OutcomeIsTheLastAttempts ==
    node = "end" /\ errors = {"syntax"} => Outcome = "mechanics_failed"

(* state.py:45: from_corrector says that "the corrector (not the model) produced
   the approved SQL". *)
RescueIsTheWriters ==
    node = "end" /\ ServedSql \notin {NoSql, Raw} =>
        (fromCorrector <=> author = "writer")

=============================================================================
