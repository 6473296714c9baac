---------------------------- MODULE StrategyCache ----------------------------
(***************************************************************************)
(* The validated-strategy cache: discovery/strategy_cache.py, the          *)
(* architect's bypass that reuses an entry and the hook at the end of      *)
(* _build_result that reinforces or saves one.  Every entry is a JSON file *)
(* named after the shape it attacks; the hook reads it, changes its copy   *)
(* and writes it back with no lock, and the write truncates the file       *)
(* first.  FastAPI runs requests in a thread pool, so two may interleave.  *)
(*                                                                         *)
(* A request is the part of the two-agent loop that decides what the hook  *)
(* sees: which strategy was tried last, whether it came from the cache,    *)
(* and what the executor made of it.  RewriteLoop has the loop itself.     *)
(***************************************************************************)
EXTENDS Integers, FiniteSets

CONSTANTS
    Request,               \* requests in flight
    Query,                 \* the queries they ask about
    Tag,                   \* TECHNIQUE_TAGS, the shapes a technique attacks
    Signature,             \* Signature[q]: the technique tags of q's structural signature
    SavedSignature,        \* the same by save_landed, which parses every query as PostgreSQL
    Strategy,              \* strategy texts
    None,                  \* no entry, no strategy
    Torn,                  \* a file that was truncated and not written yet
    MaxLoss, MaxGain,      \* bounds: gains are -MaxLoss .. MaxGain, in percent; 0 is None
                           \* or 0.0, and an approval that SF1 times may be a loss
    NoiseFloor,            \* a gain from here on is a land (rewrite_correct)
    MinPrecision,          \* MIN_PRECISION, percent
    MinHitsToJudge,        \* MIN_HITS_TO_JUDGE
    Settings,              \* capacity: requests at once; restarts: the server may stop;
                           \* attempts: MAX_STRATEGY_ATTEMPTS
    MaxAsks                \* bound: requests of a behaviour

Shape == (SUBSET Tag) \ {{}}
Lowest == -MaxLoss
Gain == Lowest .. MaxGain
Entry == [strategy : Strategy, gain : Gain, hits : Nat, lands : Nat]

ASSUME SignatureAssumption ==
    Query # {} /\ Signature \in [Query -> SUBSET Tag] /\ SavedSignature \in [Query -> SUBSET Tag]
ASSUME MarkersAssumption ==
    /\ None \notin Entry /\ Torn \notin Entry /\ None # Torn
    /\ None \notin Strategy
ASSUME NumbersAssumption ==
    /\ MaxLoss \in Nat /\ MaxGain \in Nat /\ NoiseFloor \in 1 .. MaxGain
    /\ MinPrecision \in 0 .. 100 /\ MinHitsToJudge \in Nat
    /\ MaxAsks \in Nat
ASSUME RequestsAssumption == IsFiniteSet(Request)
ASSUME SettingsAssumption == Settings \subseteq [capacity : Nat, restarts : BOOLEAN, attempts : Nat \ {0}]

VARIABLES
    entry,                 \* the directory: shape -> no file, a torn file or an entry
    run,                   \* run[r]: where request r is and what it carries
    asks,                  \* requests so far
    setting,
    landed,                \* history: <<shape, strategy>> approved with some gain
    tally                  \* history: tally[s], what the entry of s should have counted
vars == <<entry, run, asks, setting, landed, tally>>

(* served: the shape of cached_strategy_id; target and copy: the entry the hook *)
(* is writing.  The empty set is no shape: nothing is keyed on it.             *)
NoShape == {}
Stage == {"idle", "first", "again", "hook", "evict", "open", "write"}
Run == [stage : Stage, query : Query, served : SUBSET Tag, strategy : Strategy \cup {None},
        tries : Nat, approved : BOOLEAN, gain : Gain, target : SUBSET Tag,
        copy : Entry \cup {None}]
Idle == [stage |-> "idle", query |-> CHOOSE q \in Query : TRUE, served |-> NoShape,
         strategy |-> None, tries |-> 0, approved |-> FALSE, gain |-> 0, target |-> NoShape,
         copy |-> None]

NoTally == [hits |-> 0, lands |-> 0, failed |-> 0, gain |-> Lowest]
Tally == [hits : Nat, lands : Nat, failed : Nat, gain : Gain]

TypeOK ==
    /\ entry \in [Shape -> Entry \cup {None, Torn}]
    /\ run \in [Request -> Run]
    /\ asks \in 0 .. MaxAsks
    /\ setting \in Settings
    /\ landed \subseteq Shape \X Strategy
    /\ tally \in [Shape -> Tally]

Init ==
    /\ entry = [s \in Shape |-> None]
    /\ run = [r \in Request |-> Idle]
    /\ asks = 0
    /\ setting \in Settings
    /\ landed = {}
    /\ tally = [s \in Shape |-> NoTally]

(* _load_entry: any exception, the parse of a torn file included, is None. *)
Readable(s) == entry[s] \notin {None, Torn}
LoadEntry(s) == IF Readable(s) THEN entry[s] ELSE None

(* mutant: an entry that shares a tag with the query *)
MatchingAnyTag(q) == {s \in Shape : Readable(s) /\ s \cap Signature[q] # {}}

(* lookup: the entries whose required shape the query has, best gain times    *)
(* lands over hits if that is above -1.0; the first of equals in file-name     *)
(* order, which is the order of hashes and so any of them.                     *)
Matching(q) == {s \in Shape : Readable(s) /\ s \subseteq Signature[q]}
AtLeast(s, t) ==
    entry[s].gain * entry[s].lands * entry[t].hits >= entry[t].gain * entry[t].lands * entry[s].hits
Worth(s) == entry[s].gain * entry[s].lands > -entry[s].hits
BestMatches(q) == {s \in Matching(q) : Worth(s) /\ \A t \in Matching(q) : AtLeast(s, t)}

(* A request arrives: router and first pass of the architect, which looks up *)
(* a strategy before it reasons one.                                         *)
Ask(r, q) ==
    /\ run[r].stage = "idle" /\ asks < MaxAsks
    /\ Cardinality({x \in Request : run[x].stage # "idle"}) < setting.capacity
    /\ run' = [run EXCEPT ![r] = [Idle EXCEPT !.stage = "first", !.query = q]]
    /\ asks' = asks + 1
    /\ UNCHANGED <<entry, setting, landed, tally>>

Bypass(r, s) ==
    /\ run[r].stage = "first"
    /\ s \in BestMatches(run[r].query)
    /\ run' = [run EXCEPT ![r] = [@ EXCEPT !.stage = "again", !.served = s, !.tries = 1,
                                           !.strategy = entry[s].strategy]]
    /\ UNCHANGED <<entry, asks, setting, landed, tally>>

(* The architect reasons a strategy: no entry matches, or an earlier strategy *)
(* of this request failed; cached_strategy_id is None again.                  *)
Reason(r, text) ==
    /\ \/ run[r].stage = "first" /\ BestMatches(run[r].query) = {}
       \/ run[r].stage = "again" /\ run[r].strategy = None
    /\ run' = [run EXCEPT ![r] = [@ EXCEPT !.stage = "again", !.served = NoShape,
                                           !.strategy = text, !.tries = run[r].tries + 1]]
    /\ UNCHANGED <<entry, asks, setting, landed, tally>>

(* What the executor and the router of the graph make of the strategy.  A      *)
(* refused one, or one that does not gain, sends the request back while        *)
(* attempts are left; one from the cache that only fails to gain ends it.      *)
Gains(g) == g >= NoiseFloor
SentBack(r, ok, g) ==
    /\ run[r].tries < setting.attempts
    /\ ~ok \/ (~Gains(g) /\ run[r].served = NoShape)

Verdict(r, ok, g) ==
    /\ run[r].stage = "again" /\ run[r].strategy # None
    /\ ok \/ g = 0
    /\ LET s == run[r].served
           lost == s # NoShape /\ ~(ok /\ Gains(g))
       IN /\ run' = [run EXCEPT ![r] =
                [@ EXCEPT !.approved = ok, !.gain = g,
                          !.stage = IF SentBack(r, ok, g) THEN "again" ELSE "hook",
                          !.strategy = IF SentBack(r, ok, g) THEN None ELSE run[r].strategy]]
          /\ tally' = IF lost THEN [tally EXCEPT ![s].failed = @ + 1] ELSE tally
    /\ UNCHANGED <<entry, asks, setting, landed>>

(* The hook of _build_result.  A request whose last strategy came from the     *)
(* cache reinforces that entry; an approved one with a gain saves its own.     *)
Reinforced(e, ok) == [e EXCEPT !.hits = @ + 1, !.lands = @ + (IF ok THEN 1 ELSE 0)]
(* mutant: judged one try too late *)
BelowFloorLate(e) == e.hits > MinHitsToJudge /\ e.lands * 100 < MinPrecision * e.hits
BelowFloor(e) == e.hits >= MinHitsToJudge /\ e.lands * 100 < MinPrecision * e.hits

(* mutant: the latest strategy replaces the best *)
SavedLatest(e, text, g) ==
    IF e = None THEN [strategy |-> text, gain |-> g, hits |-> 1, lands |-> 1]
    ELSE [strategy |-> text, gain |-> g, hits |-> e.hits + 1, lands |-> e.lands + 1]

(* mutant: gains add up *)
SavedSum(e, text, g) ==
    IF e = None THEN [strategy |-> text, gain |-> g, hits |-> 1, lands |-> 1]
    ELSE [strategy |-> IF g > e.gain THEN text ELSE e.strategy, gain |-> e.gain + g,
          hits |-> e.hits + 1, lands |-> e.lands + 1]

Saved(e, text, g) ==
    IF e = None THEN [strategy |-> text, gain |-> g, hits |-> 1, lands |-> 1]
    ELSE [strategy |-> IF g > e.gain THEN text ELSE e.strategy,
          gain |-> IF g > e.gain THEN g ELSE e.gain,
          hits |-> e.hits + 1, lands |-> e.lands + 1]

Finish(r) == [run EXCEPT ![r] = Idle]
Carry(r, s, e) ==
    run' = [run EXCEPT ![r] = [@ EXCEPT !.stage = "open", !.target = s, !.copy = e]]

(* history: a write that is due, whether or not it survives *)
Credited(t, ok, g) == [t EXCEPT !.hits = @ + 1, !.lands = @ + (IF ok THEN 1 ELSE 0),
                                !.gain = IF g > @ THEN g ELSE @]
Credit(s, ok, g) == tally' = [tally EXCEPT ![s] = Credited(tally[s], ok, g)]

ReinforceReads(r) ==
    LET s == run[r].served  e == LoadEntry(s) IN
    /\ run[r].stage = "hook" /\ s # NoShape
    /\ IF e = None THEN run' = Finish(r) /\ UNCHANGED tally
       ELSE LET n == Reinforced(e, run[r].approved) IN
            IF BelowFloor(n)
            THEN run' = [run EXCEPT ![r].stage = "evict"] /\ UNCHANGED tally
            ELSE Carry(r, s, n) /\ Credit(s, run[r].approved, Lowest)
    /\ UNCHANGED <<entry, asks, setting, landed>>

(* os.remove; that another request removed the file first is no error. *)
Evict(r) ==
    /\ run[r].stage = "evict"
    /\ entry' = [entry EXCEPT ![run[r].served] = None]
    /\ tally' = [tally EXCEPT ![run[r].served] = NoTally]
    /\ run' = Finish(r)
    /\ UNCHANGED <<asks, setting, landed>>

SaveReads(r) ==
    LET s == SavedSignature[run[r].query] IN
    /\ run[r].stage = "hook" /\ run[r].served = NoShape
    /\ run[r].approved /\ run[r].gain # 0 /\ s # NoShape
    /\ Carry(r, s, Saved(LoadEntry(s), run[r].strategy, run[r].gain))
    /\ Credit(s, TRUE, run[r].gain)
    /\ landed' = landed \cup {<<s, run[r].strategy>>}
    /\ UNCHANGED <<entry, asks, setting>>

NothingToKeep(r) ==
    /\ run[r].stage = "hook" /\ run[r].served = NoShape
    /\ ~run[r].approved \/ run[r].gain = 0 \/ SavedSignature[run[r].query] = NoShape
    /\ run' = Finish(r)
    /\ UNCHANGED <<entry, asks, setting, landed, tally>>

(* open(path, "w") truncates; json.dump writes. *)
OpenEntry(r) ==
    /\ run[r].stage = "open"
    /\ entry' = [entry EXCEPT ![run[r].target] = Torn]
    /\ run' = [run EXCEPT ![r].stage = "write"]
    /\ UNCHANGED <<asks, setting, landed, tally>>

WriteEntry(r) ==
    /\ run[r].stage = "write"
    /\ entry' = [entry EXCEPT ![run[r].target] = run[r].copy]
    /\ run' = Finish(r)
    /\ UNCHANGED <<asks, setting, landed, tally>>

(* The server stops and starts again: requests are lost, files stay. *)
RestartServer ==
    /\ setting.restarts
    /\ \E r \in Request : run[r].stage # "idle"
    /\ run' = [r \in Request |-> Idle]
    /\ UNCHANGED <<entry, asks, setting, landed, tally>>

RequestStep(r) ==
    \/ \E q \in Query : Ask(r, q)
    \/ \E s \in Shape : Bypass(r, s)
    \/ \E text \in Strategy : Reason(r, text)
    \/ \E ok \in BOOLEAN, g \in Gain : Verdict(r, ok, g)
    \/ ReinforceReads(r) \/ Evict(r) \/ SaveReads(r) \/ NothingToKeep(r)
    \/ OpenEntry(r) \/ WriteEntry(r)

Next == RestartServer \/ \E r \in Request : RequestStep(r)

Spec == Init /\ [][Next]_vars

-----------------------------------------------------------------------------
(* Properties.                                                             *)

(* The precision floor of reinforce holds of every readable entry, although *)
(* save_landed, which also counts, never judges: lands never outnumber      *)
(* hits, and an entry tried often enough to judge is above the floor.       *)
PrecisionFloor ==
    \A s \in Shape : Readable(s) =>
        /\ entry[s].lands <= entry[s].hits
        /\ entry[s].hits >= MinHitsToJudge =>
               entry[s].lands * 100 >= MinPrecision * entry[s].hits

(* The bypass proposes a strategy only to a query with every tag of the shape *)
(* it landed on: some request was approved with that text on a query whose    *)
(* whole required shape this query has.                                       *)
ServedLandedOnTheShape ==
    \A r \in Request :
        (run[r].served # NoShape /\ run[r].strategy # None) =>
            \E s \in Shape : s \subseteq Signature[run[r].query] /\ <<s, run[r].strategy>> \in landed

(* With one request at a time and no restart the hook loses nothing: the    *)
(* counters and the best gain of an entry are those of the requests that    *)
(* reinforced or saved it since it was created.                             *)
Alone == setting.capacity = 1 /\ ~setting.restarts
CountsAreExactAlone ==
    (Alone /\ \A r \in Request : run[r].stage \notin {"open", "write"}) =>
        \A s \in Shape : Readable(s) =>
            /\ entry[s].hits = tally[s].hits
            /\ entry[s].lands = tally[s].lands
            /\ entry[s].gain = tally[s].gain

(* strategy_cache.py:6-7 "The retrieved strategy is then RE-VALIDATED (S=1 +  *)
(* gain) downstream; a hit that fails is demoted": once no request is in its  *)
(* way, an entry counts at least one hit without a land for every request     *)
(* whose cached strategy was refused or did not gain.                         *)
HitThatFailsIsDemoted ==
    (Alone /\ \A r \in Request : run[r].stage = "idle") =>
        \A s \in Shape : Readable(s) => entry[s].hits - entry[s].lands >= tally[s].failed

=============================================================================
