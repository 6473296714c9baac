# A formal model of the SQL rewriting advisor

The program (`src/src/`) takes a slow SQL query, asks language models for an
equivalent and faster text, proves the answer against the database and serves
it, or proposes an index. This directory holds TLA+ modules of its control
logic, the TLC instances that check them, and TLAPS proofs about them.

Paths below are relative to the repository's files; `src/` is the repository.

| module | what it is |
|---|---|
| `ExecutorVerdict` | the verdict on one (original, candidate) pair, a pure function of what the database returned |
| `RewriteLoop` | the LangGraph loop architect / corrector / executor over the shared state; extends `ExecutorVerdict` |
| `Database` | what requests share in the database: indexes, columns, a fingerprint |
| `SchemaCache` | schema analyst, its cache in memory and on disk, the semantic cache, invalidation |
| `IndexSimulation` | the catalog gate and the index simulations of MySQL and PostgreSQL |
| `SharedResources` | the two composed over one database, with admission, migrations and kills |
| `RewriteMemory` | abstract specification of the semantic cache, implemented by `SharedResources` |
| `StrategyCache` | the validated-strategy cache, the bypass that reads it, the hook that writes it |
| `Discovery` | the suggestion store, clusters, the promotion gates and the rule they lead to |
| `Campaign` | a queue of measurement legs against the server; extends `Discovery` |
| `QueryTransforms` | decorrelation and consolidation, with the meaning of the queries, and the checks a rewrite meets |
| `ImplicitJoins`, `Masking`, `RuleBatch` | comma-join normalisation, masking of a cloud call, a batch of `auto_feed` |
| `Algorithms` | one call of each of these algorithms, and what its result must be; extends the four |
| `MCExecutorVerdict`, `MCRewriteLoop`, `MCSharedResources`, `MCStrategyCache`, `MCCampaign`, `MCAlgorithms` | the TLC instances |
| `ExecutorVerdict_proofs`, `MCExecutorVerdict_proofs` | the verdict, for every measure |
| `RewriteLoop_proofs` | types, what is served, the attempt history, the bounds of the loop |
| `SharedResources_proofs`, `SharedIndexes_proofs` | caches and analyst, and the refinement; simulations |
| `StrategyCache_proofs`, `Campaign_proofs`, `Algorithms_proofs` | the modules of those names |

## 1. Inventory

**Graph and routing** (`pipeline/graph.py`, `pipeline/state.py`). State: the
PipelineState dictionary every node reads and returns. Operations: five nodes,
three conditional edges, four limits. LangGraph runs one node per superstep and
raises after 25 of them. Hard: four counters, of which some paths reset one and
some skip all. Correct when the loop ends by its own limits and is never cut off.

**Architect** (`nodes/architect.py`). Serves a semantic-cache hit, asks the
model for SQL (one agent) or for a strategy (two agents), or takes a strategy
from the cache; knows a deadline. Hard: what it overwrites on a re-entry, a
deadline that repeats. Correct when no attempt is lost and each pass is charged.

**Corrector / writer** (`nodes/corrector.py`). Repairs a failed attempt or
writes SQL from a strategy; six ways to discard an answer; a judge that may
reject a deviation. Correct when attribution (`from_corrector`) and history follow the text.

**Executor** (`nodes/executor.py`). Five early returns, then hash, row count,
plan, time, cost, structural and verification-instance gates. State:
verdict fields, best result, rejected texts, the memoised original measure,
the semantic cache. Hard: each path writes a different subset of the fields;
the original, the candidate and the verification instance time out separately;
times are noisy. Correct when nothing is approved that was not found equivalent,
lands are faster, and one verdict has one baseline.

**Router** (`routers/input_router.py`). Runs the graph in a thread per
request, picks what is served, classifies the outcome, then writes the
suggestion store, plan files, discovery feed and strategy cache. An exception
in the graph skips all of that.

**Semantic cache** (`pipeline/cache/semantic_cache.py`) and **schema analyst**
(`nodes/schema_analyst.py`). A FAISS directory loaded, extended and saved whole,
and removed when the schema fingerprint changes; an in-process schema cache.
Hard: concurrent requests, and DDL between extraction and fingerprint.

**Strategy cache** (`discovery/strategy_cache.py`). One JSON file per shape of
query, read, modified and rewritten without a lock; evicts below a precision floor.

**Suggestion store and campaign** (`discovery/suggestion_store.py`,
`scripts/run_matrix.py`). Run records on disk are the campaign's only memory:
the runner counts them to resume. Hard: a client timeout recorded while the server still works.

**Index path** (`nodes/index_advisor.py`, `nodes/index_simulation_validator.py`,
`backends/relational/mysql`, `.../postgres`). PostgreSQL simulates inside a
transaction; MySQL creates and drops physical indexes, with an orphan sweep and a foreign-key rescue.

**Masking** (`pipeline/masking.py`). Names replaced one by one before a cloud call and restored after it.

**Discovery feed** (`auto_feed`, `promotion`, `learned_rules`, ...). Labels
rewrites, promotes repeated ones to rules; the rules in the prompts may also come from
a hand-crafted file or from `discover_heuristics.py --write-hints`. Correct when a
technique is not taken for discovered because its rule was given.

**Not on the live path**: the deterministic detectors, the SQL rewriter and the
persuasion layer (retired, see `architect.py:214-227`), the graph-database stub.

Interactions: nodes call each other only through the state; requests share the
stores on disk, the schema cache and the database; the campaign runner talks to
the router over HTTP and reads the store's files.

The hazards of each part, with their line and the property that covers them or
the reason none does yet, are in `PROJECT.json`.

## 2. How the modules correspond to the code

### `RewriteLoop`

One action is one node run. `node` is the next node, or how the request ended:
`end` (a result), `raised` (a model client's exception), `recursion_limit`, or `hung`
(a call that never returns: see Fairness).
`steps` counts supersteps; the router and schema analyst took the first two.

| code | module |
|---|---|
| `reflection_errors` (messages) | `errors`, a set of kinds; routing looks for marker words only |
| `retry_hint` | `retryHint` (set or not) |
| `optimized_sql`, `cache_hit`, `from_corrector`, `approved` | same names |
| `validation_result`, `best_result` | `validation`, `bestSql` and `bestValidation`: the text and the two measures; gain, integrity etc. are recomputed from them by `ExecutorVerdict` |
| `rejected_sql_attempts`, `attempt_history` | `rejected`, `attemptHistory`, as sets |
| `original_measure_cache` | `originalMeasure` |
| FAISS store, for this query | `semanticCache` |
| environment toggles | `config` |
| not in the code | `author`, a history variable: who really wrote `optimizedSql` |

`FlagsOK` and `DataOK` are the two halves of `TypeOK`.

Abstracted: SQL is an opaque text with a parse verdict and the text its
presentation repair yields (`Repair`); model answers are arbitrary texts; a
measure is any record the database may return for that text. `ExecutorVerdict`
keeps times as milliseconds and gains as basis points (the code rounds to two
decimals of a percent), because every gate is a threshold on them, and turns
hashes, plans, costs and row counts into the comparison the executor makes.

Suggestion-driven branches of the routing (`_suggestions_only_index` and its
kin) are constant here: the architect's live path returns no suggestions.
`semanticCache` concerns one query; an approximate hit from another query is
the same as a text put there, and is revalidated by the executor. So is what a
directory with mixed files returns (`SchemaCache`): here the store is undamaged.
The executor also stores approvals without a measured gain (`executor.py:664-667`);
`Stored` has that condition.
Requests in this module follow one another; concurrent ones are in
`SharedResources` and `StrategyCache`.

### `Database`, `SchemaCache`, `IndexSimulation`, `SharedResources`

| code | module |
|---|---|
| `_schema_cache`, `CACHE_FILE`, `CACHE_DIR` | `memory`, `file`, `store` |
| locals of `schema_analyst`, `SemanticCache.add` | fields of `req[r]` |
| `POST /pipeline/schema/invalidate` | `purge`; `started` and `finished` count its calls |
| `information_schema` / `pg_indexes` | `indexes`; `Fingerprint` is the set of their names |
| locals of `simulate_index` | fields of `sim[r]`; `report` is what becomes of the candidate |
| `index.faiss` and `index.pkl` in `CACHE_DIR` | `files` (what can be read of them) and `vectors` (whose vectors are ahead) |

A step is what a request does between two calls to the database, the
embedding model or the file system; none of the stores has a lock and FastAPI
runs handlers in a thread pool, so any two steps of two requests may be
separated. `open(path, "w")` and `json.dump` are two steps: a kill, or another
reader, between them finds `Torn`. `save_local` writes two files, `SaveIndex` and
`SavePickle`: a kill between them leaves new vectors with the old rewrites (a mixed
directory, in which a lookup may return another query's rewrite or none), a kill
within one a directory that `_load` cannot read. A statement fails only in a setting with
`faults`; a kill rolls transactions back and leaves files and committed indexes.
Concurrency is a parameter: the campaigns of the repository wait for every answer (`Alone`).

A MySQL simulation sweeps orphans, creates, measures, drops, rescues and takes
the baseline as one step each. Its DDL is committed, so every other request
sees it. The engine's own rules for foreign keys are modelled as they are used
there: the last index a key can use cannot be dropped, and the one MySQL made
itself goes when another can serve. A PostgreSQL simulation is a transaction or
a hypothetical index that nobody else sees.

The fingerprint is made of index names alone, as in the code, so that a migration
that changes only columns is not seen by anybody. The MySQL fingerprint is `MD5(GROUP_CONCAT(...))`; the model keeps the set of names,
not the truncation at `group_concat_max_len`, which the repository does not set.

### `StrategyCache`

`entry[s]` is the JSON file of a shape: absent, torn, or an entry. `run[r]` is
the part of the two-agent loop that decides what the hook in `_build_result`
sees. Load, truncation and write are separate steps. `landed` and `tally` are histories.
`Signature` is the query's shape as `lookup` parses it, in the backend's dialect;
`SavedSignature` as `save_landed` does, which is called without a dialect and takes
PostgreSQL (`input_router.py:527`), so that a query may have a shape in one and none
in the other. Gains may be negative: an approval that was slower on the verification
instance is still saved, and `lookup` skips what scores -1 or less (`Worth`).

### `Discovery` and `Campaign`

`store` is the set of the store's files, each a run record and a number that tells
it from the other files of that record (in the code its name, the microsecond it was written
at); what is counted is the cardinality of a set of files. One technique is followed, and a
record falls in its cluster or not. A leg is one `run_matrix.py` command; `perna()`
repeats it. `ClientTimesOut` leaves the server working: `LateSave` may happen at
any time later, `LateRunDies` when it does not. `_done_counts` is read once,
when a pass begins; `client.file` and `client.todo` are where the pass is; `abandoned` are the
runs nobody waits for, numbered. A record is guided when any rule at all was active
(`Guided`): the system's own, another technique's (`FeedOther`), or a set that
`LEARNED_RULES_FILE` names (`Leg.ruleset`). `WriteHints` adds a rule by the teachable
gate alone. A semantic-cache hit
is answered and not recorded; under `--stream` an error event is an empty answer.

### `QueryTransforms`, `ImplicitJoins`, `Masking`, `RuleBatch`, `Algorithms`

`Algorithms` draws an input, an action of its own calls each algorithm, and the
properties compare `input` and `result`. Its constants are the inputs; what its
assumptions ask of them is that they are inputs the code takes. `Ask` is the whole masked call of
`corrector.py`: map, payload, an answer of two of the tokens sent, unmasking.
A loop of the code is a recursive function on how far it has come
(`Rebuilding`, `Considering`, `Collecting`, `Extending`, `SubbingWords`, `SubbingStrings`),
so that what holds after n items can be stated and proved.

A query is the record of what the recognizers look at, and its meaning is
defined beside it over explicit rows with NULL, so that a rewrite is compared
with its original and not with itself. `OfTheShape` is what the builder's docstring
speaks of, an aggregate correlated by its key alone; `Plain` the part of it that has
a maximum. A bucket has an aggregate (`COUNT(*)`, `COUNT(v)`, `COUNT(DISTINCT v)`,
`MAX(v)`), a predicate, and may alias its table; `Runs` says whether the consolidated
text is SQL that the database takes. In `ImplicitJoins` a FROM item has a name and an
alias and a column a qualifier; what a column denotes is defined beside it by SQL's
scopes, subqueries included, so that `SameMeaning` compares bindings and not texts.
Masked texts are sequences of words and quoted strings, one word being an apostrophe
and one its escape; a dictionary is a sequence of pairs in insertion order. Hints are opaque, and being a paraphrase
is a relation that need not be transitive.

## 3. What the runs check

| run | what it shows |
|---|---|
| `verdict` | `ApprovedIsEquivalent`, `FullScaleVerdictStands`, `LandsWereFaster`, `FastRewriteLands` over every coherent pair of measures (64,152 states), and `FasterNeverWorse`: measuring the same candidate again and finding it faster never loses a land |
| `loop` | `ServedIsVerified`, `BestEndsTheLoop`, `OneBaseline`, `RawLoopBounded`, `LoopFitsTheLimit`, `AttemptsNeverLost`; 912,790 states |
| `answered` | `EveryRequestAnswered` under fair scheduling (no request goes on for ever, and only a call that hangs leaves one unanswered), and `LandIsCached`, in every setting of the toggles, two agents with a deadline included, where LangGraph's limit does strike; 137,036 states |
| `shared` | caches, analyst and simulations over one database: `InvalidationHonouredAlone`, `ServedIsCurrent`, `AnalystFailsForACause`, `TemporaryIsNoDrift`, `PairDiffersByTheIndex`, `NothingTemporaryStays`, and `StoreIsAMemory`, the refinement of `RewriteMemory`; 4,983,328 states |
| `strategies` | `PrecisionFloor`, `ServedLandedOnTheShape`, `CountsAreExactAlone` for interleaved requests and restarts; 7,140,667 states |
| `campaign` | `RunsNotExceeded`, `AttemptsBounded`, `EmptyCellNeverDone`, `OwnRuleIsNoConvergence` through kills, client timeouts and late saves, and `CampaignEnds`; 113,175 states |
| `algorithms` | a plain decorrelation and a consolidation that runs keep the rows of a query, the structural check reports exactly what a transform broke, normalisation keeps the predicates of unaliased tables, masking has an inverse where no literal is escaped and lets no listed name through, a batch has no paraphrases; 978,436 states |
| `presentation`, `deadline`, `baseline`, `drift`, `demotion` | one disagreement each between a comment and the code, below |

**Bounds of `verdict`.** Candidate times lie on both sides of the 3, 5 and 10 %
noise thresholds (for originals of 600, 5000 and 20000 ms), of the regression
margin and of the two budgets (30 s with its half second of margin, 45 s). All
other components of a measure take every value that one connection can return
together (`Coherent`): a failed explain has no plan or rows, one plan has one cost.

**Bounds of `loop`.** Six texts besides the query: one faster, one inside the
noise, one with a dropped `ORDER BY` and its repaired form (whose plan is
sometimes identical), one with other rows, one that does not parse. Two
baselines (completes, times out). Three settings: one agent with repair and
deadline, two agents with strategy cache and adherence judge, and the plain
baseline. The limits are the code's defaults 2/2/2/3 and 25: two agents need
24 supersteps, so the limit nearly binds, and the states where a duplicate
takes two counters occur. Liveness needs no more than one text of each way an
attempt can end, hence the smaller set of `answered`. The next request shares
the semantic cache, possibly cleared. `CHECK_DEADLOCK` stays on.

**Bounds of `shared`.** Two requests, two queries (symmetric), one invalidation,
one migration, two candidates: an index that starts with a foreign key's column,
so that MySQL drops its own index for it and then cannot drop it again, and one
that the migration's index may cover. One request at a time with either
engine, executed or estimated, with and without failures and with an operator;
two at a time without failures or operator. A second migration or invalidation
repeats the first, since a context only knows whether it is older.

**Bounds of `strategies`.** Two shapes, one contained in the other's query, two
texts, a query whose shape is not seen when it is parsed as PostgreSQL, gains from -1
to 3 with the land from 2, the shipped 34 % of 3 tries, and four
requests: one more than judging needs. One at a time with and without restarts, and two
interleaved, with one and with the shipped two attempts.

**Bounds of `campaign`.** Two files, up to three legs, one to three runs, three
passes before giving up, up to two kills and two abandoned runs; thresholds
3 / 3 / 2 / 2 instead of 4 / 4 / 2 / 3 in the same order. One setting has a leg with a
hand-crafted rule set and one guided by what other techniques feed. The shipped limit of 20
interrupts is beyond the bound on kills, so it does not take effect.

**Bounds of `algorithms`.** Two rows of each table over two values and NULL,
three buckets with and without an alias, three joined tables with and without one and a subquery,
texts of three tokens, one of them a literal that needs an escape, batches of three
clusters, rule files with and without paraphrases: two colliding items and a third
that is not involved. The inputs are enumerated by `Init`; each is one call.

**Deadlock.** `strategies`, `campaign` and `algorithms` set `CHECK_DEADLOCK FALSE`:
they end when their requests, legs or call do.

**Fairness.** `RewriteLoop!FairSpec` has weak fairness of "the node that is next
runs, or its call hangs" and of "LangGraph raises at its limit". Nodes run on a thread
of their own, so that a node whose calls returned makes its step. Nothing makes a
call return: `ChatOllama` is built without a timeout (`connections.py:41-58`,
`corrector.py:106-113`), the architect's deadline is 0 by default and looked at
between two chunks (`architect.py:52-55`), and a DDL statement may wait for a metadata
lock. So `Hangs` is a step wherever a node calls out (`CallsOut`), and `hung` an end of the
request that `EveryRequestAnswered` names. `NewRequest` has no fairness: nothing makes a client ask again. `Campaign` has weak
fairness of `ClientStep`: a waiting client gets an answer, an error or its own
`--timeout`, and `perna()` is a plain loop. Kills, late saves and the feed have none.

### Disagreements found

1. **`presentation`** (`executor.py:402`). The plan-identity return gives back the
   state without the restored clauses, although `sql.py:1256-1258` restores them
   "so the served/timed query honours the contract".
2. **`deadline`** (`architect.py:345`). With two agents and a deadline no counter
   advances when the architect times out and the writer's counter is reset: only
   LangGraph's limit ends the loop, as an exception, and the run that
   `input_router.py:118-119` says is recorded as "timeout" is not recorded.
3. **`baseline`** (`mysql.py:616-634`). After a rescue the permanent index on the same
   columns is there when the baseline "with the temporary index already dropped" is timed.
4. **`demotion`** (`architect.py:241`). A cached strategy that is refused while
   attempts are left is never demoted, against `strategy_cache.py:6-7`.
5. **`drift`** (`schema_analyst.py:137-138`). The fingerprint is queried after the
   extraction; a migration between the two is not detected by "one cheap query to detect
   DDL changes (new/dropped indexes)" (121), because the old context carries the new fingerprint.

Stated in the modules, violated, and not among the standing runs:

- `RewriteLoop!OutcomeIsTheLastAttempts` (`executor.py:254`): a last attempt that
  does not parse is classified from the validation of the attempt before it.
- `RewriteLoop!RescueIsTheWriters` (`corrector.py:270`): a discarded second answer
  clears `from_corrector` while the writer's first text stays and may pass.
- `SharedResources!InvalidationHonoured`: without waiting, an analyst that was
  reading when the schema was invalidated puts the old context back
  (`main.py:79-82`, `schema_analyst.py:26-28` and 137).
- `Campaign!ConvergenceIsOfModels`: labels are counted, not models
  (`promotion.py:37`); the setting `TwiceSettings` of `MCCampaign` shows it.
- `Campaign!ConvergenceIsUnaided` (`heuristic_discoverer.py:77`): clusters count guided records,
  so a technique that a hand-crafted rule set or another rule led to counts as "discovered
  independently by >= 2 of the 3 matrix models" (`promotion.py:37`); `AidedSettings` shows it.

The following are invariants of `Algorithms` that `MCAlgorithms` violates within the
bounds of `algorithms`:

- `DecorrelationPreserves` (`sql_rewriter.py:292-341`): COUNT over a key without rows is 0 and
  not NULL; the join drops the row, against "any query of this shape" (302-305).
- `DialectsAgree` (`mysql.py:48`): `COUNT(DISTINCT v)` becomes `COUNT(CASE WHEN p THEN
  DISTINCT v END)`, against "Same semantics as the PostgreSQL FILTER form" (38).
- `ConsolidationRuns` (`sql_rewriter.py:363-366`): subqueries may alias their table
  (220-231), the one scan does not, so that its predicates name nobody; 349-351 says
  "semantics preserved".
- `FiltersAreClassified` (`sql.py:359-370`): filters get the table's name and not its alias (the
  `alias_map` of 333 is never used), against "so parse_components can classify them by table
  alias" (357-358). The architect's prompt shows such a query (`sql.py:650`).
- `OnlyJoinsAreConverted` (`sql.py:371`): the qualification goes into nested subqueries and
  correlates their own columns with an outer table; the method is to convert joins (240).
- `MaskingReverses` (`masking.py:84`, 193-195): `'O''Brien'` comes back as `'O'Brien'`, against
  "reverse cleanly" (16-17).

The two transforms are not on the live path (`architect.py:214-227`), their results
would meet the equivalence gate, and the structural check, which reports a lost alias and a
dropped predicate, is advisory there (`executor.py:618-630`).

Noticed while modelling, by reading or with TLC, and visible as the hypothesis of a
property or in a hazard's note:

- A kill between `open("w")` and the dump leaves a schema cache that no request can
  read until the next invalidation (`schema_analyst.py:119`).
- A save of the semantic cache that is killed within a file makes the directory
  unreadable, and the next approval overwrites all of it (`semantic_cache.py:25-34`, 56-63).
- What `ServedIsCurrent` excludes is `drift` and a failed query for the fingerprint
  (a failure gives no fingerprint, and the analyst then trusts what it has).
- The permanent index that a rescue leaves is a drift: the next request clears the
  semantic cache, alone and without a fault. `TemporaryIsNoDrift` is about temporary indexes only.
- A MySQL simulation changes the fingerprint while it runs, so a concurrent request
  clears the semantic cache; its sweep may drop the other's temporary index; and
  a foreign key that adopted the index changes the schema for good, against
  "safe for static benchmark databases" (`mysql.py:504`).
- An orphan that a kill left behind makes the gate skip the same candidate.
- The floor of the strategy cache holds although saves count without judging, and only because
  `MIN_PRECISION` times `MIN_HITS_TO_JUDGE` is small (102, at most 200 would do).
- The single-model tier of the promotion cannot be reached: clusters start at 4
  records, and a technique of one model is never teachable. That is also why
  `OwnRuleIsNoConvergence` holds: a technique has two models before it has a rule.
- `RICH_EQUIVALENCE_FEEDBACK` changes the wording of a difference ("Sample diff", `executor.py:23-42`)
  and no marker, so that the class of the failure is the same; the richer `equivalence_diff`
  of `sql.py:1177` has no caller. The switch is therefore no part of `Mechanic`.
- MySQL's timeout message has no "timeout" in it: `TimeoutSaysTimeout` is FALSE in `answered`, TRUE in `loop`.
- A guided leg whose rules are empty is recorded in the unaided arm, so `--resume`
  never counts its runs; hence `Unaided` in two properties.
- A leg for which `--dirs` and `--only` leave no file exits 0 and so counts as done
  (`main()` of `run_matrix.py`); hence `Files # <<>>` in `EmptyCellNeverDone`.
- A batch puts no paraphrase into a rule file that has none; into one that has, it may put more of the same.
- A leg whose attempts all time out reaches the attempt ceiling and is then done.
- Decorrelation is wrong for further inner predicates and under OR as well, which its
  recognizer admits and its docstring does not speak of; the inner predicates are what the structural check reports.
- The precheck refuses a valid consolidation, although `sql.py:893` makes "zero
  falso-positivo" its contract (836 allows one, at the cost of a retry); so the second half of `StructuralCheckIsExact` speaks of the structural check only.
- Normalisation drops derived tables and overwrites an explicit `ON`; its property is about comma
  joins of tables without aliases (`CommaJoined`, `Unaliased`, `SubqueriesApart`).
- `identifiers_in_schema_block` skips a whole line of the schema block when one of its columns is no bare
  identifier: `PayloadCarriesNoName` speaks of the lines it lists. The CORRIGIR prompt
  (`corrector.py:246-252`) puts texts together that are masked one by one, and is outside it.
- Names cut to 64 characters (`mysql.py:528-530`, 620) need not identify an index:
  `NamesIdentify` is a hypothesis of two theorems.

## 4. What is proved

Assumptions: those the modules state about their constants (types of the sets,
finitely many requests, markers that are no data, budgets and thresholds that are
numbers), which TLC evaluates in the passing runs. The theorems hold for all
values that meet them. Where more is needed it is a named hypothesis of the theorem:
`BudgetsInOrder`, `FloorIsLenient`, `NamesIdentify`, `Plain`, `IsTable`, `Runs`, `CommaJoined`,
`Unaliased`, `SubqueriesApart`, `Unescaped`. One of the assumptions, `None \notin Request`, keeps the
marker of "no vectors ahead" apart from a request.

**The verdict** (`ExecutorVerdict_proofs`, `MCExecutorVerdict_proofs`). All five
properties of the run `verdict`, for any measures:

- `ApprovedMeansEquivalent`, `FullScaleDifferenceIsFinal`: case analysis of the
  gates of `ExecutorVerdict`. If full scale gave no verdict and the original
  timed out, an approval needs an answer of the verification instance, because
  `Unverified` is an error otherwise; if the original failed, that is an error.
- `LandsAreFaster`: the noise threshold is above zero, and a rounded quotient of at
  least one has a positive dividend (`QuotientPositive`); a land without a measured
  gain rests on the lower bound, which only a completed candidate gets.
- `FastRewritesLand`: under `BudgetsInOrder` the bound on the gain does not round to
  zero, so the cost gate cannot veto.
- `FasterIsNeverWorse`: gains grow with shorter times (`QuotientGrows`); where a
  faster run turns the fallback to the verification instance off, it turns the lower bound on.

**The loop** (`RewriteLoop_proofs`).

- `TypeCorrect`: `TypeOK` is inductive.
- `BestEnds`: a land sets `approved`, no error and no hint, and every test of the
  routing that returns to a model needs an error or a hint; so the node after a
  land is past the loop. Needed for everything below, since it means that
  `bestSql` is empty whenever a node of the loop runs.
- `ServedVerified`: needs the strengthening `ApprovalIsCertified` (an approval is
  of the query itself or of the text in `validation`), which is inductive because
  the early returns that keep a validation clear `approved`; with `BestEnds` it
  yields the property for both ways the router picks its answer.
- `BaselineIsOne`: inductive with `BestEnds`. An attempt that writes the memo also
  writes `validation`, and no best result of an earlier attempt exists by then.
- `LandCached`: the condition of a land implies that of a store (an approval is
  never unverified), and nothing removes an entry during a request.
- `AttemptsKept`: needs `FirstPass` (a request that holds a text when the architect
  runs has an error or a hint, so that the architect keeps the text).
- `RawLoopEnds`: the inductive invariant `RawBudget` charges each return to a
  model to one counter, and gives the duplicate, which is charged to two, its
  own allowance; hence 6 + 2 (reflections + retries + repairs) supersteps, 18 by default.
- `LimitSuffices`: `TwoAgentBudget` does it for strategies and writer attempts;
  a recursion limit with room for those sums (18 and 24 against 25 at the
  defaults) is never reached, except with two agents and a deadline, which the
  run `deadline` shows to be a real exception.

**The shared resources** (`SharedResources_proofs`, `SharedIndexes_proofs`). All
properties of the run `shared`. The inductive invariant `IInv` has the types and, of the
caches: `Exclusive` (alone, all other requests are idle), `Carried` (what a
request at a given step must hold), `Honoured` (alone, what is in memory, in the file and
in a request's hands is no older than the last finished invalidation) and
`Remembered` (a request that saves has, alone, a copy of exactly the store, and knows
whether the directory is mixed).

- `InvalidationIsHonoured` from `Honoured`; `CacheIsAMemory` maps each step of the
  caches to one of `RewriteMemory` or to a stutter with `Remembered`: a finished save is
  `Remember` alone, `Misfile` into a mixed directory, and `Overwrite` of concurrent requests; a kill
  during a save is `Damage` (the vectors are ahead) or `Forget` (a file is cut short).
- `AnalystNeverFailsAlone`, `ServesWhatIsThere` need `Quiet`: alone and between two
  steps the global and the request agree, and no file is half written unless somebody is writing it.
- `PairsDifferByTheIndex` needs `SimInv`: the catalog a simulation has measured is the
  present one with or without its index, at each phase.
- `NothingIsLeftBehind`, `TemporariesAreNoDrift` add `Swept` and `PureInv`: without
  failures every temporary index belongs to a simulation under way, and a context's
  fingerprint has none. Both use `NamesIdentify`: a rescue index whose name another index
  has on other columns would not be created.

**The strategy cache** (`StrategyCache_proofs`). `FloorKept`: every copy a
request carries was above the floor when it was made, so a lost update cannot
break it; a save adds a land and, by `FloorIsLenient`, keeps the ratio. `ServedLanded`: every
readable entry's text landed on its shape. `CountsAreExact`: alone, a shape that
nobody writes has the counts of its tally, and a copy on its way has them already.

**The campaign** (`Campaign_proofs`). For any legs, files, runs, kills and abandoned
requests. `TypeCorrect`, `RunsAreNotExceeded`, `AttemptsAreBounded` and
`EmptyCellsAreNotDone` come from one inductive invariant,
`IInv == TypeOK /\ ClientInv /\ Snapshot /\ Counted /\ Measured`:

- `ClientInv`: the pass is at a leg and at a file, and what it waits for is a run it still has to do.
- `Counted` is why the two bounds are not inductive alone: they hold with `Pending(n)` added, the
  runs this pass, having counted, may still do of its n-th file. A save of the pass is paid for by
  `Pending`, a late one by `late`, and a new pass starts with what is missing. It needs that no two
  files have the same text (`CampaignAssumption`; the repository's 45 differ), since else one
  text would be counted once and measured twice. A kill gives up what was pending and may leave one run behind.
- `Snapshot`: what the pass counted is at most what is in the store now, since nothing is removed.
- `Measured`: every leg that is done, and a pass in which something was answered or that has
  skipped a file for its attempts, has its witness in the store; only then is exit code 0 earned.
- `UnusedIsNew`, `OneMoreRecord`: a save adds one to exactly the counts its record is in.

`OwnRuleDoesNotConverge`, under `OnlyItsOwnRule` and with a minimum of at most two models:
before there is a rule no record in the cluster is guided, so the models counted are
unaided; a rule, fed or written as a hint, needs two models at that time; and records are
never removed. Without `OnlyItsOwnRule` it does not hold (`AidedSettings`).

**The algorithms** (`Algorithms_proofs`). All seven properties of the run `algorithms`, for
inputs of any size: what the run enumerates for two rows, three tables, three tokens
and three clusters. The invariant is `Computed`: the result is none yet, or what the algorithm of
this input returns. So each theorem is one about an operator.

Two of them, `PlainDecorrelationIsPreserved` and `ConsolidationIsPreserved`, rest on
`DecorrelationIsExact`, `BucketsAreExact` and `ConsolidationIsExact`, the
equations between the queries themselves; `StructuralChecksAreExact` is a case analysis of
the shapes (`DecorrelationReports`, `ConsolidationReports`). The others are about loops. Induction with a
predicate as parameter is out of reach of the provers, but a set of numbers is not a
predicate: `AllNumbers` (a set with 0 and every successor of its elements is `Nat`),
`LoopRuns` (a recursive function over `0 .. n` does what its definition says) and
`LoopKeeps` (a set that the first value is in and each step keeps has every value) do the
inductions, and each loop has one lemma that applies them (`...Runs`) and one invariant.

- `BatchesAddNoParaphrases`: the invariant `Fed` of the batch: what is accepted is what is
  reported, and each pair of it, and each with the file, was compared when the later came.
- `NormalizationKeepsThePredicates`: `Placed` says, for every conjunct, whether it is still in the
  graph or in exactly one `ON`, of an item by which both its tables are joined; that a qualified
  column denotes the item it denoted before needs that no table has an alias and no subquery the column.
- `MaskingRoundTrips`: replacing the keys one after the other is one simultaneous replacement
  (`SubWordsIs`, `SubStringsIs`) because no key is also a target, in either direction: names and
  placeholders are apart (`MaskingAssumption`) and the map is one to one (`MapIsGood`: keys
  distinct, placeholder numbers at most the counters, columns of the schema block numbered on from
  the last). `TokenComesBack` follows a token through both, where a literal is its own value (`Unescaped`).
- `PayloadsCarryNoName`: after a pass no key is left (`MaskTextHides`, `MaskNodeHides`), and
  `ExtendCovers` says that the block's names are keys too.

What `MaskingAssumption` asks: no name of the database has the form of a placeholder
(`tbl_1`, `col_1`), and no name is a number or an apostrophe. The code does not check any of it.

Auxiliary invariants were checked on the instances before they were proved.

**Only model-checked**: liveness (`EveryRequestAnswered`, `CampaignEnds`), which is out of the
prover's reach. Every other property of a passing run has its theorem.

## 5. Not modelled

- Prompts, parsing and SQL generation, EXPLAIN parsing, hashing of samples: text,
  abstracted to what their callers compare.
- Plan files and their names by the second, `save_index_run` (the shape of `save_run`),
  the store's eviction over `MAX_RECORDS` (100,000 by default, so off in every campaign here).
- The embedding model: a similar query is the same query, a paraphrase is a relation.
- The operator-precedence and cartesian-join parts of the structural check (`sql.py:1400-1470`) on
  queries: they do not concern what the transforms change. As error kinds they are in
  `ExecutorVerdict` (`StructuralKind`).
- Connections and start-up, the graph-database stub, the persuasion layer and the
  deterministic detectors (retired), the arithmetic of index verdicts and workload notes.
- The shell queues around `perna()`, report generators and figures: they read the stores.

## 6. What could follow

1. The plan files and `save_index_run` beside `save_run`, with two requests in one second.
2. Workload notes: the impact map keyed by source against colliding names.
3. `RewriteLoop` with `SharedResources`: a request that simulates while another lands.
