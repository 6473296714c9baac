------------------------------ MODULE Discovery ------------------------------
(***************************************************************************)
(* The suggestion store and what is learned from it: save_run of           *)
(* discovery/suggestion_store.py, discover_clusters of                     *)
(* heuristic_discoverer.py, the gates of promotion.py and the batch of     *)
(* auto_feed.py that writes .cache/learned_rules.json, which guided runs   *)
(* put in their prompts, unless LEARNED_RULES_FILE names another rule set. *)
(*                                                                         *)
(* One technique is followed: a record either carries a label that falls   *)
(* in its cluster or does not.  Embeddings and the text of rules are left  *)
(* out; RuleBatch has the batch over several clusters.                     *)
(***************************************************************************)
EXTENDS Integers, FiniteSets

CONSTANTS
    Query,                 \* the queries of the campaign
    Family,                \* model families
    Variant,               \* the suffixes _model_label adds for the toggles
    ClusterFrequency,      \* heuristic_discoverer.MIN_FREQUENCY
    MinFrequency,          \* promotion.MIN_FREQUENCY
    MinModels,             \* promotion.MIN_MODELS
    MinFrequencySingle     \* promotion.MIN_FREQUENCY_SINGLE_MODEL

ASSUME ThresholdsAssumption ==
    /\ ClusterFrequency \in Nat \ {0} /\ MinFrequency \in Nat \ {0}
    /\ MinModels \in Nat \ {0} /\ MinFrequencySingle \in Nat \ {0}

VARIABLES
    store,                 \* the files of the suggestion store
    rules                  \* whose rules are in learned_rules.json

(* How a recorded run ended: landed with the technique; reached it, as SQL that *)
(* parses and restructures the query, without landing; hallucinated, labelled   *)
(* with it on SQL that does not; other, without it; deadline, the architect's   *)
(* single call ran out with no writer heard, written the same after a writer    *)
(* was; gaveUp, the client's own record of an HTTP timeout.                     *)
Outcome == {"landed", "reached", "hallucinated", "other", "deadline", "written", "gaveUp"}
Label == [family : Family, variant : Variant]
Record == [query : Query, model : Label, guided : BOOLEAN, outcome : Outcome]

(* A file is named by the microsecond it was written at; here by a number that *)
(* no file of the same record has.                                             *)
File == [record : Record, copy : Nat]
Named(rec, n) == [record |-> rec, copy |-> n]
Unused(rec) == CHOOSE n \in 0 .. Cardinality(store) : Named(rec, n) \notin store

(* own: the technique that is followed; other: any other technique *)
Technique == {"own", "other"}
StoreOK == IsFiniteSet(store) /\ store \subseteq File /\ rules \subseteq Technique

StoreInit == store = {} /\ rules = {}

(* save_run: one more file. *)
SaveRun(rec) == store' = store \cup {Named(rec, Unused(rec))}
Recorded == {f.record : f \in store}
Copies(records) == Cardinality({f \in store : f.record \in records})

(* discover_clusters: the records whose labels fall in the cluster, whatever arm *)
(* they come from; fewer than ClusterFrequency are no cluster.                    *)
InCluster(r) == r.outcome \in {"landed", "reached", "hallucinated"}
Members == {r \in Recorded : InCluster(r)}
Frequency == Copies(Members)
IsCluster == Frequency >= ClusterFrequency
ModelsOf(records) == {r.model : r \in records}
LandedGain == \E r \in Members : r.outcome = "landed"

(* evaluate_discovery_criteria *)
Convergent ==
    Frequency >= MinFrequency /\ Cardinality(ModelsOf(Members)) >= MinModels /\ LandedGain
SingleModel ==
    /\ ~Convergent
    /\ Cardinality(ModelsOf(Members)) <= 1 /\ Frequency >= MinFrequencySingle /\ LandedGain
Passes == IsCluster /\ (Convergent \/ SingleModel)

(* evaluate_teachable: a model landed it, and another genuinely reached it and *)
(* never landed it.                                                            *)
LandedModels == ModelsOf({r \in Members : r.outcome = "landed"})
GenuineReach(r) == r.outcome \in {"landed", "reached"}
Students == ModelsOf({r \in Members : GenuineReach(r)}) \ LandedModels
(* mutant: a landing is enough *)
TeachableWithoutStudent == LandedModels # {}
Teachable == LandedModels # {} /\ Students # {}

(* auto_feed: the rule is distilled and added when both gates pass; the teacher *)
(* may have nothing to say, and a hint may leak the benchmark.                  *)
AutoFeed ==
    /\ Passes /\ Teachable
    /\ rules' = rules \cup {"own"}
    /\ UNCHANGED store

(* discover_heuristics.py --write-hints: write_and_inject_hint asks for neither *)
(* the criteria nor a frequency but the one the operator gives.                  *)
WriteHints ==
    /\ Teachable
    /\ rules' = rules \cup {"own"}
    /\ UNCHANGED store

(* Another cluster is fed. *)
FeedOther == rules' = rules \cup {"other"} /\ UNCHANGED store

(* active_rule_names, any rule at all: what save_run records as apply_mode. *)
(* ruleset: LEARNED_RULES_FILE names a set with rules in it.                 *)
Guided(appMode, ruleset) == appMode /\ (ruleset \/ rules # {})

(* promotion.py:37 (b) "discovered independently": models that reached the     *)
(* technique with no rule in their prompt.                                     *)
UnaidedModels == ModelsOf({r \in Members : ~r.guided})
=============================================================================
