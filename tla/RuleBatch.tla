------------------------------ MODULE RuleBatch ------------------------------
(***************************************************************************)
(* auto_feed of discovery/auto_feed.py: a batch over the clusters in the   *)
(* order discover_clusters ranks them, and the rules it adds to            *)
(* .cache/learned_rules.json (learned_rules.py).  Hints are what the       *)
(* teacher distils; which are paraphrases of each other is the embedding's *)
(* word, and not transitive.                                               *)
(***************************************************************************)
EXTENDS Naturals, Sequences, FiniteSets

CONSTANTS
    Hint, NoHint,
    SlugName,              \* what _slug makes of a cluster's representative
    Paraphrases,           \* the pairs of hints whose embeddings are close
    Leaking                \* the hints that name a table or literal of the benchmark

Cluster == [slug : SlugName, passes : BOOLEAN, teachable : BOOLEAN, hint : Hint \cup {NoHint}]
Rules == UNION {[names -> Hint] : names \in SUBSET SlugName}    \* a rule file

IsDuplicate(hint, existing) == \E h \in existing : h = hint \/ {h, hint} \in Paraphrases

(* add_rule: the file is a dictionary *)
AddRule(file, name, hint) ==
    [n \in DOMAIN file \cup {name} |-> IF n = name THEN hint ELSE file[n]]
HintsOf(file) == {file[n] : n \in DOMAIN file}

(* load_rules reads LEARNED_RULES_FILE when it is set, add_rule never does. *)
Loaded(ablation, file) == IF ablation.on THEN ablation.hints ELSE HintsOf(file)

Status(ablation, acc, c) ==
    CASE ~c.passes -> "rejected_criteria"
      [] c.passes /\ ~c.teachable -> "not_teachable"
      [] c.passes /\ c.teachable /\ c.hint = NoHint -> "no_hint"
      [] OTHER ->
            IF c.hint \in Leaking THEN "rejected_benchmark_leak"
            ELSE IF IsDuplicate(c.hint, Loaded(ablation, acc.file)) THEN "skipped_duplicate"
            ELSE IF IsDuplicate(c.hint, acc.accepted) THEN "skipped_duplicate_in_batch"
            ELSE "accepted"

(* mutant: compared with the file only *)
RememberNothing(acc, c) == acc.accepted
Remember(acc, c) == acc.accepted \cup {c.hint}

Consider(ablation, dryRun, acc, c) ==
    IF Status(ablation, acc, c) # "accepted" THEN acc
    ELSE [file |-> IF dryRun THEN acc.file ELSE AddRule(acc.file, c.slug, c.hint),
          accepted |-> Remember(acc, c),
          report |-> Append(acc.report, c)]

Considering(clusters, file, ablation, dryRun) ==
    LET acc[n \in 0 .. Len(clusters)] ==
            IF n = 0 THEN [file |-> file, accepted |-> {}, report |-> <<>>]
            ELSE Consider(ablation, dryRun, acc[n - 1], clusters[n])
    IN acc
AutoFeedBatch(clusters, file, ablation, dryRun) ==
    Considering(clusters, file, ablation, dryRun)[Len(clusters)]
=============================================================================
