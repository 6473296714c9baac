--------------------------- MODULE MCRewriteLoop ---------------------------
(***************************************************************************)
(* RewriteLoop on one query and six other texts.  What the database says   *)
(* of a text is fixed up to its timing, which is noise, so that resending  *)
(* a text changes a verdict only where it may in the program.              *)
(***************************************************************************)
EXTENDS RewriteLoop

MCSql == {"raw", "fast", "slow", "bare", "full", "wrong", "broken"}

(* Enough to fail: the run about deadlines needs no success. *)
FailingSql == {"raw", "broken"}

(* A land that goes on to the index nodes, one inside the noise, one invalid. *)
ModestSql == {"raw", "modest", "slow", "broken"}

(* "bare" is "full" without its ORDER BY. *)
MCRepair == [s \in Sql |-> IF s = "bare" THEN "full" ELSE s]

MCOriginals == {[hash |-> "ok", ms |-> 5000], [hash |-> "timeout", ms |-> NoValue]}

Measured(hash, ms) ==
    [hash |-> hash, text |-> "plain", ms |-> ms, rows |-> "same", plan |-> "other",
     cost |-> "not_up", unknownRefs |-> FALSE, structural |-> {},
     sf1 |-> "none", sf1Original |-> NoValue, sf1Optimized |-> NoValue]

(* Halves the time. *)
Fast == {Measured("same", 2500)}
(* A tenth faster: a land, and marginal. *)
Modest == {Measured("same", 4500)}
(* Around the noise floor, sometimes below the original. *)
Slow == {Measured("same", 4900), Measured("same", 5600)}
(* The planner normalises it away, or its statistics moved and it does not. *)
Full == {[Measured("same", 5000) EXCEPT !.plan = "same"], Measured("same", 4950)}
(* Other rows, and a filter or the parentheses that the structural proxy misses. *)
Wrong == {[Measured("diff", 3000) EXCEPT !.structural = {kind}] : kind \in StructuralKind}

MCMeasuresOf ==
    [s \in Sql |-> CASE s = "fast" -> Fast
                       [] s = "modest" -> Modest
                       [] s = "slow" -> Slow
                       [] s \in {"bare", "full"} -> Full
                       [] s = "wrong" -> Wrong
                       [] OTHER -> {}]

Toggles(twoAgent, deadline) ==
    [twoAgent |-> twoAgent, corrector |-> TRUE, discovery |-> TRUE, deadline |-> deadline,
     adherenceGate |-> twoAgent, semanticCache |-> TRUE, strategyCache |-> twoAgent]

RawConfig == {Toggles(FALSE, TRUE)}
TwoAgentConfig == {Toggles(TRUE, FALSE)}
Baseline == [Toggles(FALSE, FALSE) EXCEPT !.corrector = FALSE, !.discovery = FALSE,
                                           !.semanticCache = FALSE]
MeasuredConfigs == RawConfig \cup TwoAgentConfig \cup {Baseline}
DeadlineConfig == {Toggles(TRUE, TRUE)}
AllConfigs == MeasuredConfigs \cup DeadlineConfig
=============================================================================
