----------------------------- MODULE MCCampaign ------------------------------
(* Campaigns for TLC: one leg under each fault, two models followed by a guided *)
(* one (so that the feed has something to teach), one whose rules come from a   *)
(* file or from other techniques, and one model twice.                          *)
EXTENDS Campaign, TLC

L(family, variant, guided, writer) ==
    [family |-> family, variant |-> variant, guided |-> guided, writer |-> writer,
     ruleset |-> FALSE]
WithRuleset(l) == [l EXCEPT !.guided = TRUE, !.ruleset = TRUE]
S(files, legs, runs, stream, cache, outcomes, killed, left) ==
    [files |-> files, legs |-> legs, runs |-> runs, stream |-> stream, cache |-> cache,
     outcomes |-> outcomes, others |-> FALSE, kills |-> killed, leaves |-> left]
WithOthers(s) == [s EXCEPT !.others = TRUE]

One == <<"q1">>
Two == <<"q1", "q2">>
Alone == <<L("qwen", "think", FALSE, TRUE)>>
TwoThenGuided == <<L("qwen", "think", FALSE, FALSE), L("llama", "think", FALSE, FALSE),
                   L("mistral", "think", TRUE, FALSE)>>
OneThenGuided == <<L("qwen", "think", FALSE, FALSE), L("mistral", "think", TRUE, FALSE)>>
GivenRules == <<WithRuleset(L("qwen", "think", TRUE, FALSE)), L("mistral", "think", TRUE, FALSE)>>
OneModelTwice == <<L("qwen", "think", FALSE, FALSE), L("qwen", "nothink", FALSE, FALSE)>>

Techniques == {"landed", "reached", "hallucinated", "other"}
MCSettings ==
    {S(One, Alone, 2, FALSE, FALSE, {"other", "deadline", "written"}, 2, 1),
     S(Two, Alone, 1, FALSE, FALSE, {"landed", "deadline"}, 1, 2),
     S(One, Alone, 2, TRUE, TRUE, {"landed", "other"}, 1, 1),
     S(One, OneThenGuided, 3, FALSE, FALSE, Techniques, 0, 0),
     S(One, TwoThenGuided, 2, FALSE, FALSE, Techniques, 0, 0),
     WithOthers(S(One, GivenRules, 2, FALSE, FALSE, Techniques, 0, 0))}
AidedSettings == {WithOthers(S(One, GivenRules, 2, FALSE, FALSE, Techniques, 0, 0))}
TwiceSettings == {S(One, OneModelTwice, 2, FALSE, FALSE, Techniques, 0, 0)}
=============================================================================
