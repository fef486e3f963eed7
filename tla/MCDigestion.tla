----------------------------- MODULE MCDigestion -----------------------------
\* A section of two chunks below the root; the first block is cut across both.
EXTENDS Digestion

Leaf == {"c1", "c2"}
Tree == [section |-> Leaf, root |-> {"section"}]
Cover == [c1 |-> {"p1"}, c2 |-> {"p2", "p3"}]
Home == [p1 |-> "b1", p2 |-> "b1", p3 |-> "b2"]

Style(kind, stance, qualified, against) ==
    [kind |-> kind, stance |-> stance, qualified |-> qualified, against |-> against]
Plain == {Style("fact", "none", FALSE, FALSE), Style("unknown", "none", FALSE, FALSE)}
Rich == {Style("fact", "affirmed", FALSE, FALSE), Style("fact", "denied", TRUE, FALSE),
         Style("commentary", "none", FALSE, TRUE), Style("commentary", "denied", FALSE, FALSE)}
TwoBelow == [c1 |-> 2, c2 |-> 1, section |-> 2, root |-> 1]
OneEach == [s \in Stage |-> 1]
CitedWhole == {{}, {"p1"}, {"p2", "p3"}}

\* Whole documents only, or partial ones down to a coverage; with and without a unit that
\* could not be extracted.
Policy(unsupported, partial, minimum, failed) ==
    [unsupported |-> unsupported, allow_partial |-> partial, minimum_coverage |-> minimum,
     max_failed_units |-> failed]
Lenient == Policy(0, TRUE, 50, 1)
SomePolicies == {Lenient, Policy(0, FALSE, 50, 1), Policy(1, TRUE, 33, 1), Policy(1, TRUE, 34, 2),
                 Policy(0, TRUE, 0, 2), Policy(1, TRUE, 0, 0)}

\* Stages with several plain claims that never fail, under one policy; or stages with one
\* claim of any style, which may also fail, under every policy.
VARIABLE scene
Answers == INSTANCE Digestion WITH Styles <- Rich, MaxClaims <- OneEach
SceneInit == Init /\ (scene = "answers" \/ (scene = "claims" /\ policy = Lenient))
SceneNext ==
    /\ \/ scene = "claims" /\ (StorePlan \/ (\E s \in Stage : Analyze(s)) \/ MakeDigest)
       \/ scene = "answers" /\ Answers!Next
    /\ UNCHANGED scene
SceneSpec == SceneInit /\ [][SceneNext]_<<vars, scene>>
=============================================================================
