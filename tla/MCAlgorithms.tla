---------------------------- MODULE MCAlgorithms ----------------------------
\* Pure functions against what they promise: build_plan on documents of up to four
\* blocks on up to two pages, under roomy, tight and managed profiles; or the two
\* rank fusions on pairs of rankings.
EXTENDS DigestionPlan

Texts == {[kind |-> "text", len |-> 0, breaks |-> {}], [kind |-> "text", len |-> 2, breaks |-> {0}],
          [kind |-> "text", len |-> 5, breaks |-> {1}]}
Shapes == Texts \cup {[kind |-> "heading", len |-> 1, breaks |-> {}], [kind |-> "cells", len |-> 2, breaks |-> {}]}
Block(shape, parent, unit) ==
    [kind |-> shape.kind, len |-> shape.len, breaks |-> shape.breaks, parent |-> parent, unit |-> unit]

\* Parents are blocks of the same unit, earlier or later.
OnePage(n, shapes) ==
    {[blocks |-> [i \in 1 .. n |-> Block(s[i], up[i], 1)], class |-> <<"eligible">>] :
        s \in [1 .. n -> shapes], up \in [1 .. n -> 0 .. n]}
TwoPages ==
    {[blocks |-> [i \in 1 .. 3 |-> Block(s[i], IF i > turn THEN 0 ELSE up[i], IF i > turn THEN 2 ELSE 1)], class |-> c] :
        s \in [1 .. 3 -> Shapes], up \in [1 .. 3 -> 0 .. 1], turn \in 1 .. 2,
        c \in {<<"eligible", "unsupported">>, <<"skipped", "eligible">>, <<"eligible", "eligible">>}}
Sections ==
    {[blocks |-> [i \in 1 .. 4 |-> Block(s[i], up[i], 1)], class |-> <<"eligible", "skipped">>] :
        s \in [1 .. 4 -> {[kind |-> "heading", len |-> 1, breaks |-> {}], [kind |-> "text", len |-> 3, breaks |-> {}]}],
        up \in {f \in [1 .. 4 -> 0 .. 3] : \A i \in 1 .. 4 : f[i] < i}}
HasText(d) == \A u \in DOMAIN d.class : d.class[u] = "eligible" =>
                  \E i \in DOMAIN d.blocks : d.blocks[i].unit = u /\ d.blocks[i].len > 0
MCDocuments == {d \in OnePage(2, Shapes) \cup OnePage(3, Shapes) \cup TwoPages \cup Sections : HasText(d)}

Roomy == [chunk |-> 4, room |-> 20, piece |-> 1, context |-> 40, child |-> 4, fanin |-> 3, managed |-> FALSE,
          input |-> 0, units |-> 9, chunks |-> 60, steps |-> 200, depth |-> 80]
MCProfiles == {Roomy,
               [Roomy EXCEPT !.chunk = 3, !.room = 3, !.fanin = 2],
               [Roomy EXCEPT !.chunk = 2, !.managed = TRUE, !.input = 9],
               [Roomy EXCEPT !.chunk = 1, !.fanin = 2, !.chunks = 6, !.steps = 13, !.depth = 3],
               [Roomy EXCEPT !.chunk = 5, !.room = 2, !.context = 9, !.units = 3]}

\* Records are numbered by their place in the dense ranking, so the dense ranking
\* is fixed up to its length and one repeat.
MCKey == 1..7
Upto(n, S) == UNION {[1..m -> S] : m \in 0..n}

\* Full rankings of distinct records, all or all but the last above zero.
Distinct == [keys : {s \in Upto(5, 1..6) : IsInjective(s)}, cut : 0..1]
Clean == {[dense |-> [keys |-> [i \in 1..n |-> i], hits |-> n],
           sparse |-> [keys |-> r.keys, hits |-> Max({Len(r.keys) - r.cut, 0})]] :
             n \in 0..5, r \in Distinct}

\* Short rankings with repeats.
Repeated == {[dense |-> [keys |-> d, hits |-> Len(d)], sparse |-> [keys |-> s, hits |-> Len(s)]] :
               d \in {<<1, 1, 2>>, <<1, 2, 1>>, <<1, 2, 2>>, <<1, 2, 3>>, <<1, 1>>, <<1>>},
               s \in Upto(4, 1..4)}

MCQuestions == Clean \cup Repeated

VARIABLES dense, sparse, hybrid, fused, done, scene
CONSTANTS Key, Questions, TopK
Fusion == INSTANCE RankFusion
fusionVars == <<dense, sparse, hybrid, fused, done>>

Nothing == [keys |-> <<>>, hits |-> 0]
SceneInit ==
    \/ scene = "plan" /\ Init /\ dense = Nothing /\ sparse = Nothing /\ hybrid = <<>> /\ fused = <<>> /\ done = FALSE
    \/ scene = "fusion" /\ Fusion!Init /\ doc = [blocks |-> <<>>, class |-> <<>>] /\ profile = Roomy /\ plan = Unplanned
SceneNext ==
    /\ \/ scene = "plan" /\ BuildPlan /\ UNCHANGED fusionVars
       \/ scene = "fusion" /\ Fusion!Answer /\ UNCHANGED vars
    /\ UNCHANGED scene
SceneSpec == SceneInit /\ [][SceneNext]_<<vars, fusionVars, scene>>

\* Records found by both searches are exactly the answer when there are any, the best of
\* each search otherwise; fuse_rankings puts them first; nothing is returned twice; and
\* rounding reverses two records only within its five digits (hybrid_retrieve,
\* fuse_rankings).
FusionIsFair ==
    /\ Fusion!TypeOK /\ Fusion!AgreementDecides /\ Fusion!DisagreementKeepsBoth
    /\ Fusion!AgreementFirst /\ Fusion!RoundingOnlyTies
=============================================================================
