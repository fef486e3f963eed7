---------------------------- MODULE DigestionPlan ----------------------------
(***************************************************************************)
(* The plan of a digestion (documents/digestion/planning.py): build_plan   *)
(* turns an extracted document and a profile into analysis chunks and a    *)
(* tree of reducers, before anything is admitted or inferred.              *)
(*                                                                         *)
(* A document is its blocks in reading order and the class of each of its  *)
(* units (pages).  A block has a kind, the block it names as its parent (0 *)
(* for none), its unit, its length and the offsets of its line breaks.     *)
(* One character costs one token; what the metadata of a piece, a path     *)
(* element or a child result costs is a number of the profile.             *)
(***************************************************************************)
EXTENDS Integers, Sequences, SequencesExt

CONSTANTS Documents, Profiles

VARIABLES doc, profile, plan
vars == <<doc, profile, plan>>

Unplanned == [error |-> "unplanned"]
Failed(category) == [error |-> category]

(* -- structure ---------------------------------------------------------- *)

Root == 0
Fallback == -1
Nowhere == -2
Headings(d) == {i \in DOMAIN d.blocks : d.blocks[i].kind = "heading"}

\* The number of headings from a heading up to the root.
Depths(d) ==
    LET depth[i \in 0 .. Len(d.blocks)] ==
            IF i = 0 \/ d.blocks[i].parent >= i THEN 0 ELSE 1 + depth[d.blocks[i].parent]
    IN depth

\* Headings are declared below earlier headings and not too deep; a text names a
\* heading only after it.
StructureIsSound(d, p) ==
    \A i \in DOMAIN d.blocks :
        LET above == d.blocks[i].parent IN
        /\ i \in Headings(d) => /\ above \in Headings(d) \cup {Root}
                                /\ Depths(d)[i] - 1 =< p.depth
        /\ above \in Headings(d) => above < i

\* The structural unit a block belongs to: its own for a heading, the heading it
\* names, or the one of the block before it.
Owners(d) ==
    LET owner[i \in 0 .. Len(d.blocks)] ==
            IF i = 0 THEN Nowhere
            ELSE IF i \in Headings(d) THEN i
            ELSE IF d.blocks[i].parent \in Headings(d) THEN d.blocks[i].parent
            ELSE IF owner[i - 1] = Nowhere THEN Fallback ELSE owner[i - 1]
    IN owner

\* The structural units in the order they are added: the root, then each owner
\* when its first block is met.
Units(d) ==
    LET owner == Owners(d)
        First(i) == \A j \in 1 .. i - 1 : owner[j] # owner[i]
        met == SelectSeq([i \in DOMAIN d.blocks |-> i], First)
    IN <<Root>> \o IF met = <<>> THEN <<Fallback>> ELSE [k \in DOMAIN met |-> owner[met[k]]]

Above(d, u) == IF u > 0 THEN d.blocks[u].parent ELSE Root
PathLength(d, u) == IF u > 0 THEN Depths(d)[u] ELSE 0

(* -- chunks ------------------------------------------------------------- *)

Eligible(d, i) == d.class[d.blocks[i].unit] = "eligible"

Fits(p, pieces) == FoldLeft(LAMBDA sum, x : sum + p.piece + x.to - x.from, 0, pieces) =< p.room

\* Where a piece that begins at start ends, as far as characters go: at most a chunk
\* of them, and behind the last line break if the block goes on.
Cut(p, b, start) ==
    LET limit == IF b.len < start + p.chunk THEN b.len ELSE start + p.chunk
        breaks == {x \in b.breaks : start =< x /\ x < limit}
    IN IF limit < b.len /\ breaks # {} THEN Max(breaks) + 1 ELSE limit

\* The end of the piece once it was halved until its request fits; -1 if it cannot
\* be: one character, or a table, which is never cut.
RECURSIVE Halved(_, _, _, _)
Halved(p, b, start, end) ==
    IF b.kind = "cells" /\ <<start, end>> # <<0, b.len>> THEN -1
    ELSE IF Fits(p, <<[from |-> start, to |-> end]>>) THEN end
    ELSE IF b.kind = "cells" \/ end - start =< 1 THEN -1
    ELSE Halved(p, b, start, start + (end - start) \div 2)

\* Mutated: a cut block goes on one character late.
RECURSIVE PiecesLossy(_, _, _, _)
PiecesLossy(d, p, i, start) ==
    LET b == d.blocks[i]
        end == Halved(p, b, start, Cut(p, b, start))
    IN <<[block |-> i, from |-> start, to |-> end]>>
       \o IF 0 =< end /\ end + 1 < b.len THEN PiecesLossy(d, p, i, end + 1) ELSE <<>>

\* The pieces of block i from start on.
RECURSIVE Pieces(_, _, _, _)
Pieces(d, p, i, start) ==
    LET b == d.blocks[i]
        end == Halved(p, b, start, Cut(p, b, start))
    IN <<[block |-> i, from |-> start, to |-> end]>>
       \o IF 0 =< end /\ end < b.len THEN Pieces(d, p, i, end) ELSE <<>>

\* Blocks of one group follow each other and have the same owner.
Groups(d) ==
    LET owner == Owners(d)
        group[i \in 0 .. Len(d.blocks)] ==
            IF i > 1 /\ owner[i] = owner[i - 1] THEN group[i - 1] ELSE i
    IN group

Inventory(d, p) ==
    FlattenSeq([i \in DOMAIN d.blocks |-> IF Eligible(d, i) THEN Pieces(d, p, i, 0) ELSE <<>>])

Characters(pieces) == FoldLeft(LAMBDA sum, x : sum + x.to - x.from, 0, pieces)

\* A piece joins the chunk before it.
Joins(d, p, chunk, x) ==
    /\ Groups(d)[Last(chunk).block] = Groups(d)[x.block]
    /\ Characters(Append(chunk, x)) =< p.chunk
    /\ Fits(p, Append(chunk, x))

Chunks(d, p) ==
    LET Pack(chunks, x) ==
            IF chunks # <<>> /\ Joins(d, p, Last(chunks), x)
            THEN [chunks EXCEPT ![Len(chunks)] = Append(@, x)]
            ELSE Append(chunks, <<x>>)
    IN FoldLeft(Pack, <<>>, Inventory(d, p))

(* -- reducers ----------------------------------------------------------- *)

\* Stages are numbered: the chunks, then the reducers in the order they are made.
\* A reduction under construction has the level and the first chunk of each stage.
NewReduction(d, chunks) ==
    [reducers |-> <<>>, output |-> [u \in Range(Units(d)) |-> 0], fits |-> TRUE,
     level |-> [c \in DOMAIN chunks |-> 0], position |-> [c \in DOMAIN chunks |-> c]]

Capacity(d, p, u) ==
    Min({p.fanin, (p.context - PathLength(d, u)) \div p.child}
        \cup IF p.managed THEN {(p.input - PathLength(d, u)) \div p.child} ELSE {})

AddReducer(p, u, group, r) ==
    LET level == 1 + Max({r.level[k] : k \in Range(group)})
        reducers == Append(r.reducers, [owner |-> u, children |-> group, level |-> level])
    IN [r EXCEPT !.reducers = reducers, !.level = Append(@, level),
                 !.position = Append(@, Min({r.position[k] : k \in Range(group)})),
                 !.fits = @ /\ level =< p.depth /\ Len(r.level) + 3 =< p.steps]

\* One level of a unit's reduction: consecutive groups of at most the capacity.
Level(p, u, capacity, current, r) ==
    LET Group(g) == SubSeq(current, (g - 1) * capacity + 1, Min({g * capacity, Len(current)}))
        groups == (Len(current) + capacity - 1) \div capacity
    IN FoldLeft(LAMBDA x, g : AddReducer(p, u, Group(g), x), r, [g \in 1 .. groups |-> g])

RECURSIVE Levels(_, _, _, _, _)
Levels(p, u, capacity, current, r) ==
    LET next == Level(p, u, capacity, current, r)
        made == [k \in 1 .. Len(next.level) - Len(r.level) |-> Len(r.level) + k]
    IN IF ~ next.fits THEN next
       ELSE IF Len(made) = 1 THEN [next EXCEPT !.output[u] = made[1]]
       ELSE Levels(p, u, capacity, made, next)

\* A unit's own chunks, then the outputs of the units below it.
Inputs(d, chunks, u, r) ==
    SelectSeq([c \in DOMAIN chunks |-> c], LAMBDA c : Owners(d)[chunks[c][1].block] = u)
    \o LET below == SelectSeq(Units(d), LAMBDA v : v # Root /\ Above(d, v) = u /\ r.output[v] # 0)
       IN [k \in DOMAIN below |-> r.output[below[k]]]

\* The inputs of a unit's reduction, by the first chunk each of them read.
Children(d, chunks, u, r) ==
    SortSeq(Inputs(d, chunks, u, r), LAMBDA a, b : r.position[a] < r.position[b])

ReduceGroup(d, p, chunks, r, u) ==
    LET children == Children(d, chunks, u, r)
        capacity == Capacity(d, p, u)
        least == IF p.managed THEN Min({2, Len(children)}) ELSE 2
    IN IF ~ r.fits \/ children = <<>> THEN r
       ELSE IF capacity < least THEN [r EXCEPT !.fits = FALSE]
       ELSE Levels(p, u, capacity, children, r)

\* All units, those below a unit before it.
Reduction(d, p, chunks) ==
    FoldLeft(LAMBDA r, u : ReduceGroup(d, p, chunks, r, u), NewReduction(d, chunks), Reverse(Units(d)))

(* -- the plan ----------------------------------------------------------- *)

EmptyUnits(d) == {u \in DOMAIN d.class : \A i \in DOMAIN d.blocks : d.blocks[i].unit # u}

Build(d, p) ==
    LET chunks == Chunks(d, p)
        reduction == Reduction(d, p, chunks)
    IN IF Len(d.blocks) + Cardinality(EmptyUnits(d)) > p.units THEN Failed("synthesis_limit_exceeded")
       ELSE IF ~ StructureIsSound(d, p) THEN Failed("structural_planning_failed")
       ELSE IF \E x \in Range(Inventory(d, p)) : x.to < 0 THEN Failed("synthesis_limit_exceeded")
       ELSE IF Len(chunks) > p.chunks THEN Failed("synthesis_limit_exceeded")
       ELSE IF chunks = <<>> THEN Failed("coverage_failed")
       ELSE IF ~ reduction.fits THEN Failed("synthesis_limit_exceeded")
       ELSE [error |-> "none", chunks |-> chunks, reducers |-> reduction.reducers,
             root |-> reduction.output[Root]]

Init == doc \in Documents /\ profile \in Profiles /\ plan = Unplanned
BuildPlan == plan = Unplanned /\ plan' = Build(doc, profile) /\ UNCHANGED <<doc, profile>>
PlanSpec == Init /\ [][BuildPlan]_vars

(* -- what a plan promises ----------------------------------------------- *)

Planned == plan.error = "none"
Stage == 1 .. Len(plan.chunks) + Len(plan.reducers)
Reducer(s) == plan.reducers[s - Len(plan.chunks)]
Below(s) == IF s =< Len(plan.chunks) THEN {} ELSE Range(Reducer(s).children)

\* The chunks a stage summarises, through all levels.
Leaves ==
    LET leaves[s \in Stage] ==
            IF s =< Len(plan.chunks) THEN {s} ELSE UNION {leaves[k] : k \in Below(s)}
    IN leaves

\* Mutated: the first reducer of a unit stands for it.
SectionNodeFirst(u) == Min({s \in Stage : s > Len(plan.chunks) /\ Reducer(s).owner = u})

\* The reducer that stands for a structural unit, for make_digest and for the choice of
\* a managed stage profile: the last one made for it.
SectionNode(u) == Max({s \in Stage : s > Len(plan.chunks) /\ Reducer(s).owner = u})

\* A plan or the category of a refusal, every chunk holding a piece.
TypeOK ==
    plan # Unplanned =>
        \/ plan.error \in {"synthesis_limit_exceeded", "structural_planning_failed", "coverage_failed"}
        \/ /\ Planned /\ plan.root \in Stage
           /\ \A c \in DOMAIN plan.chunks : plan.chunks[c] # <<>>
           /\ \A s \in Stage : Below(s) \subseteq 1 .. s - 1

\* Every character of the eligible blocks is in one piece of one chunk, in reading order
\* across chunks and sections, however blocks were cut, halved and packed; an empty block
\* keeps its piece, and nothing of the other units is analysed (_build).
EveryCharacterOnce ==
    Planned =>
        LET Spell(x) == [k \in 1 .. x.to - x.from + 1 |-> <<x.block, x.from + k - 1>>]
            Text(i) == [k \in 1 .. doc.blocks[i].len |-> <<i, k - 1>>]
            read == FlattenSeq([c \in DOMAIN plan.chunks |->
                        FlattenSeq([k \in DOMAIN plan.chunks[c] |-> Front(Spell(plan.chunks[c][k]))])])
            blocks == SelectSeq([i \in DOMAIN doc.blocks |-> i], LAMBDA i : Eligible(doc, i))
        IN /\ read = FlattenSeq([k \in DOMAIN blocks |-> Text(blocks[k])])
           /\ {x.block : x \in UNION {Range(plan.chunks[c]) : c \in DOMAIN plan.chunks}} = Range(blocks)

\* A chunk holds text of one structural unit, within the character limit and the request
\* budget, and a table is in one piece (make_chunk, check_request).
ChunksAreRequests ==
    Planned => \A c \in DOMAIN plan.chunks :
        LET pieces == plan.chunks[c] IN
        /\ Fits(profile, pieces) /\ Characters(pieces) =< profile.chunk
        /\ \A k \in DOMAIN pieces : Owners(doc)[pieces[k].block] = Owners(doc)[pieces[1].block]
        /\ \A x \in Range(pieces) : doc.blocks[x.block].kind = "cells" => x.to - x.from = doc.blocks[x.block].len

\* The reducers are a tree over all chunks: every stage but the root is the child of one
\* reducer, within the fan-in, the depth and the number of steps (reduce_group).
ReductionIsTree ==
    Planned =>
        LET uses == FlattenSeq([k \in DOMAIN plan.reducers |-> plan.reducers[k].children]) IN
        /\ Range(uses) = Stage \ {plan.root} /\ Len(uses) = Cardinality(Range(uses))
        /\ Len(plan.chunks) + Len(plan.reducers) + 2 =< profile.steps
        /\ \A k \in DOMAIN plan.reducers :
               Len(plan.reducers[k].children) =< profile.fanin /\ plan.reducers[k].level =< profile.depth

\* The reducer taken for a section's summary has read all text of the section and of the
\* sections below it, and no other; for the document it is the root (make_digest,
\* ManagedDigestionHandler.analyze).
SectionsAreWhole ==
    Planned => \A u \in {Reducer(s).owner : s \in {x \in Stage : x > Len(plan.chunks)}} :
        LET Within(v) == LET in[x \in 0 .. Len(doc.blocks) \cup {Fallback}] ==
                                 x = u \/ (x # Root /\ in[Above(doc, x)]) IN in[v]
        IN /\ Leaves[SectionNode(u)] = {c \in DOMAIN plan.chunks : Within(Owners(doc)[plan.chunks[c][1].block])}
           /\ u = Root => SectionNode(u) = plan.root

\* The children of a reducer follow each other in the document, by the first chunk each
\* of them read (positions).
ChildrenInOrder ==
    Planned => \A k \in DOMAIN plan.reducers : \A i \in 2 .. Len(plan.reducers[k].children) :
        Min(Leaves[plan.reducers[k].children[i - 1]]) < Min(Leaves[plan.reducers[k].children[i]])

\* A document with sound headings and some text is planned whenever one character and
\* each table fit a request, two children fit a reducer and no count is short: text is cut
\* further rather than refused.
CutsBeforeRefusing ==
    LET blocks == {i \in DOMAIN doc.blocks : Eligible(doc, i)}
        total == MapThenSumSet(LAMBDA i : 1 + doc.blocks[i].len, DOMAIN doc.blocks)
    IN (/\ plan # Unplanned /\ blocks # {} /\ StructureIsSound(doc, profile)
        /\ Len(doc.blocks) + Cardinality(EmptyUnits(doc)) =< profile.units
        /\ profile.piece + 1 =< profile.room
        /\ \A i \in blocks : doc.blocks[i].kind = "cells" =>
               doc.blocks[i].len =< profile.chunk /\ profile.piece + doc.blocks[i].len =< profile.room
        /\ \A u \in Range(Units(doc)) : Capacity(doc, profile, u) >= 2
        /\ profile.chunks >= total /\ profile.depth >= 2 * total /\ profile.steps >= 5 * total)
       => Planned

\* The chunks are the text: all of it, once, in requests the model can take, and cut
\* rather than refused (_build).
ChunksAreTheText == EveryCharacterOnce /\ ChunksAreRequests /\ CutsBeforeRefusing

\* The reduction reads every chunk once, in order, along the sections of the document
\* (reduce_group).
ReductionIsFaithful == TypeOK /\ ReductionIsTree /\ SectionsAreWhole /\ ChildrenInOrder
=============================================================================
