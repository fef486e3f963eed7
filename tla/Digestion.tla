------------------------------ MODULE Digestion ------------------------------
(***************************************************************************)
(* The execution of a digestion plan (documents/digestion/workflow.py,     *)
(* managed.py, validation.py).  Workers run the steps of the job: the plan *)
(* is stored, every chunk is analysed, every reducer summarises its        *)
(* children, and the digest is assembled from the accepted checkpoints.    *)
(*                                                                         *)
(* What the model returns is arbitrary; it is accepted only if it is valid *)
(* for its request.  A result is malformed, or it is a list of claims.  A  *)
(* claim has a style (its kind, its stance on the one subject modelled,    *)
(* whether it is qualified and whether it cites against), the pieces it    *)
(* cites and the claims of child stages it descends from.                  *)
(***************************************************************************)
EXTENDS Integers, Sequences, FiniteSetsExt, Functions, TLC

CONSTANTS Chunk, Reducer,      \* the stages of the plan
          RootStage,           \* the reducer of the whole document
          ChildrenOf,          \* [Reducer -> SUBSET (Chunk \cup Reducer)], a tree
          PiecesOf,            \* [Chunk -> sets of pieces], no piece twice
          BlockOf,             \* [piece -> its eligible block]
          Policies,            \* what plans may say: units that cannot be analysed, and the
                               \* profile's coverage policy (minimum_coverage in percent)
          Styles, Citations,   \* the styles of claims and the sets of pieces a model writes
          MaxClaims            \* [stage -> bound on its claims]

Stage == Chunk \cup Reducer
Piece == DOMAIN BlockOf
Blocks == Range(BlockOf)
Step == Stage \cup {"plan", "digest"}

ASSUME PlanIsTree ==
    /\ RootStage \in Reducer
    /\ \A s \in Stage \ {RootStage} : \E r \in Reducer : {q \in Reducer : s \in ChildrenOf[q]} = {r}
    /\ UNION Range(PiecesOf) = Piece

VARIABLES policy,      \* the plan's [unsupported, allow_partial, minimum_coverage, max_failed_units]
          state,       \* [Step -> "pending" | "succeeded" | "failed", or "refused" by its handler]
          checkpoint,  \* [Stage -> its accepted checkpoint, or None]
          digest       \* the accepted digest, or None

vars == <<policy, state, checkpoint, digest>>
None == [outcome |-> "none"]
Open == \A x \in Step : state[x] \in {"pending", "succeeded"}

Init ==
    /\ policy \in Policies /\ state = [x \in Step |-> "pending"]
    /\ checkpoint = [s \in Stage |-> None] /\ digest = None

(* -- requests and results ----------------------------------------------- *)

ChildStages(s) == IF s \in Chunk THEN {} ELSE ChildrenOf[s]
Source(s) == IF s \in Chunk THEN PiecesOf[s] ELSE {}

ClaimsOf(s) == checkpoint[s].claims
LinksOf(s) == {<<s, k>> : k \in DOMAIN ClaimsOf(s)}
At(link) == ClaimsOf(link[1])[link[2]]

\* The links and citations a request permits.
Links(s) == UNION {LinksOf(c) : c \in ChildStages(s)}
Allowed(s) == Source(s) \cup UNION {At(l).cites : l \in Links(s)}

Claim(s) == [style : Styles, cites : Citations, lineage : SUBSET Links(s)]
Malformed == [outcome |-> "malformed"]
Results(s) ==
    {Malformed} \cup [outcome : {"analyzed", "unavailable"},
                      claims : UNION {[1 .. n -> Claim(s)] : n \in 0 .. MaxClaims[s]}]

Supports(c) == IF c.style.against THEN {} ELSE c.cites
HasSource(c) == Supports(c) # {} \/ \E l \in c.lineage : Supports(At(l)) # {} \/ At(l).lineage # {}

\* Mutated: a reducer may leave claims of its children out.
CoversSome(s, r) ==
    IF s \in Chunk
    THEN r.outcome = "analyzed" => UNION {c.cites : c \in Range(r.claims)} = Source(s)
    ELSE Links(s) # {} => UNION {c.lineage : c \in Range(r.claims)} # {}

\* An analysis cites every piece, a reduction links every claim of its children.
Covers(s, r) ==
    IF s \in Chunk
    THEN r.outcome = "analyzed" => UNION {c.cites : c \in Range(r.claims)} = Source(s)
    ELSE UNION {c.lineage : c \in Range(r.claims)} = Links(s)

Bound(s, r) ==
    IF r.outcome = "unavailable" THEN s \in Chunk /\ r.claims = <<>>
    ELSE s \in Chunk => r.claims # <<>>

ClaimIsValid(s, c) ==
    /\ c.cites \subseteq Allowed(s)
    /\ c.style.kind = "fact" => HasSource(c)
    /\ c.style.qualified => c.cites # {}
    /\ c.style.stance # "none" => c.style.kind = "fact"

\* validate_result: what is not valid is never stored.
Valid(s, r) ==
    /\ r # Malformed /\ Bound(s, r)
    /\ \A k \in DOMAIN r.claims : ClaimIsValid(s, r.claims[k])
    /\ Covers(s, r)

Count(S, Of(_)) == MapThenSumSet(Of, S)
Qualified(r) == Cardinality({k \in DOMAIN r.claims : r.claims[k].style.qualified})
States(r, stance) == \E k \in DOMAIN r.claims : r.claims[k].style.stance = stance

\* inherited_summary: what the application carries up the tree by itself.
Inherited(s, r) ==
    LET below == ChildStages(s)
        affirmed == States(r, "affirmed") \/ \E c \in below : checkpoint[c].affirmed
        denied == States(r, "denied") \/ \E c \in below : checkpoint[c].denied
    IN [affirmed |-> affirmed, denied |-> denied, conflict |-> affirmed /\ denied,
        analyzed |-> Count(below, LAMBDA c : checkpoint[c].analyzed)
                     + IF r.outcome = "analyzed" THEN Cardinality(Source(s)) ELSE 0,
        lost |-> Count(below, LAMBDA c : checkpoint[c].lost)
                 + IF r.outcome = "unavailable" THEN Cardinality(Source(s)) ELSE 0,
        qualifications |-> Qualified(r) + Count(below, LAMBDA c : checkpoint[c].qualifications)]

(* -- steps -------------------------------------------------------------- *)

Requires(x) == IF x = "plan" THEN {} ELSE IF x = "digest" THEN {RootStage}
               ELSE IF x \in Chunk THEN {"plan"} ELSE ChildrenOf[x]
Ready(x) == Open /\ state[x] = "pending" /\ \A y \in Requires(x) : state[y] = "succeeded"
Ends(x, how) == state' = [state EXCEPT ![x] = how]

StorePlan == Ready("plan") /\ Ends("plan", "succeeded") /\ UNCHANGED <<policy, checkpoint, digest>>

\* A stage: the request is built from the children's checkpoints, inferred, validated
\* and stored; what is not valid is an error that is not tried again.
Analyze(s) ==
    /\ Ready(s)
    /\ \E r \in Results(s) :
        IF Valid(s, r)
        THEN /\ Ends(s, "succeeded")
             /\ checkpoint' = [checkpoint EXCEPT ![s] =
                   [outcome |-> r.outcome, claims |-> r.claims] @@ Inherited(s, r)]
        ELSE Ends(s, "refused") /\ UNCHANGED checkpoint
    /\ UNCHANGED <<policy, digest>>

\* The provider, the store or the worker fails, in a way that is not tried again or for
\* the last time.  A failure that is tried again leaves the step as it was: JobLedger
\* counts its attempts.
StepFails(x) == Ready(x) /\ Ends(x, "failed") /\ UNCHANGED <<policy, checkpoint, digest>>

(* -- the digest --------------------------------------------------------- *)

\* The claims reached from the root's claims.
Seen ==
    LET RECURSIVE Reach(_)
        Reach(links) == IF links = {} THEN {} ELSE links \cup Reach(UNION {At(l).lineage : l \in links})
    IN Reach(LinksOf(RootStage))

AnalyzedChunks == {c \in Chunk : checkpoint[c].outcome = "analyzed"}

\* Mutated: a block counts when some of its pieces were analysed.
IncludedPartly == {b \in Blocks : \E c \in AnalyzedChunks : \E x \in PiecesOf[c] : BlockOf[x] = b}

\* The blocks whose spans were all analysed.
Included == {b \in Blocks : {x \in Piece : BlockOf[x] = b} \subseteq UNION {PiecesOf[c] : c \in AnalyzedChunks}}


Status ==
    LET included == Cardinality(Included)
        failed == Cardinality(Blocks) - included
        enough == included * 100 >= policy.minimum_coverage * (Cardinality(Blocks) + policy.unsupported)
    IN IF ~ enough THEN "FAILED"
       ELSE IF failed = 0 /\ policy.unsupported = 0 THEN "COMPLETE"
       ELSE IF policy.allow_partial /\ included > 0 /\ failed =< policy.max_failed_units THEN "PARTIAL" ELSE "FAILED"

Qualifications == {l \in Seen : At(l).style.qualified}

Conflict ==
    /\ \E c \in AnalyzedChunks : States(checkpoint[c], "affirmed")
    /\ \E c \in AnalyzedChunks : States(checkpoint[c], "denied")

\* Every accepted checkpoint is validated again, in topological order.
Revalidated == \A s \in Stage : Valid(s, checkpoint[s]) /\ \A f \in DOMAIN Inherited(s, checkpoint[s]) :
                                    checkpoint[s][f] = Inherited(s, checkpoint[s])[f]

Connected == \A c \in AnalyzedChunks : LinksOf(c) \subseteq Seen

\* The digest step: only a digest that is not FAILED is accepted.
MakeDigest ==
    /\ Ready("digest")
    /\ IF Revalidated /\ Connected /\ Status # "FAILED"
       THEN /\ Ends("digest", "succeeded")
            /\ digest' = [outcome |-> Status, included |-> Included, qualifications |-> Qualifications,
                          conflict |-> Conflict]
       ELSE Ends("digest", "refused") /\ UNCHANGED digest
    /\ UNCHANGED <<policy, checkpoint>>

Next ==
    \/ StorePlan
    \/ \E s \in Stage : Analyze(s)
    \/ \E x \in Step : StepFails(x)
    \/ MakeDigest
DigestionSpec == Init /\ [][Next]_vars

(* -- properties --------------------------------------------------------- *)

\* Steps succeed once what they depend on did; checkpoints are those of succeeded stages.
TypeOK ==
    /\ state \in [Step -> {"pending", "succeeded", "failed", "refused"}]
    /\ \A s \in Stage : (checkpoint[s] # None) <=> (state[s] = "succeeded")
    /\ \A x \in Step : state[x] = "succeeded" => \A y \in Requires(x) : state[y] = "succeeded"
    /\ (digest # None) <=> (state["digest"] = "succeeded")

\* Whatever the model wrote at each level, every claim of every accepted stage can be
\* reached from the claims of the root; the digest step never fails for a lost claim
\* (validate_result, make_digest).
ClaimsReachRoot ==
    state[RootStage] = "succeeded" => Seen = UNION {LinksOf(s) : s \in Stage}

\* The counts that reach the root are those of the chunks: every piece is counted as
\* analysed or as lost, once (inherited_summary).
PiecesAccounted ==
    state[RootStage] = "succeeded" =>
        /\ checkpoint[RootStage].analyzed =
               Cardinality(UNION {PiecesOf[c] : c \in {x \in Chunk : checkpoint[x].outcome = "analyzed"}})
        /\ checkpoint[RootStage].analyzed + checkpoint[RootStage].lost = Cardinality(Piece)

\* Two accepted analyses that oppose each other are a conflict at the root and in the
\* digest, whatever the reducers between them wrote (inherited_summary, make_digest).
ConflictsSurvive ==
    (\E a, b \in UNION {LinksOf(c) : c \in {x \in Chunk : checkpoint[x] # None}} :
        At(a).style.stance = "affirmed" /\ At(b).style.stance = "denied")
    => /\ state[RootStage] = "succeeded" => checkpoint[RootStage].conflict
       /\ digest # None => digest.conflict

\* Every qualification of every accepted claim is in the digest (make_digest).
QualificationsSurvive ==
    digest # None =>
        digest.qualifications = {l \in UNION {LinksOf(s) : s \in Stage} : At(l).style.qualified}

\* What was read, and the blocks with a piece that was not.
Read == UNION {PiecesOf[c] : c \in {x \in Chunk : checkpoint[x].outcome = "analyzed"}}
Unread == {BlockOf[x] : x \in Piece \ Read}

\* The policy permits a digest of what was read.
Permitted ==
    LET whole == Cardinality(Blocks \ Unread) IN
    /\ 100 * whole >= policy.minimum_coverage * (Cardinality(Blocks) + policy.unsupported)
    /\ \/ Unread = {} /\ policy.unsupported = 0
       \/ policy.allow_partial /\ whole > 0 /\ Cardinality(Unread) =< policy.max_failed_units

\* A complete digest has read every piece of every unit; one that is not complete was
\* permitted, and lists as included only blocks that were read to their end (make_digest).
StatusIsHonest ==
    digest # None =>
        /\ (digest.outcome = "COMPLETE") <=> (Read = Piece /\ policy.unsupported = 0)
        /\ Permitted /\ digest.included \cap Unread = {}


\* What a chunk said reaches the digest: claims, conflicts and qualifications, whatever
\* the reducers wrote (validate_result, inherited_summary, make_digest).
ContentSurvives == ClaimsReachRoot /\ ConflictsSurvive /\ QualificationsSurvive

\* What the digest says about its own completeness is true (inherited_summary,
\* make_digest).
AccountIsHonest == TypeOK /\ PiecesAccounted /\ StatusIsHonest
=============================================================================
