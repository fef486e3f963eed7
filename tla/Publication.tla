------------------------------ MODULE Publication ------------------------------
(***************************************************************************)
(* Publication of accepted documents (documents/publication): the SQLite   *)
(* authority, the administrators that plan, prepare, activate, revoke and  *)
(* roll back generations, and the replicas that answer from one of them.   *)
(*                                                                         *)
(* A generation is named by the hash of its manifest, so it is modelled as *)
(* what is hashed: the document versions and the complete base pointer.    *)
(* The job identities in a manifest are audit data and not part of it.     *)
(* Each authority transaction is one step; so is each write of a vector    *)
(* row and each read that a later step relies on.  A raise that changes    *)
(* nothing, a lost response and a crash all look the same: Abort.          *)
(***************************************************************************)
EXTENDS Naturals, Sequences, FiniteSets

CONSTANTS
    Version,        \* accepted document versions
    DocumentOf,     \* version -> logical document
    Job,            \* completed jobs
    VersionOf,      \* job -> the version it digested
    Admin, Replica, Request,
    Oidc,           \* settings.authentication_mode = 'oidc_jwt'
    NoGeneration,
    MaxEpoch,       \* bound: activations
    MaxCandidates,  \* bound: planned generations
    MaxFaults       \* bound: rows or artifacts lost by the environment

ASSUME PublicationAssumption ==
    /\ VersionOf \in [Job -> Version] /\ DOMAIN DocumentOf = Version
    /\ Oidc \in BOOLEAN
    /\ MaxEpoch \in Nat /\ MaxCandidates \in Nat /\ MaxFaults \in Nat

VARIABLES
    active,         \* the singleton row: generation and epoch
    candidates,     \* generation -> state
    activations,    \* the audit table, indexed by epoch
    manifests,      \* object store: generation -> jobs recorded in the manifest
    rows,           \* vector store: <<generation, version>>
    intact,         \* versions whose accepted artifacts still validate
    faults,
    admin,          \* the locals of each administrator's operation
    replica, request

authorityVars == <<active, candidates, activations>>
storeVars == <<manifests, rows, intact, faults>>
servingVars == <<replica, request>>
vars == <<authorityVars, storeVars, admin, servingVars>>

CandidateState == {"PREPARING", "READY", "ACCEPTED", "FAILED", "STALE"}
IdleAdmin == [pc |-> "idle", generation |-> NoGeneration, jobs |-> {}, todo |-> {},
              expected |-> [generation |-> NoGeneration, epoch |-> 0], revoking |-> {}]
IdleReplica == [expected |-> NoGeneration, loading |-> IdleAdmin.expected, snapshot |-> NoGeneration]
IdleRequest == [pc |-> "idle", generation |-> NoGeneration, epoch |-> 0, documents |-> {}, cited |-> {}]

Documents(versions) == {DocumentOf[v] : v \in versions}
Selected(g, docs) == {v \in g.versions : DocumentOf[v] \in docs}

Init ==
    /\ active = [generation |-> NoGeneration, epoch |-> 0]
    /\ candidates = << >> /\ activations = << >>
    /\ manifests = << >> /\ rows = {} /\ intact = Version /\ faults = 0
    /\ admin = [a \in Admin |-> IdleAdmin]
    /\ replica = [r \in Replica |-> IdleReplica]
    /\ request = [q \in Request |-> IdleRequest]

\* PublicationReader.validate, restricted to the documents of some versions: the accepted
\* artifacts rebuild the records and the vector rows are exactly those records.
Validates(g, versions) ==
    /\ g \in DOMAIN manifests
    /\ versions \subseteq intact
    /\ {v \in versions : <<g, v>> \in rows} = versions
Intact(g) == Validates(g, g.versions)

-----------------------------------------------------------------------------
(* the authority's transactions *)

Mark(g, state) ==
    candidates' = IF candidates[g] \in {"PREPARING", "READY", "FAILED"}
                  THEN [candidates EXCEPT ![g] = state] ELSE candidates

\* Mutated: the epoch is not part of what is compared.
CurrentGeneration(expected) == active.generation = expected.generation
Current(expected) == active = expected

Activatable(g, expected, operation) ==
    /\ g \in DOMAIN candidates
    /\ IF operation = "rollback" THEN candidates[g] = "ACCEPTED"
       ELSE candidates[g] = "READY" /\ g.base = expected

\* A lost response is answered again, but only at the same epoch.
Repeated(g, expected, operation) ==
    /\ active = [generation |-> g, epoch |-> expected.epoch + 1]
    /\ expected.epoch + 1 \in DOMAIN activations
    /\ activations[expected.epoch + 1] =
          [generation |-> g, expected |-> expected, operation |-> operation]

AuthorityActivate(g, expected, operation) ==
    \/ Repeated(g, expected, operation) /\ UNCHANGED authorityVars
    \/ /\ ~Repeated(g, expected, operation)
       /\ Current(expected) /\ Activatable(g, expected, operation)
       /\ active.epoch < MaxEpoch
       /\ active' = [generation |-> g, epoch |-> active.epoch + 1]
       /\ candidates' = [candidates EXCEPT ![g] = "ACCEPTED"]
       /\ activations' = Append(activations,
             [generation |-> g, expected |-> expected, operation |-> operation])

-----------------------------------------------------------------------------
(* PublicationService *)

At(a, pc) == admin[a].pc = pc
Finish(a) == admin' = [admin EXCEPT ![a] = IdleAdmin]
Goto(a, pc) == admin' = [admin EXCEPT ![a].pc = pc]
\* revoke goes on to the next operation with the same generation; the others return.
Then(a, g, pc) ==
    admin' = [admin EXCEPT ![a] = IF admin[a].revoking = {} THEN IdleAdmin
                                  ELSE [admin[a] EXCEPT !.pc = pc, !.generation = g]]

\* The identity of the manifest plan_publication builds on what is active.
Candidate(jobs) == [versions |-> {VersionOf[j] : j \in jobs}, base |-> active]
\* accepted: the artifacts of every job validate.
Accepted(g) == g.versions \subseteq intact
\* Two jobs of one document do not make a manifest.
OneJobPerDocument(jobs) ==
    \A j, k \in jobs : DocumentOf[VersionOf[j]] = DocumentOf[VersionOf[k]] => j = k

\* plan: the base is read once; the inventory that is already active is a no-op.
PlanFrom(a, jobs) ==
    LET g == Candidate(jobs)
    IN  /\ Accepted(g) /\ OneJobPerDocument(jobs)
        /\ IF active.generation # NoGeneration /\ active.generation.versions = g.versions
           THEN Intact(active.generation) /\ Then(a, active.generation, "prepare")
           ELSE admin' = [admin EXCEPT ![a].pc = "put", ![a].generation = g, ![a].jobs = jobs]
        /\ UNCHANGED <<authorityVars, storeVars, servingVars>>

Plan(a) == At(a, "idle") /\ \E jobs \in SUBSET Job : PlanFrom(a, jobs)

\* A known candidate is returned; otherwise the manifest is put.  put refuses different
\* bytes under the same key, and the bytes name the jobs.
Put(a) ==
    LET g == admin[a].generation
    IN  /\ At(a, "put")
        /\ IF g \in DOMAIN candidates
           THEN Then(a, g, "prepare") /\ UNCHANGED manifests
           ELSE /\ IF g \in DOMAIN manifests THEN manifests[g] = admin[a].jobs
                   ELSE Cardinality(DOMAIN manifests) < MaxCandidates
                /\ manifests' = [h \in DOMAIN manifests \cup {g} |->
                                    IF h = g THEN admin[a].jobs ELSE manifests[h]]
                /\ Goto(a, "register")
        /\ UNCHANGED <<authorityVars, rows, intact, faults, servingVars>>

Register(a) ==
    LET g == admin[a].generation
    IN  /\ At(a, "register")
        /\ \/ g \in DOMAIN candidates /\ UNCHANGED candidates
           \/ /\ g \notin DOMAIN candidates /\ active = g.base
              /\ candidates' = [h \in DOMAIN candidates \cup {g} |->
                                   IF h = g THEN "PREPARING" ELSE candidates[h]]
        /\ Then(a, g, "prepare")
        /\ UNCHANGED <<active, activations, storeVars, servingVars>>

\* prepare: an accepted candidate is only validated.
PrepareFrom(a, g) ==
    /\ g \in DOMAIN manifests
    /\ IF candidates[g] = "ACCEPTED" THEN Intact(g) /\ Then(a, g, "validate")
       ELSE admin' = [admin EXCEPT ![a].pc = "check", ![a].generation = g]
    /\ UNCHANGED <<authorityVars, storeVars, servingVars>>
Prepare(a) ==
    \/ At(a, "idle") /\ \E g \in DOMAIN candidates : PrepareFrom(a, g)
    \/ At(a, "prepare") /\ PrepareFrom(a, admin[a].generation)

PrepareCheck(a) ==
    LET g == admin[a].generation
    IN  /\ At(a, "check")
        /\ IF active # g.base THEN Mark(g, "STALE") /\ Finish(a)
           ELSE /\ admin' = [admin EXCEPT ![a].pc = "write", ![a].todo = g.versions]
                /\ UNCHANGED candidates
        /\ UNCHANGED <<active, activations, storeVars, servingVars>>

Upsert(g, v) == rows' = rows \cup {<<g, v>>}
Write(a) ==
    /\ At(a, "write")
    /\ \E v \in admin[a].todo :
          /\ Upsert(admin[a].generation, v)
          /\ admin' = [admin EXCEPT ![a].todo = @ \ {v}]
    /\ UNCHANGED <<authorityVars, manifests, intact, faults, servingVars>>

\* Mutated: nothing is checked between the last write and READY.
PrepareUnvalidated(a) ==
    /\ At(a, "write")
    /\ Goto(a, "mark")
    /\ UNCHANGED <<authorityVars, storeVars, servingVars>>
PrepareValidate(a) ==
    /\ At(a, "write") /\ admin[a].todo = {}
    /\ Intact(admin[a].generation)
    /\ Goto(a, "mark")
    /\ UNCHANGED <<authorityVars, storeVars, servingVars>>

MarkReady(a) ==
    /\ At(a, "mark")
    /\ Mark(admin[a].generation, "READY")
    /\ Then(a, admin[a].generation, "validate")
    /\ UNCHANGED <<active, activations, storeVars, servingVars>>

\* Any exception between the first write and READY.
PrepareFails(a) ==
    /\ admin[a].pc \in {"write", "mark"}
    /\ Mark(admin[a].generation, "FAILED")
    /\ Finish(a)
    /\ UNCHANGED <<active, activations, storeVars, servingVars>>

ValidateForward(a, g) ==
    /\ Intact(g)
    /\ admin' = [admin EXCEPT ![a].pc = "forward", ![a].generation = g, ![a].expected = g.base]
    /\ UNCHANGED <<authorityVars, storeVars, servingVars>>
Activate(a) ==
    \/ At(a, "idle") /\ \E g \in DOMAIN candidates : ValidateForward(a, g)
    \/ At(a, "validate") /\ ValidateForward(a, admin[a].generation)

\* The caller of rollback names the publication it wants to replace.
Rollback(a) ==
    /\ At(a, "idle")
    /\ \E g \in DOMAIN candidates :
          /\ Intact(g)
          /\ admin' = [admin EXCEPT ![a].pc = "rollback", ![a].generation = g, ![a].expected = active]
    /\ UNCHANGED <<authorityVars, storeVars, servingVars>>

Commit(a) ==
    /\ admin[a].pc \in {"forward", "rollback"}
    /\ AuthorityActivate(admin[a].generation, admin[a].expected, admin[a].pc)
    /\ Finish(a)
    /\ UNCHANGED <<storeVars, servingVars>>

\* Mutated: only one of the selected documents is left out.
RevokeOne(a) ==
    LET g == active.generation
    IN  /\ At(a, "idle") /\ g # NoGeneration
        /\ \E selected \in SUBSET Documents(g.versions) \ {{}} :
              admin' = [admin EXCEPT ![a].pc = "revoke", ![a].revoking = selected,
                          ![a].jobs = {j \in manifests[g] : DocumentOf[VersionOf[j]] # CHOOSE d \in selected : TRUE}]
        /\ UNCHANGED <<authorityVars, storeVars, servingVars>>

\* revoke reads the active manifest, then calls plan, prepare and activate.
Revoke(a) ==
    LET g == active.generation
    IN  /\ At(a, "idle") /\ g # NoGeneration
        /\ \E selected \in SUBSET Documents(g.versions) \ {{}} :
              admin' = [admin EXCEPT ![a].pc = "revoke", ![a].revoking = selected,
                          ![a].jobs = {j \in manifests[g] : DocumentOf[VersionOf[j]] \notin selected}]
        /\ UNCHANGED <<authorityVars, storeVars, servingVars>>
RevokePlan(a) == At(a, "revoke") /\ PlanFrom(a, admin[a].jobs)

Abort(a) ==
    /\ ~At(a, "idle")
    /\ Finish(a)
    /\ UNCHANGED <<authorityVars, storeVars, servingVars>>

AdminStep(a) ==
    \/ Plan(a) \/ Put(a) \/ Register(a)
    \/ Prepare(a) \/ PrepareCheck(a) \/ Write(a) \/ PrepareValidate(a) \/ MarkReady(a) \/ PrepareFails(a)
    \/ Activate(a) \/ Rollback(a) \/ Commit(a)
    \/ Revoke(a) \/ RevokePlan(a) \/ Abort(a)

-----------------------------------------------------------------------------
(* PublicationReplica and DocumentAnalysis.analyze *)

\* A process starts with a configured version and no snapshot; its requests are gone.
Restart(r) ==
    /\ \E g \in DOMAIN candidates : replica' = [replica EXCEPT ![r] = [IdleReplica EXCEPT !.expected = g]]
    /\ request' = [q \in Request |-> IdleRequest]
    /\ UNCHANGED <<authorityVars, storeVars, admin>>

\* load: read the active row, validate and index it, and read the row again.
Load(r) ==
    /\ replica[r].snapshot = NoGeneration /\ replica[r].loading = IdleReplica.loading
    /\ active.generation = replica[r].expected /\ active.generation # NoGeneration
    /\ Intact(active.generation)
    /\ replica' = [replica EXCEPT ![r].loading = active]
    /\ UNCHANGED <<authorityVars, storeVars, admin, request>>
Install(r) ==
    /\ replica[r].loading # IdleReplica.loading
    /\ replica' = [replica EXCEPT ![r].loading = IdleReplica.loading,
                     ![r].snapshot = IF active = replica[r].loading THEN active.generation ELSE @]
    /\ UNCHANGED <<authorityVars, storeVars, admin, request>>

\* Mutated: a loaded snapshot is served without asking what is active.
AdmitsLoaded(r) == replica[r].snapshot # NoGeneration
Admits(r) ==
    /\ replica[r].snapshot # NoGeneration
    /\ active.generation = replica[r].expected
    /\ active.generation = replica[r].snapshot

Pin(q, r) ==
    /\ request[q].pc = "idle"
    /\ Admits(r)
    /\ Oidc \/ Intact(active.generation)
    /\ \E docs \in SUBSET Documents(replica[r].snapshot.versions) \ {{}} :
          request' = [request EXCEPT ![q] = [pc |-> "pinned", generation |-> replica[r].snapshot,
                        epoch |-> active.epoch, documents |-> docs, cited |-> {}]]
    /\ UNCHANGED <<authorityVars, storeVars, admin, replica>>

\* validate_pin: an authorized request validates the documents it selected, any other
\* request the whole generation.
ValidatePin(q) ==
    LET g == request[q].generation
    IN  Validates(g, IF Oidc THEN Selected(g, request[q].documents) ELSE g.versions)

\* retrieve: hits come from the vector store and from the snapshot's own index; the
\* reranker may drop or reorder them.
Retrieve(q) ==
    /\ request[q].pc = "pinned" /\ ValidatePin(q)
    /\ \E hits \in SUBSET Selected(request[q].generation, request[q].documents) :
          request' = [request EXCEPT ![q].pc = "retrieved", ![q].cited = hits]
    /\ UNCHANGED <<authorityVars, storeVars, admin, replica>>

\* citations and annotations, up to the call of the provider
Cite(q) ==
    /\ request[q].pc = "retrieved" /\ ValidatePin(q)
    /\ request' = [request EXCEPT ![q].pc = IF request[q].cited = {} THEN "answered" ELSE "generating"]
    /\ UNCHANGED <<authorityVars, storeVars, admin, replica>>

\* The answer cites some of what it was given, and the pin is validated again.
Answer(q) ==
    /\ request[q].pc = "generating" /\ ValidatePin(q)
    /\ \E ids \in SUBSET request[q].cited :
          request' = [request EXCEPT ![q].pc = "answered", ![q].cited = ids]
    /\ UNCHANGED <<authorityVars, storeVars, admin, replica>>

\* An error, a client that went away, or the end of a request.
Close(q) ==
    /\ request[q].pc # "idle"
    /\ request' = [request EXCEPT ![q] = IdleRequest]
    /\ UNCHANGED <<authorityVars, storeVars, admin, replica>>

ServingStep ==
    \/ \E r \in Replica : Restart(r) \/ Load(r) \/ Install(r)
    \/ \E q \in Request : (\E r \in Replica : Pin(q, r)) \/ Retrieve(q) \/ Cite(q) \/ Answer(q) \/ Close(q)

Fault ==
    /\ faults < MaxFaults /\ faults' = faults + 1
    /\ \/ \E row \in rows : rows' = rows \ {row} /\ UNCHANGED intact
       \/ \E v \in intact : intact' = intact \ {v} /\ UNCHANGED rows
    /\ UNCHANGED <<authorityVars, manifests, admin, servingVars>>

Next == (\E a \in Admin : AdminStep(a)) \/ ServingStep \/ Fault

PublicationSpec == Init /\ [][Next]_vars

-----------------------------------------------------------------------------
(* Properties *)

\* Every table, file and process holds values of its type; the active row names the last
\* audited activation (authority.activate writes the three tables in one transaction).
TypeOK ==
    /\ active.epoch = Len(activations) /\ active.epoch <= MaxEpoch
    /\ active.generation = IF activations = << >> THEN NoGeneration
                           ELSE activations[Len(activations)].generation
    /\ \A g \in DOMAIN candidates : candidates[g] \in CandidateState /\ g.versions \subseteq Version
    /\ \A g \in DOMAIN manifests : manifests[g] \subseteq Job
    /\ \A row \in rows : row[2] \in row[1].versions
    /\ intact \subseteq Version /\ faults \in 0 .. MaxFaults

\* The activations are one linear history: a forward activation extends exactly the
\* publication its candidate was planned on, however many administrators race.
History == INSTANCE PublicationHistory WITH
              log <- [i \in DOMAIN activations |-> activations[i].generation]
ImplementsHistory == History!HistorySpec

\* Of the candidates prepared from one base at most one is ever accepted; the losers of
\* the race in authority.activate stay out, also after a rollback to their base.
OneWinnerPerBase ==
    \A g, h \in DOMAIN candidates :
        candidates[g] = "ACCEPTED" /\ candidates[h] = "ACCEPTED" /\ g.base = h.base => g = h

\* A candidate that anyone marked READY or activated is completely written, whatever its
\* other preparers are doing, as long as the environment loses nothing.
ReadyIsComplete ==
    faults = 0 => \A g \in DOMAIN candidates : candidates[g] \in {"READY", "ACCEPTED"} => Intact(g)

\* A registered candidate has its manifest in the object store: plan puts before it registers.
CandidatesHaveManifests == DOMAIN candidates \subseteq DOMAIN manifests

\* A request that was admitted can finish on its generation although others are prepared
\* and activated meanwhile: physical row identities include the generation.
PinnedStaysServable ==
    faults = 0 => \A q \in Request : request[q].pc \in {"pinned", "retrieved", "generating"} => ValidatePin(q)

\* An answer comes from the generation that was active at the epoch its request was
\* admitted, whatever the replica had loaded before (pin asks the authority every time).
AnswersFromAdmittedEpoch ==
    \A q \in Request : request[q].pc = "answered" =>
        /\ activations[request[q].epoch].generation = request[q].generation
        /\ request[q].cited \subseteq Selected(request[q].generation, request[q].documents)

\* What a revocation activates holds none of the documents it revokes, although revoke
\* computes the remaining jobs from one read of the active row and plans them on a
\* second one, and other administrators act in between (revoke).
RevokedIsGone ==
    [][\A a \in Admin : admin[a].revoking # {} /\ active' # active /\ admin'[a] # admin[a] =>
          Documents(active'.generation.versions) \cap admin[a].revoking = {}]_vars

\* The authority, the candidates and the stores agree: the active row is the last
\* activation, bases have one winner, and what is registered, READY or ACCEPTED was
\* written before (plan, prepare, activate).
PublicationInv == TypeOK /\ OneWinnerPerBase /\ ReadyIsComplete /\ CandidatesHaveManifests

\* An admitted request can finish, and its answer is that of the epoch of its admission
\* (pin, retrieve, analyze).
AdmittedIsAnswered == PinnedStaysServable /\ AnswersFromAdmittedEpoch
=============================================================================
