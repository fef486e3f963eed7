---------------------------- MODULE SecureRelease ----------------------------
(***************************************************************************)
(* HTTP requests under OIDC (api/security.py, api/app.py,                  *)
(* security/services.py, security/memory.py) on top of the authority.      *)
(*                                                                         *)
(* The middleware runs on the event loop.  It registers the caller, takes  *)
(* a snapshot, lets the endpoint run in a worker thread and then sends     *)
(* every message of the response inside authority.release(), that is with  *)
(* the database's write lock held while the loop awaits the transport.     *)
(* Middleware code of another request that needs the lock meanwhile blocks *)
(* the whole loop, the sender included, until sqlite's busy timeout.       *)
(***************************************************************************)
EXTENDS SecurityAuthority

CONSTANTS Request,
          CallerOf,     \* [Request -> Owner]
          RoleOf,       \* [Request -> the role in its token]
          DocsOf,       \* [Request -> the documents it analyses]
          Admin,        \* the principal of administrative operations
          Messages,     \* messages of a response (start and body)
          MaxMutations  \* bound: administrative operations

ASSUME ReleaseAssumption ==
    /\ CallerOf \in [Request -> Owner] /\ RoleOf \in [Request -> Roles]
    /\ DocsOf \in [Request -> SUBSET Document]
    /\ Admin \in Owner /\ Free \notin Request /\ Messages \in Nat /\ MaxMutations \in Nat

VARIABLES request,   \* [Request -> pc, snapshot, messages sent]
          lock,      \* the request holding the write lock while it sends
          blocked,   \* the request blocking the event loop on the lock
          revoked,   \* requests that lost access after their snapshot
          mutations

serverVars == <<request, lock, blocked, revoked, mutations>>
vars == <<authorityVars, serverVars>>

NoSnapshot == [owner |-> Free, role |-> "user", epoch |-> 0, docs |-> <<>>]

Init ==
    /\ AuthorityInit
    /\ request = [q \in Request |-> [pc |-> "register", snapshot |-> NoSnapshot, sent |-> 0]]
    /\ lock = Free /\ blocked = Free /\ revoked = {} /\ mutations = 0

At(q, pc) == request[q].pc = pc
Goto(q, pc) == request' = [request EXCEPT ![q].pc = pc]
\* A step of q on the event loop, and a transaction by whoever has the lock.
OnLoop(q) == blocked = Free
Unlocked == lock = Free
UnchangedServer == UNCHANGED <<lock, blocked, mutations>>

\* Requests whose snapshot was taken and whose right to answer a step ends.
Entitled(q) ==
    LET s == request[q].snapshot IN
    /\ account[s.owner].known /\ ~account[s.owner].disabled /\ account[s.owner].role = s.role
    /\ \A d \in DOMAIN s.docs :
          /\ document[d].state = "ACTIVE"
          /\ OwnerOf[d] = s.owner \/ s.role = "admin" \/ s.owner \in grants[d]
Holding == {q \in Request : request[q].snapshot # NoSnapshot}
Track == revoked' = revoked \cup {q \in Holding : Entitled(q) /\ ~Entitled(q)'}

\* The middleware: verify, register.  A disabled caller or a full trail is
\* answered 401 or 503.
RegisterStep(q) ==
    /\ At(q, "register") /\ OnLoop(q) /\ Unlocked
    /\ \/ Register(CallerOf[q], RoleOf[q]) /\ Goto(q, "snapshot")
       \/ /\ account[CallerOf[q]].disabled \/ audit >= AuditLimit
          /\ Goto(q, "refuse") /\ UNCHANGED authorityVars
    /\ Track /\ UnchangedServer

\* The middleware's own snapshot, without documents.
SnapshotStep(q) ==
    /\ At(q, "snapshot") /\ OnLoop(q) /\ Unlocked
    /\ \/ /\ MaySnapshot(CallerOf[q], RoleOf[q], {}) /\ AuditOnly
          /\ request' = [request EXCEPT ![q].pc = "endpoint",
                            ![q].snapshot = Snapshot(CallerOf[q], RoleOf[q], {})]
       \/ ~MaySnapshot(CallerOf[q], RoleOf[q], {}) /\ AuditOnly /\ Goto(q, "refuse")
       \/ audit >= AuditLimit /\ UNCHANGED authorityVars /\ Goto(q, "refuse")
    /\ UNCHANGED revoked /\ UnchangedServer

\* A rejected authentication is audited, or answered 503 when that fails.
RefuseStep(q) ==
    /\ At(q, "refuse") /\ OnLoop(q) /\ Unlocked /\ Goto(q, "done")
    /\ AuditOnly \/ (audit >= AuditLimit /\ UNCHANGED authorityVars)
    /\ UNCHANGED revoked /\ UnchangedServer

\* The endpoint, in a worker thread: AuthorizedAnalysis takes a snapshot with
\* the documents and it becomes the one the response is released under.
EndpointStep(q) ==
    /\ At(q, "endpoint") /\ Unlocked
    /\ \/ /\ MaySnapshot(CallerOf[q], RoleOf[q], DocsOf[q]) /\ AuditOnly
          /\ request' = [request EXCEPT ![q].pc = "analyze",
                            ![q].snapshot = Snapshot(CallerOf[q], RoleOf[q], DocsOf[q])]
          /\ revoked' = revoked \ {q}
       \/ /\ AuditOnly \/ (audit >= AuditLimit /\ UNCHANGED authorityVars)
          /\ ~MaySnapshot(CallerOf[q], RoleOf[q], DocsOf[q]) \/ audit >= AuditLimit
          /\ Goto(q, "send") /\ UNCHANGED revoked      \* the error response
    /\ UnchangedServer

\* Retrieval, inference and the revalidation that ends the analysis.
AnalyzeStep(q) ==
    /\ At(q, "analyze") /\ Unlocked
    /\ Goto(q, IF Revalidates(request[q].snapshot) THEN "send" ELSE "deny")
    /\ UNCHANGED <<authorityVars, revoked>> /\ UnchangedServer

\* correlated_send: the lock is taken, the snapshot revalidated, and the
\* message handed to the transport while the lock is held.
SendBegin(q) ==
    /\ At(q, "send") /\ OnLoop(q) /\ Unlocked
    /\ \/ Revalidates(request[q].snapshot) /\ Goto(q, "sending") /\ lock' = q
       \/ ~Revalidates(request[q].snapshot) /\ Goto(q, "deny") /\ UNCHANGED lock
    /\ UNCHANGED <<authorityVars, revoked, blocked, mutations>>

\* The transport took the message, or wait_for gave up on it.
SendEnd(q) ==
    /\ At(q, "sending") /\ OnLoop(q) /\ lock' = Free
    /\ \/ request' = [request EXCEPT ![q].sent = @ + 1,
                          ![q].pc = IF @ = "sending" /\ request[q].sent + 1 < Messages
                                    THEN "send" ELSE "done"]
       \/ Goto(q, "done")
    /\ UNCHANGED <<authorityVars, revoked, blocked, mutations>>

\* SecurityError after the endpoint: 403, or an empty end of a started body.
DenyStep(q) ==
    /\ At(q, "deny") /\ OnLoop(q) /\ Goto(q, "done")
    /\ UNCHANGED <<authorityVars, revoked>> /\ UnchangedServer

\* Middleware of q asks for the lock another request sends under: the loop stops.
Block(q) ==
    /\ request[q].pc \in {"register", "snapshot", "refuse", "send"}
    /\ OnLoop(q) /\ lock # Free
    /\ blocked' = q
    /\ UNCHANGED <<authorityVars, request, lock, revoked, mutations>>

\* Mutated: no busy timeout.
BusyTimeoutNever(q) == FALSE /\ UNCHANGED vars

\* sqlite's busy timeout ends the wait with security_unavailable.
BusyTimeout(q) ==
    /\ blocked = q /\ blocked' = Free
    /\ Goto(q, CASE request[q].pc \in {"register", "snapshot"} -> "refuse"
                 [] request[q].pc = "refuse" -> "done"
                 [] OTHER -> "deny")
    /\ UNCHANGED <<authorityVars, lock, revoked, mutations>>

\* Administrative operations, from worker threads and other processes; they
\* wait for the lock without stopping the loop.
Administer ==
    /\ Unlocked /\ mutations < MaxMutations /\ mutations' = mutations + 1
    /\ Mutation(Admin, "admin") \/ Register(Admin, "admin") \/ AuditOnly
    /\ UNCHANGED <<request, lock, blocked>> /\ Track

Step(q) ==
    \/ RegisterStep(q) \/ SnapshotStep(q) \/ RefuseStep(q) \/ EndpointStep(q)
    \/ AnalyzeStep(q) \/ SendBegin(q) \/ SendEnd(q) \/ DenyStep(q) \/ BusyTimeout(q)

Next == Administer \/ \E q \in Request : Step(q) \/ Block(q)

\* The loop and the threads keep running; the transport and sqlite time out.
ReleaseSpec == Init /\ [][Next]_vars /\ \A q \in Request : WF_vars(Step(q))

(* ---------------------------------------------------------------------- *)

PCs == {"register", "snapshot", "refuse", "endpoint", "analyze", "send", "sending", "deny", "done"}
IsSnapshot(s) ==
    /\ s \in [owner : Owner, role : Roles, epoch : Nat, docs : [DOMAIN s.docs -> Nat]]
    /\ DOMAIN s.docs \subseteq Document

\* Rows, snapshots and locks hold what the code stores; the lock is held exactly while a
\* message is being sent, and only the middleware waits for it on the loop.
TypeOK ==
    /\ account \in [Owner -> [known : BOOLEAN, role : Roles, epoch : Nat, disabled : BOOLEAN]]
    /\ document \in [Document -> [state : States, epoch : Nat]]
    /\ grants \in [Document -> SUBSET Owner] /\ granted \in [Document -> SUBSET Owner]
    /\ \A d \in Document : grants[d] \subseteq granted[d]
    /\ audit \in 0..AuditLimit
    /\ request = [q \in Request |-> [pc |-> request[q].pc, snapshot |-> request[q].snapshot,
                                     sent |-> request[q].sent]]
    /\ \A q \in Request : /\ request[q].pc \in PCs /\ request[q].sent \in Nat
                          /\ request[q].snapshot = NoSnapshot \/ IsSnapshot(request[q].snapshot)
                          /\ At(q, "sending") <=> lock = q
    /\ blocked # Free => /\ blocked \in Request
                         /\ request[blocked].pc \in {"register", "snapshot", "refuse", "send"}

\* No byte of a protected response leaves after access was revoked: while a
\* message is handed to the transport the caller is entitled to it, and was at
\* every moment since its snapshot, a revocation undone later included
\* (release, correlated_send; epochs).
NothingSentAfterRevocation ==
    \A q \in Request : At(q, "sending") => Entitled(q) /\ q \notin revoked

\* Every request is answered, although a sender and a middleware waiting for
\* its lock stop each other on the one event loop (the busy timeout).
EveryRequestAnswered == \A q \in Request : <>At(q, "done")

\* One of the epochs has moved on since the snapshot s; or is less than it was.
Behind(s) ==
    s.epoch < account[s.owner].epoch \/ \E d \in DOMAIN s.docs : s.docs[d] < document[d].epoch
Ahead(s) ==
    s.epoch > account[s.owner].epoch \/ \E d \in DOMAIN s.docs : s.docs[d] > document[d].epoch

\* Whoever loses access after a snapshot, for however short a time, finds one of the
\* epochs of the snapshot behind (register, share, tombstone, disable); a request has its
\* snapshot before its endpoint runs, and keeps it.
EpochsRemember ==
    /\ \A q \in Request :
          /\ At(q, "register") \/ At(q, "snapshot") => q \notin Holding
          /\ request[q].pc \in {"endpoint", "analyze", "send", "sending"} => q \in Holding
    /\ \A q \in Holding : ~Ahead(request[q].snapshot)
    /\ revoked \subseteq {q \in Holding : Behind(request[q].snapshot)}

\* One sender at a time holds the database, and it sends nothing its caller lost the
\* right to (release).
ReleaseInv == TypeOK /\ NothingSentAfterRevocation /\ EpochsRemember
=============================================================================
