-------------------------- MODULE JobSystemProofs ---------------------------
(* The processes around the ledger: whatever they do is a step of the ledger, so all
   that is proved of it holds in the whole system; and objects and stale workers.  The
   last part is about the admission service, which stands before the ledger by itself. *)
EXTENDS JobSystem, JobService, JobLedgerProofs

\* A proof leaf is sent to Zenon unless it names another prover.
USE ZenonT(60)

\* The invariant of the system is inductive together with that of the ledger.
Inv == LedgerInv /\ SystemInv

\* What the type of the locals of a worker says.
LEMMA WorkerType ==
    ASSUME SystemTypeOK, NEW w \in Workers
    PROVE  /\ worker[w] \in Locals
           /\ worker[w].pc # "idle" =>
                 worker[w].msg \in Message /\ worker[w].msg.step \in Steps
           /\ worker[w].pc = "failing" => worker[w].reason \in Classification
           /\ worker[w].wrote \in SUBSET Refs
BY SMTT(60) DEF SystemTypeOK, Locals, Message

\* A lease that _check_lease accepts is one that claim has issued: the current attempt
\* of the step carries its fence and its worker.
LEMMA AcceptedIsIssued ==
    ASSUME LedgerInv, NEW w \in Workers, worker[w].msg.step \in Steps,
           LeaseError(LeaseOf(w)) = "ok" \/ SettleError(LeaseOf(w)) = "ok"
    PROVE  LeaseOf(w) \in IssuedLeases
<1>1. PICK s \in Steps : s = worker[w].msg.step  OBVIOUS
<1>2. LeaseOf(w).step = s /\ LeaseOf(w).owner = w /\ LeaseOf(w).fence = worker[w].fence
  BY <1>1 DEF LeaseOf
<1>3. fence[s] = worker[w].fence /\ leaseOwner[s] = w /\ stepState[s] = "RUNNING"
  BY <1>2 DEF LeaseError, SettleError
<1>4. /\ fence[s] \in 1 .. fence[s] /\ Len(attempts[s]) = fence[s]
      /\ attempts[s][fence[s]].fence = fence[s] /\ attempts[s][fence[s]].worker = w
  <2>1. LeaseHistory(s) /\ fence[s] \in Nat
    BY DEF LedgerInv, LeaseMatchesHistory, TypeOK
  <2>2. fence[s] \in 1 .. fence[s]
    BY SMTT(60), <1>3, <2>1 DEF LeaseHistory
  <2> QED  BY <1>3, <2>1, <2>2 DEF LeaseHistory
<1>5. DOMAIN attempts[s] = 1 .. Len(attempts[s])
  <2>1. attempts[s] \in Seq(Attempt)  BY DEF LedgerInv, TypeOK
  <2> QED  BY <2>1, LenFacts
<1>6. LeaseOf(w) = [step |-> s, owner |-> attempts[s][fence[s]].worker, fence |-> attempts[s][fence[s]].fence]
  BY <1>1, <1>3, <1>4 DEF LeaseOf
<1>7. fence[s] \in DOMAIN attempts[s]  BY <1>4, <1>5
<1>8. LeaseOf(w) \in {[step |-> s, owner |-> attempts[s][n].worker, fence |-> attempts[s][n].fence] :
                         n \in DOMAIN attempts[s]}
  BY <1>6, <1>7
<1> QED  BY <1>8 DEF IssuedLeases

\* A settlement writes no manifest.
LEMMA SettlingWritesNoManifest ==
    ASSUME Settling
    PROVE  manifest' = manifest
<1>1. PICK F, C, W, T : SettleAction(F, C, W, T)  BY DEF Settling
<1> QED  BY <1>1 DEF SettleAction, SettleSteps, resultVars

-----------------------------------------------------------------------------
(* What the steps of the system do to the ledger. *)

\* A step of the ledger, or none, that leaves the manifests alone.
Plain == (Next \/ UNCHANGED vars) /\ manifest' = manifest

\* Nothing happens in the ledger.
LEMMA NothingIsPlain ==
    ASSUME UNCHANGED vars
    PROVE  Plain
BY DEF Plain, vars, resultVars

\* The relay only reads pending dispatches and marks rows that are available.
LEMMA RelayIsPlain ==
    ASSUME SystemTypeOK, RelayStep \/ RelayCrash \/ QueueLost
    PROVE  Plain
<1>1. CASE RelayMark
  <2>1. relay.sent \in Message
    BY SMTT(60), <1>1 DEF RelayMark, SystemTypeOK
  <2>2. relay.sent.step \in Steps
    BY SMTT(60), <2>1 DEF Message
  <2>3. PICK row : /\ row = [fence |-> relay.sent.fence, wait |-> 0]
                   /\ MarkDelivered(relay.sent.step, row)
    BY <1>1 DEF RelayMark
  <2>4. row.wait = 0 /\ row \in outbox[relay.sent.step]
    BY <2>3 DEF MarkDelivered
  <2>5. Next  BY <2>2, <2>3, <2>4 DEF Next
  <2> QED  BY <2>3, <2>5 DEF MarkDelivered, Plain, resultVars
<1>2. CASE RelayRead \/ RelaySend \/ RelayCrash \/ QueueLost
  BY <1>2, NothingIsPlain DEF RelayRead, RelaySend, RelayCrash, QueueLost, CrashOf
<1> QED  BY <1>1, <1>2 DEF RelayStep

\* A worker that receives, writes, returns, raises, acknowledges or crashes does
\* nothing to the ledger.
LEMMA LocalIsPlain ==
    ASSUME NEW w \in Workers,
           Receive(w) \/ WriteOutput(w) \/ HandlerReturns(w) \/ HandlerRaises(w)
              \/ Acknowledge(w) \/ WorkerCrash(w)
    PROVE  Plain
BY NothingIsPlain DEF Receive, WriteOutput, HandlerReturns, HandlerRaises, Acknowledge,
                      WorkerCrash, CrashOf

\* claim, called with the step of a message.
LEMMA ClaimIsPlain ==
    ASSUME LedgerInv, SystemTypeOK, NEW w \in Workers, Claim(w)
    PROVE  Plain
<1>1. PICK s \in Steps : s = worker[w].msg.step
  BY WorkerType DEF Claim, At
<1>2. CASE ClaimLends(s, w)
  BY <1>2 DEF Plain, Next, ClaimLends, ClaimDue, ClaimExpired, Lend, resultVars
<1>3. CASE ClaimFails(s)
  BY <1>3, ClaimFailsSettles, SettlingWritesNoManifest DEF Plain, Next
<1> QED  BY <1>1, <1>2, <1>3, NothingIsPlain DEF Claim

\* register_object and renew, called with the lease of the worker.
LEMMA HandlerIsPlain ==
    ASSUME LedgerInv, SystemTypeOK, NEW w \in Workers, RegisterOutput(w) \/ HandlerRenews(w)
    PROVE  Plain
<1>1. worker[w].msg.step \in Steps
  BY WorkerType DEF RegisterOutput, HandlerRenews, At
<1>2. ASSUME NEW ref \in Refs, RegisterObject(LeaseOf(w), ref) PROVE Plain
  <2>1. LeaseOf(w) \in IssuedLeases
    BY <1>1, <1>2, AcceptedIsIssued DEF RegisterObject
  <2> QED  BY <1>2, <2>1 DEF Plain, Next, RegisterObject
<1>3. ASSUME Renew(LeaseOf(w)) PROVE Plain
  <2>1. LeaseOf(w) \in IssuedLeases
    BY <1>1, <1>3, AcceptedIsIssued DEF Renew
  <2> QED  BY <1>3, <2>1 DEF Plain, Next, Renew, resultVars
<1>4. Output[worker[w].msg.step] \subseteq Refs
  BY <1>1, SystemAssumption
<1>5. \/ UNCHANGED vars \/ Renew(LeaseOf(w))
      \/ \E ref \in Output[worker[w].msg.step] : RegisterObject(LeaseOf(w), ref)
  BY DEF RegisterOutput, HandlerRenews
<1> QED  BY <1>2, <1>3, <1>4, <1>5, NothingIsPlain

\* fail and settle_cancel, called with the lease of the worker.
LEMMA ReportIsPlain ==
    ASSUME LedgerInv, SystemTypeOK, NEW w \in Workers, ReportFailure(w) \/ Settle(w)
    PROVE  Plain
<1>1. worker[w].msg.step \in Steps /\ (At(w, "failing") => worker[w].reason \in Classification)
  BY WorkerType DEF ReportFailure, Settle, At
<1>2. ASSUME NEW after \in RetryAfters, At(w, "failing"), LeaseError(LeaseOf(w)) = "ok",
             Fail(LeaseOf(w), worker[w].reason, after)
      PROVE  Plain
  <2>1. LeaseOf(w) \in IssuedLeases
    BY <1>1, <1>2, AcceptedIsIssued
  <2>2. Settling  BY <1>2, <2>1, FailSettles
  <2>3. Next  BY <1>1, <1>2, <2>1 DEF Next
  <2> QED  BY <2>2, <2>3, SettlingWritesNoManifest DEF Plain
<1>3. ASSUME SettleCancel(LeaseOf(w)) PROVE Plain
  <2>1. LeaseOf(w) \in IssuedLeases
    BY <1>1, <1>3, AcceptedIsIssued DEF SettleCancel
  <2>2. Settling  BY <1>3, <2>1, SettleCancelSettles
  <2>3. Next  BY <1>3, <2>1 DEF Next
  <2> QED  BY <2>2, <2>3, SettlingWritesNoManifest DEF Plain
<1>4. CASE ReportFailure(w)
  BY <1>2, <1>4, NothingIsPlain DEF ReportFailure
<1>5. CASE Settle(w)
  BY <1>3, <1>5, NothingIsPlain DEF Settle
<1> QED  BY <1>4, <1>5

\* commit, called with the references that were inspected.
LEMMA CommitResultIsNext ==
    ASSUME Inv, NEW w \in Workers, CommitResult(w)
    PROVE  \/ Plain
           \/ /\ Commit(LeaseOf(w), worker[w].wrote) /\ LeaseOf(w) \in IssuedLeases
              /\ worker[w].wrote \in SUBSET Refs /\ worker[w].wrote \subseteq stored
              /\ stored' = stored
<1>1. worker[w].msg.step \in Steps /\ worker[w].wrote \in SUBSET Refs /\ worker[w].wrote \subseteq stored
  BY WorkerType DEF CommitResult, At, Inv, SystemInv
<1>2. CASE Commit(LeaseOf(w), worker[w].wrote)
  <2>1. LeaseOf(w).step = worker[w].msg.step  BY DEF LeaseOf
  <2>2. LeaseError(LeaseOf(w)) = "ok"
    BY <1>2, <2>1 DEF Commit, CommitError
  <2>3. LeaseOf(w) \in IssuedLeases
    BY <1>1, <2>2, AcceptedIsIssued DEF Inv
  <2> QED  BY <1>1, <1>2, <2>3 DEF CommitResult, OnlyWorkers
<1>3. CASE UNCHANGED vars
  BY <1>3, NothingIsPlain
<1> QED  BY <1>2, <1>3 DEF CommitResult

\* Reconciliation, the clock and cancel.
LEMMA EnvironmentIsPlain ==
    ASSUME LedgerInv, Reconcile \/ Tick \/ \E j \in Jobs : Cancel(j)
    PROVE  Plain
<1>1. CASE Reconcile
  BY <1>1, ReconcileSettles, SettlingWritesNoManifest DEF Plain, Next
<1>2. CASE Tick
  BY <1>2 DEF Plain, Next, Tick, resultVars
<1>3. ASSUME NEW j \in Jobs, Cancel(j) PROVE Plain
  BY <1>3, CancelSettles, SettlingWritesNoManifest DEF Plain, Next
<1> QED  BY <1>1, <1>2, <1>3

\* A step of the system leaves the manifests alone, or admits a job, or commits what a
\* worker has inspected in the store.
LEMMA SystemSteps ==
    ASSUME Inv, SystemNext
    PROVE  \/ Plain
           \/ (\E j \in Jobs : Admit(j)) /\ stored' = stored
           \/ \E w \in Workers :
                 /\ Commit(LeaseOf(w), worker[w].wrote) /\ LeaseOf(w) \in IssuedLeases
                 /\ worker[w].wrote \in SUBSET Refs /\ worker[w].wrote \subseteq stored
                 /\ stored' = stored
<1>1. LedgerInv /\ SystemTypeOK  BY DEF Inv, SystemInv
<1>2. ASSUME NEW w \in Workers,
             WorkerStep(w) \/ HandlerRenews(w) \/ HandlerRaises(w) \/ WorkerCrash(w)
      PROVE  Plain \/ CommitResult(w)
  BY <1>1, <1>2, LocalIsPlain, ClaimIsPlain, HandlerIsPlain, ReportIsPlain DEF WorkerStep
<1>3. CASE Client /\ UNCHANGED procVars
  BY <1>1, <1>3, EnvironmentIsPlain DEF Client, procVars
<1>4. CASE Reconcile \/ Tick
  BY <1>1, <1>4, EnvironmentIsPlain
<1>5. CASE RelayStep \/ RelayCrash \/ QueueLost
  BY <1>1, <1>5, RelayIsPlain
<1> QED  BY <1>2, <1>3, <1>4, <1>5, CommitResultIsNext DEF SystemNext

-----------------------------------------------------------------------------
(* The invariant of the system. *)

\* The locals of a worker that takes a step.
LEMMA LocalsType ==
    ASSUME SystemTypeOK, NEW w \in Workers, NEW l \in Locals,
           l.pc # "idle" => l.msg \in Message, l.pc = "failing" => l.reason # "none",
           worker' = [worker EXCEPT ![w] = l]
    PROVE  /\ worker' \in [Workers -> Locals]
           /\ \A v \in Workers : /\ worker'[v].pc # "idle" => worker'[v].msg \in Message
                                 /\ worker'[v].pc = "failing" => worker'[v].reason # "none"
BY DEF SystemTypeOK

\* What the relay and the queue hold.
QueueType ==
    /\ queue \in Seq(Message)
    /\ relay \in [batch : SUBSET Message, sent : Message \cup {NoMessage}]
    /\ stored \subseteq Refs
    /\ crashes \in 0 .. MaxCrashes

\* What the workers hold.
WorkersType ==
    /\ worker \in [Workers -> Locals]
    /\ \A v \in Workers : /\ worker[v].pc # "idle" => worker[v].msg \in Message
                          /\ worker[v].pc = "failing" => worker[v].reason # "none"

\* The relay sends messages of steps with their fence.
LEMMA RelayKeepsTypes ==
    ASSUME SystemTypeOK, RelayStep \/ RelayCrash \/ QueueLost
    PROVE  QueueType' /\ worker' = worker
<1> USE DEF SystemTypeOK, QueueType
<1>1. CASE RelayRead
  <2>1. \A s \in Steps : \A row \in Pending(s) : [step |-> s, fence |-> row.fence] \in Message
    BY SMTT(60) DEF Pending, TypeOK, OutboxRow, Message
  <2>2. PICK new : /\ new = UNION {{[step |-> s, fence |-> row.fence] : row \in Pending(s)} : s \in Steps}
                   /\ relay' = [relay EXCEPT !.batch = new]
    BY <1>1 DEF RelayRead
  <2>3. ASSUME NEW m \in new PROVE m \in Message
    <3>1. PICK s \in Steps : m \in {[step |-> s, fence |-> row.fence] : row \in Pending(s)}
      BY <2>2
    <3> QED  BY <2>1, <3>1
  <2>4. relay' \in [batch : SUBSET Message, sent : Message \cup {NoMessage}]
    BY SMTT(60), <2>2, <2>3
  <2> QED  BY <1>1, <2>4 DEF RelayRead
<1>2. CASE RelaySend
  <2>1. PICK m \in relay.batch : /\ queue' = Append(queue, m)
                                 /\ relay' = [batch |-> relay.batch \ {m}, sent |-> m]
    BY <1>2 DEF RelaySend
  <2>2. m \in Message /\ relay.batch \subseteq Message  BY SMTT(60)
  <2>3. queue' \in Seq(Message) /\ relay' \in [batch : SUBSET Message, sent : Message \cup {NoMessage}]
    BY SMTT(60), <2>1, <2>2
  <2> QED  BY <1>2, <2>3 DEF RelaySend
<1>3. CASE RelayMark
  <2>1. relay' \in [batch : SUBSET Message, sent : Message \cup {NoMessage}]
    BY SMTT(60), <1>3 DEF RelayMark
  <2> QED  BY <1>3, <2>1 DEF RelayMark
<1>4. CASE RelayCrash \/ QueueLost
  <2>1. crashes' \in 0 .. MaxCrashes
    BY SMTT(60), <1>4, SystemAssumption DEF RelayCrash, QueueLost, CrashOf
  <2>2. << >> \in Seq(Message) /\ IdleRelay \in [batch : SUBSET Message, sent : Message \cup {NoMessage}]
    BY SMTT(60) DEF IdleRelay
  <2> QED  BY <1>4, <2>1, <2>2 DEF RelayCrash, QueueLost, CrashOf
<1> QED  BY <1>1, <1>2, <1>3, <1>4 DEF RelayStep

\* What a step of a worker does to its locals.
NewLocals(w, l) ==
    /\ l \in Locals /\ worker' = [worker EXCEPT ![w] = l]
    /\ l.pc # "idle" => l.msg \in Message
    /\ l.pc = "failing" => l.reason # "none"
    /\ l.pc = "committing" => l.wrote \subseteq stored

\* Going on to another line of once() without touching anything else.
LEMMA GotoLocals ==
    ASSUME SystemTypeOK, NEW w \in Workers, worker[w].pc # "idle",
           NEW pc \in {"acking", "settling", "committing"}, Goto(w, pc),
           pc = "committing" => worker[w].wrote \subseteq stored
    PROVE  \E l : NewLocals(w, l)
<1>1. worker[w] \in Locals /\ worker[w].msg \in Message  BY DEF SystemTypeOK
<1>2. PICK l : l = [worker[w] EXCEPT !.pc = pc]  OBVIOUS
<1>3. l \in Locals /\ l.pc = pc /\ l.msg = worker[w].msg /\ l.wrote = worker[w].wrote
  BY SMTT(60), <1>1, <1>2 DEF Locals
<1>4. worker' = [worker EXCEPT ![w] = l]  BY <1>2 DEF Goto
<1> QED  BY <1>1, <1>3, <1>4 DEF NewLocals

\* A handler that raises.
LEMMA RaiseLocals ==
    ASSUME SystemTypeOK, NEW w \in Workers, worker[w].pc # "idle",
           NEW reason \in Classification, Raise(w, reason)
    PROVE  \E l : NewLocals(w, l)
<1>1. worker[w] \in Locals /\ worker[w].msg \in Message  BY DEF SystemTypeOK
<1>2. PICK l : l = [worker[w] EXCEPT !.pc = "failing", !.reason = reason]  OBVIOUS
<1>3. l \in Locals /\ l.pc = "failing" /\ l.msg = worker[w].msg /\ l.reason = reason
  BY <1>1, <1>2 DEF Locals
<1>4. worker' = [worker EXCEPT ![w] = l]  BY <1>2 DEF Raise, SystemTypeOK
<1>5. reason # "none"  BY DEF Classification
<1> QED  BY <1>1, <1>3, <1>4, <1>5 DEF NewLocals

\* once() ends.
LEMMA IdleLocals ==
    ASSUME NEW w \in Workers, worker' = [worker EXCEPT ![w] = IdleWorker]
    PROVE  \E l : NewLocals(w, l)
<1>1. IdleWorker \in Locals /\ IdleWorker.pc = "idle"
  BY SMTT(60) DEF IdleWorker, Locals
<1> QED  BY <1>1 DEF NewLocals

\* Every step of a worker leaves locals of the right type; what it goes on to commit
\* has been inspected in the store.
LEMMA WorkerLocals ==
    ASSUME Inv, NEW w \in Workers,
           WorkerStep(w) \/ HandlerRenews(w) \/ HandlerRaises(w) \/ WorkerCrash(w)
    PROVE  worker' = worker \/ \E l : NewLocals(w, l)
<1>1. SystemTypeOK /\ worker[w] \in Locals /\ (worker[w].pc # "idle" => worker[w].msg \in Message)
  BY DEF Inv, SystemInv, SystemTypeOK
<1>2. CASE Receive(w)
  <2>1. PICK l : l = [worker[w] EXCEPT !.pc = "claiming", !.msg = Head(queue)]  OBVIOUS
  <2>2. Head(queue) \in Message
    BY SMTT(60), <1>1, <1>2 DEF SystemTypeOK, Receive
  <2>3. l \in Locals /\ l.pc = "claiming" /\ l.msg = Head(queue)
    BY <1>1, <2>1, <2>2 DEF Locals
  <2>4. worker' = [worker EXCEPT ![w] = l]
    BY <1>1, <1>2, <2>1 DEF Receive, SystemTypeOK
  <2> QED  BY <2>2, <2>3, <2>4 DEF NewLocals
<1>3. CASE Claim(w)
  <2>1. worker[w].pc # "idle" /\ worker[w].msg \in Message  BY <1>1, <1>3 DEF Claim, At
  <2>2. CASE Goto(w, "acking")  BY <1>1, <2>1, <2>2, GotoLocals
  <2>3. PICK s \in Steps : s = worker[w].msg.step
    BY <1>1, <2>1, WorkerType
  <2>4. CASE ClaimLends(s, w) /\ worker' = [worker EXCEPT ![w].pc = "handling", ![w].fence = fence'[s]]
    <3>1. fence'[s] \in Nat
      BY <2>4, ClaimLendsKeepsInv DEF Inv, LedgerInv, TypeOK
    <3>2. PICK l : l = [worker[w] EXCEPT !.pc = "handling", !.fence = fence'[s]]  OBVIOUS
    <3>3. l \in Locals /\ l.pc = "handling" /\ l.msg = worker[w].msg
      BY <1>1, <3>1, <3>2 DEF Locals
    <3>4. worker' = [worker EXCEPT ![w] = l]
      BY <1>1, <2>4, <3>2 DEF SystemTypeOK
    <3> QED  BY <2>1, <3>3, <3>4 DEF NewLocals
  <2> QED  BY <1>3, <2>2, <2>3, <2>4 DEF Claim
<1>4. CASE RegisterOutput(w)
  <2>1. worker[w].pc # "idle" /\ worker[w].msg \in Message  BY <1>1, <1>4 DEF RegisterOutput, At
  <2>2. PICK ref \in Output[worker[w].msg.step] :
           \/ worker' = [worker EXCEPT ![w].pc = "writing", ![w].writing = {ref}]
           \/ Raise(w, Classified(LeaseError(LeaseOf(w))))
    BY <1>4 DEF RegisterOutput
  <2>3. ref \in Refs
    BY <1>1, <2>1, WorkerType, SystemAssumption
  <2>4. CASE worker' = [worker EXCEPT ![w].pc = "writing", ![w].writing = {ref}]
    <3>1. PICK l : l = [worker[w] EXCEPT !.pc = "writing", !.writing = {ref}]  OBVIOUS
    <3>2. l \in Locals /\ l.pc = "writing" /\ l.msg = worker[w].msg
      BY <1>1, <2>3, <3>1 DEF Locals
    <3>3. worker' = [worker EXCEPT ![w] = l]
      BY <1>1, <2>4, <3>1 DEF SystemTypeOK
    <3> QED  BY <2>1, <3>2, <3>3 DEF NewLocals
  <2>5. Classified(LeaseError(LeaseOf(w))) \in Classification
    BY DEF Classified, Classification
  <2> QED  BY <1>1, <2>1, <2>2, <2>4, <2>5, RaiseLocals
<1>5. CASE WriteOutput(w)
  <2>1. worker[w].pc # "idle" /\ worker[w].msg \in Message  BY <1>1, <1>5 DEF WriteOutput, At
  <2>2. PICK l : l = [worker[w] EXCEPT !.pc = "handling", !.writing = {},
                                       !.wrote = @ \cup worker[w].writing]  OBVIOUS
  <2>3. worker[w].wrote \cup worker[w].writing \in SUBSET Refs
    BY SMTT(60), <1>1 DEF Locals
  <2>4. l \in Locals /\ l.pc = "handling" /\ l.msg = worker[w].msg
    BY <1>1, <2>2, <2>3 DEF Locals
  <2>5. worker' = [worker EXCEPT ![w] = l]
    BY <1>1, <1>5, <2>2 DEF WriteOutput, SystemTypeOK
  <2> QED  BY <2>1, <2>4, <2>5 DEF NewLocals
<1>6. CASE HandlerReturns(w)
  <2>1. worker[w].pc # "idle"  BY <1>6 DEF HandlerReturns, At
  <2>2. "NON_RETRYABLE" \in Classification  BY DEF Classification
  <2> QED  BY <1>1, <1>6, <2>1, <2>2, GotoLocals, RaiseLocals DEF HandlerReturns
<1>7. CASE HandlerRenews(w) \/ HandlerRaises(w)
  <2>1. worker[w].pc # "idle"  BY <1>7 DEF HandlerRenews, HandlerRaises, At
  <2>2. /\ {"RETRYABLE", "NON_RETRYABLE"} \subseteq Classification
        /\ Classified(LeaseError(LeaseOf(w))) \in Classification
    BY DEF Classification, Classified
  <2> QED  BY <1>1, <1>7, <2>1, <2>2, RaiseLocals DEF HandlerRenews, HandlerRaises
<1>8. ASSUME NEW error, AfterRefusal(w, error), worker[w].pc # "idle"
      PROVE  \E l : NewLocals(w, l)
  <2>1. Goto(w, "settling") \/ Goto(w, "acking") \/ worker' = [worker EXCEPT ![w] = IdleWorker]
    BY SMTT(60), <1>8 DEF AfterRefusal
  <2> QED  BY <1>1, <1>8, <2>1, GotoLocals, IdleLocals
<1>9. CASE CommitResult(w) \/ ReportFailure(w) \/ Settle(w)
  <2>1. worker[w].pc # "idle"  BY <1>9 DEF CommitResult, ReportFailure, Settle, At
  <2>2. Goto(w, "acking") \/ \E error : AfterRefusal(w, error)
    BY <1>9 DEF CommitResult, ReportFailure, Settle
  <2> QED  BY <1>1, <1>8, <2>1, <2>2, GotoLocals
<1>10. CASE Acknowledge(w) \/ WorkerCrash(w)
  BY <1>10, IdleLocals DEF Acknowledge, WorkerCrash, CrashOf
<1> QED  BY <1>2, <1>3, <1>4, <1>5, <1>6, <1>7, <1>9, <1>10 DEF WorkerStep

\* A worker takes messages from the queue only by acknowledging them, and only adds
\* to the store.
LEMMA WorkerKeepsTypes ==
    ASSUME SystemTypeOK, NEW w \in Workers,
           WorkerStep(w) \/ HandlerRenews(w) \/ HandlerRaises(w) \/ WorkerCrash(w)
    PROVE  QueueType' /\ stored \subseteq stored'
<1> USE DEF SystemTypeOK, QueueType
<1>1. CASE Acknowledge(w)
  <2>1. queue' \in Seq(Message)
    BY SMTT(60), <1>1 DEF Acknowledge
  <2> QED  BY <1>1, <2>1 DEF Acknowledge
<1>2. CASE WriteOutput(w)
  <2>1. worker[w].writing \subseteq Refs
    BY SMTT(60) DEF Locals
  <2> QED  BY <1>2, <2>1 DEF WriteOutput
<1>3. CASE WorkerCrash(w)
  <2>1. crashes' \in 0 .. MaxCrashes
    BY SMTT(60), <1>3, SystemAssumption DEF WorkerCrash, CrashOf
  <2> QED  BY <1>3, <2>1 DEF WorkerCrash, CrashOf
<1>4. CASE \/ Receive(w) \/ Claim(w) \/ RegisterOutput(w) \/ HandlerReturns(w) \/ CommitResult(w)
           \/ ReportFailure(w) \/ Settle(w) \/ HandlerRenews(w) \/ HandlerRaises(w)
  <2>1. OnlyWorkers
    BY <1>4 DEF Receive, Claim, RegisterOutput, HandlerReturns, CommitResult, ReportFailure, Settle,
                HandlerRenews, HandlerRaises
  <2> QED  BY <2>1 DEF OnlyWorkers
<1> QED  BY <1>1, <1>2, <1>3, <1>4 DEF WorkerStep

\* The locals keep their types, and what a worker is about to commit is in the store.
WorkersReady ==
    WorkersType /\ \A w \in Workers : At(w, "committing") => worker[w].wrote \subseteq stored

\* Every step of the system keeps them, and loses no object.
LEMMA SystemKeepsProcesses ==
    ASSUME Inv, SystemNext
    PROVE  QueueType' /\ WorkersReady' /\ stored \subseteq stored'
<1>1. SystemTypeOK /\ QueueType /\ WorkersReady
  BY DEF Inv, SystemInv, SystemTypeOK, QueueType, WorkersType, WorkersReady
<1>2. ASSUME worker' = worker, stored \subseteq stored' PROVE WorkersReady'
  BY <1>1, <1>2 DEF WorkersReady, WorkersType, At
<1>3. CASE UNCHANGED procVars
  BY <1>1, <1>2, <1>3 DEF procVars, QueueType
<1>4. CASE RelayStep \/ RelayCrash \/ QueueLost
  <2>1. stored' = stored
    BY <1>4 DEF RelayStep, RelayRead, RelaySend, RelayMark, RelayCrash, QueueLost, CrashOf
  <2> QED  BY <1>1, <1>2, <1>4, <2>1, RelayKeepsTypes
<1>5. ASSUME NEW w \in Workers,
             WorkerStep(w) \/ HandlerRenews(w) \/ HandlerRaises(w) \/ WorkerCrash(w)
      PROVE  QueueType' /\ WorkersReady' /\ stored \subseteq stored'
  <2>1. QueueType' /\ stored \subseteq stored'
    BY <1>1, <1>5, WorkerKeepsTypes
  <2>2. CASE worker' = worker
    BY <1>2, <2>1, <2>2
  <2>3. ASSUME NEW l, NewLocals(w, l) PROVE WorkersReady'
    <3>1. /\ l \in Locals /\ worker' = [worker EXCEPT ![w] = l]
          /\ l.pc # "idle" => l.msg \in Message
          /\ l.pc = "failing" => l.reason # "none"
          /\ l.pc = "committing" => l.wrote \subseteq stored
      BY <2>3 DEF NewLocals
    <3>2. WorkersType'
      BY <1>1, <3>1, LocalsType DEF WorkersType
    <3>3. \A v \in Workers : worker'[v] = IF v = w THEN l ELSE worker[v]
      BY <1>1, <3>1 DEF WorkersReady, WorkersType
    <3> QED  BY <1>1, <2>1, <3>1, <3>2, <3>3 DEF WorkersReady, At
  <2> QED  BY <1>5, <2>1, <2>2, <2>3, WorkerLocals
<1> QED  BY <1>3, <1>4, <1>5 DEF SystemNext

\* No step of the system accepts a manifest that names an object the store lacks.
LEMMA SystemKeepsObjects ==
    ASSUME Inv, SystemNext
    PROVE  CommittedObjectsExist'
<1>1. LedgerInv /\ CommittedObjectsExist  BY DEF Inv, SystemInv
<1>2. stored \subseteq stored'  BY SystemKeepsProcesses
<1> SUFFICES ASSUME NEW s \in Steps, manifest'[s] # NoManifest
             PROVE  manifest'[s].refs \subseteq stored'
  BY DEF CommittedObjectsExist
<1>3. CASE manifest'[s] = manifest[s]
  BY <1>1, <1>2, <1>3 DEF CommittedObjectsExist
<1>4. ASSUME NEW j \in Jobs, Admit(j) PROVE manifest'[s].refs \subseteq stored'
  <2>1. PICK copied \in SUBSET StepsOf(j) : \E source \in [copied -> Steps] :
           AdmitEffect(j, copied, source)
    BY <1>4, AdmitHasEffect
  <2>2. PICK source \in [copied -> Steps] : AdmitEffect(j, copied, source)
    BY <2>1
  <2>3. CASE s \in copied
    <3>1. /\ source[s] \in Steps /\ stepState[source[s]] = "SUCCEEDED"
          /\ manifest'[s] = [refs |-> manifest[source[s]].refs, fence |-> 0]
      BY <2>2, <2>3 DEF AdmitEffect
    <3>2. manifest[source[s]] # NoManifest
      BY <1>1, <3>1 DEF LedgerInv, ResultsAreFenced, FencedResult
    <3>3. manifest'[s].refs = manifest[source[s]].refs
      BY SMTT(60), <3>1
    <3> QED  BY <1>1, <1>2, <3>1, <3>2, <3>3 DEF CommittedObjectsExist
  <2>4. CASE s \notin copied
    BY <1>3, <2>2, <2>4 DEF AdmitEffect
  <2> QED  BY <2>3, <2>4
<1>5. ASSUME NEW w \in Workers, Commit(LeaseOf(w), worker[w].wrote), LeaseOf(w) \in IssuedLeases,
             worker[w].wrote \in SUBSET Refs, worker[w].wrote \subseteq stored
      PROVE  manifest'[s].refs \subseteq stored'
  <2>1. CommitEffect(LeaseOf(w).step, worker[w].wrote)
    BY <1>1, <1>5, CommitHasEffect
  <2>2. CASE s = LeaseOf(w).step
    <3>1. manifest'[s] = [refs |-> worker[w].wrote, fence |-> fence[s]]
      BY <1>1, <2>1, <2>2, CommitColumns DEF LedgerInv
    <3>2. manifest'[s].refs = worker[w].wrote
      BY SMTT(60), <3>1
    <3> QED  BY <1>2, <1>5, <3>2
  <2>3. CASE s # LeaseOf(w).step
    BY <1>1, <1>3, <2>1, <2>3, CommitColumns DEF LedgerInv
  <2> QED  BY <2>2, <2>3
<1> QED  BY <1>3, <1>4, <1>5, SystemSteps DEF Plain

\* Whatever workers, relay, clients and crashes do is a step of the ledger.
LEMMA SystemNextIsNext ==
    ASSUME Inv, SystemNext
    PROVE  Next \/ UNCHANGED vars
BY SystemSteps DEF Plain, Next

\* The invariant of the system is inductive, and each of its steps is one of the ledger.
LEMMA SystemInduction ==
    Inv /\ [SystemNext]_sysVars => Inv' /\ [Next]_vars
<1> SUFFICES ASSUME Inv, [SystemNext]_sysVars PROVE Inv' /\ [Next]_vars  OBVIOUS
<1>1. CASE SystemNext
  <2>1. [Next]_vars  BY <1>1, SystemNextIsNext
  <2>2. LedgerInv'  BY <2>1, NextKeepsInv DEF Inv
  <2>3. QueueType' /\ WorkersReady' /\ CommittedObjectsExist'
    BY <1>1, SystemKeepsProcesses, SystemKeepsObjects
  <2>4. TypeOK'  BY <2>2 DEF LedgerInv
  <2>5. SystemTypeOK'
    BY <2>3, <2>4 DEF SystemTypeOK, QueueType, WorkersReady, WorkersType
  <2> QED  BY <2>1, <2>2, <2>3, <2>5 DEF Inv, SystemInv, WorkersReady
<1>2. CASE UNCHANGED sysVars
  <2>1. UNCHANGED vars /\ UNCHANGED procVars  BY <1>2 DEF sysVars
  <2>2. LedgerInv'  BY <2>1, NextKeepsInv DEF Inv
  <2>3. TypeOK'  BY <2>2 DEF LedgerInv
  <2>4. SystemInv'
    BY <2>1, <2>3 DEF Inv, SystemInv, SystemTypeOK, CommittedObjectsExist, At, procVars, vars, resultVars
  <2> QED  BY <2>1, <2>2, <2>4 DEF Inv
<1> QED  BY <1>1, <1>2

\* The system starts in its invariant.
LEMMA SystemInitInv == SystemInit => Inv
<1> SUFFICES ASSUME SystemInit PROVE Inv  OBVIOUS
<1>1. LedgerInv  BY InitInv DEF SystemInit
<1>2. queue \in Seq(Message) /\ crashes \in 0 .. MaxCrashes
  BY SMTT(60), SystemAssumption DEF SystemInit
<1>3. relay \in [batch : SUBSET Message, sent : Message \cup {NoMessage}]
  BY SMTT(60) DEF SystemInit, IdleRelay
<1>4. IdleWorker \in Locals /\ IdleWorker.pc = "idle"
  BY SMTT(60) DEF IdleWorker, Locals
<1>5. /\ worker \in [Workers -> Locals] /\ \A w \in Workers : worker[w].pc = "idle"
      /\ stored \subseteq Refs
  BY <1>4 DEF SystemInit
<1>6. TypeOK  BY <1>1 DEF LedgerInv
<1>7. SystemTypeOK
  BY <1>2, <1>3, <1>5, <1>6 DEF SystemTypeOK
<1>8. CommittedObjectsExist
  BY DEF SystemInit, Init, CommittedObjectsExist
<1> QED  BY <1>1, <1>5, <1>7, <1>8 DEF Inv, SystemInv, At

\* Every object named by an accepted manifest is in the store, for any number of
\* workers, crashes and lost messages (IntentStore.put, Worker.once).
THEOREM SystemInvariant ==
    SystemSpec => []SystemInv
<1>1. SystemSpec => []Inv
  BY SystemInitInv, SystemInduction, PTL DEF SystemSpec
<1>2. Inv => SystemInv  BY DEF Inv
<1> QED  BY <1>1, <1>2, PTL

\* The system is a ledger: workers, relay, reconciliation and crashes only ever use it
\* through its operations and with leases it issued, so every theorem about the ledger
\* holds in the whole system.
THEOREM SystemIsLedger ==
    SystemSpec => LedgerSpec
<1>1. SystemInit => Init  BY DEF SystemInit
<1> QED  BY <1>1, SystemInitInv, SystemInduction, PTL DEF SystemSpec, LedgerSpec

\* The invariant of the ledger holds whatever the processes around it do.
THEOREM SystemKeepsLedger ==
    SystemSpec => []LedgerInv
BY SystemIsLedger, LedgerInvariant, PTL

\* The system implements the contract of JobContract.
THEOREM SystemKeepsContract ==
    SystemSpec => ImplementsContract
BY SystemIsLedger, LedgerKeepsContract, PTL

-----------------------------------------------------------------------------
(* Stale workers. *)

\* The fence or the owner of the step is no longer that of the worker's lease.
Stale(w) ==
    fence[worker[w].msg.step] # worker[w].fence \/ leaseOwner[worker[w].msg.step] # w

\* Whatever a worker with a stale lease does next leaves the ledger alone.
LEMMA StaleIsRefused ==
    ASSUME NEW w \in Workers, Stale(w),
           worker[w].pc \in {"handling", "committing", "failing", "settling"},
           WorkerStep(w) \/ HandlerRenews(w) \/ HandlerRaises(w) \/ WorkerCrash(w)
    PROVE  UNCHANGED vars
<1>1. LeaseOf(w).step = worker[w].msg.step /\ LeaseOf(w).owner = w /\ LeaseOf(w).fence = worker[w].fence
  BY DEF LeaseOf
<1>2. LeaseError(LeaseOf(w)) = "stale_fence" /\ SettleError(LeaseOf(w)) = "stale_fence"
  BY <1>1 DEF LeaseError, SettleError, Stale
<1>3. CASE Receive(w) \/ WriteOutput(w) \/ HandlerReturns(w) \/ HandlerRaises(w)
              \/ Acknowledge(w) \/ WorkerCrash(w)
  BY <1>3 DEF Receive, WriteOutput, HandlerReturns, HandlerRaises, Acknowledge, WorkerCrash, CrashOf
<1>4. CASE RegisterOutput(w) \/ HandlerRenews(w)
  BY <1>2, <1>4 DEF RegisterOutput, HandlerRenews
<1>5. CASE ReportFailure(w) \/ Settle(w)
  BY <1>2, <1>5 DEF ReportFailure, Settle
<1>6. CASE CommitResult(w)
  BY <1>1, <1>2, <1>6 DEF CommitResult, Commit, CommitError
<1>7. ~Claim(w)  BY DEF Claim, At
<1> QED  BY <1>3, <1>4, <1>5, <1>6, <1>7 DEF WorkerStep

\* A worker whose lease was given to another or has ended changes nothing in the
\* ledger, whatever it reports and however late (_check_lease, commit, settle_cancel).
THEOREM StaleWorkersAreHarmless ==
    SystemSpec => StaleWorkersChangeNothing
<1> DEFINE Harmless == \A w \in Workers :
          /\ worker[w].pc \in {"handling", "committing", "failing", "settling"}
          /\ fence[worker[w].msg.step] # worker[w].fence \/ leaseOwner[worker[w].msg.step] # w
          /\ worker'[w] # worker[w]
          => UNCHANGED vars
<1>1. ASSUME SystemTypeOK, SystemNext PROVE Harmless
  <2> SUFFICES ASSUME NEW w \in Workers, Stale(w), worker'[w] # worker[w],
                      worker[w].pc \in {"handling", "committing", "failing", "settling"}
               PROVE  UNCHANGED vars
    BY DEF Stale
  <2>1. worker' # worker  OBVIOUS
  <2>2. ~(Client /\ UNCHANGED procVars) /\ ~(Reconcile /\ UNCHANGED procVars)
        /\ ~(Tick /\ UNCHANGED procVars) /\ ~RelayStep /\ ~RelayCrash /\ ~QueueLost
    BY <2>1 DEF procVars, RelayStep, RelayRead, RelaySend, RelayMark, RelayCrash, QueueLost, CrashOf
  <2>3. PICK v \in Workers : WorkerStep(v) \/ HandlerRenews(v) \/ HandlerRaises(v) \/ WorkerCrash(v)
    BY <1>1, <2>2 DEF SystemNext
  <2>4. CASE v = w  BY <2>3, <2>4, StaleIsRefused
  <2>5. CASE v # w /\ ~UNCHANGED vars
    <3>1. \A u \in Workers : u # v => worker'[u] = worker[u]
      BY <1>1, <2>3 DEF SystemTypeOK, WorkerStep, Receive, Claim, RegisterOutput, WriteOutput,
         HandlerReturns, CommitResult, ReportFailure, Settle, Acknowledge, HandlerRenews,
         HandlerRaises, WorkerCrash, CrashOf, Goto, Raise, AfterRefusal
    <3> QED  BY <2>5, <3>1
  <2> QED  BY <2>4, <2>5
<1>2. SystemTypeOK /\ [SystemNext]_sysVars => [Harmless]_sysVars
  BY <1>1
<1>3. SystemInv => SystemTypeOK  BY DEF SystemInv
<1> QED  BY <1>2, <1>3, SystemInvariant, PTL DEF SystemSpec, StaleWorkersChangeNothing

-----------------------------------------------------------------------------
(* What a job with a verdict is worth to a reader outside the transaction. *)

\* A job that has its verdict keeps it and all its results (the contract, for one job).
LEMMA ContractFreezes ==
    ASSUME [Contract!Next]_(Contract!contractVars),
           NEW j \in Jobs, verdictSeen[j] \in {"COMPLETED", "FAILED", "CANCELLED"}
    PROVE  /\ verdictSeen'[j] = verdictSeen[j]
           /\ \A t \in StepsOf(j) : resultSeen'[t] = resultSeen[t]
<1>0. DOMAIN verdictSeen = Jobs /\ DOMAIN resultSeen = Steps
  BY DEF verdictSeen, resultSeen
<1>1. ASSUME NEW i \in Jobs, Contract!Submit(i)
      PROVE  /\ verdictSeen'[j] = verdictSeen[j]
             /\ \A t \in StepsOf(j) : resultSeen'[t] = resultSeen[t]
  <2>1. i # j
    BY <1>1 DEF Contract!Submit
  <2>2. PICK inherited \in SUBSET Contract!StepsOf(i) : \E from \in [inherited -> Steps] :
            resultSeen' = [s \in Steps |-> IF s \in inherited THEN resultSeen[from[s]] ELSE resultSeen[s]]
    BY <1>1 DEF Contract!Submit
  <2>3. \A t \in StepsOf(j) : t \in Steps /\ t \notin inherited
    BY <2>1 DEF StepsOf, Contract!StepsOf
  <2>4. \E v : verdictSeen' = [verdictSeen EXCEPT ![i] = v]
    BY <1>1 DEF Contract!Submit
  <2> QED  BY <1>0, <2>1, <2>2, <2>3, <2>4
<1>2. ASSUME NEW i \in Jobs, Contract!RequestCancel(i)
      PROVE  /\ verdictSeen'[j] = verdictSeen[j]
             /\ \A t \in StepsOf(j) : resultSeen'[t] = resultSeen[t]
  <2>1. i # j
    BY <1>2 DEF Contract!RequestCancel
  <2> QED  BY <1>0, <1>2, <2>1 DEF Contract!RequestCancel
<1>3. ASSUME NEW s \in Steps, NEW refs, Contract!Accept(s, refs)
      PROVE  /\ verdictSeen'[j] = verdictSeen[j]
             /\ \A t \in StepsOf(j) : resultSeen'[t] = resultSeen[t]
  <2>1. JobOf[s] # j
    BY <1>3 DEF Contract!Accept
  <2>2. \A t \in StepsOf(j) : t \in Steps /\ t # s
    BY <2>1 DEF StepsOf
  <2> QED  BY <1>0, <1>3, <2>1, <2>2 DEF Contract!Accept
<1>4. ASSUME Contract!GiveUp
      PROVE  /\ verdictSeen'[j] = verdictSeen[j]
             /\ \A t \in StepsOf(j) : resultSeen'[t] = resultSeen[t]
  BY <1>4 DEF Contract!GiveUp
<1>5. CASE UNCHANGED Contract!contractVars
  BY <1>5 DEF Contract!contractVars
<1> QED  BY <1>1, <1>2, <1>3, <1>4, <1>5 DEF Contract!Next

\* What is read of a job with a verdict is still true when it is used: its state is
\* terminal, the same steps have succeeded, with the same objects.
SameResults(j) ==
    \A t \in StepsOf(j) :
       /\ stepState'[t] = "SUCCEEDED" <=> stepState[t] = "SUCCEEDED"
       /\ stepState[t] = "SUCCEEDED" => manifest'[t].refs = manifest[t].refs
Frozen(j) == jobState'[j] \in TERMINAL /\ SameResults(j)

\* A job with a verdict is frozen under every operation of the ledger.
LEMMA TerminalIsFrozen ==
    ASSUME LedgerInv, [Next]_vars, NEW j \in Jobs, jobState[j] \in TERMINAL
    PROVE  Frozen(j)
<1>1. LedgerInv'
  BY NextKeepsInv
<1>2. [Contract!Next]_(Contract!contractVars)
  BY <1>1, NextContract
<1>3. verdictSeen[j] = jobState[j] /\ jobState[j] # "PARTIAL"
  BY DEF verdictSeen, TERMINAL, LedgerInv
<1>4. verdictSeen[j] \in {"COMPLETED", "FAILED", "CANCELLED"}
  BY <1>3 DEF TERMINAL
<1>5. /\ verdictSeen'[j] = verdictSeen[j]
      /\ \A t \in StepsOf(j) : resultSeen'[t] = resultSeen[t]
  BY <1>2, <1>4, ContractFreezes
<1>6. jobState'[j] \in TERMINAL
  <2>1. verdictSeen'[j] = IF jobState'[j] = "ABSENT" THEN "NONE"
                          ELSE IF jobState'[j] \in TERMINAL THEN jobState'[j] ELSE "OPEN"
    BY DEF verdictSeen
  <2> QED  BY <1>4, <1>5, <2>1
<1>7. ResultsSeen /\ ResultsSeen'
  BY <1>1, SeenResult, PTL
<1>8. ASSUME NEW t \in StepsOf(j)
      PROVE  /\ stepState'[t] = "SUCCEEDED" <=> stepState[t] = "SUCCEEDED"
             /\ stepState[t] = "SUCCEEDED" => manifest'[t].refs = manifest[t].refs
  <2>1. t \in Steps
    BY DEF StepsOf
  <2>2. stepState'[t] = "SUCCEEDED" <=> stepState[t] = "SUCCEEDED"
    BY <1>5, <1>7, <2>1 DEF ResultsSeen
  <2>3. stepState[t] = "SUCCEEDED" => resultSeen[t] = manifest[t].refs
    BY <1>7, <2>1 DEF ResultsSeen, resultSeen
  <2>4. stepState'[t] = "SUCCEEDED" => resultSeen'[t] = manifest'[t].refs
    BY <1>7, <2>1 DEF ResultsSeen, resultSeen
  <2> QED  BY <1>5, <2>2, <2>3, <2>4
<1> QED  BY <1>6, <1>8 DEF Frozen, SameResults

\* The objects that a resume may copy depend on these results only.
LEMMA CandidatesStay ==
    ASSUME NEW j \in Jobs, SameResults(ResumeFrom[j])
    PROVE  Candidates(j)' = Candidates(j)
<1>1. ASSUME NEW s PROVE Sources(j, s)' = Sources(j, s)
  BY DEF Sources, SameResults, StepsOf
<1>2. Reusable(j)' = Reusable(j)
  <2>1. \A s : s \in Reusable(j)' <=> s \in Reusable(j)
    BY <1>1 DEF Reusable, StepsOf
  <2> QED  BY <2>1
<1>3. Copies(j)' = Copies(j)
  <2>1. {c \in SUBSET Reusable(j)' : c = {s \in Reusable(j)' : DependsOn[s] \subseteq c}}
        = {c \in SUBSET Reusable(j) : c = {s \in Reusable(j) : DependsOn[s] \subseteq c}}
    BY SMTT(60), <1>2
  <2> QED  BY <2>1 DEF Copies
<1>4. ASSUME NEW s, NEW t \in Sources(j, s) PROVE manifest'[t].refs = manifest[t].refs
  BY <1>4 DEF Sources, SameResults, StepsOf
<1>5. ASSUME NEW r PROVE r \in Candidates(j)' <=> r \in Candidates(j)
  <2>1. r \in Candidates(j) <=> \E s \in UNION Copies(j) : \E t \in Sources(j, s) : r \in manifest[t].refs
    BY SMTT(60) DEF Candidates
  <2>2. r \in Candidates(j)' <=>
          \E s \in UNION (Copies(j)') : \E t \in Sources(j, s)' : r \in manifest'[t].refs
    BY SMTT(60) DEF Candidates
  <2> QED  BY <1>1, <1>3, <1>4, <2>1, <2>2
<1> QED  BY <1>5

-----------------------------------------------------------------------------
(* The locals of admit. *)

\* A call of admit that found the resumed job ended knows all that can be copied from it:
\* every object is inspected already or still to be.
CallKnows(j) ==
    /\ call[j] = Call(call[j].pc, call[j].todo, call[j].seen, call[j].settled)
    /\ call[j].pc = "prior" => ResumeFrom[j] \in Jobs
    /\ call[j].settled =>
          /\ ResumeFrom[j] \in Jobs /\ jobState[ResumeFrom[j]] \in TERMINAL
          /\ call[j].pc \in {"inspect", "admit"}
          /\ Candidates(j) \subseteq call[j].todo \cup call[j].seen
          /\ call[j].pc = "admit" => call[j].todo = {}
ServiceInv == LedgerInv /\ DOMAIN call = Jobs /\ \A j \in Jobs : CallKnows(j)

\* Whatever the service does is a step of the ledger or none.
LEMMA ServiceIsLedgerStep ==
    ASSUME [ServiceNext]_<<vars, serviceVars>>
    PROVE  [Next]_vars
<1>1. ASSUME NEW j \in Jobs, InspectSource(j) \/ ReadPrior(j) \/ Inspect(j) PROVE UNCHANGED vars
  BY <1>1 DEF InspectSource, ReadPrior, Inspect, Enter
<1>2. ASSUME NEW j \in Jobs, AskLedger(j) PROVE [Next]_vars
  BY <1>2 DEF AskLedger, Next
<1>3. ASSUME NEW ref, Damage(ref) PROVE UNCHANGED vars
  BY <1>3 DEF Damage
<1>4. CASE LedgerGoesOn
  BY <1>4 DEF LedgerGoesOn
<1> QED  BY <1>1, <1>2, <1>3, <1>4 DEF ServiceNext

\* What a call knows outlives every step that leaves the call alone, although the ledger
\* goes on: a job with a verdict is frozen.
LEMMA KnowledgeStays ==
    ASSUME LedgerInv, [Next]_vars, NEW j \in Jobs, CallKnows(j), call'[j] = call[j]
    PROVE  CallKnows(j)'
<1>1. CASE call[j].settled
  <2>1. ResumeFrom[j] \in Jobs /\ jobState[ResumeFrom[j]] \in TERMINAL
    BY <1>1 DEF CallKnows
  <2>2. Frozen(ResumeFrom[j])
    BY <2>1, TerminalIsFrozen
  <2>3. Candidates(j)' = Candidates(j) /\ jobState'[ResumeFrom[j]] \in TERMINAL
    BY <2>2, CandidatesStay DEF Frozen
  <2> QED  BY <2>1, <2>3 DEF CallKnows
<1>2. CASE ~call[j].settled
  BY <1>2 DEF CallKnows
<1> QED  BY <1>1, <1>2

\* A call that has not read the resumed job, or is over, knows nothing.
LEMMA UnsettledKnows ==
    ASSUME NEW j \in Jobs, NEW pc, NEW todo, NEW seen, call'[j] = Call(pc, todo, seen, FALSE),
           pc = "prior" => ResumeFrom[j] \in Jobs
    PROVE  CallKnows(j)'
<1>1. /\ call'[j].pc = pc /\ call'[j].todo = todo /\ call'[j].seen = seen
      /\ call'[j].settled = FALSE
  BY SMTT(60) DEF Call
<1> QED  BY <1>1 DEF CallKnows

\* Reading the resumed job and inspecting an object, for the call that does it.
LEMMA OwnStepKnows ==
    ASSUME LedgerInv, NEW j \in Jobs, CallKnows(j), DOMAIN call = Jobs,
           InspectSource(j) \/ ReadPrior(j) \/ Inspect(j) \/ AskLedger(j)
    PROVE  CallKnows(j)'
<1>1. ASSUME NEW c, Enter(j, c) PROVE call'[j] = c /\ jobState' = jobState /\ Candidates(j)' = Candidates(j)
  <2>1. UNCHANGED vars /\ call'[j] = c
    BY <1>1 DEF Enter
  <2>2. UNCHANGED <<jobState, stepState, manifest>>
    BY <2>1 DEF vars, jobVars, resultVars
  <2>3. SameResults(ResumeFrom[j])
    BY <2>2 DEF SameResults
  <2> QED  BY <2>1, <2>2, <2>3, CandidatesStay
<1>2. CASE InspectSource(j)
  <2>1. PICK pc : pc = IF ResumeFrom[j] = NoJob THEN "admit" ELSE "prior"
    OBVIOUS
  <2>2. call'[j] = Call(pc, {}, {}, FALSE)
    BY <1>1, <1>2, <2>1 DEF InspectSource
  <2> QED  BY <2>1, <2>2, UnsettledKnows, RequestAssumption
<1>3. CASE AskLedger(j)
  <2>1. call'[j] = NoCall
    BY <1>3 DEF AskLedger
  <2> QED  BY <2>1, UnsettledKnows DEF NoCall
<1>4. CASE ReadPrior(j)
  <2>1. CASE ~Admitted(ResumeFrom[j])
    <3>1. call'[j] = NoCall
      BY <1>1, <1>4, <2>1 DEF ReadPrior
    <3> QED  BY <3>1, UnsettledKnows DEF NoCall
  <2>2. CASE Admitted(ResumeFrom[j])
    <3>1. PICK settled : settled = (jobState[ResumeFrom[j]] \in TERMINAL)
      OBVIOUS
    <3>2. Enter(j, Call("inspect", Candidates(j), {}, settled))
      BY <1>4, <2>2, <3>1 DEF ReadPrior
    <3>3. call'[j] = Call("inspect", Candidates(j), {}, settled) /\ jobState' = jobState
          /\ Candidates(j)' = Candidates(j)
      BY <1>1, <3>2
    <3>4. /\ call'[j].pc = "inspect" /\ call'[j].todo = Candidates(j) /\ call'[j].seen = {}
          /\ call'[j].settled = settled
      BY SMTT(60), <3>3 DEF Call
    <3>5. settled => ResumeFrom[j] \in Jobs
      BY <1>4 DEF ReadPrior, CallAt, CallKnows
    <3> QED  BY <3>1, <3>3, <3>4, <3>5 DEF CallKnows
  <2> QED  BY <2>1, <2>2
<1>5. CASE Inspect(j)
  <2>0. PICK c : c = call[j]
    OBVIOUS
  <2>1. c = Call(c.pc, c.todo, c.seen, c.settled) /\ c.pc = "inspect"
    BY <1>5, <2>0 DEF CallKnows, Inspect, CallAt
  <2>2. ASSUME NEW ref \in c.todo,
               Enter(j, IF ref \in damaged THEN NoCall ELSE Call("inspect", c.todo \ {ref}, c.seen \cup {ref}, c.settled))
        PROVE  CallKnows(j)'
    <3>1. CASE ref \in damaged
      <4>1. call'[j] = NoCall
        BY <1>1, <2>2, <3>1
      <4> QED  BY <4>1, UnsettledKnows DEF NoCall
    <3>2. CASE ref \notin damaged
      <4>1. /\ call'[j] = Call("inspect", c.todo \ {ref}, c.seen \cup {ref}, c.settled)
            /\ jobState' = jobState /\ Candidates(j)' = Candidates(j)
        BY <1>1, <2>2, <3>2
      <4>2. call'[j] = Call(c.pc, c.todo \ {ref}, c.seen \cup {ref}, c.settled)
        BY <2>1, <4>1
      <4>3. /\ call'[j].pc = "inspect" /\ call'[j].todo = c.todo \ {ref}
            /\ call'[j].seen = c.seen \cup {ref} /\ call'[j].settled = c.settled
        BY SMTT(60), <2>1, <4>2 DEF Call
      <4> QED  BY <2>0, <2>1, <4>1, <4>2, <4>3 DEF CallKnows
    <3> QED  BY <3>1, <3>2
  <2>3. ASSUME c.todo = {}, Enter(j, [c EXCEPT !.pc = "admit"])
        PROVE  CallKnows(j)'
    <3>1. /\ call'[j] = [c EXCEPT !.pc = "admit"]
          /\ jobState' = jobState /\ Candidates(j)' = Candidates(j)
      BY <1>1, <2>3
    <3>2. call'[j] = Call("admit", c.todo, c.seen, c.settled)
      BY SMTT(60), <2>1, <3>1 DEF Call
    <3>3. /\ call'[j].pc = "admit" /\ call'[j].todo = c.todo /\ call'[j].seen = c.seen
          /\ call'[j].settled = c.settled
      BY SMTT(60), <3>2 DEF Call
    <3> QED  BY <2>0, <2>1, <2>3, <3>1, <3>2, <3>3 DEF CallKnows
  <2> QED  BY <1>5, <2>0, <2>2, <2>3 DEF Inspect
<1> QED  BY <1>2, <1>3, <1>4, <1>5

\* Every step of the service, of the ledger and of the disk keeps the invariant.
LEMMA ServiceKeepsInv ==
    ServiceInv /\ [ServiceNext]_<<vars, serviceVars>> => ServiceInv'
<1> SUFFICES ASSUME ServiceInv, [ServiceNext]_<<vars, serviceVars>> PROVE ServiceInv'
  OBVIOUS
<1>1. [Next]_vars /\ LedgerInv
  BY ServiceIsLedgerStep DEF ServiceInv
<1>2. LedgerInv'
  BY <1>1, NextKeepsInv
<1>3. CASE UNCHANGED call
  BY <1>1, <1>2, <1>3, KnowledgeStays DEF ServiceInv
<1>4. ASSUME NEW i \in Jobs, InspectSource(i) \/ ReadPrior(i) \/ Inspect(i) \/ AskLedger(i)
      PROVE  ServiceInv'
  <2>1. \E c : call' = [call EXCEPT ![i] = c]
    BY <1>4 DEF InspectSource, ReadPrior, Inspect, AskLedger, Enter
  <2>2. DOMAIN call' = Jobs /\ \A j \in Jobs : j # i => call'[j] = call[j]
    BY <2>1 DEF ServiceInv
  <2>3. CallKnows(i)'
    BY <1>1, <1>4, OwnStepKnows DEF ServiceInv
  <2>4. \A j \in Jobs : j # i => CallKnows(j)'
    BY <1>1, <2>2, KnowledgeStays DEF ServiceInv
  <2> QED  BY <1>2, <2>2, <2>3, <2>4 DEF ServiceInv
<1> QED  BY <1>3, <1>4 DEF ServiceNext, Damage, LedgerGoesOn, serviceVars

\* The invariant holds whenever the service runs.
LEMMA ServiceInvariant == ServiceSpec => []ServiceInv
<1>1. ServiceInit => ServiceInv
  <2> SUFFICES ASSUME ServiceInit PROVE ServiceInv
    OBVIOUS
  <2>1. LedgerInv
    BY InitInv DEF ServiceInit
  <2>2. ASSUME NEW j \in Jobs PROVE CallKnows(j)
    <3>1. call[j] = Call("idle", {}, {}, FALSE)
      BY DEF ServiceInit, NoCall
    <3>2. /\ call[j].pc = "idle" /\ call[j].todo = {} /\ call[j].seen = {} /\ call[j].settled = FALSE
      BY SMTT(60), <3>1 DEF Call
    <3> QED  BY <3>1, <3>2 DEF CallKnows
  <2> QED  BY <2>1, <2>2 DEF ServiceInv, ServiceInit
<1> QED  BY <1>1, ServiceKeepsInv, PTL DEF ServiceSpec

\* The service uses the ledger only through its operations, so every theorem about the
\* ledger holds under the service (DocumentJobs.admit).
THEOREM ServiceIsLedger == ServiceSpec => LedgerSpec
<1>1. ServiceInit => Init
  BY DEF ServiceInit
<1>2. [ServiceNext]_<<vars, serviceVars>> => [Next]_vars
  BY ServiceIsLedgerStep
<1> QED  BY <1>1, <1>2, PTL DEF ServiceSpec, LedgerSpec

-----------------------------------------------------------------------------
(* What is copied. *)

\* Only admit marks steps as reused (admit; commit leaves reused_from alone).
LEMMA OnlyAdmitReuses ==
    ASSUME LedgerInv, Next, ~ \E j \in Jobs : Admit(j)
    PROVE  reusedFrom' = reusedFrom
<1> USE DEF resultVars
<1>1. ASSUME NEW s \in Steps, NEW w \in Workers, ClaimLends(s, w) PROVE reusedFrom' = reusedFrom
  BY <1>1 DEF ClaimLends, ClaimDue, ClaimExpired, Lend
<1>2. ASSUME Settling PROVE reusedFrom' = reusedFrom
  <2>1. PICK F, C, W, T : SettleAction(F, C, W, T)  BY <1>2 DEF Settling
  <2> QED  BY <2>1 DEF SettleAction, SettleSteps
<1>3. ASSUME Quiet PROVE reusedFrom' = reusedFrom
  BY <1>3 DEF Quiet, Renew, RegisterObject, MarkDelivered, Tick
<1>4. ASSUME NEW l \in IssuedLeases, NEW refs \in SUBSET Refs, Commit(l, refs)
      PROVE  reusedFrom' = reusedFrom
  BY <1>4 DEF Commit
<1> QED  BY <1>1, <1>2, <1>3, <1>4, KindsOfSteps

\* An admitted job is no longer absent.
LEMMA AdmitAdmits ==
    ASSUME LedgerInv, NEW j \in Jobs, Admit(j)
    PROVE  jobState[j] = "ABSENT" /\ jobState'[j] # "ABSENT"
<1>1. jobState[j] = "ABSENT"
  BY DEF Admit
<1>2. jobState'[j] = Refreshed(j, "QUEUED", FALSE, stepState')
  BY DEF Admit, LedgerInv, TypeOK
<1>3. Refreshed(j, "QUEUED", FALSE, stepState') # "ABSENT"
  BY DEF Refreshed, TERMINAL
<1> QED  BY <1>1, <1>2, <1>3

\* admit copies objects of the candidates only, and only into the steps of its job.
LEMMA AdmitReuses ==
    ASSUME LedgerInv, NEW i \in Jobs, Admit(i)
    PROVE  /\ Reused(i) \subseteq Candidates(i)
           /\ \A j \in Jobs : j # i => Reused(j) = {}
<1>0. PICK copied \in Copies(i) : \E source \in [copied -> Steps] :
          /\ \A s \in copied : source[s] \in Sources(i, s)
          /\ manifest' = [s \in Steps |->
                IF s \in copied THEN [refs |-> manifest[source[s]].refs, fence |-> 0] ELSE manifest[s]]
          /\ reusedFrom' = [s \in Steps |-> IF s \in copied THEN source[s] ELSE reusedFrom[s]]
  BY DEF Admit
<1>1. PICK source \in [copied -> Steps] :
          /\ \A s \in copied : source[s] \in Sources(i, s)
          /\ manifest' = [s \in Steps |->
                IF s \in copied THEN [refs |-> manifest[source[s]].refs, fence |-> 0] ELSE manifest[s]]
          /\ reusedFrom' = [s \in Steps |-> IF s \in copied THEN source[s] ELSE reusedFrom[s]]
  BY <1>0
<1>2. copied \subseteq StepsOf(i)
  BY DEF Copies, Reusable
<1>3. \A s \in Steps : s \notin copied => reusedFrom'[s] = reusedFrom[s]
  BY <1>1
<1>4. ASSUME NEW s \in copied PROVE manifest'[s].refs \subseteq Candidates(i)
  <2>1. s \in Steps /\ s \in UNION Copies(i)
    BY <1>2 DEF StepsOf
  <2>2. manifest'[s].refs = manifest[source[s]].refs
    BY SMTT(60), <1>1, <2>1
  <2>3. source[s] \in Sources(i, s)
    BY <1>1
  <2>4. \A r : r \in Candidates(i) <=> \E t \in UNION Copies(i) : \E u \in Sources(i, t) : r \in manifest[u].refs
    BY SMTT(60) DEF Candidates
  <2> QED  BY <2>1, <2>2, <2>3, <2>4
<1>5. ASSUME NEW j, NEW r \in Reused(j) PROVE \E s \in copied : JobOf[s] = j /\ r \in manifest'[s].refs
  <2>1. PICK s \in StepsOf(j) : reusedFrom'[s] # reusedFrom[s] /\ r \in manifest'[s].refs
    BY SMTT(60) DEF Reused
  <2> QED  BY <1>3, <2>1 DEF StepsOf
<1>6. Reused(i) \subseteq Candidates(i)
  BY <1>4, <1>5
<1>7. ASSUME NEW j \in Jobs, j # i PROVE Reused(j) = {}
  BY <1>2, <1>5, <1>7 DEF StepsOf
<1> QED  BY <1>6, <1>7

\* A resume of a job that had ended when its steps were read copies only results whose
\* bytes were inspected before, whatever the ledger, other requests and the disk do
\* between the inspection and the transaction that copies (DocumentJobs.admit).
THEOREM ReuseIsInspected == ServiceSpec => SettledReuseIsInspected
<1> DEFINE A == \A j \in Jobs : call[j].settled => Reused(j) \subseteq call[j].seen
<1>1. ServiceInv /\ [ServiceNext]_<<vars, serviceVars>> => [A]_<<vars, serviceVars>>
  <2> SUFFICES ASSUME ServiceInv, ServiceNext, NEW j \in Jobs, call[j].settled
               PROVE  Reused(j) \subseteq call[j].seen
    OBVIOUS
  <2>1. LedgerInv /\ CallKnows(j)
    BY DEF ServiceInv
  <2>2. CASE \E i \in Jobs : AskLedger(i) /\ Admit(i)
    <3>1. PICK i \in Jobs : AskLedger(i) /\ Admit(i)
      BY <2>2
    <3>2. CASE i = j
      <4>1. Candidates(j) \subseteq call[j].seen
        BY <2>1, <3>1, <3>2 DEF CallKnows, AskLedger, CallAt
      <4> QED  BY <2>1, <3>1, <3>2, <4>1, AdmitReuses
    <3>3. CASE i # j
      <4>1. Reused(j) = {}
        BY <2>1, <3>1, <3>3, AdmitReuses
      <4> QED  BY <4>1
    <3> QED  BY <3>2, <3>3
  <2>3. CASE ~ \E i \in Jobs : AskLedger(i) /\ Admit(i)
    <3>0. reusedFrom' = reusedFrom => Reused(j) = {}
      BY SMTT(60) DEF Reused
    <3>1. CASE LedgerGoesOn
      <4>1. ~ \E i \in Jobs : Admit(i)
        BY <2>1, <3>1, AdmitAdmits DEF LedgerGoesOn
      <4> QED  BY <2>1, <3>0, <3>1, <4>1, OnlyAdmitReuses DEF LedgerGoesOn
    <3>2. CASE ~LedgerGoesOn
      <4>1. UNCHANGED vars
        BY <2>3, <3>2 DEF ServiceNext, InspectSource, ReadPrior, Inspect, Enter, AskLedger, Damage
      <4> QED  BY <3>0, <4>1 DEF vars, resultVars
    <3> QED  BY <3>1, <3>2
  <2> QED  BY <2>2, <2>3
<1>2. ServiceSpec => [][A]_<<vars, serviceVars>>
  <2> HIDE DEF A
  <2> QED  BY <1>1, ServiceInvariant, PTL DEF ServiceSpec
<1> QED  BY <1>2 DEF SettledReuseIsInspected
=============================================================================
