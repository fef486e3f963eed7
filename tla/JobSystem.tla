------------------------------ MODULE JobSystem ------------------------------
(***************************************************************************)
(* The processes around the job ledger (documents/jobs/worker.py): the     *)
(* relay that moves outbox rows to the dispatcher, the dispatcher's queue, *)
(* the workers that run step handlers, and the periodic reconciliation.    *)
(*                                                                         *)
(* A process step is one call into the ledger, the dispatcher or the       *)
(* object store; between two of them anything can happen, among others a   *)
(* crash, which loses what the process or the in-memory queue holds.       *)
(***************************************************************************)
EXTENDS JobLedger

CONSTANTS
    Output,         \* step -> references its handler may produce
    MaxQueue,       \* bound: messages in the dispatcher
    MaxCrashes      \* bound: crashes of a worker, the relay or the dispatcher

ASSUME SystemAssumption ==
    /\ Output \in [Steps -> SUBSET Refs]
    /\ MaxQueue \in Nat /\ MaxCrashes \in Nat

VARIABLES
    queue,          \* LocalDispatcher.messages
    relay,          \* the relay's position in its loop over pending_dispatch
    worker,         \* the locals of each worker's once()
    stored,         \* the object store
    crashes

procVars == <<queue, relay, worker, stored, crashes>>
sysVars == <<vars, procVars>>

Message == [step : Steps, fence : Nat]
NoMessage == [step |-> NoStep, fence |-> 0]
IdleWorker == [pc |-> "idle", msg |-> NoMessage, fence |-> 0, writing |-> {}, wrote |-> {},
               reason |-> "none"]
IdleRelay == [batch |-> {}, sent |-> NoMessage]

\* The lease a worker holds, as the tuple it presents to the ledger.
LeaseOf(w) == [step |-> worker[w].msg.step, owner |-> w, fence |-> worker[w].fence]

\* The locals of once(): the message it works on, the fence of its lease, the
\* references it is writing and has written, and the failure it has to report.
Locals == [pc : {"idle", "claiming", "handling", "writing", "committing", "failing", "settling",
                 "acking"},
           msg : Message \cup {NoMessage}, fence : Nat, writing : SUBSET Refs, wrote : SUBSET Refs,
           reason : Classification \cup {"none"}]

SystemTypeOK ==
    /\ TypeOK
    /\ queue \in Seq(Message)
    /\ relay \in [batch : SUBSET Message, sent : Message \cup {NoMessage}]
    /\ worker \in [Workers -> Locals]
    /\ \A w \in Workers : /\ worker[w].pc # "idle" => worker[w].msg \in Message
                          /\ worker[w].pc = "failing" => worker[w].reason # "none"
    /\ stored \subseteq Refs
    /\ crashes \in 0 .. MaxCrashes

SystemInit ==
    /\ Init
    /\ queue = << >>
    /\ relay = IdleRelay
    /\ worker = [w \in Workers |-> IdleWorker]
    /\ stored = {}
    /\ crashes = 0

-----------------------------------------------------------------------------
(* relay *)

\* pending_dispatch: the rows are read once, the loop works on that snapshot.
RelayRead ==
    /\ relay = IdleRelay
    /\ relay' = [relay EXCEPT !.batch =
          UNION {{[step |-> s, fence |-> row.fence] : row \in Pending(s)} : s \in Steps}]
    /\ relay'.batch # {}
    /\ UNCHANGED <<vars, queue, worker, stored, crashes>>

RelaySend ==
    /\ relay.sent = NoMessage
    /\ Len(queue) < MaxQueue
    /\ \E m \in relay.batch :
          /\ queue' = Append(queue, m)
          /\ relay' = [batch |-> relay.batch \ {m}, sent |-> m]
    /\ UNCHANGED <<vars, worker, stored, crashes>>

RelayMark ==
    /\ relay.sent # NoMessage
    /\ relay' = [relay EXCEPT !.sent = NoMessage]
    /\ MarkDelivered(relay.sent.step, [fence |-> relay.sent.fence, wait |-> 0])
    /\ UNCHANGED <<queue, worker, stored, crashes>>

RelayStep == RelayRead \/ RelaySend \/ RelayMark

-----------------------------------------------------------------------------
(* Worker.once *)

At(w, pc) == worker[w].pc = pc
Goto(w, pc) == worker' = [worker EXCEPT ![w].pc = pc]
OnlyWorkers == UNCHANGED <<queue, relay, stored, crashes>>

\* receive leaves the message at the head of the queue until it is acknowledged.
Receive(w) ==
    /\ At(w, "idle") /\ queue # << >>
    /\ worker' = [worker EXCEPT ![w].pc = "claiming", ![w].msg = Head(queue)]
    /\ UNCHANGED vars /\ OnlyWorkers

Claim(w) ==
    /\ At(w, "claiming")
    /\ LET s == worker[w].msg.step
       IN  \/ /\ ClaimLends(s, w)
              /\ worker' = [worker EXCEPT ![w].pc = "handling", ![w].fence = fence'[s]]
           \/ ClaimFails(s) /\ Goto(w, "acking")
           \/ ClaimIdle(s) /\ UNCHANGED vars /\ Goto(w, "acking")
    /\ OnlyWorkers

\* errors.classify, for the errors the ledger raises inside a handler.
Classified(error) == IF error = "cancelled" THEN "CANCELLED" ELSE "NON_RETRYABLE"

Raise(w, reason) == worker' = [worker EXCEPT ![w].pc = "failing", ![w].reason = reason]

\* IntentStore.put registers the reference before it writes the object.
RegisterOutput(w) ==
    /\ At(w, "handling")
    /\ \E ref \in Output[worker[w].msg.step] \ worker[w].wrote :
          IF LeaseError(LeaseOf(w)) = "ok" /\ ~KeyConflict(worker[w].msg.step, ref)
          THEN /\ RegisterObject(LeaseOf(w), ref)
               /\ worker' = [worker EXCEPT ![w].pc = "writing", ![w].writing = {ref}]
          ELSE Raise(w, Classified(LeaseError(LeaseOf(w)))) /\ UNCHANGED vars
    /\ OnlyWorkers

WriteOutput(w) ==
    /\ At(w, "writing")
    /\ stored' = stored \cup worker[w].writing
    /\ worker' = [worker EXCEPT ![w].pc = "handling", ![w].writing = {},
                                ![w].wrote = @ \cup worker[w].writing]
    /\ UNCHANGED <<vars, queue, relay, crashes>>

\* A managed handler renews its lease before its provider call (check_active).
HandlerRenews(w) ==
    /\ At(w, "handling")
    /\ IF LeaseError(LeaseOf(w)) = "ok" THEN Renew(LeaseOf(w)) /\ UNCHANGED worker
       ELSE Raise(w, Classified(LeaseError(LeaseOf(w)))) /\ UNCHANGED vars
    /\ OnlyWorkers

HandlerRaises(w) ==
    /\ At(w, "handling") \/ At(w, "writing")
    /\ \E reason \in {"RETRYABLE", "NON_RETRYABLE"} : Raise(w, reason)
    /\ UNCHANGED vars /\ OnlyWorkers

\* Mutated: the handler returns before its write is done, without inspection.
HandlerReturnsEarly(w) ==
    /\ At(w, "handling") \/ At(w, "writing")
    /\ worker[w].wrote \cup worker[w].writing # {}
    /\ worker' = [worker EXCEPT ![w].pc = "committing", ![w].wrote = @ \cup worker[w].writing]
    /\ UNCHANGED vars /\ OnlyWorkers

\* Every returned reference is inspected in the store before the commit.
HandlerReturns(w) ==
    /\ At(w, "handling") /\ worker[w].wrote # {}
    /\ IF worker[w].wrote \subseteq stored THEN Goto(w, "committing") ELSE Raise(w, "NON_RETRYABLE")
    /\ UNCHANGED vars /\ OnlyWorkers

\* What once() does next after the ledger refused with this error: a conflict
\* is raised, which leaves the message in the queue.
AfterRefusal(w, error) ==
    CASE error = "cancelled" -> Goto(w, "settling")
      [] error = "manifest_conflict" -> worker' = [worker EXCEPT ![w] = IdleWorker]
      [] OTHER -> Goto(w, "acking")

CommitResult(w) ==
    /\ At(w, "committing")
    /\ LET error == CommitError(LeaseOf(w), worker[w].wrote)
       IN  IF error = "ok"
           THEN /\ Goto(w, "acking")
                /\ \/ Commit(LeaseOf(w), worker[w].wrote)
                   \/ stepState[worker[w].msg.step] = "SUCCEEDED" /\ UNCHANGED vars
           ELSE AfterRefusal(w, error) /\ UNCHANGED vars
    /\ OnlyWorkers

ReportFailure(w) ==
    /\ At(w, "failing")
    /\ LET error == LeaseError(LeaseOf(w))
       IN  IF error = "ok"
           THEN /\ Goto(w, "acking")
                /\ \E after \in RetryAfters : Fail(LeaseOf(w), worker[w].reason, after)
           ELSE AfterRefusal(w, error) /\ UNCHANGED vars
    /\ OnlyWorkers

Settle(w) ==
    /\ At(w, "settling") /\ Goto(w, "acking")
    /\ IF SettleError(LeaseOf(w)) = "ok" THEN SettleCancel(LeaseOf(w)) ELSE UNCHANGED vars
    /\ OnlyWorkers

Acknowledge(w) ==
    /\ At(w, "acking")
    /\ queue' = IF queue # << >> /\ Head(queue) = worker[w].msg THEN Tail(queue) ELSE queue
    /\ worker' = [worker EXCEPT ![w] = IdleWorker]
    /\ UNCHANGED <<vars, relay, stored, crashes>>

WorkerStep(w) ==
    \/ Receive(w) \/ Claim(w) \/ RegisterOutput(w) \/ WriteOutput(w) \/ HandlerReturns(w)
    \/ CommitResult(w) \/ ReportFailure(w) \/ Settle(w) \/ Acknowledge(w)

-----------------------------------------------------------------------------
(* Crashes and the environment *)

CrashOf(change) == crashes < MaxCrashes /\ crashes' = crashes + 1 /\ change /\ UNCHANGED <<vars, stored>>

\* The worker process dies, or once() raises because the ledger is unavailable.
WorkerCrash(w) ==
    CrashOf(~At(w, "idle") /\ worker' = [worker EXCEPT ![w] = IdleWorker] /\ UNCHANGED <<queue, relay>>)

\* The relay dies, or a send or mark_delivered raises: the rest of the batch is
\* dropped and a message already sent stays unmarked.
RelayCrash == CrashOf(relay # IdleRelay /\ relay' = IdleRelay /\ UNCHANGED <<queue, worker>>)

\* The in-memory queue is lost.
QueueLost == CrashOf(queue # << >> /\ queue' = << >> /\ UNCHANGED <<relay, worker>>)

Client == \E j \in Jobs : Admit(j) \/ Cancel(j)

SystemNext ==
    \/ Client /\ UNCHANGED procVars
    \/ Reconcile /\ UNCHANGED procVars
    \/ Tick /\ UNCHANGED procVars
    \/ RelayStep \/ RelayCrash \/ QueueLost
    \/ \E w \in Workers :
          WorkerStep(w) \/ HandlerRenews(w) \/ HandlerRaises(w) \/ WorkerCrash(w)

\* Workers, relay, reconciliation and the clock keep going; a handler ends, but
\* may renew its lease before; no client ever has to act.
Fairness ==
    /\ \A w \in Workers : WF_sysVars(WorkerStep(w))
    /\ WF_sysVars(RelayStep)
    /\ WF_sysVars(Reconcile /\ UNCHANGED procVars)
    /\ WF_sysVars(Tick /\ UNCHANGED procVars)

SystemSpec == SystemInit /\ [][SystemNext]_sysVars /\ Fairness

-----------------------------------------------------------------------------
(* Properties *)

\* Every object named by an accepted manifest is in the store, whatever crashed
\* between registering the intent, writing the object and committing
\* (IntentStore.put and the inspection in Worker.once).
CommittedObjectsExist ==
    \A s \in Steps : manifest[s] # NoManifest => manifest[s].refs \subseteq stored

\* A worker whose step was given to somebody else, or whose lease ended, changes
\* nothing in the ledger any more, whatever it still reports: its commit, failure
\* or settlement is refused (the fence and owner tests of _check_lease).
StaleWorkersChangeNothing ==
    [][\A w \in Workers :
          /\ worker[w].pc \in {"handling", "committing", "failing", "settling"}
          /\ fence[worker[w].msg.step] # worker[w].fence \/ leaseOwner[worker[w].msg.step] # w
          /\ worker'[w] # worker[w]
          => UNCHANGED vars]_sysVars

\* Every admitted job gets a verdict, although workers crash while they hold a
\* lease, messages are lost, duplicated or consumed too early, and handlers fail:
\* expired leases are reaped, lost messages are re-sent, attempts are bounded.
JobsFinish == \A j \in Jobs : Admitted(j) ~> jobState[j] \in TERMINAL

\* A requested cancellation takes effect even if the worker that holds the last
\* step never reports (settle_cancel, or reconcile after the lease expired).
CancellationSettles == \A j \in Jobs : cancelRequested[j] ~> jobState[j] = "CANCELLED"

\* The workers and the relay keep their types, every committed object exists, and
\* what a worker is about to commit is in the store (IntentStore.put, Worker.once).
SystemInv ==
    /\ SystemTypeOK
    /\ CommittedObjectsExist
    /\ \A w \in Workers : At(w, "committing") => worker[w].wrote \subseteq stored
=============================================================================
