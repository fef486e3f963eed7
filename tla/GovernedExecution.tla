------------------------- MODULE GovernedExecution -------------------------
(***************************************************************************)
(* GovernedExecution.execute (governance/execution.py): one paid call goes *)
(* through two databases, the quota ledger and the provider's admission    *)
(* queue, and through the network, with a transaction at each step.  The   *)
(* processes run it concurrently; the same call identity is presented      *)
(* again when a leased step is redelivered or a process has crashed.       *)
(*                                                                         *)
(*   begin -> reserve -> admit -> acquire -> check -> calling -> settle    *)
(*                                     \-> release    \-> drop -> finish   *)
(***************************************************************************)
EXTENDS QuotaLedger

CONSTANTS Process,
          MaxFaults      \* bound: crashes and failed calls of a database

VARIABLES proc,        \* [Process -> what it is executing]
          executions,  \* [Call -> times the provider was really called]
          upstream,    \* calls made to the provider that no process saw return
          lost,        \* calls whose process crashed or could not finish
          faults

execVars == <<proc, executions, upstream, lost, faults>>
vars == <<now, started, active, ledgerVars, execVars>>

NoCall == "no call"
\* A process remembers the policy its ledger was opened with.
Running(pc, c, p, u) == [pc |-> pc, call |-> c, policy |-> p, usage |-> u]
Idle(p) == Running("idle", NoCall, p, NoCounts)

Init ==
    /\ now = 0 /\ AdmissionInit /\ LedgerInit
    /\ proc = [p \in Process |-> Idle(1)]
    /\ executions = [c \in Call |-> 0]
    /\ upstream = {} /\ lost = {} /\ faults = 0

Goto(p, pc) == proc' = [proc EXCEPT ![p].pc = pc]
Return(p) == proc' = [proc EXCEPT ![p] = Idle(@.policy)]
At(p, pc) == proc[p].pc = pc

UnchangedAdmission == UNCHANGED <<started, active>>
UnchangedHistory == UNCHANGED <<executions, upstream, lost>>
Fault == faults < MaxFaults /\ faults' = faults + 1

\* execute up to reserve: authority and lease are valid at this point.
Begin(p, c) ==
    /\ At(p, "idle")
    /\ proc' = [proc EXCEPT ![p] = Running("reserve", c, @.policy, NoCounts)]
    /\ UnchangedAdmission /\ UnchangedHistory /\ UNCHANGED <<ledgerVars, now, faults>>

\* The first call of reserve makes the row; a later one finds the ticket.
ReserveStep(p) ==
    LET c == proc[p].call IN
    /\ At(p, "reserve")
    /\ \/ Reserve(c, proc[p].policy) /\ Goto(p, "admit")
       \/ DenyReserve(c, proc[p].policy) /\ Return(p)
       \/ /\ proc[p].policy = policy /\ row[c].state # "NONE"
          /\ Goto(p, "admit") /\ UNCHANGED ledgerVars
       \/ /\ proc[p].policy # policy \/ (row[c].state = "NONE" /\ events >= EventLimit)
          /\ Return(p) /\ UNCHANGED ledgerVars
    /\ UnchangedAdmission /\ UnchangedHistory /\ UNCHANGED <<now, faults>>

\* Duplicate attempts never execute twice: only one caller leaves RESERVED.
AdmitStep(p) ==
    LET c == proc[p].call IN
    /\ At(p, "admit")
    /\ \/ /\ Transition(c, "RESERVED", "ADMITTING") /\ Goto(p, "acquire")
          /\ UNCHANGED <<policy, events>>
       \/ row[c].state # "RESERVED" /\ Return(p) /\ UNCHANGED ledgerVars
    /\ UnchangedAdmission /\ UnchangedHistory /\ UNCHANGED <<now, faults>>

AcquireStep(p) ==
    LET c == proc[p].call IN
    /\ At(p, "acquire")
    /\ \/ Acquire(c) /\ Goto(p, "check") /\ UNCHANGED faults
       \/ /\ (~CanAcquire(c) /\ UNCHANGED faults) \/ Fault
          /\ Goto(p, "release") /\ UnchangedAdmission
    /\ UnchangedHistory /\ UNCHANGED <<ledgerVars, now>>

\* Provider admission cannot execute inference: the reservation is given back.
ReleaseStep(p) ==
    /\ At(p, "release")
    /\ Transition(proc[p].call, "ADMITTING", "RELEASED") /\ Return(p)
    /\ UnchangedAdmission /\ UnchangedHistory /\ UNCHANGED <<policy, events, now, faults>>

\* Authority and lease are checked again; then the ledger says STARTED and the
\* provider is called.  Anything that raises first leads to the drop below.
CheckStep(p) ==
    LET c == proc[p].call IN
    /\ At(p, "check")
    /\ \/ /\ Transition(c, "ADMITTING", "STARTED") /\ Goto(p, "calling")
          /\ executions' = [executions EXCEPT ![c] = @ + 1]
          /\ upstream' = upstream \cup {c}
          /\ UNCHANGED <<policy, events, lost, faults>>
       \/ Fault /\ Goto(p, "drop") /\ UnchangedHistory /\ UNCHANGED ledgerVars
    /\ UnchangedAdmission /\ UNCHANGED now

\* Mutated: a failed call is sent again under the same ticket.
ReturnStepRetries(p) ==
    /\ At(p, "calling")
    /\ \/ \E u \in Usages(proc[p].call) :
             /\ proc' = [proc EXCEPT ![p] = Running("settle", @.call, @.policy, u)]
             /\ upstream' = upstream \ {proc[p].call} /\ UNCHANGED executions
       \/ /\ executions' = [executions EXCEPT ![proc[p].call] = 2]
          /\ UNCHANGED <<proc, upstream>>
    /\ UnchangedAdmission /\ UNCHANGED <<ledgerVars, lost, now, faults>>

\* The provider answers, fails or times out, with or without usage.
ReturnStep(p) ==
    /\ At(p, "calling")
    /\ \E u \in Usages(proc[p].call) :
          proc' = [proc EXCEPT ![p] = Running("settle", @.call, @.policy, u)]
    /\ upstream' = upstream \ {proc[p].call}
    /\ UnchangedAdmission /\ UNCHANGED <<ledgerVars, executions, lost, now, faults>>

\* Mutated: a call that failed without usage gives its reservation back.
SettleStepRefund(p) ==
    LET c == proc[p].call IN
    /\ At(p, "settle") /\ Goto(p, "finish")
    /\ IF proc[p].usage = NoCounts THEN row' = [row EXCEPT ![c].state = "RELEASED"]
       ELSE Settle(c, proc[p].usage)
    /\ UNCHANGED <<policy, events, faults>>
    /\ UnchangedAdmission /\ UnchangedHistory /\ UNCHANGED now

\* The finally block, first half: settle what started, drop what did not.  A
\* failure is remembered and the second half still runs.
SettleStep(p) ==
    /\ At(p, "settle") /\ Goto(p, "finish")
    /\ \/ /\ Settle(proc[p].call, proc[p].usage) /\ UNCHANGED <<policy, events, faults>>
       \/ Fault /\ UNCHANGED ledgerVars
    /\ UnchangedAdmission /\ UnchangedHistory /\ UNCHANGED now

DropStep(p) ==
    /\ At(p, "drop") /\ Goto(p, "finish")
    /\ \/ Transition(proc[p].call, "ADMITTING", "RELEASED") /\ UNCHANGED <<policy, events, faults>>
       \/ Fault /\ UNCHANGED ledgerVars
    /\ UnchangedAdmission /\ UnchangedHistory /\ UNCHANGED now

\* Second half: the slot is given back, or stays taken when that fails.
FinishStep(p) ==
    LET c == proc[p].call IN
    /\ At(p, "finish") /\ Return(p)
    /\ \/ Finish(c) /\ UNCHANGED <<lost, faults>>
       \/ Fault /\ lost' = lost \cup {c} /\ UnchangedAdmission
    /\ UNCHANGED <<ledgerVars, executions, upstream, now>>

\* The process dies; nothing durable changes.  It comes back on the policy
\* that is then configured.
Crash(p) ==
    /\ ~At(p, "idle") /\ Fault
    /\ proc' = [proc EXCEPT ![p] = Idle(policy)]
    /\ lost' = lost \cup {proc[p].call}
    /\ UnchangedAdmission /\ UNCHANGED <<ledgerVars, executions, upstream, now>>

\* A process is restarted on the new policy (its ledger refuses to serve else).
Reopen(p) ==
    /\ At(p, "idle") /\ proc[p].policy # policy
    /\ proc' = [proc EXCEPT ![p] = Idle(policy)]
    /\ UnchangedAdmission /\ UnchangedHistory /\ UNCHANGED <<ledgerVars, now, faults>>

MigrateStep == Migrate /\ UnchangedAdmission /\ UNCHANGED <<execVars, now>>

TickStep == Tick /\ UNCHANGED execVars

Step(p) ==
    \/ ReserveStep(p) \/ AdmitStep(p) \/ AcquireStep(p) \/ ReleaseStep(p) \/ CheckStep(p)
    \/ ReturnStep(p) \/ SettleStep(p) \/ DropStep(p) \/ FinishStep(p)

Next ==
    \/ \E p \in Process : Step(p) \/ Crash(p) \/ Reopen(p) \/ \E c \in Call : Begin(p, c)
    \/ MigrateStep \/ TickStep

ExecutionSpec == Init /\ [][Next]_vars

(* ---------------------------------------------------------------------- *)

PCs == {"idle", "reserve", "admit", "acquire", "release", "check", "calling",
        "settle", "drop", "finish"}
States == {"NONE", "RESERVED", "ADMITTING", "STARTED", "UNKNOWN", "SETTLED", "RELEASED"}
CountValue == Nat \cup {Unknown}
Usage == [input : CountValue, output : CountValue]

\* The two tables, the clock and the processes hold what the code stores.
TypeOK ==
    /\ now \in Nat /\ events \in (0..EventLimit) \cup (0..MigrationLimit) /\ faults \in Nat
    /\ policy \in 1..Len(Policies)
    /\ started \in [Call -> Nat \cup {NoRow}] /\ active \subseteq Call
    /\ row \in [Call -> [state : States, created : Nat, actual : Usage]]
    /\ proc \in [Process -> [pc : PCs, call : Call \cup {NoCall},
                             policy : 1..Len(Policies), usage : Usage]]
    /\ \A p \in Process : proc[p].pc # "idle" => proc[p].call \in Call
    /\ executions \in [Call -> Nat] /\ upstream \subseteq Call /\ lost \subseteq Call

\* A call identity reaches the provider at most once, however often it is
\* redelivered and whoever crashes in between (transition, used in execute).
ExecutedAtMostOnce == \A c \in Call : executions[c] <= 1

\* Work that was paid for stays on the books: a call that reached the provider
\* is never released, and one that was released never reached it (the finally
\* block of execute with transition and settle).
PaidIsAccounted ==
    \A c \in Call :
       executions[c] > 0 => row[c].state \in {"STARTED", "UNKNOWN", "SETTLED"}

\* While a call is at the provider, or was when its process died, it holds its
\* slot and its worst case: a crash never frees capacity that an external call
\* could still be using (acquire and finish, used in execute).
OpenCallsHoldSlots == \A c \in upstream : c \in active /\ row[c].state = "STARTED"

\* A taken slot has a process that will give it back in its finally block,
\* unless a crash or a failed finish lost it: no path of execute, whatever
\* raises on it, leaves a slot behind (acquire and the finally block).
SlotsHaveHolders ==
    \A c \in active \ lost : \E p \in Process :
       proc[p].call = c /\ proc[p].pc \in {"check", "calling", "settle", "drop", "finish"}

\* Both databases keep what their policies promise, and no slot is left behind
\* (reserve, acquire, execute).
LimitsHold == TypeOK /\ LedgerTypeOK /\ BudgetsHold /\ SharesRespected /\ SlotsHaveHolders
=============================================================================
