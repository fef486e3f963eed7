--------------------------- MODULE GovernedProofs ---------------------------
(***************************************************************************)
(* For any number of processes, calls, crashes and failed database calls:  *)
(* a call reaches the provider at most once, what reached it stays on the  *)
(* books, and what may still be there keeps its slot.                      *)
(*                                                                         *)
(* The ledger's compare-and-swap on RESERVED makes one process the owner   *)
(* of a call; the argument is that a call has at most one owner, that the  *)
(* owner is at the provider exactly while the call is, and that it has     *)
(* the slot from acquire until finish.                                     *)
(***************************************************************************)
EXTENDS GovernedExecution, FiniteSetTheorems, TLAPS

\* The shape of the state, as far as the argument needs it.
Shape ==
    /\ now \in Nat /\ policy \in Int
    /\ row \in [Call -> [state : States, created : Nat, actual : Usage]]
    /\ proc \in [Process -> [pc : PCs, call : Call \cup {NoCall}, policy : Int, usage : Usage]]
    /\ \A p \in Process : proc[p].pc # "idle" => proc[p].call \in Call
    /\ executions \in [Call -> Nat] /\ upstream \subseteq Call

\* Where execute is once its transition out of RESERVED has succeeded.
Owning == {"acquire", "release", "check", "calling", "settle", "drop", "finish"}
HasSlot == {"check", "calling", "settle", "drop", "finish"}
Owns(p, c) == proc[p].call = c /\ proc[p].pc \in Owning

\* An owned call has left RESERVED for good, and has one owner.
OwnedIsPast ==
    \A p \in Process : proc[p].pc \in Owning => row[proc[p].call].state \notin {"NONE", "RESERVED"}
OneOwner == \A p, q \in Process : \A c \in Call : Owns(p, c) /\ Owns(q, c) => p = q

\* An owner that is not waiting for the provider has nothing there, and holds
\* the slot until finish.
OwnerKnows ==
    \A p \in Process : proc[p].pc \in Owning \ {"calling"} => proc[p].call \notin upstream
OwnerHasSlot ==
    \A p \in Process : proc[p].pc \in HasSlot => proc[p].call \in active

CallInv ==
    /\ Shape /\ ExecutedAtMostOnce /\ PaidIsAccounted /\ OpenCallsHoldSlots
    /\ OwnedIsPast /\ OneOwner /\ OwnerKnows /\ OwnerHasSlot

\* A proof leaf is sent to Zenon unless it names another prover.
USE ZenonT(60)

\* At the start nobody owns a call and nothing is at the provider.
LEMMA InitCalls == Init => CallInv
<1> SUFFICES ASSUME Init PROVE CallInv
  BY SMTT(30)
<1>1. NoCounts \in Usage
  BY SMTT(30) DEF NoCounts, Usage, CountValue, Unknown
<1>2. Shape
  BY SMTT(30), <1>1 DEF Init, LedgerInit, NoReservation, Reservation, Idle, Running, Shape, States, PCs
<1>3. \A p \in Process : proc[p].pc = "idle"
  BY SMTT(30) DEF Init, Idle, Running
<1>4. OwnedIsPast /\ OneOwner /\ OwnerKnows /\ OwnerHasSlot
  BY SMTT(30), <1>3 DEF OwnedIsPast, OneOwner, OwnerKnows, OwnerHasSlot, Owns, Owning, HasSlot
<1>5. ExecutedAtMostOnce /\ PaidIsAccounted /\ OpenCallsHoldSlots
  BY SMTT(30) DEF Init, ExecutedAtMostOnce, PaidIsAccounted, OpenCallsHoldSlots
<1> QED
  BY SMTT(30), <1>2, <1>4, <1>5 DEF CallInv

\* What the moves of one process do to the others: nothing.
Moved(p, pc, c) ==
    /\ proc' \in [Process -> [pc : PCs, call : Call \cup {NoCall}, policy : Int, usage : Usage]]
    /\ proc'[p].pc = pc /\ proc'[p].call = c
    /\ \A q \in Process : q # p => proc'[q] = proc[q]

\* The next statement of execute, on the same call.
LEMMA GotoMoves ==
  ASSUME Shape, NEW p \in Process, NEW pc \in PCs, Goto(p, pc)
  PROVE  Moved(p, pc, proc[p].call)
<1> DEFINE new == [proc[p] EXCEPT !.pc = pc]
<1>1. new \in [pc : PCs, call : Call \cup {NoCall}, policy : Int, usage : Usage]
       /\ new.pc = pc /\ new.call = proc[p].call
  BY SMTT(30) DEF Shape
<1>2. proc' = [proc EXCEPT ![p] = new]
  BY SMTT(30) DEF Goto
<1> HIDE DEF new
<1> QED
  BY SMTT(30), <1>1, <1>2 DEF Moved, Shape

\* A record of a process, new or changed.
LEMMA RunningType ==
  ASSUME NEW pc \in PCs, NEW c \in Call \cup {NoCall}, NEW k \in Int, NEW u \in Usage
  PROVE  /\ Running(pc, c, k, u) \in
              [pc : PCs, call : Call \cup {NoCall}, policy : Int, usage : Usage]
         /\ Running(pc, c, k, u).pc = pc /\ Running(pc, c, k, u).call = c
  BY SMTT(30) DEF Running

\* A count that is not known is a usage.
LEMMA NoCountsType == NoCounts \in Usage
  BY SMTT(30) DEF NoCounts, Usage, CountValue, Unknown

\* A process that has returned, or has died and come back.
LEMMA IdleType ==
  ASSUME NEW k \in Int
  PROVE  /\ Idle(k) \in [pc : PCs, call : Call \cup {NoCall}, policy : Int, usage : Usage]
         /\ Idle(k).pc = "idle" /\ Idle(k).call = NoCall
  BY SMTT(30), NoCountsType DEF Idle, Running, PCs

\* A caller that finds its call settled, released or taken returns.
LEMMA ReturnMoves ==
  ASSUME Shape, NEW p \in Process, Return(p)
  PROVE  Moved(p, "idle", NoCall)
<1> DEFINE new == Idle(proc[p].policy)
<1>1. /\ new \in [pc : PCs, call : Call \cup {NoCall}, policy : Int, usage : Usage]
      /\ new.pc = "idle" /\ new.call = NoCall
  BY SMTT(30), IdleType DEF Shape
<1>2. proc' = [proc EXCEPT ![p] = new]
  BY SMTT(30) DEF Return
<1> HIDE DEF new
<1> QED
  BY SMTT(30), <1>1, <1>2 DEF Moved, Shape

\* A process dies, or is restarted on the policy that is configured.
LEMMA RestartMoves ==
  ASSUME Shape, NEW p \in Process, Crash(p) \/ Reopen(p)
  PROVE  Moved(p, "idle", NoCall)
<1> DEFINE new == Idle(policy)
<1>1. /\ new \in [pc : PCs, call : Call \cup {NoCall}, policy : Int, usage : Usage]
      /\ new.pc = "idle" /\ new.call = NoCall
  BY SMTT(30), IdleType DEF Shape
<1>2. proc' = [proc EXCEPT ![p] = new]
  BY SMTT(30) DEF Crash, Reopen
<1> HIDE DEF new
<1> QED
  BY SMTT(30), <1>1, <1>2 DEF Moved, Shape

\* The start of execute.
LEMMA BeginMoves ==
  ASSUME Shape, NEW p \in Process, NEW c \in Call, Begin(p, c)
  PROVE  Moved(p, "reserve", c)
<1> DEFINE new == Running("reserve", c, proc[p].policy, NoCounts)
<1>1. /\ new \in [pc : PCs, call : Call \cup {NoCall}, policy : Int, usage : Usage]
      /\ new.pc = "reserve" /\ new.call = c
  BY SMTT(30), RunningType, NoCountsType DEF Shape, PCs
<1>2. proc' = [proc EXCEPT ![p] = new]
  BY SMTT(30) DEF Begin
<1> HIDE DEF new
<1> QED
  BY SMTT(30), <1>1, <1>2 DEF Moved, Shape

\* The answer of the provider is kept for the settlement.
LEMMA ReturnStepMoves ==
  ASSUME Shape, NEW p \in Process, ReturnStep(p)
  PROVE  Moved(p, "settle", proc[p].call)
<1>1. proc[p].call \in Call
  BY SMTT(30) DEF Shape, ReturnStep, At
<1>2. PICK u \in Usages(proc[p].call) :
         proc' = [proc EXCEPT ![p] = Running("settle", proc[p].call, proc[p].policy, u)]
  BY ZenonT(30) DEF ReturnStep
<1>3. u \in Usage
  BY SMTT(30), <1>1, <1>2, UsageCounts DEF Usage, CountValue, Unknown
<1> DEFINE new == Running("settle", proc[p].call, proc[p].policy, u)
<1>4. /\ new \in [pc : PCs, call : Call \cup {NoCall}, policy : Int, usage : Usage]
      /\ new.pc = "settle" /\ new.call = proc[p].call
  BY SMTT(30), <1>1, <1>3, RunningType DEF Shape, PCs
<1>5. proc' = [proc EXCEPT ![p] = new]
  BY SMTT(30), <1>2
<1> HIDE DEF new
<1> QED
  BY SMTT(30), <1>4, <1>5 DEF Moved, Shape

\* What a transaction on the row of one call does to the others: nothing.
Wrote(c, state) ==
    /\ row' \in [Call -> [state : States, created : Nat, actual : Usage]]
    /\ row'[c].state = state
    /\ \A d \in Call : d # c => row'[d] = row[d]

\* transition writes the state of one row.
LEMMA TransitionWrites ==
  ASSUME Shape, NEW c \in Call, NEW before, NEW after \in States, Transition(c, before, after)
  PROVE  Wrote(c, after)
<1> DEFINE new == [row[c] EXCEPT !.state = after]
<1>1. new \in [state : States, created : Nat, actual : Usage] /\ new.state = after
  BY SMTT(30) DEF Shape
<1>2. row' = [row EXCEPT ![c] = new]
  BY SMTT(30) DEF Transition
<1> HIDE DEF new
<1> QED
  BY SMTT(30), <1>1, <1>2 DEF Wrote, Shape

\* reserve inserts one row.
LEMMA ReserveWrites ==
  ASSUME Shape, NEW c \in Call, NEW p, Reserve(c, p)
  PROVE  Wrote(c, "RESERVED")
<1> DEFINE new == Reservation("RESERVED", now, NoCounts)
<1>1. new \in [state : States, created : Nat, actual : Usage] /\ new.state = "RESERVED"
  BY SMTT(30), NoCountsType DEF Shape, States, Reservation
<1>2. row' = [row EXCEPT ![c] = new]
  BY SMTT(30) DEF Reserve
<1> HIDE DEF new
<1> QED
  BY SMTT(30), <1>1, <1>2 DEF Wrote, Shape

\* settle writes a call that started, and leaves it paid for.
LEMMA SettleWrites ==
  ASSUME Shape, NEW c \in Call, NEW u \in Usage, Settle(c, u)
  PROVE  /\ row[c].state \in {"STARTED", "UNKNOWN"}
         /\ \E s \in {"SETTLED", "UNKNOWN"} : Wrote(c, s)
<1> DEFINE s == IF Known(u) THEN "SETTLED" ELSE "UNKNOWN"
           new == Reservation(s, row[c].created, u)
<1>1. row' = [row EXCEPT ![c] = new]
  BY SMTT(30) DEF Settle
<1>2. s \in {"SETTLED", "UNKNOWN"} /\ s \in States
  BY SMTT(30) DEF States
<1> HIDE DEF s
<1>3. new \in [state : States, created : Nat, actual : Usage] /\ new.state = s
  BY SMTT(30), <1>2 DEF Shape, Reservation
<1> HIDE DEF new
<1>4. Wrote(c, s)
  BY SMTT(30), <1>1, <1>3 DEF Wrote, Shape
<1> QED
  BY SMTT(30), <1>2, <1>4 DEF Settle, MaySettle

\* A step of one process that moves to pc on call c and leaves every row, slot
\* and execution alone keeps the invariant, unless it would become an owner.
LEMMA MoveKeeps ==
  ASSUME CallInv, NEW p \in Process, NEW pc \in PCs, NEW c \in Call \cup {NoCall}, Moved(p, pc, c),
         pc # "idle" => c \in Call,
         pc \in Owning => proc[p].pc \in Owning /\ c = proc[p].call,
         pc \in Owning \ {"calling"} => c \notin upstream',
         pc \in HasSlot => c \in active,
         now' \in Nat, policy' \in Int,
         UNCHANGED <<row, executions, active>>, upstream' \subseteq upstream
  PROVE  CallInv'
<1> USE DEF CallInv
<1>1. Shape'
  BY SMTT(30) DEF Shape, Moved
<1>2. (ExecutedAtMostOnce /\ PaidIsAccounted /\ OpenCallsHoldSlots)'
  BY SMTT(30) DEF ExecutedAtMostOnce, PaidIsAccounted, OpenCallsHoldSlots
<1>3. OwnedIsPast'
  BY SMTT(30) DEF OwnedIsPast, Moved, Owning
<1>4. OneOwner'
  BY SMTT(30) DEF OneOwner, Owns, Moved, Shape, Owning
<1>5. OwnerKnows'
  BY SMTT(30) DEF OwnerKnows, Moved, Owning
<1>6. OwnerHasSlot'
  BY SMTT(30) DEF OwnerHasSlot, Moved, Owning, HasSlot
<1> QED
  BY SMTT(30), <1>1, <1>2, <1>3, <1>4, <1>5, <1>6

\* execute up to the reservation, the return of the provider, the crash and the
\* restart of a process: steps that write neither table.
LEMMA ProcessCalls ==
  ASSUME CallInv, NEW p \in Process,
         ReturnStep(p) \/ Crash(p) \/ Reopen(p) \/ \E c \in Call : Begin(p, c)
  PROVE  CallInv'
<1> USE DEF CallInv
<1>0. {"idle", "reserve", "settle"} \subseteq PCs /\ {"idle", "reserve"} \cap (Owning \cup HasSlot) = {}
      /\ {"calling", "settle"} \subseteq Owning \cap HasSlot
  BY SMTT(30) DEF PCs, Owning, HasSlot
<1>1. now' \in Nat /\ policy' \in Int /\ UNCHANGED <<row, executions, active>>
      /\ upstream' \subseteq upstream
  BY SMTT(30) DEF ReturnStep, Crash, Reopen, Begin, Shape, ledgerVars, UnchangedAdmission, UnchangedHistory
<1>2. CASE ReturnStep(p)
  <2>1. proc[p].call \in Call /\ At(p, "calling") /\ proc[p].call \notin upstream'
    BY SMTT(30), <1>2 DEF Shape, ReturnStep, At
  <2>2. proc[p].call \in active
    BY SMTT(30), <1>0, <2>1 DEF OwnerHasSlot, At
  <2> QED
    BY SMTT(30), <1>0, <1>1, <1>2, <2>1, <2>2, ReturnStepMoves, MoveKeeps DEF At
<1>3. CASE Crash(p) \/ Reopen(p)
  BY SMTT(30), <1>0, <1>1, <1>3, RestartMoves, MoveKeeps
<1>4. CASE \E c \in Call : Begin(p, c)
  BY SMTT(30), <1>0, <1>1, <1>4, BeginMoves, MoveKeeps
<1> QED
  BY SMTT(30), <1>2, <1>3, <1>4

\* A process that is no owner and does not become one moves, while the row of
\* one call leaves NONE for RESERVED, or no row changes.
LEMMA ReserveCalls ==
  ASSUME CallInv, NEW p \in Process, ReserveStep(p)
  PROVE  CallInv'
<1> USE DEF CallInv
<1> DEFINE c == proc[p].call
<1>0. c \in Call /\ "admit" \in PCs /\ "idle" \in PCs
      /\ {"idle", "admit"} \cap (Owning \cup HasSlot) = {}
  BY SMTT(30) DEF ReserveStep, At, Shape, PCs, Owning, HasSlot
<1>1. /\ now' \in Nat /\ policy' \in Int
      /\ UNCHANGED <<executions, active, upstream>>
  BY SMTT(30) DEF ReserveStep, Reserve, DenyReserve, Shape, ledgerVars, UnchangedAdmission, UnchangedHistory
<1>2. CASE Reserve(c, proc[p].policy) /\ Goto(p, "admit")
  <2>1. Moved(p, "admit", c)
    BY SMTT(30), <1>0, <1>2, GotoMoves
  <2>0. Wrote(c, "RESERVED")
    BY SMTT(30), <1>0, <1>2, ReserveWrites
  <2>2. Wrote(c, "RESERVED") /\ row[c].state = "NONE"
    BY SMTT(30), <1>2, <2>0 DEF Reserve
  <2>3. \A q \in Process : ~Owns(q, c)
    BY SMTT(30), <1>0, <2>2 DEF OwnedIsPast, Owns
  <2>4. executions[c] = 0 /\ c \notin upstream
    BY SMTT(30), <1>0, <2>2 DEF PaidIsAccounted, OpenCallsHoldSlots, Shape
  <2> HIDE DEF c
  <2>5. Shape'
    BY SMTT(30), <1>0, <1>1, <2>1, <2>2 DEF Shape, Moved, Wrote
  <2>6. (ExecutedAtMostOnce /\ PaidIsAccounted /\ OpenCallsHoldSlots)'
    BY SMTT(30), <1>0, <1>1, <2>2, <2>4 DEF ExecutedAtMostOnce, PaidIsAccounted,
        OpenCallsHoldSlots, Wrote, Shape
  <2>7. OwnedIsPast'
    BY SMTT(30), <1>0, <2>1, <2>2, <2>3 DEF OwnedIsPast, Moved, Owning, Owns, Wrote, Shape
  <2>8. (OneOwner /\ OwnerKnows /\ OwnerHasSlot)'
    BY SMTT(30), <1>0, <1>1, <2>1 DEF OneOwner, OwnerKnows, OwnerHasSlot, Owns, Moved, Owning, HasSlot
  <2> QED
    BY SMTT(30), <2>5, <2>6, <2>7, <2>8
<1>3. CASE UNCHANGED row /\ (Goto(p, "admit") \/ Return(p))
  <2>1. CASE Goto(p, "admit")
    <3>1. Moved(p, "admit", c)
      BY SMTT(30), <1>0, <2>1, GotoMoves
    <3> QED
      BY SMTT(30), <1>0, <1>1, <1>3, <3>1, MoveKeeps
  <2>2. CASE Return(p)
    BY SMTT(30), <1>0, <1>1, <1>3, <2>2, ReturnMoves, MoveKeeps
  <2> QED
    BY SMTT(30), <1>3, <2>1, <2>2
<1> QED
  BY SMTT(30), <1>2, <1>3 DEF ReserveStep, DenyReserve, ledgerVars

\* The compare-and-swap on RESERVED: its winner is the only owner.
LEMMA AdmitCalls ==
  ASSUME CallInv, NEW p \in Process, AdmitStep(p)
  PROVE  CallInv'
<1> USE DEF CallInv
<1> DEFINE c == proc[p].call
<1>0. /\ c \in Call /\ {"acquire", "idle"} \subseteq PCs /\ "ADMITTING" \in States
      /\ {"idle"} \cap (Owning \cup HasSlot) = {} /\ "acquire" \notin HasSlot
  BY SMTT(30) DEF AdmitStep, At, Shape, PCs, States, Owning, HasSlot
<1>1. /\ now' \in Nat /\ policy' \in Int
      /\ UNCHANGED <<executions, active, upstream>>
  BY SMTT(30) DEF AdmitStep, Shape, ledgerVars, UnchangedAdmission, UnchangedHistory
<1>2. CASE Transition(c, "RESERVED", "ADMITTING") /\ Goto(p, "acquire")
  <2>1. Moved(p, "acquire", c)
    BY SMTT(30), <1>0, <1>2, GotoMoves
  <2>0. Wrote(c, "ADMITTING")
    BY SMTT(30), <1>0, <1>2, TransitionWrites
  <2>2. Wrote(c, "ADMITTING") /\ row[c].state = "RESERVED"
    BY SMTT(30), <1>2, <2>0 DEF Transition
  <2>3. \A q \in Process : ~Owns(q, c)
    BY SMTT(30), <1>0, <2>2 DEF OwnedIsPast, Owns
  <2>4. executions[c] = 0 /\ c \notin upstream
    BY SMTT(30), <1>0, <2>2 DEF PaidIsAccounted, OpenCallsHoldSlots, Shape
  <2> HIDE DEF c
  <2>5. Shape'
    BY SMTT(30), <1>0, <1>1, <2>1, <2>2 DEF Shape, Moved, Wrote
  <2>6. (ExecutedAtMostOnce /\ PaidIsAccounted /\ OpenCallsHoldSlots)'
    BY SMTT(30), <1>0, <1>1, <2>2, <2>4 DEF ExecutedAtMostOnce, PaidIsAccounted,
        OpenCallsHoldSlots, Wrote, Shape
  <2>7. OwnedIsPast'
    BY SMTT(30), <1>0, <2>1, <2>2, <2>3 DEF OwnedIsPast, Moved, Owning, Owns, Wrote, Shape
  <2>8. OneOwner'
    BY SMTT(30), <1>0, <2>1, <2>3 DEF OneOwner, Owns, Moved, Owning
  <2>9. (OwnerKnows /\ OwnerHasSlot)'
    BY SMTT(30), <1>0, <1>1, <2>1, <2>4 DEF OwnerKnows, OwnerHasSlot, Moved, Owning, HasSlot
  <2> QED
    BY SMTT(30), <2>5, <2>6, <2>7, <2>8, <2>9
<1>3. CASE UNCHANGED row /\ Return(p)
  BY SMTT(30), <1>0, <1>1, <1>3, ReturnMoves, MoveKeeps
<1> QED
  BY SMTT(30), <1>2, <1>3 DEF AdmitStep, ledgerVars

\* A step touches call c only, in both tables and at the provider ...
Local(c) ==
    /\ now' \in Nat /\ policy' \in Int /\ upstream' \subseteq Call
    /\ row' \in [Call -> [state : States, created : Nat, actual : Usage]]
    /\ executions' \in [Call -> Nat]
    /\ \A d \in Call \ {c} :
          /\ row'[d] = row[d] /\ executions'[d] = executions[d]
          /\ d \in active' <=> d \in active
          /\ d \in upstream' <=> d \in upstream

\* ... and leaves c as its owner, now at pc, may leave it.
Fits(c, pc) ==
    /\ row'[c].state \notin {"NONE", "RESERVED"} /\ executions'[c] <= 1
    /\ executions'[c] > 0 => row'[c].state \in {"STARTED", "UNKNOWN", "SETTLED"}
    /\ c \in upstream' => c \in active' /\ row'[c].state = "STARTED"
    /\ pc \in Owning \ {"calling"} => c \notin upstream'
    /\ pc \in HasSlot => c \in active'

\* What the owner of a call does to it concerns no other process.
LEMMA OwnerKeeps ==
  ASSUME CallInv, NEW p \in Process, NEW c \in Call, NEW pc \in PCs, NEW e \in {c, NoCall},
         Owns(p, c), Moved(p, pc, e), pc # "idle" => e = c, Local(c), Fits(c, pc)
  PROVE  CallInv'
<1> USE DEF CallInv
<1>0. \A q \in Process : Owns(q, c) => q = p
  BY SMTT(30) DEF OneOwner
<1>1. Shape'
  BY SMTT(30) DEF Shape, Moved, Local
<1>2. (ExecutedAtMostOnce /\ PaidIsAccounted)'
  BY SMTT(30) DEF ExecutedAtMostOnce, PaidIsAccounted, Local, Fits
<1>3. OpenCallsHoldSlots'
  BY SMTT(30) DEF OpenCallsHoldSlots, Local, Fits
<1>4. \A q \in Process \ {p} : proc[q].pc \in Owning => proc[q].call \in Call \ {c}
  BY SMTT(30), <1>0 DEF Owns, Shape, Owning
<1>5. pc \in Owning => e = c
  BY SMTT(30) DEF Owning
<1>6. OwnedIsPast'
  BY SMTT(30), <1>4, <1>5 DEF OwnedIsPast, Moved, Local, Fits, Owning
<1>7. OneOwner'
  BY SMTT(30), <1>4, <1>5 DEF OneOwner, Owns, Moved, Owning
<1>8. OwnerKnows'
  BY SMTT(30), <1>4, <1>5 DEF OwnerKnows, Moved, Local, Fits, Owning
<1>9. OwnerHasSlot'
  BY SMTT(30), <1>4, <1>5 DEF OwnerHasSlot, Moved, Local, Fits, Owning, HasSlot
<1> QED
  BY SMTT(30), <1>1, <1>2, <1>3, <1>6, <1>7, <1>8, <1>9

\* acquire takes the slot; a denial or a failure leads to the release.
LEMMA AcquireCalls ==
  ASSUME CallInv, NEW p \in Process, AcquireStep(p)
  PROVE  CallInv'
<1> USE DEF CallInv
<1> DEFINE c == proc[p].call
<1>0. /\ c \in Call /\ Owns(p, c) /\ {"check", "release"} \subseteq PCs /\ c \notin upstream
      /\ "release" \notin HasSlot /\ c \in {c, NoCall}
  BY SMTT(30) DEF AcquireStep, At, Shape, PCs, Owns, Owning, HasSlot, OwnerKnows
<1>1. row[c].state \notin {"NONE", "RESERVED"}
  BY SMTT(30), <1>0 DEF OwnedIsPast, Owns
<1>2. UNCHANGED <<now, row, policy, executions, upstream>>
  BY SMTT(30) DEF AcquireStep, ledgerVars, UnchangedHistory
<1>3. CASE Acquire(c) /\ Goto(p, "check")
  <2>1. Moved(p, "check", c)
    BY SMTT(30), <1>0, <1>3, GotoMoves
  <2> HIDE DEF c
  <2>2. Local(c)
    BY SMTT(30), <1>0, <1>2, <1>3 DEF Local, Acquire, Shape
  <2>3. Fits(c, "check")
    BY SMTT(30), <1>0, <1>1, <1>2, <1>3 DEF Fits, Acquire, ExecutedAtMostOnce, PaidIsAccounted
  <2> QED
    BY SMTT(30), <1>0, <2>1, <2>2, <2>3, OwnerKeeps
<1>4. CASE UnchangedAdmission /\ Goto(p, "release")
  <2>1. Moved(p, "release", c)
    BY SMTT(30), <1>0, <1>4, GotoMoves
  <2> HIDE DEF c
  <2>2. Local(c)
    BY SMTT(30), <1>0, <1>2, <1>4 DEF Local, UnchangedAdmission, Shape
  <2>3. Fits(c, "release")
    BY SMTT(30), <1>0, <1>1, <1>2, <1>4 DEF Fits, UnchangedAdmission, ExecutedAtMostOnce, PaidIsAccounted
  <2> QED
    BY SMTT(30), <1>0, <2>1, <2>2, <2>3, OwnerKeeps
<1> QED
  BY SMTT(30), <1>3, <1>4 DEF AcquireStep

\* A reservation is given back only in ADMITTING, so before any execution.
LEMMA ReleaseWrites ==
  ASSUME CallInv, NEW c \in Call, Transition(c, "ADMITTING", "RELEASED"), c \notin upstream,
         UNCHANGED <<now, policy, executions, upstream, active>>
  PROVE  /\ Local(c) /\ row'[c].state = "RELEASED" /\ executions'[c] = 0
<1> USE DEF CallInv
<1>1. Wrote(c, "RELEASED")
  BY SMTT(30), TransitionWrites DEF States
<1>2. executions[c] = 0
  BY SMTT(30) DEF Transition, PaidIsAccounted, Shape
<1> QED
  BY SMTT(30), <1>1, <1>2 DEF Local, Wrote, Shape

\* The release after a refused admission.
LEMMA ReleaseCalls ==
  ASSUME CallInv, NEW p \in Process, ReleaseStep(p)
  PROVE  CallInv'
<1> USE DEF CallInv
<1> DEFINE c == proc[p].call
<1>0. /\ c \in Call /\ Owns(p, c) /\ "idle" \in PCs /\ c \notin upstream
      /\ "idle" \notin Owning \cup HasSlot
  BY SMTT(30) DEF ReleaseStep, At, Shape, PCs, Owns, Owning, HasSlot, OwnerKnows
<1>1. Moved(p, "idle", NoCall)
  BY SMTT(30), ReturnMoves DEF ReleaseStep
<1>2. UNCHANGED <<now, policy, executions, upstream, active>>
  BY SMTT(30) DEF ReleaseStep, UnchangedAdmission, UnchangedHistory
<1>3. Transition(c, "ADMITTING", "RELEASED")
  BY SMTT(30) DEF ReleaseStep
<1> HIDE DEF c
<1>4. Local(c) /\ row'[c].state = "RELEASED" /\ executions'[c] = 0
  BY SMTT(30), <1>0, <1>2, <1>3, ReleaseWrites
<1>5. Fits(c, "idle")
  BY SMTT(30), <1>0, <1>2, <1>4 DEF Fits
<1> QED
  BY SMTT(30), <1>0, <1>1, <1>4, <1>5, OwnerKeeps

\* The owner drops a call that never started, or fails to.
LEMMA DropCalls ==
  ASSUME CallInv, NEW p \in Process, DropStep(p)
  PROVE  CallInv'
<1> USE DEF CallInv
<1> DEFINE c == proc[p].call
<1>0. /\ c \in Call /\ Owns(p, c) /\ "finish" \in PCs /\ c \notin upstream /\ c \in active
  BY SMTT(30) DEF DropStep, At, Shape, PCs, Owns, Owning, HasSlot, OwnerKnows, OwnerHasSlot
<1>1. Moved(p, "finish", c)
  BY SMTT(30), <1>0, GotoMoves DEF DropStep
<1>2. UNCHANGED <<now, policy, executions, upstream, active>>
  BY SMTT(30) DEF DropStep, UnchangedAdmission, UnchangedHistory, ledgerVars
<1>3. CASE Transition(c, "ADMITTING", "RELEASED")
  <2> HIDE DEF c
  <2>1. Local(c) /\ row'[c].state = "RELEASED" /\ executions'[c] = 0
    BY SMTT(30), <1>0, <1>2, <1>3, ReleaseWrites
  <2>2. Fits(c, "finish")
    BY SMTT(30), <1>0, <1>2, <2>1 DEF Fits
  <2> QED
    BY SMTT(30), <1>0, <1>1, <2>1, <2>2, OwnerKeeps
<1>4. CASE UNCHANGED row
  BY SMTT(30), <1>0, <1>1, <1>2, <1>4, MoveKeeps DEF Shape, Owns
<1> QED
  BY SMTT(30), <1>3, <1>4 DEF DropStep, ledgerVars

\* STARTED is written from ADMITTING, so this is the first execution.
LEMMA CheckCalls ==
  ASSUME CallInv, NEW p \in Process, CheckStep(p)
  PROVE  CallInv'
<1> USE DEF CallInv
<1> DEFINE c == proc[p].call
<1>0. /\ c \in Call /\ Owns(p, c) /\ {"calling", "drop"} \subseteq PCs
      /\ c \notin upstream /\ c \in active
  BY SMTT(30) DEF CheckStep, At, Shape, PCs, Owns, Owning, HasSlot, OwnerKnows, OwnerHasSlot
<1>1. UNCHANGED <<now, policy, active>>
  BY SMTT(30) DEF CheckStep, UnchangedAdmission, ledgerVars
<1>2. CASE /\ Transition(c, "ADMITTING", "STARTED") /\ Goto(p, "calling")
           /\ executions' = [executions EXCEPT ![c] = @ + 1] /\ upstream' = upstream \cup {c}
  <2>1. Moved(p, "calling", c)
    BY SMTT(30), <1>0, <1>2, GotoMoves
  <2>2. Wrote(c, "STARTED")
    BY SMTT(30), <1>0, <1>2, TransitionWrites DEF States
  <2> HIDE DEF c
  <2>3. executions[c] = 0
    BY SMTT(30), <1>0, <1>2 DEF Transition, PaidIsAccounted, Shape
  <2>4. /\ executions' \in [Call -> Nat] /\ executions'[c] = 1
        /\ \A d \in Call \ {c} : executions'[d] = executions[d]
    BY SMTT(30), <1>0, <1>2, <2>3 DEF Shape
  <2>5. /\ upstream' \subseteq Call
        /\ \A d \in Call \ {c} : d \in upstream' <=> d \in upstream
    BY SMTT(30), <1>0, <1>2 DEF Shape
  <2>6. Local(c)
    BY SMTT(30), <1>1, <2>2, <2>4, <2>5 DEF Local, Wrote, Shape
  <2>7. Fits(c, "calling")
    BY SMTT(30), <1>0, <1>1, <2>2, <2>4 DEF Fits, Wrote
  <2> QED
    BY SMTT(30), <1>0, <2>1, <2>6, <2>7, OwnerKeeps
<1>3. CASE Goto(p, "drop") /\ UNCHANGED <<row, executions, upstream>>
  <2>1. Moved(p, "drop", c)
    BY SMTT(30), <1>0, <1>3, GotoMoves
  <2> QED
    BY SMTT(30), <1>0, <1>1, <1>3, <2>1, MoveKeeps DEF Shape, Owns
<1> QED
  BY SMTT(30), <1>2, <1>3 DEF CheckStep, UnchangedHistory, ledgerVars

\* A settlement keeps a call paid for; a failed one leaves it as it was.
LEMMA SettleCalls ==
  ASSUME CallInv, NEW p \in Process, SettleStep(p)
  PROVE  CallInv'
<1> USE DEF CallInv
<1> DEFINE c == proc[p].call
           u == proc[p].usage
<1>0. /\ c \in Call /\ Owns(p, c) /\ "finish" \in PCs /\ c \notin upstream /\ c \in active
      /\ u \in Usage
  BY SMTT(30) DEF SettleStep, At, Shape, PCs, Owns, Owning, HasSlot, OwnerKnows, OwnerHasSlot
<1>1. Moved(p, "finish", c)
  BY SMTT(30), <1>0, GotoMoves DEF SettleStep
<1>2. UNCHANGED <<now, policy, executions, upstream, active>>
  BY SMTT(30) DEF SettleStep, UnchangedAdmission, UnchangedHistory, ledgerVars
<1>3. CASE Settle(c, u)
  <2>1. PICK s \in {"SETTLED", "UNKNOWN"} : Wrote(c, s)
    BY SMTT(30), <1>0, <1>3, SettleWrites
  <2> HIDE DEF c
  <2>2. Local(c)
    BY SMTT(30), <1>0, <1>2, <2>1 DEF Local, Wrote, Shape
  <2>3. Fits(c, "finish")
    BY SMTT(30), <1>0, <1>2, <2>1 DEF Fits, Wrote, ExecutedAtMostOnce
  <2> QED
    BY SMTT(30), <1>0, <1>1, <2>2, <2>3, OwnerKeeps
<1>4. CASE UNCHANGED row
  BY SMTT(30), <1>0, <1>1, <1>2, <1>4, MoveKeeps DEF Shape, Owns
<1> QED
  BY SMTT(30), <1>3, <1>4 DEF SettleStep, ledgerVars

\* The slot goes back when nothing of the call is at the provider any more.
LEMMA FinishCalls ==
  ASSUME CallInv, NEW p \in Process, FinishStep(p)
  PROVE  CallInv'
<1> USE DEF CallInv
<1> DEFINE c == proc[p].call
<1>0. /\ c \in Call /\ Owns(p, c) /\ "idle" \in PCs /\ c \notin upstream
      /\ "idle" \notin Owning \cup HasSlot
  BY SMTT(30) DEF FinishStep, At, Shape, PCs, Owns, Owning, HasSlot, OwnerKnows
<1>1. Moved(p, "idle", NoCall)
  BY SMTT(30), ReturnMoves DEF FinishStep
<1>2. UNCHANGED <<now, row, policy, executions, upstream>>
  BY SMTT(30) DEF FinishStep, ledgerVars
<1>3. active' = active \ {c} \/ active' = active
  BY SMTT(30) DEF FinishStep, Finish, UnchangedAdmission
<1>4. row[c].state \notin {"NONE", "RESERVED"}
  BY SMTT(30), <1>0 DEF OwnedIsPast, Owns
<1> HIDE DEF c
<1>5. Local(c)
  BY SMTT(30), <1>0, <1>2, <1>3 DEF Local, Shape
<1>6. Fits(c, "idle")
  BY SMTT(30), <1>0, <1>2, <1>4 DEF Fits, ExecutedAtMostOnce, PaidIsAccounted
<1> QED
  BY SMTT(30), <1>0, <1>1, <1>5, <1>6, OwnerKeeps

\* A migration of the policy, the clock and stuttering move no call.
LEMMA OtherCalls ==
  ASSUME CallInv, MigrateStep \/ TickStep \/ UNCHANGED vars
  PROVE  CallInv'
<1> USE DEF CallInv
<1>1. UNCHANGED <<proc, row, active, executions, upstream>> /\ now' \in Nat /\ policy' \in Int
  BY SMTT(30) DEF MigrateStep, Migrate, TickStep, Tick, vars, ledgerVars, execVars, UnchangedAdmission, Shape
<1> QED
  BY SMTT(30), <1>1 DEF Shape, ExecutedAtMostOnce, PaidIsAccounted, OpenCallsHoldSlots, OwnedIsPast,
              OneOwner, OwnerKnows, OwnerHasSlot, Owns

\* The invariant of execute over both databases, for every number of
\* processes, calls and faults.
LEMMA CallsInvariant == ExecutionSpec => []CallInv
<1>1. ASSUME CallInv, [Next]_vars
      PROVE  CallInv'
  <2>1. ASSUME NEW p \in Process, Step(p)
        PROVE  CallInv'
    BY SMTT(30), <1>1, <2>1, ReserveCalls, AdmitCalls, AcquireCalls, ReleaseCalls, CheckCalls, ProcessCalls,
       SettleCalls, DropCalls, FinishCalls DEF Step
  <2>2. ASSUME NEW p \in Process, Crash(p) \/ Reopen(p) \/ \E c \in Call : Begin(p, c)
        PROVE  CallInv'
    BY SMTT(30), <1>1, <2>2, ProcessCalls
  <2>3. CASE MigrateStep \/ TickStep \/ UNCHANGED vars
    BY SMTT(30), <1>1, <2>3, OtherCalls
  <2> QED
    BY SMTT(30), <1>1, <2>1, <2>2, <2>3 DEF Next
<1> QED
  BY InitCalls, <1>1, PTL DEF ExecutionSpec

\* A call identity reaches the provider at most once, however often it is
\* redelivered, whichever process dies or database call fails (execute with
\* the ledger's transition).
THEOREM NoCallRunsTwice == ExecutionSpec => []ExecutedAtMostOnce
<1>1. CallInv => ExecutedAtMostOnce
  BY SMTT(30) DEF CallInv
<1> QED
  BY CallsInvariant, <1>1, PTL

\* A call that reached the provider is never given back by the ledger, and one
\* that was given back never reached it (the finally block of execute).
THEOREM PaidCallsStay == ExecutionSpec => []PaidIsAccounted
<1>1. CallInv => PaidIsAccounted
  BY SMTT(30) DEF CallInv
<1> QED
  BY CallsInvariant, <1>1, PTL

\* A call that may still be at the provider holds its slot and its worst case,
\* also after its process died (acquire and finish, used in execute).
THEOREM OpenCallsKeepSlots == ExecutionSpec => []OpenCallsHoldSlots
<1>1. CallInv => OpenCallsHoldSlots
  BY SMTT(30) DEF CallInv
<1> QED
  BY CallsInvariant, <1>1, PTL

-----------------------------------------------------------------------------
(* The books of the ledger. *)

RowType == [state : States, created : Nat, actual : Usage]

\* Counts are on a row from its settlement on, all of them when it is settled.
Counted(r) ==
    /\ r.state \in {"NONE", "RESERVED", "ADMITTING", "STARTED", "RELEASED"} => r.actual = NoCounts
    /\ r.state = "UNKNOWN" => ~Known(r.actual)
    /\ r.state = "SETTLED" => Known(r.actual)
BookInv == now \in Nat /\ row \in [Call -> RowType] /\ \A c \in Call : Counted(row[c])

\* What may become of the row r.
RowMoves(r, s) ==
    /\ \A k \in {"input", "output"} : r.actual[k] # Unknown => s.actual[k] = r.actual[k]
    /\ r.state \in {"SETTLED", "RELEASED"} => s = r
BookMoves ==
    /\ row' \in [Call -> RowType] /\ \A c \in Call : Counted(row'[c])
    /\ \A c \in Call : RowMoves(row[c], row'[c])

\* A transaction that writes one row.
LEMMA OneRowMoves ==
  ASSUME BookInv, NEW c \in Call, NEW r \in RowType, row' = [row EXCEPT ![c] = r],
         Counted(r), RowMoves(row[c], r)
  PROVE  BookMoves
<1>1. row' \in [Call -> RowType] /\ row'[c] = r /\ \A d \in Call : d # c => row'[d] = row[d]
  BY SMTT(30) DEF BookInv
<1>2. \A d \in Call : RowMoves(row[d], row[d])
  BY SMTT(30) DEF RowMoves
<1> QED
  BY <1>1, <1>2 DEF BookMoves, BookInv

\* Nothing is written.
LEMMA NoRowMoves ==
  ASSUME BookInv, UNCHANGED row
  PROVE  BookMoves
  BY SMTT(30) DEF BookInv, BookMoves, RowMoves

\* A count that is on no row.
LEMMA NoCountsAreUnknown ==
  /\ NoCounts \in Usage /\ ~Known(NoCounts)
  /\ \A k \in {"input", "output"} : NoCounts[k] = Unknown
  BY SMTT(30) DEF NoCounts, Usage, CountValue, Unknown, Known

\* reserve inserts a row without counts.
LEMMA ReserveBooks ==
  ASSUME BookInv, NEW c \in Call, NEW p, Reserve(c, p)
  PROVE  BookMoves
<1> DEFINE new == Reservation("RESERVED", now, NoCounts)
<1>1. new \in RowType /\ new.state = "RESERVED" /\ new.actual = NoCounts
  BY SMTT(30), NoCountsAreUnknown DEF BookInv, States, Reservation, RowType
<1>2. row' = [row EXCEPT ![c] = new] /\ row[c].state = "NONE"
  BY SMTT(30) DEF Reserve
<1> HIDE DEF new
<1>3. row[c].actual = NoCounts
  BY SMTT(30), <1>2 DEF BookInv, Counted
<1>4. Counted(new) /\ RowMoves(row[c], new)
  BY SMTT(30), <1>1, <1>2, <1>3, NoCountsAreUnknown DEF Counted, RowMoves
<1> QED
  BY <1>1, <1>2, <1>4, OneRowMoves

\* transition changes a row that has no counts yet.
LEMMA TransitionBooks ==
  ASSUME BookInv, NEW c \in Call, NEW before \in {"RESERVED", "ADMITTING"},
         NEW after \in {"ADMITTING", "STARTED", "RELEASED"}, Transition(c, before, after)
  PROVE  BookMoves
<1> DEFINE new == [row[c] EXCEPT !.state = after]
<1>1. new \in RowType /\ new.state = after /\ new.actual = row[c].actual
  BY SMTT(30) DEF BookInv, RowType, States
<1>2. row' = [row EXCEPT ![c] = new] /\ row[c].state = before
  BY SMTT(30) DEF Transition
<1> HIDE DEF new
<1>3. row[c].actual = NoCounts
  BY SMTT(30), <1>2 DEF BookInv, Counted
<1>4. Counted(new) /\ RowMoves(row[c], new)
  BY SMTT(30), <1>1, <1>2, <1>3, NoCountsAreUnknown DEF Counted, RowMoves
<1> QED
  BY <1>1, <1>2, <1>4, OneRowMoves

\* settle adds counts and changes none.
LEMMA SettleBooks ==
  ASSUME BookInv, NEW c \in Call, NEW u \in Usage, Settle(c, u)
  PROVE  BookMoves
<1> DEFINE s == IF Known(u) THEN "SETTLED" ELSE "UNKNOWN"
           new == Reservation(s, row[c].created, u)
<1>1. row' = [row EXCEPT ![c] = new]
  BY SMTT(30) DEF Settle
<1>2. s \in {"SETTLED", "UNKNOWN"} /\ (s = "SETTLED" <=> Known(u))
  BY SMTT(30)
<1> HIDE DEF s
<1>3. new \in RowType /\ new.state = s /\ new.actual = u
  BY SMTT(30), <1>2 DEF BookInv, Reservation, RowType, States
<1> HIDE DEF new
<1>4. Counted(new)
  BY SMTT(30), <1>2, <1>3 DEF Counted
<1>5. RowMoves(row[c], new)
  <2>1. CASE row[c].state = "STARTED"
    <3>1. row[c].actual = NoCounts
      BY SMTT(30), <2>1 DEF BookInv, Counted
    <3> QED
      BY SMTT(30), <2>1, <3>1, NoCountsAreUnknown DEF RowMoves
  <2>2. CASE /\ row[c].state = "UNKNOWN"
             /\ \A k \in {"input", "output"} : row[c].actual[k] \in {Unknown, u[k]}
    BY SMTT(30), <1>3, <2>2 DEF RowMoves
  <2> QED
    BY SMTT(30), <2>1, <2>2 DEF Settle, MaySettle
<1> QED
  BY <1>1, <1>3, <1>4, <1>5, OneRowMoves

\* A migration finds no obligation open.
LEMMA MigrationIsQuiet ==
  ASSUME Migrate
  PROVE  Open(Call) = {}
<1>1. Unsettled(Call) = {}
  BY SMTT(30) DEF Migrate, MayMigrate
<1>2. Open(Call) \subseteq Unsettled(Call)
  BY DEF Open, Unsettled, Spent, Rows
<1> QED
  BY SMTT(30), <1>1, <1>2

\* A step of execute writes the books as the ledger does.
LEMMA StepBooks ==
  ASSUME BookInv, Shape, NEW p \in Process, Step(p)
  PROVE  BookMoves /\ policy' = policy /\ now' = now
<1> DEFINE c == proc[p].call
<1>1. policy' = policy /\ now' = now
  BY DEF Step, ReserveStep, AdmitStep, AcquireStep, ReleaseStep, CheckStep, ReturnStep, SettleStep,
         DropStep, FinishStep, Reserve, DenyReserve, ledgerVars
<1>2. ~At(p, "idle") => c \in Call /\ proc[p].usage \in Usage
  BY SMTT(30) DEF Shape, At
<1> HIDE DEF c
<1>3. CASE ReserveStep(p)
  <2>1. c \in Call
    BY SMTT(30), <1>2, <1>3 DEF ReserveStep, At
  <2>2. Reserve(c, proc[p].policy) \/ UNCHANGED row
    BY <1>3 DEF ReserveStep, DenyReserve, ledgerVars, c
  <2> QED
    BY <1>1, <2>1, <2>2, ReserveBooks, NoRowMoves
<1>4. CASE AdmitStep(p)
  BY <1>2, <1>4, TransitionBooks, NoRowMoves DEF AdmitStep, At, ledgerVars, c
<1>5. CASE AcquireStep(p) \/ ReturnStep(p) \/ FinishStep(p)
  BY <1>5, NoRowMoves DEF AcquireStep, ReturnStep, FinishStep, ledgerVars
<1>6. CASE ReleaseStep(p)
  BY <1>2, <1>6, TransitionBooks DEF ReleaseStep, At, c
<1>7. CASE CheckStep(p)
  BY <1>2, <1>7, TransitionBooks, NoRowMoves DEF CheckStep, At, ledgerVars, c
<1>8. CASE SettleStep(p)
  BY <1>2, <1>8, SettleBooks, NoRowMoves DEF SettleStep, At, ledgerVars, c
<1>9. CASE DropStep(p)
  BY <1>2, <1>9, TransitionBooks, NoRowMoves DEF DropStep, At, ledgerVars, c
<1> QED
  BY <1>1, <1>3, <1>4, <1>5, <1>6, <1>7, <1>8, <1>9 DEF Step

\* So does a call of the ledger by any client.
LEMMA ApiBooks ==
  ASSUME BookInv, ApiStep
  PROVE  BookMoves /\ (policy' # policy => Open(Call) = {})
<1>1. \A c \in Call : Usages(c) \subseteq Usage
  BY SMTT(30), UsageCounts DEF Usage, CountValue, Unknown
<1>2. ASSUME NEW c \in Call, Reserve(c, policy) \/ DenyReserve(c, policy)
      PROVE  BookMoves /\ policy' = policy
  BY <1>2, ReserveBooks, NoRowMoves DEF Reserve, DenyReserve
<1>3. ASSUME NEW c \in Call,
             \/ Transition(c, "RESERVED", "ADMITTING") \/ Transition(c, "ADMITTING", "STARTED")
             \/ Transition(c, "ADMITTING", "RELEASED") \/ \E u \in Usages(c) : Settle(c, u)
      PROVE  BookMoves
  BY <1>1, <1>3, TransitionBooks, SettleBooks
<1>4. CASE Migrate
  BY <1>4, MigrationIsQuiet, NoRowMoves DEF Migrate
<1> QED
  BY <1>2, <1>3, <1>4 DEF ApiStep

\* The ledger starts without rows.
LEMMA InitBooks == now = 0 /\ LedgerInit => BookInv
<1> SUFFICES ASSUME now = 0, LedgerInit PROVE BookInv
  BY SMTT(30)
<1> DEFINE new == NoReservation
<1>1. new \in RowType /\ new.state = "NONE" /\ new.actual = NoCounts
  BY SMTT(30), NoCountsAreUnknown DEF NoReservation, Reservation, RowType, States
<1>2. row = [c \in Call |-> new]
  BY SMTT(30) DEF LedgerInit
<1> HIDE DEF new
<1>3. Counted(new)
  BY SMTT(30), <1>1 DEF Counted
<1> QED
  BY SMTT(30), <1>1, <1>2, <1>3 DEF BookInv

\* A move of the books is what BooksAreKept allows.
BooksMoveOn ==
    /\ \A c \in Call :
          /\ \A k \in {"input", "output"} :
                row[c].actual[k] # Unknown => row'[c].actual[k] = row[c].actual[k]
          /\ row[c].state \in {"SETTLED", "RELEASED"} => row'[c] = row[c]
    /\ policy' # policy => Open(Call) = {}

\* Every step of the processes and of the operator keeps the books (execute, migrate).
LEMMA ExecutionBooks ==
  ASSUME BookInv, Shape, [Next]_vars
  PROVE  BookMoves /\ (policy' # policy => Open(Call) = {}) /\ now' \in Nat
<1>1. ASSUME NEW p \in Process, Step(p)
      PROVE  BookMoves /\ policy' = policy /\ now' = now
  BY SMTT(30), <1>1, StepBooks
<1>2. ASSUME NEW p \in Process, Crash(p) \/ Reopen(p) \/ \E c \in Call : Begin(p, c)
      PROVE  BookMoves /\ policy' = policy /\ now' = now
  BY <1>2, NoRowMoves DEF Crash, Reopen, Begin, ledgerVars
<1>3. CASE MigrateStep
  BY <1>3, MigrationIsQuiet, NoRowMoves DEF MigrateStep, Migrate, BookInv
<1>4. CASE TickStep
  <2>1. UNCHANGED <<row, policy>> /\ now' \in Nat
    BY SMTT(30), <1>4 DEF TickStep, Tick, ledgerVars, BookInv
  <2> QED
    BY <2>1, NoRowMoves
<1>5. CASE UNCHANGED vars
  BY <1>5, NoRowMoves DEF vars, ledgerVars, BookInv
<1> QED
  BY <1>1, <1>2, <1>3, <1>4, <1>5 DEF Next, BookInv

\* Every call of any client keeps the books.
LEMMA LedgerBooks ==
  ASSUME BookInv, [LedgerNext]_<<now, started, active, ledgerVars>>
  PROVE  BookMoves /\ (policy' # policy => Open(Call) = {}) /\ now' \in Nat
<1>1. CASE ApiStep /\ UNCHANGED <<now, started, active>>
  BY <1>1, ApiBooks DEF BookInv
<1>2. CASE Tick
  <2>1. UNCHANGED <<row, policy>> /\ now' \in Nat
    BY SMTT(30), <1>2 DEF Tick, ledgerVars, BookInv
  <2> QED
    BY <2>1, NoRowMoves
<1>3. CASE UNCHANGED <<now, started, active, ledgerVars>>
  BY <1>3, NoRowMoves DEF ledgerVars, BookInv
<1> QED
  BY <1>1, <1>2, <1>3 DEF LedgerNext

\* What the moves of the books add up to.
LEMMA MovesKeepBooks ==
  ASSUME BookMoves, policy' # policy => Open(Call) = {}, now' \in Nat
  PROVE  BookInv' /\ BooksMoveOn
  BY DEF BookMoves, BookInv, RowMoves, BooksMoveOn

\* A count that was reported for a call is never changed or forgotten, a settled or released
\* call stays so, and the policy is replaced only over closed books, through crashes,
\* redeliveries and failed database calls (settle, transition, migrate_l1_policy).
THEOREM BooksStayTrue == ExecutionSpec => BooksAreKept
<1>1. Init => BookInv
  BY SMTT(30), InitBooks DEF Init
<1>2. BookInv /\ Shape /\ [Next]_vars => BookInv' /\ BooksMoveOn
  BY ExecutionBooks, MovesKeepBooks
<1>3. CallInv => Shape
  BY SMTT(30) DEF CallInv
<1>4. ExecutionSpec => [][BooksMoveOn]_<<row, policy>>
  BY <1>1, <1>2, <1>3, CallsInvariant, PTL DEF ExecutionSpec
<1> QED
  BY SMTT(30), <1>4 DEF BooksAreKept, BooksMoveOn

\* The same for the ledger by itself, under every order of calls its interface allows.
THEOREM LedgerBooksStayTrue == LedgerSpec => BooksAreKept
<1>1. now = 0 /\ AdmissionInit /\ LedgerInit => BookInv
  BY SMTT(30), InitBooks
<1>2. BookInv /\ [LedgerNext]_<<now, started, active, ledgerVars>> => BookInv' /\ BooksMoveOn
  BY LedgerBooks, MovesKeepBooks
<1>3. LedgerSpec => [][BooksMoveOn]_<<row, policy>>
  BY <1>1, <1>2, PTL DEF LedgerSpec
<1> QED
  BY SMTT(30), <1>3 DEF BooksAreKept, BooksMoveOn

-----------------------------------------------------------------------------
(* Slots of the provider. *)

\* The others stay where they are.
Others(p) == \A q \in Process : q # p => proc'[q] = proc[q]

\* p has no slot, or gives it up for good, or keeps its call.
LEMMA SlotStays ==
  ASSUME SlotsHaveHolders, NEW p \in Process, Others(p), active' \subseteq active, lost \subseteq lost',
         \/ proc[p].pc \notin HasSlot
         \/ proc[p].call \notin active' \ lost'
         \/ proc'[p].call = proc[p].call /\ proc'[p].pc \in HasSlot
  PROVE  SlotsHaveHolders'
<1> SUFFICES ASSUME NEW c \in active', c \notin lost'
             PROVE  \E q \in Process : proc'[q].call = c /\ proc'[q].pc \in HasSlot
  BY DEF SlotsHaveHolders, HasSlot
<1>1. PICK q \in Process : proc[q].call = c /\ proc[q].pc \in HasSlot
  BY DEF SlotsHaveHolders, HasSlot
<1>2. CASE q # p
  BY <1>1, <1>2 DEF Others
<1>3. CASE q = p
  BY <1>1, <1>3
<1> QED
  BY SMTT(30), <1>2, <1>3

\* acquire gives its slot to the process that asks.
LEMMA SlotTaken ==
  ASSUME SlotsHaveHolders, NEW p \in Process, Others(p), proc[p].pc \notin HasSlot,
         active' = active \cup {proc[p].call}, lost' = lost,
         proc'[p].call = proc[p].call, proc'[p].pc \in HasSlot
  PROVE  SlotsHaveHolders'
<1> SUFFICES ASSUME NEW c \in active', c \notin lost'
             PROVE  \E q \in Process : proc'[q].call = c /\ proc'[q].pc \in HasSlot
  BY DEF SlotsHaveHolders, HasSlot
<1>1. CASE c = proc[p].call
  BY <1>1
<1>2. CASE c \in active
  <2>1. PICK q \in Process : proc[q].call = c /\ proc[q].pc \in HasSlot
    BY <1>2 DEF SlotsHaveHolders, HasSlot
  <2> QED
    BY <2>1 DEF Others
<1> QED
  BY <1>1, <1>2

\* Steps before acquire, the release and a restart (execute).
LEMMA EarlySlots ==
  ASSUME Shape, SlotsHaveHolders, NEW p \in Process,
         \/ ReserveStep(p) \/ AdmitStep(p) \/ ReleaseStep(p) \/ Reopen(p) \/ \E c \in Call : Begin(p, c)
  PROVE  SlotsHaveHolders'
<1>1. proc[p].pc \notin HasSlot /\ UNCHANGED <<active, lost>>
  BY DEF ReserveStep, AdmitStep, ReleaseStep, Reopen, Begin, At, HasSlot, UnchangedAdmission,
         UnchangedHistory
<1>2. Others(p)
  BY SMTT(30) DEF ReserveStep, AdmitStep, ReleaseStep, Reopen, Begin, Goto, Return, Others, Shape
<1> QED
  BY <1>1, <1>2, SlotStays

\* acquire, answered with a slot or without.
LEMMA AcquireSlots ==
  ASSUME Shape, SlotsHaveHolders, NEW p \in Process, AcquireStep(p)
  PROVE  SlotsHaveHolders'
<1>1. proc[p].pc \notin HasSlot /\ lost' = lost
  BY DEF AcquireStep, At, HasSlot, UnchangedHistory
<1>2. "check" \in PCs /\ "check" \in HasSlot /\ "release" \in PCs
  BY SMTT(30) DEF PCs, HasSlot
<1>3. CASE Goto(p, "check") /\ Acquire(proc[p].call)
  <2>1. Moved(p, "check", proc[p].call)
    BY <1>2, <1>3, GotoMoves
  <2> QED
    BY <1>1, <1>2, <1>3, <2>1, SlotTaken DEF Moved, Others, Acquire
<1>4. CASE Goto(p, "release") /\ UNCHANGED active
  <2>1. Moved(p, "release", proc[p].call)
    BY <1>2, <1>4, GotoMoves
  <2> QED
    BY <1>1, <1>4, <2>1, SlotStays DEF Moved, Others
<1> QED
  BY <1>3, <1>4 DEF AcquireStep, UnchangedAdmission

\* From the check to the settlement the slot stays with its process.
LEMMA HoldingSlots ==
  ASSUME Shape, SlotsHaveHolders, NEW p \in Process,
         CheckStep(p) \/ SettleStep(p) \/ DropStep(p)
  PROVE  SlotsHaveHolders'
<1>1. UNCHANGED <<active, lost>>
  BY DEF CheckStep, SettleStep, DropStep, UnchangedAdmission, UnchangedHistory
<1>2. PICK pc \in {"calling", "drop", "finish"} : Goto(p, pc)
  BY DEF CheckStep, SettleStep, DropStep
<1>3. pc \in PCs /\ pc \in HasSlot
  BY SMTT(30), <1>2 DEF PCs, HasSlot
<1>4. Moved(p, pc, proc[p].call)
  BY <1>2, <1>3, GotoMoves
<1> QED
  BY <1>1, <1>3, <1>4, SlotStays DEF Moved, Others

\* The provider answers.
LEMMA ReturnSlots ==
  ASSUME Shape, SlotsHaveHolders, NEW p \in Process, ReturnStep(p)
  PROVE  SlotsHaveHolders'
<1>1. UNCHANGED <<active, lost>>
  BY DEF ReturnStep, UnchangedAdmission
<1>2. Moved(p, "settle", proc[p].call)
  BY SMTT(30), ReturnStepMoves
<1>3. "settle" \in HasSlot
  BY SMTT(30) DEF HasSlot
<1> QED
  BY <1>1, <1>2, <1>3, SlotStays DEF Moved, Others

\* finish gives the slot back, or the call is lost; so it is when its process dies.
LEMMA LastSlots ==
  ASSUME Shape, SlotsHaveHolders, NEW p \in Process, FinishStep(p) \/ Crash(p)
  PROVE  SlotsHaveHolders'
<1>1. /\ active' \subseteq active /\ lost \subseteq lost'
      /\ proc[p].call \notin active' \ lost'
  BY DEF FinishStep, Finish, Crash, UnchangedAdmission
<1>2. Others(p)
  BY SMTT(30) DEF FinishStep, Crash, Return, Others, Shape
<1> QED
  BY <1>1, <1>2, SlotStays

\* A slot that is taken has a process that gives it back in its finally block, unless a crash
\* or a failed finish lost it (acquire, execute).
THEOREM SlotsAreHeld == ExecutionSpec => []SlotsHaveHolders
<1>1. Init => SlotsHaveHolders
  BY DEF Init, AdmissionInit, SlotsHaveHolders
<1>2. ASSUME CallInv, SlotsHaveHolders, [Next]_vars
      PROVE  SlotsHaveHolders'
  <2>1. Shape
    BY SMTT(30), <1>2 DEF CallInv
  <2>2. ASSUME NEW p \in Process, Step(p) \/ Crash(p) \/ Reopen(p) \/ \E c \in Call : Begin(p, c)
        PROVE  SlotsHaveHolders'
    BY <1>2, <2>1, <2>2, EarlySlots, AcquireSlots, HoldingSlots, ReturnSlots, LastSlots DEF Step
  <2>3. CASE MigrateStep \/ TickStep \/ UNCHANGED vars
    <3>1. UNCHANGED <<active, lost, proc>>
      BY <2>3 DEF MigrateStep, TickStep, Tick, vars, execVars, UnchangedAdmission
    <3> QED
      BY <1>2, <3>1 DEF SlotsHaveHolders
  <2> QED
    BY <1>2, <2>2, <2>3 DEF Next
<1> QED
  BY <1>1, <1>2, CallsInvariant, PTL DEF ExecutionSpec

-----------------------------------------------------------------------------
(* Shares of the provider. *)

AtMost(S, n) == IsFiniteSet(S) /\ Cardinality(S) <= n

\* Fewer rows stay within a limit.
LEMMA FewerAreAtMost ==
  ASSUME NEW S, NEW n \in Nat, AtMost(S, n), NEW T, T \subseteq S
  PROVE  AtMost(T, n)
<1>1. IsFiniteSet(T) /\ Cardinality(T) <= Cardinality(S)
  BY SMTT(30), FS_Subset DEF AtMost
<1>2. Cardinality(T) \in Nat /\ Cardinality(S) \in Nat
  BY SMTT(30), <1>1, FS_CardinalityType DEF AtMost
<1> QED
  BY SMTT(30), <1>1, <1>2 DEF AtMost

\* Below a limit there is room for one row.
LEMMA OneMoreIsAtMost ==
  ASSUME NEW S, IsFiniteSet(S), NEW n \in Nat, ~(Cardinality(S) >= n), NEW c, NEW T, T \subseteq S \cup {c}
  PROVE  AtMost(T, n)
<1>1. Cardinality(S) \in Nat
  BY SMTT(30), FS_CardinalityType
<1>2. /\ IsFiniteSet(S \cup {c})
      /\ Cardinality(S \cup {c}) = IF c \in S THEN Cardinality(S) ELSE Cardinality(S) + 1
  BY SMTT(30), FS_AddElement
<1>3. AtMost(S \cup {c}, n)
  BY SMTT(30), <1>1, <1>2 DEF AtMost
<1> QED
  BY SMTT(30), <1>3, FewerAreAtMost

\* The limits are numbers.
LEMMA ShareLimits ==
  /\ P.concurrent \in Nat /\ P.concurrent - P.interactive_slots \in Nat
  /\ P.rpm \in Nat /\ P.rpm - P.interactive_rpm \in Nat
  /\ P.per_job_concurrent \in Nat /\ P.per_job_rpm \in Nat /\ Minute \in Nat
<1>1. /\ P.rpm \in Nat /\ P.concurrent \in Nat /\ P.interactive_rpm \in Nat
      /\ P.interactive_slots \in Nat /\ P.per_job_concurrent \in Nat /\ P.per_job_rpm \in Nat
  BY SMTT(30), PolicyBounds
<1>2. P.interactive_rpm < P.rpm /\ P.interactive_slots < P.concurrent /\ Minute \in Nat
  BY SMTT(30), PolicyBounds
<1> QED
  BY SMTT(30), <1>1, <1>2

\* The rows A that are active and the rows R of the last minute are within the shares.
Shared(A, R) ==
    /\ AtMost(A, P.concurrent) /\ AtMost(Docs(A), P.concurrent - P.interactive_slots)
    /\ AtMost(R, P.rpm) /\ AtMost(Docs(R), P.rpm - P.interactive_rpm)
    /\ \A c \in Call : /\ AtMost(Same(Docs(A), c), P.per_job_concurrent)
                       /\ AtMost(Same(Docs(R), c), P.per_job_rpm)

Tickets == now \in Nat /\ started \in [Call -> Nat \cup {NoRow}] /\ Shared(active, Recent)

\* Rows that leave the minute or finish leave room.
LEMMA FewerAreShared ==
  ASSUME NEW A, NEW R, Shared(A, R), NEW B, B \subseteq A, NEW Q, Q \subseteq R
  PROVE  Shared(B, Q)
<1>1. /\ Docs(B) \subseteq Docs(A) /\ Docs(Q) \subseteq Docs(R)
      /\ \A c : Same(Docs(B), c) \subseteq Same(Docs(A), c) /\ Same(Docs(Q), c) \subseteq Same(Docs(R), c)
  BY DEF Docs, Same
<1>2. AtMost(B, P.concurrent) /\ AtMost(Q, P.rpm)
  BY ShareLimits, FewerAreAtMost DEF Shared
<1>3. AtMost(Docs(B), P.concurrent - P.interactive_slots) /\ AtMost(Docs(Q), P.rpm - P.interactive_rpm)
  BY <1>1, ShareLimits, FewerAreAtMost DEF Shared
<1>4. ASSUME NEW c \in Call
      PROVE  AtMost(Same(Docs(B), c), P.per_job_concurrent) /\ AtMost(Same(Docs(Q), c), P.per_job_rpm)
  BY <1>1, ShareLimits, FewerAreAtMost DEF Shared
<1> QED
  BY <1>2, <1>3, <1>4 DEF Shared

\* A row that acquire admits finds room for every limit it is counted in.
LEMMA OneMoreIsShared ==
  ASSUME Shared(active, Recent), NEW c \in Call, ~Denied(c), NEW Q, Q \subseteq Recent \cup {c}
  PROVE  Shared(active \cup {c}, Q)
<1>0. PICK A : A = active \cup {c}
  OBVIOUS
<1>1. /\ IsFiniteSet(active) /\ IsFiniteSet(Recent) /\ IsFiniteSet(Docs(active)) /\ IsFiniteSet(Docs(Recent))
      /\ IsFiniteSet(Same(Docs(active), c)) /\ IsFiniteSet(Same(Docs(Recent), c))
  BY DEF Shared, AtMost
<1>2. ~(Cardinality(active) >= P.concurrent) /\ ~(Cardinality(Recent) >= P.rpm)
  BY DEF Denied
<1>3. AtMost(A, P.concurrent) /\ AtMost(Q, P.rpm)
  BY <1>0, <1>1, <1>2, ShareLimits, OneMoreIsAtMost
<1>4. CASE Background(c)
  <2>1. /\ ~(Cardinality(Docs(Recent)) >= P.rpm - P.interactive_rpm)
        /\ ~(Cardinality(Docs(active)) >= P.concurrent - P.interactive_slots)
        /\ ~(Cardinality(Same(Docs(active), c)) >= P.per_job_concurrent)
        /\ ~(Cardinality(Same(Docs(Recent), c)) >= P.per_job_rpm)
    BY <1>4 DEF Denied
  <2>2. Docs(A) \subseteq Docs(active) \cup {c} /\ Docs(Q) \subseteq Docs(Recent) \cup {c}
    BY <1>0 DEF Docs
  <2>3. AtMost(Docs(A), P.concurrent - P.interactive_slots) /\ AtMost(Docs(Q), P.rpm - P.interactive_rpm)
    <3>1. PICK n \in Nat : n = P.concurrent - P.interactive_slots
      BY ShareLimits
    <3>2. ~(Cardinality(Docs(active)) >= n) /\ IsFiniteSet(Docs(active))
      BY SMTT(30), <1>1, <2>1, <3>1
    <3>3. AtMost(Docs(A), n)
      BY <2>2, <3>2, OneMoreIsAtMost
    <3>4. PICK m \in Nat : m = P.rpm - P.interactive_rpm
      BY ShareLimits
    <3>5. ~(Cardinality(Docs(Recent)) >= m) /\ IsFiniteSet(Docs(Recent))
      BY SMTT(30), <1>1, <2>1, <3>4
    <3>6. AtMost(Docs(Q), m)
      BY <2>2, <3>5, OneMoreIsAtMost
    <3> QED
      BY <3>1, <3>3, <3>4, <3>6
  <2>4. ASSUME NEW d \in Call, JobOf[d] = JobOf[c]
        PROVE  AtMost(Same(Docs(A), d), P.per_job_concurrent) /\ AtMost(Same(Docs(Q), d), P.per_job_rpm)
    <3>1. /\ Same(Docs(A), d) \subseteq Same(Docs(active), c) \cup {c}
          /\ Same(Docs(Q), d) \subseteq Same(Docs(Recent), c) \cup {c}
      BY <2>2, <2>4 DEF Same
    <3> QED
      BY <1>1, <2>1, <3>1, ShareLimits, OneMoreIsAtMost
  <2>5. ASSUME NEW d \in Call, JobOf[d] # JobOf[c]
        PROVE  AtMost(Same(Docs(A), d), P.per_job_concurrent) /\ AtMost(Same(Docs(Q), d), P.per_job_rpm)
    <3>1. /\ Same(Docs(A), d) \subseteq Same(Docs(active), d)
          /\ Same(Docs(Q), d) \subseteq Same(Docs(Recent), d)
      <4>1. \A e : JobOf[e] = JobOf[d] => e # c
        BY SMTT(30), <2>5
      <4> QED
        BY <2>2, <4>1 DEF Same
    <3> QED
      BY <3>1, ShareLimits, FewerAreAtMost DEF Shared
  <2> QED
    BY <1>0, <1>3, <2>3, <2>4, <2>5 DEF Shared
<1>5. CASE ~Background(c)
  <2>1. /\ Docs(A) \subseteq Docs(active) /\ Docs(Q) \subseteq Docs(Recent)
        /\ \A d : /\ Same(Docs(A), d) \subseteq Same(Docs(active), d)
                  /\ Same(Docs(Q), d) \subseteq Same(Docs(Recent), d)
    BY <1>0, <1>5 DEF Docs, Same
  <2>2. AtMost(Docs(A), P.concurrent - P.interactive_slots) /\ AtMost(Docs(Q), P.rpm - P.interactive_rpm)
    BY <2>1, ShareLimits, FewerAreAtMost DEF Shared
  <2>3. ASSUME NEW d \in Call
        PROVE  AtMost(Same(Docs(A), d), P.per_job_concurrent) /\ AtMost(Same(Docs(Q), d), P.per_job_rpm)
    BY <2>1, ShareLimits, FewerAreAtMost DEF Shared
  <2> QED
    BY <1>0, <1>3, <2>2, <2>3 DEF Shared
<1> QED
  BY SMTT(30), <1>0, <1>4, <1>5

\* acquire, finish, the clock, and everything else.
LEMMA TicketsStay ==
  ASSUME Tickets, UNCHANGED <<now, started>>, active' \subseteq active
  PROVE  Tickets'
<1>1. Recent' = Recent
  BY DEF Recent
<1>2. Shared(active', Recent)
  BY SMTT(30), FewerAreShared DEF Tickets
<1> QED
  BY <1>1, <1>2 DEF Tickets, Shared

\* acquire inserts a row.
LEMMA AcquireTickets ==
  ASSUME Tickets, NEW c \in Call, Acquire(c), now' = now
  PROVE  Tickets'
<1>1. /\ ~Denied(c) /\ active' = active \cup {c} /\ started' = [started EXCEPT ![c] = now]
  BY DEF Acquire, CanAcquire
<1>2. started' \in [Call -> Nat \cup {NoRow}] /\ \A d \in Call : d # c => started'[d] = started[d]
  BY SMTT(30), <1>1 DEF Tickets
<1>3. Recent' \subseteq Recent \cup {c}
  BY <1>2 DEF Recent
<1>4. Shared(active \cup {c}, Recent')
  BY SMTT(30), <1>1, <1>3, OneMoreIsShared DEF Tickets
<1> QED
  BY <1>1, <1>2, <1>4 DEF Tickets, Shared

\* The clock takes rows out of the minute.
LEMMA TickTickets ==
  ASSUME Tickets, Tick
  PROVE  Tickets'
<1>1. now' = now + 1 /\ UNCHANGED <<started, active>> /\ now' \in Nat
  BY SMTT(30) DEF Tick, Tickets
<1>2. \A c \in Call : started[c] \in Int
  BY SMTT(30) DEF Tickets, NoRow
<1>3. \A c \in Call : started[c] > (now + 1) - Minute => started[c] > now - Minute
  BY SMTT(30), <1>2, ShareLimits DEF Tickets
<1>4. Recent' \subseteq Recent
  BY <1>1, <1>3 DEF Recent
<1>5. Shared(active, Recent')
  BY SMTT(30), <1>4, FewerAreShared DEF Tickets
<1> QED
  BY <1>1, <1>5 DEF Tickets, Shared

\* Every step of the processes and of the operator leaves the shares as they are.
LEMMA NextTickets ==
  ASSUME Tickets, Shape, [Next]_vars
  PROVE  Tickets'
<1>1. ASSUME NEW p \in Process, AcquireStep(p)
      PROVE  Tickets'
  <2>1. proc[p].call \in Call /\ now' = now
    BY SMTT(30), <1>1 DEF AcquireStep, At, Shape
  <2>2. Acquire(proc[p].call) \/ UNCHANGED <<started, active>>
    BY <1>1 DEF AcquireStep, UnchangedAdmission
  <2> QED
    BY <2>1, <2>2, AcquireTickets, TicketsStay
<1>2. ASSUME NEW p \in Process, FinishStep(p)
      PROVE  Tickets'
  <2>1. UNCHANGED <<now, started>> /\ active' \subseteq active
    BY <1>2 DEF FinishStep, Finish, UnchangedAdmission
  <2> QED
    BY <2>1, TicketsStay
<1>3. ASSUME NEW p \in Process,
             \/ ReserveStep(p) \/ AdmitStep(p) \/ ReleaseStep(p) \/ CheckStep(p) \/ ReturnStep(p)
             \/ SettleStep(p) \/ DropStep(p) \/ Crash(p) \/ Reopen(p) \/ \E c \in Call : Begin(p, c)
      PROVE  Tickets'
  <2>1. UNCHANGED <<now, started, active>>
    BY <1>3 DEF ReserveStep, AdmitStep, ReleaseStep, CheckStep, ReturnStep, SettleStep, DropStep,
                Crash, Reopen, Begin, UnchangedAdmission
  <2> QED
    BY <2>1, TicketsStay
<1>4. CASE MigrateStep \/ UNCHANGED vars
  <2>1. UNCHANGED <<now, started, active>>
    BY <1>4 DEF MigrateStep, UnchangedAdmission, vars
  <2> QED
    BY <2>1, TicketsStay
<1>5. CASE TickStep
  BY <1>5, TickTickets DEF TickStep
<1> QED
  BY <1>1, <1>2, <1>3, <1>4, <1>5 DEF Next, Step

\* The rows that count are within the shares throughout (acquire).
LEMMA TicketsInvariant == ExecutionSpec => []Tickets
<1>1. Init => Tickets
  <2> SUFFICES ASSUME Init PROVE Tickets
    BY SMTT(30)
  <2>1. /\ now = 0 /\ started = [c \in Call |-> NoRow] /\ active = {}
    BY DEF Init, AdmissionInit
  <2>2. Recent = {}
    BY <2>1 DEF Recent
  <2>3. Docs({}) = {} /\ \A c : Same({}, c) = {}
    BY DEF Docs, Same
  <2>4. \A n \in Nat : AtMost({}, n)
    BY SMTT(30), FS_EmptySet DEF AtMost
  <2>5. Shared({}, {})
    BY <2>3, <2>4, ShareLimits DEF Shared
  <2>6. now \in Nat /\ started \in [Call -> Nat \cup {NoRow}]
    BY SMTT(30), <2>1
  <2> QED
    BY <2>1, <2>2, <2>5, <2>6 DEF Tickets
<1>2. Tickets /\ Shape /\ [Next]_vars => Tickets'
  BY SMTT(30), NextTickets
<1>3. CallInv => Shape
  BY SMTT(30) DEF CallInv
<1> QED
  BY <1>1, <1>2, <1>3, CallsInvariant, PTL DEF ExecutionSpec

\* The provider never sees more calls at once or more requests in a minute than the policy
\* allows, and the interactive share stays free of background work, whatever crashes
\* leave slots taken (acquire, finish).
THEOREM SharesAreKept == ExecutionSpec => []CallsRespected
<1>1. Tickets => CallsRespected
  BY DEF Tickets, Shared, AtMost, CallsRespected
<1> QED
  BY <1>1, TicketsInvariant, PTL

=============================================================================
