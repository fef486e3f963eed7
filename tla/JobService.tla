------------------------------ MODULE JobService ------------------------------
(***************************************************************************)
(* DocumentJobs (documents/jobs/service.py): the entry point that inspects *)
(* the source and, for a request that resumes another job, the results it  *)
(* will reuse, before it asks the ledger to admit the request.  Every      *)
(* inspection and every call of the ledger is a step of its own, and the   *)
(* ledger goes on in between.                                              *)
(***************************************************************************)
EXTENDS JobLedger

CONSTANTS Source,      \* [Jobs -> the source object of the request]
          MaxDamage    \* bound: objects whose bytes are lost or changed

VARIABLES call,        \* [Jobs -> the locals of admit for this request]
          damaged      \* objects that inspect refuses

serviceVars == <<call, damaged>>

\* todo and seen are the objects to inspect and those inspected; settled says
\* whether the resumed job had ended when its steps were read.
Call(pc, todo, seen, settled) == [pc |-> pc, todo |-> todo, seen |-> seen, settled |-> settled]
NoCall == Call("idle", {}, {}, FALSE)

ServiceInit == Init /\ call = [j \in Jobs |-> NoCall] /\ damaged = {}

Enter(j, c) == call' = [call EXCEPT ![j] = c] /\ UNCHANGED <<vars, damaged>>
CallAt(j, pc) == call[j].pc = pc

\* admit starts with the source; a damaged one is refused.
InspectSource(j) ==
    /\ CallAt(j, "idle") /\ Source[j] \notin damaged
    /\ Enter(j, Call(IF ResumeFrom[j] = NoJob THEN "admit" ELSE "prior", {}, {}, FALSE))

\* The objects of the steps that can be reused, as far as the steps read show.
Candidates(j) ==
    UNION {UNION {manifest[t].refs : t \in Sources(j, s)} : s \in UNION Copies(j)}

\* get_job raises when there is no such job; only steps reads what changes.
ReadPrior(j) ==
    /\ CallAt(j, "prior")
    /\ IF Admitted(ResumeFrom[j])
       THEN Enter(j, Call("inspect", Candidates(j), {}, jobState[ResumeFrom[j]] \in TERMINAL))
       ELSE Enter(j, NoCall)

\* Mutated: an object that cannot be verified is passed over.
InspectSkips(j) ==
    /\ CallAt(j, "inspect")
    /\ \/ \E ref \in call[j].todo :
             Enter(j, IF ref \in damaged THEN [call[j] EXCEPT !.todo = @ \ {ref}]
                      ELSE [call[j] EXCEPT !.todo = @ \ {ref}, !.seen = @ \cup {ref}])
       \/ call[j].todo = {} /\ Enter(j, [call[j] EXCEPT !.pc = "admit"])

Inspect(j) ==
    /\ CallAt(j, "inspect")
    /\ \/ \E ref \in call[j].todo :
             Enter(j, IF ref \in damaged THEN NoCall
                      ELSE Call("inspect", call[j].todo \ {ref}, call[j].seen \cup {ref}, call[j].settled))
       \/ call[j].todo = {} /\ Enter(j, [call[j] EXCEPT !.pc = "admit"])

\* The ledger admits the request, or replays it, refuses it or is unavailable,
\* and changes nothing.
AskLedger(j) ==
    /\ CallAt(j, "admit")
    /\ call' = [call EXCEPT ![j] = NoCall]
    /\ Admit(j) \/ UNCHANGED vars
    /\ UNCHANGED damaged

Damage(ref) ==
    /\ Cardinality(damaged) < MaxDamage /\ ref \notin damaged
    /\ damaged' = damaged \cup {ref} /\ UNCHANGED <<vars, call>>

\* Workers, cancellation, reconciliation and the clock: any other operation.
LedgerGoesOn ==
    /\ Next /\ UNCHANGED serviceVars
    /\ \A j \in Jobs : jobState[j] = "ABSENT" => jobState'[j] = "ABSENT"

ServiceNext ==
    \/ \E j \in Jobs : InspectSource(j) \/ ReadPrior(j) \/ Inspect(j) \/ AskLedger(j)
    \/ \E ref \in Refs \cup {Source[j] : j \in Jobs} : Damage(ref)
    \/ LedgerGoesOn

ServiceSpec == ServiceInit /\ [][ServiceNext]_<<vars, serviceVars>>

(* ---------------------------------------------------------------------- *)

Reused(j) == UNION {manifest'[s].refs : s \in {t \in StepsOf(j) : reusedFrom'[t] # reusedFrom[t]}}

\* A resume of a job that had ended when its steps were read copies only
\* results whose bytes were inspected before, although the inspection is not
\* part of the ledger's transaction (DocumentJobs.admit with the ledger's admit).
SettledReuseIsInspected ==
    [][\A j \in Jobs : call[j].settled => Reused(j) \subseteq call[j].seen]_<<vars, serviceVars>>
=============================================================================
