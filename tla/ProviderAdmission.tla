------------------------- MODULE ProviderAdmission -------------------------
(***************************************************************************)
(* The durable admission queue in front of the model provider              *)
(* (llm/admission.py).  Every paid call takes a ticket before the network  *)
(* is touched and gives it back when the call ends; the ticket counts      *)
(* against the requests and tokens of the last minute and, while it is     *)
(* active, against the concurrent slots.  Background document work may     *)
(* never take the share kept for interactive calls.                        *)
(*                                                                         *)
(* A ticket is identified by its call: the UNIQUE key of inference_calls   *)
(* allows one row per (scope, job, step, attempt).                         *)
(***************************************************************************)
EXTENDS Integers, FiniteSets, Functions

CONSTANTS Call,          \* the call identities
          WorkloadOf,    \* [Call -> {"INTERACTIVE", "DOCUMENT_BACKGROUND"}]
          JobOf,         \* [Call -> the job the call belongs to]
          InputOf,       \* [Call -> estimated input tokens]
          OutputOf,      \* [Call -> reserved output tokens]
          AdmissionPolicy, \* a record with the fields of AdmissionPolicy
          Minute         \* the 60 seconds of the rate window, in ticks

P == AdmissionPolicy

\* AdmissionPolicy.bounds
ASSUME PolicyBounds ==
    /\ P \in [rpm : Nat, tpm : Nat, concurrent : Nat, interactive_rpm : Nat, interactive_tpm : Nat,
              interactive_slots : Nat, per_job_concurrent : Nat, per_job_rpm : Nat]
    /\ Minute \in Nat
    /\ P.interactive_rpm < P.rpm /\ P.interactive_tpm < P.tpm
    /\ P.interactive_slots < P.concurrent
    /\ P.per_job_concurrent <= P.concurrent - P.interactive_slots
    /\ P.per_job_rpm <= P.rpm - P.interactive_rpm

\* acquire refuses other calls.
ASSUME CallTypes ==
    /\ InputOf \in [Call -> Nat] /\ OutputOf \in [Call -> Nat]
    /\ WorkloadOf \in [Call -> {"INTERACTIVE", "DOCUMENT_BACKGROUND"}]

VARIABLES now,      \* the clock both ledgers read
          started,  \* [Call -> when its row was inserted, or NoRow]
          active    \* the calls whose row has active = 1

NoRow == -1

Estimate(c) == InputOf[c] + OutputOf[c]
Background(c) == WorkloadOf[c] = "DOCUMENT_BACKGROUND"
Reserved(S) == SumFunctionOnSet([c \in S |-> Estimate(c)], S)
Recent == {c \in Call : started[c] # NoRow /\ started[c] > now - Minute}
Docs(S) == {c \in S : Background(c)}
Same(S, c) == {d \in S : JobOf[d] = JobOf[c]}

TokenCap(c) == IF Background(c) THEN P.tpm - P.interactive_tpm ELSE P.tpm

Denied(c) ==
    \/ Cardinality(Recent) >= P.rpm
    \/ Reserved(Recent) + Estimate(c) > P.tpm
    \/ Cardinality(active) >= P.concurrent
    \/ /\ Background(c)
       /\ \/ Cardinality(Docs(Recent)) >= P.rpm - P.interactive_rpm
          \/ Reserved(Docs(Recent)) + Estimate(c) > TokenCap(c)
          \/ Cardinality(Docs(active)) >= P.concurrent - P.interactive_slots
          \/ Cardinality(Same(Docs(active), c)) >= P.per_job_concurrent
          \/ Cardinality(Same(Docs(Recent), c)) >= P.per_job_rpm

AdmissionInit == started = [c \in Call |-> NoRow] /\ active = {}

CanAcquire(c) == Estimate(c) <= TokenCap(c) /\ ~Denied(c) /\ started[c] = NoRow

\* Mutated: a slot is freed after a minute, as a lease would be.
AcquireExpiring(c) ==
    /\ CanAcquire(c)
    /\ started' = [started EXCEPT ![c] = now]
    /\ active' = (active \cap Recent) \cup {c}

Acquire(c) ==
    /\ CanAcquire(c)
    /\ started' = [started EXCEPT ![c] = now]
    /\ active' = active \cup {c}

\* finish raises unless the row is active; outcome and usage are audit data.
Finish(c) ==
    /\ c \in active
    /\ active' = active \ {c}
    /\ UNCHANGED started

(* ---------------------------------------------------------------------- *)

\* Background work leaves the interactive share of slots and requests free, and one job
\* leaves room to the others (acquire, whatever crashes leave slots taken).
CallsRespected ==
    /\ Cardinality(active) <= P.concurrent
    /\ Cardinality(Docs(active)) <= P.concurrent - P.interactive_slots
    /\ Cardinality(Recent) <= P.rpm
    /\ Cardinality(Docs(Recent)) <= P.rpm - P.interactive_rpm
    /\ \A c \in Call : /\ Cardinality(Same(Docs(active), c)) <= P.per_job_concurrent
                       /\ Cardinality(Same(Docs(Recent), c)) <= P.per_job_rpm

\* The same for the tokens of a minute.
TokensRespected ==
    Reserved(Recent) <= P.tpm /\ Reserved(Docs(Recent)) <= P.tpm - P.interactive_tpm

\* The provider never sees more calls at once, or more requests or tokens in
\* any minute, than the policy allows, and background work leaves the
\* interactive share free: an interactive call can only be refused because of
\* other interactive calls (acquire).
SharesRespected == CallsRespected /\ TokensRespected
=============================================================================
