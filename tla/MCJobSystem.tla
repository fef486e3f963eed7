---------------------------- MODULE MCJobSystem ----------------------------
(* Instances of JobSystem for TLC. *)
EXTENDS JobSystem, TLC

WorkerSymmetry == Permutations(Workers)

OneJob(value) == [j \in Jobs |-> value]
NotResumed == OneJob(NoJob)
SameForAll == OneJob("same")
TwoAttempts(jitter) == OneJob([max_attempts |-> 2, base_seconds |-> 1, max_seconds |-> 1,
                               budget_seconds |-> 2, jitter_percent |-> jitter])
AnyDelay == TwoAttempts(100)
NoJitter == TwoAttempts(0)
JobOfStep == [s \in Steps |-> "j"]
Ownself == [s \in Steps |-> s]
KeyOfRef == [r \in Refs |-> r]
OutputOf == [s \in Steps |-> {"r1"}]

\* "b" needs "a"; a single step has no parents.
Chain == [s \in Steps |-> IF s = "b" THEN {"a"} ELSE {}]
ChainPosition == [s \in Steps |-> IF s = "b" THEN 1 ELSE 0]

\* Once the job has its verdict, what the relay still sends or marks is only
\* followed as far as the next state: no claim can come of it.
RelayMatters == \A j \in Jobs : jobState[j] \in TERMINAL => relay = IdleRelay
=============================================================================
