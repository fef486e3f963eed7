---------------------------- MODULE MCJobLedger ----------------------------
(* The instance of the ledger and its service for TLC: a job of two parallel
   steps, and a job that resumes it, with one of these steps and another that
   depends on it. *)
EXTENDS JobService, TLC

JobOfStep == [s \in Steps |-> IF s \in {"a1", "b1"} THEN "j1" ELSE "j2"]
UnitOf == [s \in Steps |-> IF s \in {"a1", "a2"} THEN "a" ELSE s]
Parents == [s \in Steps |-> IF s = "c2" THEN {"a2"} ELSE {}]
PlanPosition == [s \in Steps |-> IF s \in {"a1", "a2"} THEN 0 ELSE 1]
ResumeOf == [j \in Jobs |-> IF j = "j2" THEN "j1" ELSE NoJob]

Ownself == [j \in Jobs |-> j]
SameForAll == [j \in Jobs |-> "same"]
KeyOfRef == [r \in Refs |-> r]
SourceOf == [j \in Jobs |-> "source"]
OneAttempt == [j \in Jobs |-> [max_attempts |-> 1, base_seconds |-> 1, max_seconds |-> 1,
                               budget_seconds |-> 1, jitter_percent |-> 0]]

\* Asking again for an admitted job changes nothing, and damage to an object
\* matters only to a resume, which has to wait for the end of the first job.
\* A step of the second job is lent only after its message was marked delivered;
\* steps of the first are lent before that as well.
OnlyWhatMatters ==
    /\ \A j \in Jobs : Admitted(j) => call[j] = NoCall
    /\ damaged # {} => jobState["j1"] \in TERMINAL
    /\ \A s \in StepsOf("j2") : stepState[s] = "RUNNING" => outbox[s] = {}
=============================================================================
