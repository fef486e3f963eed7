----------------------------- MODULE JobContract -----------------------------
(***************************************************************************)
(* What the job ledger promises to the clients of documents/jobs: a job    *)
(* gets one verdict, a step gets at most one result and only after its     *)
(* parents have theirs, a job is COMPLETED exactly when its last result is *)
(* accepted, and nothing is accepted once cancellation was requested.      *)
(* Leases, attempts, retries, dispatch and time do not appear.             *)
(***************************************************************************)
CONSTANTS Jobs, Steps, JobOf, DependsOn, Refs, NoResult

VARIABLES verdict, cancelling, result

contractVars == <<verdict, cancelling, result>>

Verdict == {"NONE", "OPEN", "COMPLETED", "FAILED", "CANCELLED"}

Init ==
    /\ verdict = [j \in Jobs |-> "NONE"]
    /\ cancelling = [j \in Jobs |-> FALSE]
    /\ result = [s \in Steps |-> NoResult]

StepsOf(j) == {s \in Steps : JobOf[s] = j}

\* The verdict of an open job once the results are res.
Graded(j, res) ==
    IF \A s \in StepsOf(j) : res[s] # NoResult THEN "COMPLETED" ELSE "OPEN"

\* A job starts, perhaps with results inherited from jobs that have a verdict.
Submit(j) ==
    /\ verdict[j] = "NONE"
    /\ \E inherited \in SUBSET StepsOf(j) : \E from \in [inherited -> Steps] :
          /\ \A s \in inherited :
                /\ DependsOn[s] \subseteq inherited
                /\ result[from[s]] # NoResult
                /\ verdict[JobOf[from[s]]] \in {"COMPLETED", "FAILED", "CANCELLED"}
          /\ result' = [s \in Steps |-> IF s \in inherited THEN result[from[s]] ELSE result[s]]
          /\ verdict' = [verdict EXCEPT ![j] = Graded(j, result')]
    /\ UNCHANGED cancelling

Accept(s, refs) ==
    /\ verdict[JobOf[s]] = "OPEN" /\ ~cancelling[JobOf[s]]
    /\ result[s] = NoResult
    /\ \A p \in DependsOn[s] : result[p] # NoResult
    /\ refs # {}
    /\ result' = [result EXCEPT ![s] = refs]
    /\ verdict' = [verdict EXCEPT ![JobOf[s]] = Graded(JobOf[s], result')]
    /\ UNCHANGED cancelling

\* Cancellation takes effect at once when no worker holds a step of the job.
RequestCancel(j) ==
    /\ verdict[j] = "OPEN"
    /\ cancelling' = [cancelling EXCEPT ![j] = TRUE]
    /\ \E v \in {"OPEN", "CANCELLED"} : verdict' = [verdict EXCEPT ![j] = v]
    /\ UNCHANGED result

\* Open jobs end without completing, several at a time when a reconciliation
\* pass ends them: CANCELLED if cancellation was requested, FAILED otherwise.
GiveUp ==
    /\ \E ended \in SUBSET {j \in Jobs : verdict[j] = "OPEN"} :
          verdict' = [j \in Jobs |->
              IF j \notin ended THEN verdict[j]
              ELSE IF cancelling[j] THEN "CANCELLED" ELSE "FAILED"]
    /\ UNCHANGED <<cancelling, result>>

Next ==
    \/ \E j \in Jobs : Submit(j) \/ RequestCancel(j)
    \/ \E s \in Steps, refs \in SUBSET Refs : Accept(s, refs)
    \/ GiveUp

ContractSpec == Init /\ [][Next]_contractVars
=============================================================================
