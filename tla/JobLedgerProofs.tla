-------------------------- MODULE JobLedgerProofs ---------------------------
(* What holds of the job ledger for every set of jobs, plans, workers and settings:
   types of its operators, the operations one by one, the inductive invariant, and what
   follows from it: open jobs have work, orphans are safe, backoff keeps its dispatch, and
   the ledger implements the contract of JobContract. *)
EXTENDS JobLedger, WellFoundedInduction, TLAPS

\* A proof leaf is sent to Zenon unless it names another prover.
USE ZenonT(60)

\* Facts about sequences that the attempt rows of a step need.
LEMMA LenFacts ==
    ASSUME NEW S, NEW rows \in Seq(S)
    PROVE  /\ Len(rows) \in Nat /\ DOMAIN rows = 1 .. Len(rows)
           /\ \A n \in 1 .. Len(rows) : rows[n] \in S
BY SMTT(60)

\* A function on 1 .. k is a sequence of length k.
LEMMA FunctionIsSeq ==
    ASSUME NEW S, NEW k \in Nat, NEW rows \in [1 .. k -> S]
    PROVE  rows \in Seq(S) /\ Len(rows) = k
<1>1. rows \in Seq(S)  BY SMTT(60)
<1> QED  BY SMTT(60), <1>1

\* Append keeps the rows and adds one at the end.
LEMMA AppendFacts ==
    ASSUME NEW S, NEW rows \in Seq(S), NEW row \in S
    PROVE  /\ Append(rows, row) \in Seq(S)
           /\ Len(Append(rows, row)) = Len(rows) + 1
           /\ \A n \in 1 .. Len(rows) : Append(rows, row)[n] = rows[n]
           /\ Append(rows, row)[Len(rows) + 1] = row
BY SMTT(60)

\* The type of the columns SettleSteps writes or leaves alone.
SettledType ==
    /\ stepState \in [Steps -> StepState]
    /\ attemptCount \in [Steps -> Nat]
    /\ fence \in [Steps -> Nat]
    /\ leaseOwner \in [Steps -> Workers \cup {NoWorker}]
    /\ leaseLeft \in [Steps -> Nat]
    /\ waitLeft \in [Steps -> Nat]
    /\ budgetLeft \in [Steps -> Nat \cup {NotStarted}]
    /\ reusedFrom \in [Steps -> Steps \cup {NoStep}]
    /\ attempts \in [Steps -> Seq(Attempt)]
    /\ manifest \in [Steps -> Manifest \cup {NoManifest}]
    /\ intents \in [Steps -> SUBSET Refs]
    /\ deliveredAge \in [Steps -> 0 .. RedeliverySeconds]
    /\ deadLetters \subseteq Steps

\* Closing attempts keeps their number, workers and fences, and changes only the
\* outcome of those still RUNNING.
LEMMA ClosedProperties ==
    ASSUME TypeOK, NEW s \in Steps, NEW o \in Outcome
    PROVE  /\ Closed(s, o) \in Seq(Attempt)
           /\ Len(Closed(s, o)) = Len(attempts[s])
           /\ \A n \in 1 .. Len(attempts[s]) :
                /\ Closed(s, o)[n].worker = attempts[s][n].worker
                /\ Closed(s, o)[n].fence = attempts[s][n].fence
                /\ Closed(s, o)[n].outcome =
                      IF attempts[s][n].outcome = "RUNNING" THEN o ELSE attempts[s][n].outcome
<1> DEFINE rows == attempts[s]
<1>1. rows \in Seq(Attempt)  BY DEF TypeOK
<1>2. /\ Len(rows) \in Nat /\ DOMAIN rows = 1 .. Len(rows)
      /\ \A n \in 1 .. Len(rows) : rows[n] \in Attempt
  BY <1>1, LenFacts
<1>3. \A n \in 1 .. Len(rows) :
         /\ Closed(s, o)[n] \in Attempt
         /\ Closed(s, o)[n].worker = rows[n].worker
         /\ Closed(s, o)[n].fence = rows[n].fence
         /\ Closed(s, o)[n].outcome = IF rows[n].outcome = "RUNNING" THEN o ELSE rows[n].outcome
  BY <1>2 DEF Closed, Attempt
<1>4. Closed(s, o) \in [1 .. Len(rows) -> Attempt]
  BY <1>2, <1>3 DEF Closed
<1>5. Closed(s, o) \in Seq(Attempt)
  BY <1>2, <1>4, FunctionIsSeq
<1>6. Len(Closed(s, o)) = Len(rows)
  BY <1>2, <1>4, FunctionIsSeq
<1> QED  BY <1>3, <1>5, <1>6

\* The columns that fail, _terminal_failure, _cancel_step and reconcile write when
\* they settle steps keep their types.
LEMMA SettleStepsType ==
    ASSUME TypeOK, NEW failed \in SUBSET Steps, NEW cancelled \in SUBSET Steps,
           NEW wait, DOMAIN wait \subseteq Steps, \A s \in DOMAIN wait : wait[s] \in Nat,
           SettleSteps(failed, cancelled, wait)
    PROVE  SettledType'
<1>1. attempts' \in [Steps -> Seq(Attempt)]
  <2>1. \A s \in Steps, o \in Outcome : Closed(s, o) \in Seq(Attempt)
    BY ClosedProperties
  <2> QED  BY <2>1 DEF SettleSteps, TypeOK, Outcome
<1>2. stepState' \in [Steps -> StepState]
  BY DEF SettleSteps, TypeOK, StepState, Live, Waiting
<1>3. /\ leaseOwner' \in [Steps -> Workers \cup {NoWorker}]
      /\ leaseLeft' \in [Steps -> Nat]
      /\ waitLeft' \in [Steps -> Nat]
  BY DEF SettleSteps, TypeOK
<1>4. /\ deadLetters' \subseteq Steps
      /\ UNCHANGED <<attemptCount, fence, budgetLeft, resultVars, deliveredAge>>
  BY DEF SettleSteps, TypeOK
<1> QED  BY <1>1, <1>2, <1>3, <1>4 DEF SettledType, TypeOK, resultVars

\* _enqueue adds well-formed outbox rows only.
LEMMA EnqueueType ==
    ASSUME TypeOK, NEW wait, \A s \in DOMAIN wait : wait[s] \in Nat, Enqueue(wait)
    PROVE  outbox' \in [Steps -> SUBSET OutboxRow]
BY SMTT(60) DEF TypeOK, Enqueue, OutboxRow

\* _enqueue only adds rows, among them those it is asked for.
LEMMA EnqueueAdds ==
    ASSUME NEW wait, Enqueue(wait)
    PROVE  \A s \in Steps :
              /\ outbox[s] \subseteq outbox'[s]
              /\ s \in DOMAIN wait => [fence |-> fence[s], wait |-> wait[s]] \in outbox'[s]
BY DEF Enqueue

\* _refresh computes a job state of the enumeration.
LEMMA RefreshedType ==
    ASSUME NEW j, NEW state \in JobState, NEW cancel, NEW st
    PROVE  Refreshed(j, state, cancel, st) \in JobState
BY DEF Refreshed, JobState, TERMINAL

\* Refreshing the settled jobs (_refresh) keeps every job state in the enumeration.
LEMMA RefreshJobsType ==
    ASSUME TypeOK, NEW touched, NEW failed, RefreshJobs(touched, failed)
    PROVE  jobState' \in [Jobs -> JobState]
<1>1. "FAILED" \in JobState /\ \A j \in Jobs : jobState[j] \in JobState
  BY DEF JobState, TERMINAL, TypeOK
<1>2. \A j \in Jobs :
         Refreshed(j, IF \E s \in failed : JobOf[s] = j THEN "FAILED" ELSE jobState[j],
                   cancelRequested'[j], stepState') \in JobState
  BY <1>1, RefreshedType
<1> QED  BY <1>1, <1>2 DEF RefreshJobs

\* RetryPolicy.delay is a natural number of seconds.
LEMMA BackoffType ==
    ASSUME NEW s \in Steps
    PROVE  BackoffDelays(s) \subseteq Nat
<1>1. Policy[JobOf[s]].max_seconds \in Nat
  BY PlanAssumption, RequestAssumption DEF RetryPolicy
<1> QED  BY SMTT(60), <1>1 DEF BackoffDelays

\* A lease that was issued names a step and a worker.
LEMMA IssuedLeaseType ==
    ASSUME TypeOK, NEW l \in IssuedLeases
    PROVE  l.step \in Steps /\ l.owner \in Workers /\ l.fence \in Nat
<1>0. PICK s \in Steps : \E n \in DOMAIN attempts[s] :
         l = [step |-> s, owner |-> attempts[s][n].worker, fence |-> attempts[s][n].fence]
  BY DEF IssuedLeases
<1>1. PICK n \in DOMAIN attempts[s] :
         l = [step |-> s, owner |-> attempts[s][n].worker, fence |-> attempts[s][n].fence]
  BY <1>0
<1>2. attempts[s][n] \in Attempt
  <2>1. attempts[s] \in Seq(Attempt)  BY DEF TypeOK
  <2> QED  BY <1>1, <2>1, LenFacts
<1> QED  BY <1>1, <1>2 DEF Attempt

\* _activate assigns states of the enumeration only.
LEMMA ActivatedType ==
    ASSUME NEW j, NEW st \in [Steps -> StepState]
    PROVE  Activated(j, st) \in [Steps -> StepState]
BY DEF Activated, StepState, Live, Waiting

\* The rows _activate enqueues for steps it made READY are well formed.
LEMMA EnqueuedReadyType ==
    ASSUME TypeOK, NEW st, NEW next
    PROVE  EnqueuedReady(st, next) \in [Steps -> SUBSET OutboxRow]
BY SMTT(60) DEF EnqueuedReady, TypeOK, OutboxRow

-----------------------------------------------------------------------------
(***************************************************************************)
(* Failing, cancelling and reaping.  Six operations end leases or cancel   *)
(* steps through SettleSteps and RefreshJobs; each is a step of the shape  *)
(* below, and the invariant is preserved by every step of that shape.      *)
(***************************************************************************)
SettleAction(F, C, W, T) ==
    /\ F \subseteq Steps /\ C \subseteq Steps /\ DOMAIN W \subseteq Steps
    /\ \A s \in DOMAIN W :
          /\ W[s] \in Nat /\ stepState[s] = "RUNNING"
          /\ attemptCount[s] < Policy[JobOf[s]].max_attempts
          /\ ~cancelRequested'[JobOf[s]]
    /\ \A s \in F :
          /\ stepState[s] \in {"READY", "RUNNING", "RETRY_WAIT"}
          /\ s \notin C \cup DOMAIN W
          /\ ~cancelRequested'[JobOf[s]]
          /\ \A t \in Steps : JobOf[t] = JobOf[s] /\ t # s =>
                t \notin F /\ (stepState[t] \in Live => t \in C)
    /\ \A s \in C : /\ stepState[s] \in Live
                    /\ cancelRequested'[JobOf[s]] \/ \E f \in F : JobOf[f] = JobOf[s]
    /\ \A s \in F \cup C \cup DOMAIN W : JobOf[s] \in T
    /\ \A j \in T : jobState[j] \notin TERMINAL \cup {"ABSENT"}
    /\ cancelRequested' \in [Jobs -> BOOLEAN]
    /\ \A j \in Jobs :
          \/ cancelRequested'[j] = cancelRequested[j]
          \/ j \in T /\ cancelRequested'[j] /\ \A s \in StepsOf(j) : stepState[s] \in Waiting => s \in C
    /\ \/ cancelRequested' = cancelRequested
       \/ \E j \in Jobs : F = {} /\ T = {j} /\ cancelRequested' = [cancelRequested EXCEPT ![j] = TRUE]
    /\ outbox' \in [Steps -> SUBSET OutboxRow]
    /\ \A s \in Steps : /\ outbox[s] \subseteq outbox'[s]
                        /\ s \in DOMAIN W => [fence |-> fence[s], wait |-> W[s]] \in outbox'[s]
    /\ SettleSteps(F, C, W)
    /\ RefreshJobs(T, F)

\* A step of that shape.
Settling == \E F, C, W, T : SettleAction(F, C, W, T)

\* A settling step keeps what LedgerInv says of single steps: closing the last
\* attempt and clearing the lease happen in one transaction (fail, _cancel_step).
LEMMA SettleKeepsSteps ==
    ASSUME LedgerInv, NEW F, NEW C, NEW W, NEW T, SettleAction(F, C, W, T)
    PROVE  /\ TypeOK' /\ LeaseMatchesHistory' /\ AttemptsBounded' /\ ResultsAreFenced'
           /\ DependencyOrder'
<1>inv. /\ TypeOK /\ LeaseMatchesHistory /\ AttemptsBounded /\ ResultsAreFenced
        /\ DependencyOrder /\ VerdictMatchesSteps /\ CancellationFences /\ StepsMatchHistory
        /\ \A i \in Jobs : jobState[i] # "PARTIAL"
  BY DEF LedgerInv
<1>0. /\ F \in SUBSET Steps /\ C \in SUBSET Steps /\ DOMAIN W \subseteq Steps
      /\ \A s \in DOMAIN W : W[s] \in Nat /\ stepState[s] = "RUNNING"
      /\ \A s \in F : s \notin C /\ s \notin DOMAIN W
      /\ \A s \in F \cup C \cup DOMAIN W : stepState[s] \in Live
      /\ SettleSteps(F, C, W)
  BY DEF SettleAction, Live, Waiting
<1>1. TypeOK'
  <2>1. SettledType'  BY <1>inv, <1>0, SettleStepsType
  <2>2. jobState' \in [Jobs -> JobState]  BY <1>inv, RefreshJobsType DEF SettleAction
  <2> QED  BY <1>inv, <2>1, <2>2 DEF SettleAction, SettledType, TypeOK
<1>2. \A s \in Steps :
        /\ s \in F \cup C \cup DOMAIN W =>
              /\ stepState'[s] \in {"FAILED", "CANCELLED", "RETRY_WAIT"}
              /\ leaseOwner'[s] = NoWorker
              /\ \E o \in Outcome : o # "RUNNING" /\ attempts'[s] = Closed(s, o)
        /\ s \notin F \cup C \cup DOMAIN W =>
              stepState'[s] = stepState[s] /\ leaseOwner'[s] = leaseOwner[s] /\ attempts'[s] = attempts[s]
        /\ stepState'[s] = "SUCCEEDED" <=> stepState[s] = "SUCCEEDED"
  BY <1>0 DEF SettleSteps, Outcome, Live, Waiting
<1>3. UNCHANGED <<attemptCount, fence, manifest, reusedFrom, intents>>
  BY <1>0 DEF SettleSteps, resultVars
<1>4. LeaseMatchesHistory'
  <2> SUFFICES ASSUME NEW s \in Steps
               PROVE  LeaseHistory(s)'
    BY DEF LeaseMatchesHistory
  <2>1. CASE s \in F \cup C \cup DOMAIN W
    <3>1. PICK o \in Outcome : o # "RUNNING" /\ attempts'[s] = Closed(s, o)
      BY <1>2, <2>1
    <3>2. stepState'[s] # "RUNNING" /\ leaseOwner'[s] = NoWorker
      BY <1>2, <2>1
    <3>3. Len(attempts[s]) = fence[s] /\ attemptCount[s] = fence[s]
          /\ \A n \in 1 .. fence[s] : attempts[s][n].fence = n
      BY <1>inv DEF LeaseMatchesHistory, LeaseHistory
    <3> QED  BY SMTT(60), <1>inv, <1>3, <3>1, <3>2, <3>3, ClosedProperties DEF LeaseHistory
  <2>2. CASE s \notin F \cup C \cup DOMAIN W
    BY SMTT(60), <1>inv, <1>2, <1>3, <2>2 DEF LeaseMatchesHistory, LeaseHistory
  <2> QED  BY <2>1, <2>2
<1>5. AttemptsBounded'
  <2> SUFFICES ASSUME NEW s \in Steps
               PROVE  AttemptBound(s)'
    BY DEF AttemptsBounded
  <2>1. stepState'[s] \in Waiting => stepState[s] \in Waiting \/ s \in DOMAIN W
    BY <1>0, <1>2 DEF SettleSteps, Waiting
  <2> QED  BY <1>inv, <1>3, <2>1 DEF AttemptsBounded, AttemptBound, SettleAction
<1>6. ResultsAreFenced'
  <2>1. \A s \in Steps : manifest[s] # NoManifest => attempts'[s] = attempts[s]
    BY <1>inv, <1>0, <1>2 DEF ResultsAreFenced, FencedResult, Live, Waiting
  <2> QED  BY <1>inv, <1>2, <1>3, <2>1 DEF ResultsAreFenced, FencedResult
<1>7. DependencyOrder'
  <2> SUFFICES ASSUME NEW s \in Steps
               PROVE  ParentsFirst(s)'
    BY DEF DependencyOrder
  <2>1. DependsOn[s] \subseteq Steps  BY PlanAssumption
  <2>2. stepState'[s] \notin {"ABSENT", "PENDING", "CANCELLED"}
          => stepState[s] \notin {"ABSENT", "PENDING", "CANCELLED"}
    BY <1>0, <1>2 DEF SettleSteps, SettleAction
  <2> QED  BY <1>inv, <1>2, <1>3, <2>1, <2>2 DEF DependencyOrder, ParentsFirst
<1> QED  BY <1>1, <1>4, <1>5, <1>6, <1>7

\* What SettleAction does to the steps, as far as their jobs are concerned.
LEMMA SettledSteps ==
    ASSUME NEW F, NEW C, NEW W, NEW T, SettleAction(F, C, W, T)
    PROVE  /\ \A s \in Steps :
                /\ s \in F => stepState'[s] = "FAILED"
                /\ s \notin F /\ s \in C => stepState'[s] = "CANCELLED"
                /\ s \notin F /\ s \notin C /\ s \in DOMAIN W => stepState'[s] = "RETRY_WAIT"
                /\ s \notin F /\ s \notin C /\ s \notin DOMAIN W => stepState'[s] = stepState[s]
                /\ s \in F \cup C \cup DOMAIN W => stepState[s] \in Live /\ JobOf[s] \in T
                /\ stepState'[s] = "SUCCEEDED" <=> stepState[s] = "SUCCEEDED"
                /\ s \in deadLetters' <=> s \in deadLetters \/ s \in F
           /\ UNCHANGED <<fence, reusedFrom>>
<1>1. \A s \in Steps :
        /\ s \in F => stepState'[s] = "FAILED"
        /\ s \notin F /\ s \in C => stepState'[s] = "CANCELLED"
        /\ s \notin F /\ s \notin C /\ s \in DOMAIN W => stepState'[s] = "RETRY_WAIT"
        /\ s \notin F /\ s \notin C /\ s \notin DOMAIN W => stepState'[s] = stepState[s]
        /\ s \in F \cup C \cup DOMAIN W => stepState[s] \in Live /\ JobOf[s] \in T
        /\ stepState'[s] = "SUCCEEDED" <=> stepState[s] = "SUCCEEDED"
        /\ s \in deadLetters' <=> s \in deadLetters \/ s \in F
  BY DEF SettleAction, SettleSteps, Live, Waiting
<1>2. UNCHANGED <<fence, reusedFrom>>
  BY DEF SettleAction, SettleSteps, resultVars
<1> QED  BY <1>1, <1>2

\* The verdict of a job and what it says of cancelled steps, after a settlement.
JobSettled(j) ==
    /\ Verdict(j)' /\ CancelFence(j)'
    /\ jobState'[j] # "PARTIAL"
    /\ jobState'[j] # "ABSENT" <=> jobState[j] # "ABSENT"
    /\ \A s \in StepsOf(j) : stepState'[s] = "CANCELLED" =>
          jobState'[j] \in {"CANCEL_REQUESTED", "CANCELLED", "FAILED"}

\* A job none of whose steps is settled keeps its verdict.
LEMMA SettleOtherJob ==
    ASSUME LedgerInv, NEW F, NEW C, NEW W, NEW T, SettleAction(F, C, W, T), NEW j \in Jobs, j \notin T
    PROVE  JobSettled(j)
<1>1. \A s \in StepsOf(j) : stepState'[s] = stepState[s] /\ (s \in deadLetters' <=> s \in deadLetters)
  BY SMTT(60), SettledSteps DEF StepsOf
<1>2. jobState'[j] = jobState[j] /\ cancelRequested'[j] = cancelRequested[j]
  BY DEF SettleAction, RefreshJobs
<1>3. Verdict(j) /\ CancelFence(j) /\ jobState[j] # "PARTIAL"
  BY DEF LedgerInv, VerdictMatchesSteps, CancellationFences
<1>4. \A s \in StepsOf(j) : stepState[s] = "CANCELLED" =>
         jobState[j] \in {"CANCEL_REQUESTED", "CANCELLED", "FAILED"}
  BY DEF LedgerInv, StepsMatchHistory, StepHistory, StepsOf
<1> QED  BY <1>1, <1>2, <1>3, <1>4 DEF JobSettled, Verdict, CancelFence

\* A job with a step that failed for good is FAILED, by that step alone.
LEMMA SettleFailedJob ==
    ASSUME LedgerInv, NEW F, NEW C, NEW W, NEW T, SettleAction(F, C, W, T), NEW j \in T, j \in Jobs,
           NEW f \in F, JobOf[f] = j
    PROVE  JobSettled(j)
<1>1. jobState'[j] = "FAILED"
  BY DEF SettleAction, RefreshJobs, Refreshed, TERMINAL
<1>2. f \in Steps /\ f \in StepsOf(j) /\ ~cancelRequested'[j] /\ jobState[j] \notin TERMINAL \cup {"ABSENT"}
  BY DEF SettleAction, StepsOf
<1>3. stepState'[f] = "FAILED" /\ f \in deadLetters'
  BY <1>2, SettledSteps
<1>4. \A s \in StepsOf(j) : s # f => s \notin F /\ (stepState[s] \in Live => s \in C)
  BY DEF SettleAction, StepsOf
<1>5. \A s \in StepsOf(j) : stepState[s] # "FAILED" /\ s \notin deadLetters
  BY <1>2 DEF LedgerInv, VerdictMatchesSteps, Verdict, TERMINAL
<1>6. \A s \in StepsOf(j) : s # f =>
         stepState'[s] \notin Live /\ stepState'[s] # "FAILED" /\ s \notin deadLetters'
  BY SMTT(60), <1>4, <1>5, SettledSteps DEF StepsOf, Live, Waiting
<1> QED  BY <1>1, <1>2, <1>3, <1>6 DEF JobSettled, Verdict, CancelFence, TERMINAL, Live, Waiting

\* What _refresh makes of a job that had no verdict yet and no step of which failed
\* for good.
LEMMA SettleOpenJob ==
    ASSUME LedgerInv, NEW F, NEW C, NEW W, NEW T, SettleAction(F, C, W, T), NEW j \in T, j \in Jobs,
           \A f \in F : JobOf[f] # j
    PROVE  JobSettled(j)
<1>1. /\ jobState'[j] = Refreshed(j, jobState[j], cancelRequested'[j], stepState')
      /\ jobState[j] \notin TERMINAL \cup {"ABSENT"} /\ cancelRequested'[j] \in BOOLEAN
  BY DEF SettleAction, RefreshJobs
<1>2. \A s \in StepsOf(j) : s \in Steps /\ s \notin F  BY DEF StepsOf
<1>3. /\ \A s \in StepsOf(j) : stepState[s] # "FAILED" /\ s \notin deadLetters
      /\ \E s \in StepsOf(j) : stepState[s] # "SUCCEEDED"
  BY <1>1 DEF LedgerInv, VerdictMatchesSteps, Verdict, TERMINAL
<1>4. /\ \A s \in StepsOf(j) : stepState'[s] # "FAILED" /\ s \notin deadLetters'
      /\ \E s \in StepsOf(j) : stepState'[s] # "SUCCEEDED"
  BY <1>2, <1>3, SettledSteps
<1>5. CASE cancelRequested'[j]
  <2>1. \A s \in StepsOf(j) : stepState[s] \in Waiting => s \in C
    BY <1>5 DEF LedgerInv, SettleAction, CancellationFences, CancelFence
  <2>2. \A s \in StepsOf(j) : stepState'[s] \notin Waiting
    <3>1. \A s \in DOMAIN W : ~cancelRequested'[JobOf[s]]  BY DEF SettleAction
    <3> QED  BY SMTT(60), <1>2, <1>5, <2>1, <3>1, SettledSteps DEF StepsOf, Waiting
  <2> QED  BY <1>1, <1>4, <1>5, <2>2 DEF JobSettled, Verdict, CancelFence, Refreshed, TERMINAL, Live
<1>6. CASE ~cancelRequested'[j]
  <2>1. jobState'[j] \in {"PROCESSING", "QUEUED"}
    BY <1>1, <1>4, <1>6 DEF Refreshed
  <2>2. ~cancelRequested[j] /\ \A s \in StepsOf(j) : s \notin C
    BY <1>6 DEF SettleAction, StepsOf
  <2>3. \A s \in StepsOf(j) : stepState[s] # "CANCELLED"
    BY SMTT(60), <1>1, <2>2 DEF LedgerInv, StepsMatchHistory, StepHistory, CancellationFences, CancelFence,
                      StepsOf, TERMINAL
  <2>4. \A s \in StepsOf(j) : stepState'[s] # "CANCELLED"
    BY SMTT(60), <1>2, <2>2, <2>3, SettledSteps
  <2> QED  BY <1>1, <1>4, <1>6, <2>1, <2>4 DEF JobSettled, Verdict, CancelFence, TERMINAL
<1> QED  BY <1>1, <1>5, <1>6

\* Every job has the right verdict after a settlement, and every step the right history.
LEMMA SettleKeepsJobs ==
    ASSUME LedgerInv, NEW F, NEW C, NEW W, NEW T, SettleAction(F, C, W, T)
    PROVE  /\ VerdictMatchesSteps' /\ CancellationFences' /\ StepsMatchHistory'
           /\ \A j \in Jobs : jobState'[j] # "PARTIAL"
<1>1. ASSUME NEW j \in Jobs PROVE JobSettled(j)
  <2>1. CASE j \notin T  BY <2>1, SettleOtherJob
  <2>2. CASE j \in T /\ \E f \in F : JobOf[f] = j  BY <2>2, SettleFailedJob
  <2>3. CASE j \in T /\ \A f \in F : JobOf[f] # j  BY <2>3, SettleOpenJob
  <2> QED  BY <2>1, <2>2, <2>3
<1>2. ASSUME NEW s \in Steps PROVE StepHistory(s)'
  <2>1. JobOf[s] \in Jobs /\ s \in StepsOf(JobOf[s]) /\ DependsOn[s] \subseteq Steps
    BY PlanAssumption DEF StepsOf
  <2>2. StepHistory(s)
    BY DEF LedgerInv, StepsMatchHistory
  <2>3. /\ jobState'[JobOf[s]] = "ABSENT" <=> jobState[JobOf[s]] = "ABSENT"
        /\ stepState'[s] = "CANCELLED" =>
              jobState'[JobOf[s]] \in {"CANCEL_REQUESTED", "CANCELLED", "FAILED"}
    BY <1>1, <2>1 DEF JobSettled
  <2>4. /\ \A p \in DependsOn[s] : stepState'[p] = "SUCCEEDED" <=> stepState[p] = "SUCCEEDED"
        /\ stepState'[s] = stepState[s] \/ stepState'[s] \in {"FAILED", "CANCELLED", "RETRY_WAIT"}
        /\ stepState'[s] # stepState[s] => stepState[s] \in Live
        /\ fence' = fence /\ reusedFrom' = reusedFrom
    BY <2>1, SettledSteps
  <2> QED  BY <2>2, <2>3, <2>4 DEF StepHistory, Live, Waiting
<1> QED  BY <1>1, <1>2 DEF JobSettled, VerdictMatchesSteps, CancellationFences, StepsMatchHistory

\* Every operation with the shape of SettleAction keeps the invariant.
LEMMA SettlingKeepsInv ==
    ASSUME LedgerInv, Settling
    PROVE  LedgerInv'
BY SettleKeepsSteps, SettleKeepsJobs DEF LedgerInv, Settling

\* A lease the ledger accepts is the current one of a step that may still run.
LEMMA ValidLease ==
    ASSUME NEW l, LeaseError(l) = "ok"
    PROVE  /\ fence[l.step] = l.fence /\ leaseOwner[l.step] = l.owner
           /\ stepState[l.step] = "RUNNING"
           /\ ~cancelRequested[JobOf[l.step]] /\ jobState[JobOf[l.step]] \notin TERMINAL
           /\ leaseLeft[l.step] # 0
BY DEF LeaseError

\* A step whose lease the ledger accepts belongs to a job that may still change:
\* no verdict and no cancellation.
LEMMA ValidLeaseClaimable ==
    ASSUME LedgerInv, NEW l, l.step \in Steps, LeaseError(l) = "ok"
    PROVE  Claimable(l.step)
<1>1. jobState[JobOf[l.step]] # "ABSENT"
  BY ValidLease DEF LedgerInv, StepsMatchHistory, StepHistory
<1> QED  BY <1>1, ValidLease DEF Claimable

-----------------------------------------------------------------------------
(* Failing, retrying, cancelling and reconciling. *)

\* _failure, when it schedules another attempt, is a settling step.
LEMMA RetrySettles ==
    ASSUME LedgerInv, NEW s \in Steps, NEW delay \in Nat, stepState[s] = "RUNNING",
           Claimable(s), CanRetry(s, "RETRYABLE", delay), UNCHANGED cancelRequested,
           Retry(s, delay)
    PROVE  Settling
<1> DEFINE W == [t \in {s} |-> delay]
<1>1. outbox' \in [Steps -> SUBSET OutboxRow]
  BY EnqueueType DEF Retry, LedgerInv
<1>2. cancelRequested' \in [Jobs -> BOOLEAN]
  BY DEF LedgerInv, TypeOK
<1>3. \A t \in Steps : /\ outbox[t] \subseteq outbox'[t]
                       /\ t \in DOMAIN W => [fence |-> fence[t], wait |-> W[t]] \in outbox'[t]
  BY EnqueueAdds DEF Retry
<1>4. SettleAction({}, {}, W, {JobOf[s]})
  BY <1>1, <1>2, <1>3 DEF SettleAction, Retry, CanRetry, Claimable
<1> QED  BY <1>4 DEF Settling

\* _terminal_failure, which also closes the siblings and the job, is a settling
\* step.
LEMMA TerminalFailureSettles ==
    ASSUME LedgerInv, NEW s \in Steps, stepState[s] \in {"READY", "RUNNING", "RETRY_WAIT"},
           Claimable(s), UNCHANGED cancelRequested, TerminalFailure(s)
    PROVE  Settling
<1>1. outbox' \in [Steps -> SUBSET OutboxRow] /\ cancelRequested' \in [Jobs -> BOOLEAN]
  BY DEF LedgerInv, TypeOK, TerminalFailure
<1>2. DOMAIN Nobody = {}
  BY DEF Nobody
<1>3. SettleAction({s}, Siblings(s), Nobody, {JobOf[s]})
  BY <1>1, <1>2 DEF SettleAction, TerminalFailure, Siblings, StepsOf, Claimable
<1> QED  BY <1>3 DEF Settling

\* _failure is a settling step whichever way it decides.
LEMMA FailureSettles ==
    ASSUME LedgerInv, NEW s \in Steps, NEW c, NEW delay \in Nat, stepState[s] = "RUNNING",
           Claimable(s), Failure(s, c, delay)
    PROVE  Settling
<1>1. CASE CanRetry(s, c, delay)
  <2>1. CanRetry(s, "RETRYABLE", delay)  BY <1>1 DEF CanRetry
  <2> QED  BY <1>1, <2>1, RetrySettles DEF Failure
<1>2. CASE ~CanRetry(s, c, delay)
  BY <1>2, TerminalFailureSettles DEF Failure
<1> QED  BY <1>1, <1>2

\* A claim that gives up a step whose budget is spent, or reaps an expired lease,
\* is a settling step.
LEMMA ClaimFailsSettles ==
    ASSUME LedgerInv, NEW s \in Steps, ClaimFails(s)
    PROVE  Settling
<1>1. CASE ClaimReaps(s)
  <2>1. PICK delay \in BackoffDelays(s) : Failure(s, "RETRYABLE", delay)
    BY <1>1 DEF ClaimReaps
  <2> QED  BY <1>1, <2>1, BackoffType, FailureSettles DEF ClaimReaps, LeaseLost
<1>2. CASE ClaimExhausted(s)
  BY <1>2, TerminalFailureSettles DEF ClaimExhausted, Due
<1> QED  BY <1>1, <1>2 DEF ClaimFails

\* The two operations that request cancellation: every step no worker holds, and
\* perhaps one that is running, is cancelled.
LEMMA CancelShape ==
    ASSUME LedgerInv, NEW j \in Jobs, NEW held \in SUBSET StepsOf(j),
           \A s \in held : stepState[s] = "RUNNING",
           jobState[j] \notin TERMINAL \cup {"ABSENT"},
           cancelRequested' = [cancelRequested EXCEPT ![j] = TRUE],
           SettleSteps({}, Unheld(j) \cup held, Nobody), RefreshJobs({j}, {}), UNCHANGED outbox
    PROVE  Settling
<1>1. outbox' \in [Steps -> SUBSET OutboxRow] /\ cancelRequested' \in [Jobs -> BOOLEAN]
  BY DEF LedgerInv, TypeOK
<1>2. DOMAIN Nobody = {}
  BY DEF Nobody
<1>3. cancelRequested'[j] /\ \A i \in Jobs : i # j => cancelRequested'[i] = cancelRequested[i]
  BY DEF LedgerInv, TypeOK
<1>4. SettleAction({}, Unheld(j) \cup held, Nobody, {j})
  BY <1>1, <1>2, <1>3 DEF SettleAction, Unheld, StepsOf, Live
<1> QED  BY <1>4 DEF Settling

\* cancel is a settling step.
LEMMA CancelSettles ==
    ASSUME LedgerInv, NEW j \in Jobs, Cancel(j)
    PROVE  Settling
<1> DEFINE held == {}
<1>1. Unheld(j) \cup held = Unheld(j)  OBVIOUS
<1>2. SettleSteps({}, Unheld(j) \cup held, Nobody)  BY <1>1 DEF Cancel
<1>3. held \in SUBSET StepsOf(j) /\ \A s \in held : stepState[s] = "RUNNING"  OBVIOUS
<1>4. /\ jobState[j] \notin TERMINAL \cup {"ABSENT"}
      /\ cancelRequested' = [cancelRequested EXCEPT ![j] = TRUE]
      /\ RefreshJobs({j}, {}) /\ UNCHANGED outbox
  BY DEF Cancel, Admitted
<1> HIDE DEF held
<1> QED  BY <1>2, <1>3, <1>4, CancelShape

\* fail is a settling step for every classification and Retry-After.
LEMMA FailSettles ==
    ASSUME LedgerInv, NEW l \in IssuedLeases, NEW c, NEW after \in RetryAfters, Fail(l, c, after)
    PROVE  Settling
<1>1. l.step \in Steps /\ JobOf[l.step] \in Jobs
  BY IssuedLeaseType, PlanAssumption DEF LedgerInv
<1>2. LeaseError(l) = "ok"
  BY DEF Fail, FailCancelled, FailAttempt
<1>3. stepState[l.step] = "RUNNING" /\ Claimable(l.step)
  BY <1>1, <1>2, ValidLease, ValidLeaseClaimable
<1>4. CASE FailCancelled(l)
  <2>1. {l.step} \in SUBSET StepsOf(JobOf[l.step])  BY <1>1 DEF StepsOf
  <2> QED  BY <1>1, <1>3, <1>4, <2>1, CancelShape DEF FailCancelled, Claimable
<1>5. CASE FailAttempt(l, c, after)
  <2>1. PICK d \in BackoffDelays(l.step) :
           Failure(l.step, c, IF d > after THEN d ELSE after)
    BY <1>5 DEF FailAttempt
  <2>2. d \in Nat /\ after \in Nat
    BY <1>1, BackoffType, SettingsAssumption
  <2> QED  BY <1>1, <1>3, <2>1, <2>2, FailureSettles
<1> QED  BY <1>4, <1>5 DEF Fail

\* settle_cancel is a settling step.
LEMMA SettleCancelSettles ==
    ASSUME LedgerInv, NEW l \in IssuedLeases, SettleCancel(l)
    PROVE  Settling
<1>1. l.step \in Steps /\ JobOf[l.step] \in Jobs
  BY IssuedLeaseType, PlanAssumption DEF LedgerInv
<1>2. stepState[l.step] = "RUNNING" /\ cancelRequested[JobOf[l.step]]
  BY DEF SettleCancel, SettleError
<1>3. outbox' \in [Steps -> SUBSET OutboxRow] /\ cancelRequested' \in [Jobs -> BOOLEAN]
  BY DEF LedgerInv, TypeOK, SettleCancel
<1>4. DOMAIN Nobody = {}
  BY DEF Nobody
<1>5. jobState[JobOf[l.step]] \notin TERMINAL \cup {"ABSENT"}
  BY SMTT(60), <1>1, <1>2 DEF LedgerInv, VerdictMatchesSteps, Verdict, StepsMatchHistory, StepHistory, StepsOf, Live
<1>6. SettleAction({}, {l.step}, Nobody, {JobOf[l.step]})
  BY <1>1, <1>2, <1>3, <1>4, <1>5 DEF SettleAction, SettleCancel, Live
<1> QED  BY <1>6 DEF Settling

\* A batch of reconcile is a part of what its query selects.
LEMMA BatchesType ==
    ASSUME NEW S, NEW B \in Batches(S)
    PROVE  B \subseteq S
BY DEF Batches

\* reconcile is a settling step: the leases it reaps, the cancelled leases it
\* settles and the rows it enqueues again touch no finished job.
LEMMA ReconcileSettles ==
    ASSUME LedgerInv, Reconcile
    PROVE  Settling
<1>1. PICK reaped \in Batches({s \in Steps : LeaseLost(s)}), stranded \in Batches(Stranded) :
      \E delay \in [reaped -> UNION {BackoffDelays(s) : s \in reaped}],
         culprits \in SUBSET reaped, retried \in SUBSET reaped :
      LET cancelled == {s \in reaped : ~Claimable(s)} \cup stranded
                       \cup UNION {Siblings(c) : c \in culprits}
      IN  \E missing \in Batches({s \in Steps \ cancelled : Undispatched(s)}) :
          /\ ReapOutcome(reaped, delay, culprits, retried)
          /\ SettleSteps(culprits, cancelled, [s \in retried |-> delay[s]])
          /\ Enqueue([s \in retried \cup missing |-> IF s \in retried THEN delay[s] ELSE 0])
          /\ UNCHANGED cancelRequested
          /\ RefreshJobs({JobOf[s] : s \in reaped \cup stranded}, culprits)
  BY DEF Reconcile
<1>2. PICK delay \in [reaped -> UNION {BackoffDelays(s) : s \in reaped}],
           culprits \in SUBSET reaped, retried \in SUBSET reaped :
      LET cancelled == {s \in reaped : ~Claimable(s)} \cup stranded
                       \cup UNION {Siblings(c) : c \in culprits}
      IN  \E missing \in Batches({s \in Steps \ cancelled : Undispatched(s)}) :
          /\ ReapOutcome(reaped, delay, culprits, retried)
          /\ SettleSteps(culprits, cancelled, [s \in retried |-> delay[s]])
          /\ Enqueue([s \in retried \cup missing |-> IF s \in retried THEN delay[s] ELSE 0])
          /\ UNCHANGED cancelRequested
          /\ RefreshJobs({JobOf[s] : s \in reaped \cup stranded}, culprits)
  BY <1>1
<1> DEFINE C == {s \in reaped : ~Claimable(s)} \cup stranded \cup UNION {Siblings(c) : c \in culprits}
           W == [s \in retried |-> delay[s]]
           T == {JobOf[s] : s \in reaped \cup stranded}
<1>3. PICK missing :
          /\ ReapOutcome(reaped, delay, culprits, retried)
          /\ SettleSteps(culprits, C, W)
          /\ Enqueue([s \in retried \cup missing |-> IF s \in retried THEN delay[s] ELSE 0])
          /\ UNCHANGED cancelRequested
          /\ RefreshJobs(T, culprits)
  BY <1>2
<1>4. /\ reaped \subseteq Steps
      /\ \A s \in reaped : stepState[s] = "RUNNING"
  BY <1>1, BatchesType DEF LeaseLost
<1>5. stranded = {}
  <2>1. Stranded = {}
    BY PlanAssumption DEF LedgerInv, VerdictMatchesSteps, Verdict, Stranded, StepsOf
  <2> QED  BY <1>1, <2>1, BatchesType
<1>6. \A s \in reaped : JobOf[s] \in Jobs /\ jobState[JobOf[s]] \notin TERMINAL \cup {"ABSENT"}
  BY SMTT(60), <1>4, PlanAssumption DEF LedgerInv, VerdictMatchesSteps, Verdict, StepsMatchHistory, StepHistory, StepsOf, Live
<1>7. \A s \in reaped : delay[s] \in Nat
  BY <1>3, <1>4, BackoffType DEF ReapOutcome
<1>8. outbox' \in [Steps -> SUBSET OutboxRow] /\ cancelRequested' \in [Jobs -> BOOLEAN]
  <2>1. outbox' \in [Steps -> SUBSET OutboxRow]
    BY <1>3, <1>7, EnqueueType DEF LedgerInv
  <2> QED  BY <1>3, <2>1 DEF LedgerInv, TypeOK
<1>rows. \A s \in Steps : /\ outbox[s] \subseteq outbox'[s]
                          /\ s \in DOMAIN W => [fence |-> fence[s], wait |-> W[s]] \in outbox'[s]
  <2>1. \A s \in Steps :
           /\ outbox[s] \subseteq outbox'[s]
           /\ s \in retried => [fence |-> fence[s], wait |-> delay[s]] \in outbox'[s]
    BY <1>3 DEF Enqueue
  <2> QED  BY <2>1
<1>9. \A s \in DOMAIN W :
          /\ W[s] \in Nat /\ stepState[s] = "RUNNING"
          /\ attemptCount[s] < Policy[JobOf[s]].max_attempts
          /\ ~cancelRequested'[JobOf[s]]
  BY <1>3, <1>4, <1>7 DEF ReapOutcome, CanRetry, Claimable
<1>10. \A s \in culprits :
          /\ stepState[s] \in {"READY", "RUNNING", "RETRY_WAIT"}
          /\ s \notin C \cup DOMAIN W
          /\ ~cancelRequested'[JobOf[s]]
          /\ \A t \in Steps : JobOf[t] = JobOf[s] /\ t # s =>
                t \notin culprits /\ (stepState[t] \in Live => t \in C)
  <2>1. \A s \in culprits :
          /\ s \in reaped /\ Claimable(s) /\ s \notin retried
          /\ \A d \in culprits : JobOf[d] = JobOf[s] => d = s
    BY <1>3 DEF ReapOutcome
  <2>2. \A s, c \in culprits : s \notin Siblings(c)
    BY <2>1 DEF Siblings, StepsOf
  <2>3. \A s \in culprits : \A t \in Steps :
           JobOf[t] = JobOf[s] /\ t # s /\ stepState[t] \in Live => t \in Siblings(s)
    BY DEF Siblings, StepsOf
  <2>4. \A s \in culprits : s \notin C \cup DOMAIN W
    BY SMTT(60), <1>5, <2>1, <2>2
  <2>5. \A s \in culprits : stepState[s] = "RUNNING" /\ ~cancelRequested'[JobOf[s]]
    BY <1>3, <1>4, <2>1 DEF Claimable
  <2>6. \A s \in culprits : Siblings(s) \subseteq C
    OBVIOUS
  <2> HIDE DEF C, W
  <2> QED  BY <2>1, <2>3, <2>4, <2>5, <2>6
<1>11. \A s \in C : /\ s \in Steps /\ stepState[s] \in Live
                    /\ cancelRequested'[JobOf[s]] \/ \E f \in culprits : JobOf[f] = JobOf[s]
                    /\ JobOf[s] \in T
  BY <1>3, <1>4, <1>5, <1>6 DEF Siblings, StepsOf, Claimable, Live
<1>12. SettleAction(culprits, C, W, T)
  <2>1. culprits \subseteq Steps /\ C \subseteq Steps /\ DOMAIN W \subseteq Steps
    BY <1>4, <1>11
  <2>2. \A s \in culprits \cup C \cup DOMAIN W : JobOf[s] \in T
    BY <1>11
  <2>3. \A j \in T : jobState[j] \notin TERMINAL \cup {"ABSENT"}
    BY <1>5, <1>6
  <2>4. cancelRequested' = cancelRequested
    BY <1>3
  <2>5. \A s \in C : /\ stepState[s] \in Live
                     /\ cancelRequested'[JobOf[s]] \/ \E f \in culprits : JobOf[f] = JobOf[s]
    BY <1>11
  <2> HIDE DEF C, W, T
  <2> QED  BY <1>3, <1>8, <1>rows, <1>9, <1>10, <2>1, <2>2, <2>3, <2>4, <2>5 DEF SettleAction
<1> QED  BY <1>12 DEF Settling

-----------------------------------------------------------------------------
(* Lending a step to a worker. *)

\* What lending step s relies on,
LendGuard(s) ==
    /\ JobOf[s] \in Jobs /\ s \in StepsOf(JobOf[s])
    /\ ~cancelRequested[JobOf[s]] /\ jobState[JobOf[s]] \notin TERMINAL \cup {"ABSENT"}
    /\ stepState[s] \in {"READY", "RETRY_WAIT", "RUNNING"}

\* what the new attempt rows look like: a closed history and the row of worker w,
LendRows(s, w, rows) ==
    /\ fence[s] \in Nat /\ fence[s] < Policy[JobOf[s]].max_attempts
    /\ Len(rows) = fence[s] + 1 /\ rows \in Seq(Attempt)
    /\ \A n \in 1 .. fence[s] : rows[n].fence = n /\ rows[n].outcome # "RUNNING"
    /\ rows[fence[s] + 1] = [worker |-> w, fence |-> fence[s] + 1, outcome |-> "RUNNING"]

\* what is written,
LendWrites(s, w, rows) ==
    /\ stepState'[s] = "RUNNING" /\ fence'[s] = fence[s] + 1 /\ attemptCount'[s] = fence[s] + 1
    /\ leaseOwner'[s] = w /\ attempts'[s] = rows
    /\ \A t \in Steps : t # s =>
          /\ stepState'[t] = stepState[t] /\ fence'[t] = fence[t] /\ leaseOwner'[t] = leaseOwner[t]
          /\ attemptCount'[t] = attemptCount[t] /\ attempts'[t] = attempts[t]

\* and what is left alone.
LendFrame(s) ==
    /\ UNCHANGED <<cancelRequested, manifest, reusedFrom, intents, deadLetters>>
    /\ RefreshJobs({JobOf[s]}, {})

LendEffect(s, w, rows) ==
    LendGuard(s) /\ LendRows(s, w, rows) /\ LendWrites(s, w, rows) /\ LendFrame(s)

\* Lend has that effect on a step that may run and has an attempt left.
LEMMA LendHasEffect ==
    ASSUME LedgerInv, NEW s \in Steps, NEW w \in Workers, NEW rows \in Seq(Attempt),
           Claimable(s), stepState[s] \in {"READY", "RETRY_WAIT", "RUNNING"},
           attemptCount[s] < Policy[JobOf[s]].max_attempts,
           Len(rows) = fence[s],
           \A n \in 1 .. fence[s] : rows[n].fence = n /\ rows[n].outcome # "RUNNING",
           Lend(s, w, rows)
    PROVE  LendEffect(s, w, attempts'[s])
<1>1. PICK row : row = [worker |-> w, fence |-> fence[s] + 1, outcome |-> "RUNNING"]
  OBVIOUS
<1>2. /\ JobOf[s] \in Jobs /\ s \in StepsOf(JobOf[s]) /\ fence[s] \in Nat /\ attemptCount[s] = fence[s]
      /\ ~cancelRequested[JobOf[s]] /\ jobState[JobOf[s]] \notin TERMINAL \cup {"ABSENT"}
  BY SMTT(60), PlanAssumption DEF Claimable, StepsOf, LedgerInv, TypeOK, LeaseMatchesHistory, LeaseHistory
<1>3. /\ Append(rows, row) \in Seq(Attempt) /\ Len(Append(rows, row)) = fence[s] + 1
      /\ \A n \in 1 .. fence[s] : Append(rows, row)[n] = rows[n]
      /\ Append(rows, row)[fence[s] + 1] = row
  <2>1. row \in Attempt  BY SMTT(60), <1>1, <1>2 DEF Attempt, Outcome
  <2> QED  BY SMTT(60), <1>2, <2>1, AppendFacts
<1>4. /\ stepState'[s] = "RUNNING" /\ fence'[s] = fence[s] + 1 /\ attemptCount'[s] = fence[s] + 1
      /\ leaseOwner'[s] = w /\ attempts'[s] = Append(rows, row)
      /\ \A t \in Steps : t # s =>
            /\ stepState'[t] = stepState[t] /\ fence'[t] = fence[t] /\ leaseOwner'[t] = leaseOwner[t]
            /\ attemptCount'[t] = attemptCount[t] /\ attempts'[t] = attempts[t]
  BY <1>1, <1>2 DEF Lend, LedgerInv, TypeOK
<1>5. /\ UNCHANGED <<cancelRequested, manifest, reusedFrom, intents, deadLetters>>
      /\ RefreshJobs({JobOf[s]}, {})
  BY DEF Lend, resultVars
<1>6. \A n \in 1 .. fence[s] : Append(rows, row)[n].fence = n /\ Append(rows, row)[n].outcome # "RUNNING"
  BY <1>3
<1>7. LendGuard(s) /\ LendFrame(s)  BY <1>2, <1>5 DEF LendGuard, LendFrame
<1>8. LendRows(s, w, attempts'[s])  BY <1>1, <1>2, <1>3, <1>4, <1>6 DEF LendRows
<1>9. LendWrites(s, w, attempts'[s])  BY <1>4 DEF LendWrites
<1> QED  BY <1>7, <1>8, <1>9 DEF LendEffect

\* Lending keeps the types of the columns.
LEMMA LendKeepsTypes ==
    ASSUME LedgerInv, NEW s \in Steps, NEW w \in Workers, NEW rows, Lend(s, w, rows),
           LendEffect(s, w, attempts'[s]), outbox' \in [Steps -> SUBSET OutboxRow]
    PROVE  TypeOK'
<1>1. TypeOK  BY DEF LedgerInv
<1>2. jobState' \in [Jobs -> JobState]  BY <1>1, RefreshJobsType DEF LendEffect, LendFrame
<1>3. Policy[JobOf[s]].budget_seconds \in Nat
  BY PlanAssumption, RequestAssumption DEF RetryPolicy
<1>4. /\ leaseLeft' \in [Steps -> Nat] /\ waitLeft' \in [Steps -> Nat]
      /\ budgetLeft' \in [Steps -> Nat \cup {NotStarted}]
  BY <1>1, <1>3, SettingsAssumption DEF Lend, TypeOK
<1>5. /\ stepState' \in [Steps -> StepState] /\ leaseOwner' \in [Steps -> Workers \cup {NoWorker}]
      /\ attemptCount' \in [Steps -> Nat] /\ fence' \in [Steps -> Nat]
  BY SMTT(60), <1>1 DEF Lend, TypeOK, StepState, Live
<1>6. attempts' \in [Steps -> Seq(Attempt)]
  <2>1. attempts'[s] \in Seq(Attempt)  BY DEF LendEffect, LendRows
  <2>2. PICK new : attempts' = [attempts EXCEPT ![s] = new]
    BY DEF Lend
  <2>3. new = attempts'[s]  BY <1>1, <2>2 DEF TypeOK
  <2> QED  BY <1>1, <2>1, <2>2, <2>3 DEF TypeOK
<1>7. UNCHANGED <<cancelRequested, manifest, reusedFrom, intents, deliveredAge, deadLetters>>
  BY DEF Lend, resultVars
<1> QED  BY <1>1, <1>2, <1>4, <1>5, <1>6, <1>7 DEF TypeOK

\* Lending keeps leases, fences, attempts and results in agreement.
LEMMA LendKeepsLeases ==
    ASSUME LedgerInv, NEW s \in Steps, NEW w \in Workers, NEW rows, LendEffect(s, w, rows)
    PROVE  LeaseMatchesHistory' /\ AttemptsBounded' /\ ResultsAreFenced' /\ DependencyOrder'
<1>1. LeaseHistory(s)'
  <2>1. w # NoWorker  BY RequestAssumption
  <2>2. fence[s] \in Nat /\ rows[fence[s] + 1].fence = fence[s] + 1
        /\ rows[fence[s] + 1].outcome = "RUNNING" /\ rows[fence[s] + 1].worker = w
    BY SMTT(60) DEF LendEffect, LendRows
  <2>3. \A n \in 1 .. fence[s] + 1 : n \in 1 .. fence[s] \/ n = fence[s] + 1
    BY SMTT(60), <2>2
  <2>4. \A n \in 1 .. fence[s] + 1 :
           rows[n].fence = n /\ (rows[n].outcome = "RUNNING" <=> n = fence[s] + 1)
    <3>1. \A n \in 1 .. fence[s] : rows[n].fence = n /\ rows[n].outcome # "RUNNING" /\ n # fence[s] + 1
      BY <2>2 DEF LendEffect, LendRows
    <3> QED  BY <2>2, <2>3, <3>1
  <2>5. /\ stepState'[s] = "RUNNING" /\ fence'[s] = fence[s] + 1 /\ attemptCount'[s] = fence[s] + 1
        /\ leaseOwner'[s] = w /\ attempts'[s] = rows /\ Len(rows) = fence[s] + 1
    BY DEF LendEffect, LendRows, LendWrites
  <2> QED  BY SMTT(60), <2>1, <2>2, <2>4, <2>5 DEF LeaseHistory
<1>2. ASSUME NEW t \in Steps, t # s PROVE LeaseHistory(t)' /\ AttemptBound(t)'
  <2>1. /\ stepState'[t] = stepState[t] /\ fence'[t] = fence[t] /\ leaseOwner'[t] = leaseOwner[t]
        /\ attemptCount'[t] = attemptCount[t] /\ attempts'[t] = attempts[t]
    BY <1>2 DEF LendEffect, LendWrites
  <2>2. LeaseHistory(t) /\ AttemptBound(t)
    BY DEF LedgerInv, LeaseMatchesHistory, AttemptsBounded
  <2> QED  BY <2>1, <2>2 DEF LeaseHistory, AttemptBound
<1>3. AttemptBound(s)'
  <2>1. Policy[JobOf[s]].max_attempts \in Nat
    BY PlanAssumption, RequestAssumption DEF RetryPolicy
  <2> QED  BY SMTT(60), <2>1 DEF LendEffect, LendRows, LendWrites, AttemptBound, Waiting
<1>4. ResultsAreFenced'
  <2>1. stepState[s] # "SUCCEEDED" /\ manifest[s] = NoManifest
    BY DEF LedgerInv, LendEffect, LendGuard, ResultsAreFenced, FencedResult
  <2> QED  BY SMTT(60), <2>1 DEF LedgerInv, LendEffect, LendWrites, LendFrame, ResultsAreFenced, FencedResult
<1>5. ASSUME NEW t \in Steps PROVE ParentsFirst(t)'
  <2>1. \A p \in DependsOn[t] : p \in Steps  BY PlanAssumption
  <2>2. ParentsFirst(t) /\ ParentsFirst(s)  BY DEF LedgerInv, DependencyOrder
  <2>3. /\ stepState[s] \in {"READY", "RETRY_WAIT", "RUNNING"} /\ reusedFrom' = reusedFrom
        /\ \A p \in Steps : p # s => stepState'[p] = stepState[p]
    BY DEF LendEffect, LendGuard, LendWrites, LendFrame
  <2> QED  BY <2>1, <2>2, <2>3 DEF ParentsFirst
<1> QED  BY <1>1, <1>2, <1>3, <1>4, <1>5 DEF LeaseMatchesHistory, AttemptsBounded, DependencyOrder

\* The job of a lent step is PROCESSING; other jobs keep their state.
LEMMA LendVerdict ==
    ASSUME LedgerInv, NEW s \in Steps, NEW w, NEW rows, LendEffect(s, w, rows)
    PROVE  \A i \in Jobs : jobState'[i] = IF i = JobOf[s] THEN "PROCESSING" ELSE jobState[i]
<1>1. JobOf[s] \in Jobs /\ s \in StepsOf(JobOf[s]) /\ RefreshJobs({JobOf[s]}, {})
      /\ jobState[JobOf[s]] \notin TERMINAL \cup {"ABSENT"} /\ stepState'[s] = "RUNNING"
  BY DEF LendEffect, LendGuard, LendWrites, LendFrame
<1>2. \A t \in StepsOf(JobOf[s]) : stepState'[t] # "FAILED"
  <2>1. \A t \in StepsOf(JobOf[s]) : t \in Steps /\ stepState[t] # "FAILED"
    BY SMTT(60), <1>1 DEF LedgerInv, VerdictMatchesSteps, Verdict, TERMINAL, StepsOf
  <2>2. \A t \in Steps : t # s => stepState'[t] = stepState[t]  BY DEF LendEffect, LendWrites
  <2> QED  BY <1>1, <2>1, <2>2
<1>3. Refreshed(JobOf[s], jobState[JobOf[s]], FALSE, stepState') = "PROCESSING"
  BY <1>1, <1>2 DEF Refreshed
<1>4. cancelRequested'[JobOf[s]] = FALSE
  BY <1>1 DEF LedgerInv, LendEffect, LendGuard, LendFrame, TypeOK
<1> QED  BY <1>1, <1>3, <1>4 DEF RefreshJobs

\* Lending keeps verdicts, cancellation and step history right.
LEMMA LendKeepsJobs ==
    ASSUME LedgerInv, NEW s \in Steps, NEW w, NEW rows, LendEffect(s, w, rows)
    PROVE  /\ VerdictMatchesSteps' /\ CancellationFences' /\ StepsMatchHistory'
           /\ \A i \in Jobs : jobState'[i] # "PARTIAL"
<1>1. PICK j \in Jobs : j = JobOf[s]  BY DEF LendEffect, LendGuard
<1>2. \A i \in Jobs : jobState'[i] = IF i = j THEN "PROCESSING" ELSE jobState[i]
  BY <1>1, LendVerdict
<1>3. /\ ~cancelRequested[j] /\ jobState[j] \notin TERMINAL \cup {"ABSENT"}
      /\ s \in StepsOf(j) /\ stepState'[s] = "RUNNING"
      /\ stepState[s] \in {"READY", "RETRY_WAIT", "RUNNING"}
      /\ \A t \in Steps : t # s => stepState'[t] = stepState[t] /\ fence'[t] = fence[t]
      /\ cancelRequested' = cancelRequested /\ deadLetters' = deadLetters /\ reusedFrom' = reusedFrom
  BY <1>1 DEF LendEffect, LendGuard, LendWrites, LendFrame
<1>4. Verdict(j)' /\ CancelFence(j)'
  <2>1. \A t \in StepsOf(j) : stepState'[t] # "FAILED" /\ t \notin deadLetters'
    BY SMTT(60), <1>3 DEF LedgerInv, VerdictMatchesSteps, Verdict, TERMINAL, StepsOf
  <2> QED  BY <1>2, <1>3, <2>1 DEF Verdict, CancelFence, TERMINAL
<1>5. ASSUME NEW i \in Jobs, i # j PROVE Verdict(i)' /\ CancelFence(i)'
  <2>1. \A t \in StepsOf(i) : stepState'[t] = stepState[t]
    BY <1>1, <1>3, <1>5 DEF StepsOf
  <2>2. Verdict(i) /\ CancelFence(i)  BY DEF LedgerInv, VerdictMatchesSteps, CancellationFences
  <2> QED  BY <1>2, <1>3, <1>5, <2>1, <2>2 DEF Verdict, CancelFence
<1>6. StepHistory(s)'
  <2>1. StepHistory(s)  BY DEF LedgerInv, StepsMatchHistory
  <2> QED  BY <1>1, <1>2, <1>3, <2>1 DEF StepHistory
<1>7. ASSUME NEW t \in Steps, t # s PROVE StepHistory(t)'
  <2>1. JobOf[t] \in Jobs /\ \A p \in DependsOn[t] : p \in Steps  BY PlanAssumption
  <2>2. \A p \in DependsOn[t] : stepState'[p] = "SUCCEEDED" <=> stepState[p] = "SUCCEEDED"
    BY <1>3, <2>1
  <2>3. StepHistory(t)  BY DEF LedgerInv, StepsMatchHistory
  <2>4. jobState[j] \notin {"CANCEL_REQUESTED", "CANCELLED", "FAILED"}
    BY <1>3 DEF LedgerInv, CancellationFences, CancelFence, TERMINAL
  <2> QED  BY <1>2, <1>3, <1>7, <2>1, <2>2, <2>3, <2>4 DEF StepHistory
<1> QED  BY <1>2, <1>4, <1>5, <1>6, <1>7 DEF LedgerInv, VerdictMatchesSteps, CancellationFences, StepsMatchHistory

\* Lending a READY or RETRY_WAIT step, with the next fence and a new attempt row,
\* keeps the invariant (claim).
LEMMA LendKeepsInv ==
    ASSUME LedgerInv, NEW s \in Steps, NEW w \in Workers, NEW rows \in Seq(Attempt),
           Claimable(s), stepState[s] \in {"READY", "RETRY_WAIT", "RUNNING"},
           attemptCount[s] < Policy[JobOf[s]].max_attempts,
           Len(rows) = fence[s],
           \A n \in 1 .. fence[s] : rows[n].fence = n /\ rows[n].outcome # "RUNNING",
           Lend(s, w, rows), outbox' \in [Steps -> SUBSET OutboxRow]
    PROVE  LedgerInv'
<1>1. LendEffect(s, w, attempts'[s])  BY LendHasEffect
<1>2. TypeOK'  BY <1>1, LendKeepsTypes
<1> QED  BY <1>1, <1>2, LendKeepsLeases, LendKeepsJobs DEF LedgerInv

\* claim keeps the invariant when it lends a waiting step or takes over an expired
\* one.
LEMMA ClaimLendsKeepsInv ==
    ASSUME LedgerInv, NEW s \in Steps, NEW w \in Workers, ClaimLends(s, w)
    PROVE  LedgerInv'
<1>1. /\ attempts[s] \in Seq(Attempt) /\ Len(attempts[s]) = fence[s]
      /\ \A n \in 1 .. fence[s] : attempts[s][n].fence = n
  BY DEF LedgerInv, TypeOK, LeaseMatchesHistory, LeaseHistory
<1>2. CASE ClaimDue(s, w)
  <2>1. stepState[s] \in {"READY", "RETRY_WAIT"} /\ Claimable(s) /\ Lend(s, w, attempts[s])
    BY <1>2 DEF ClaimDue, Due
  <2>2. \A n \in 1 .. fence[s] : attempts[s][n].outcome # "RUNNING"
    BY <2>1 DEF LedgerInv, LeaseMatchesHistory, LeaseHistory
  <2>3. attemptCount[s] < Policy[JobOf[s]].max_attempts
    BY <2>1 DEF LedgerInv, AttemptsBounded, AttemptBound, Waiting
  <2>4. outbox' \in [Steps -> SUBSET OutboxRow]
    BY <1>2 DEF ClaimDue, LedgerInv, TypeOK
  <2> QED  BY <1>1, <2>1, <2>2, <2>3, <2>4, LendKeepsInv
<1>3. CASE ClaimExpired(s, w)
  <2>1. /\ stepState[s] = "RUNNING" /\ Claimable(s) /\ Lend(s, w, Closed(s, "RETRY_WAIT"))
        /\ attemptCount[s] < Policy[JobOf[s]].max_attempts
    BY <1>3 DEF ClaimExpired, LeaseLost, CanRetry
  <2>2. /\ Closed(s, "RETRY_WAIT") \in Seq(Attempt) /\ Len(Closed(s, "RETRY_WAIT")) = fence[s]
        /\ \A n \in 1 .. fence[s] : /\ Closed(s, "RETRY_WAIT")[n].fence = n
                                    /\ Closed(s, "RETRY_WAIT")[n].outcome # "RUNNING"
    <3>1. "RETRY_WAIT" \in Outcome  BY DEF Outcome
    <3> QED  BY SMTT(60), <1>1, <3>1, ClosedProperties DEF LedgerInv
  <2>3. outbox' \in [Steps -> SUBSET OutboxRow]
    BY SMTT(60), <1>3 DEF ClaimExpired, LedgerInv, TypeOK, OutboxRow
  <2> QED  BY <2>1, <2>2, <2>3, LendKeepsInv
<1> QED  BY <1>2, <1>3 DEF ClaimLends

-----------------------------------------------------------------------------
(* Accepting a result. *)

\* _activate as commit uses it: the committed step is SUCCEEDED, some PENDING steps
\* of its job become READY, each with all parents done, and no other step changes.
LEMMA ActivatedAfterCommit ==
    ASSUME LedgerInv, NEW s \in Steps, stepState[s] = "RUNNING",
           stepState' = Activated(JobOf[s], [stepState EXCEPT ![s] = "SUCCEEDED"])
    PROVE  /\ stepState'[s] = "SUCCEEDED"
           /\ \A t \in Steps : t # s =>
                 \/ stepState'[t] = stepState[t]
                 \/ /\ stepState[t] = "PENDING" /\ stepState'[t] = "READY" /\ JobOf[t] = JobOf[s]
                    /\ \A p \in DependsOn[t] : stepState'[p] = "SUCCEEDED"
           /\ \A t \in Steps : /\ stepState[t] = "SUCCEEDED" => stepState'[t] = "SUCCEEDED"
                               /\ stepState'[t] = "SUCCEEDED" => stepState[t] = "SUCCEEDED" \/ t = s
           /\ \A t \in Steps : stepState'[t] = "PENDING" =>
                 stepState[t] = "PENDING" /\ \E p \in DependsOn[t] : stepState'[p] # "SUCCEEDED"
<1> DEFINE done == [stepState EXCEPT ![s] = "SUCCEEDED"]
<1>1. \A t \in Steps : done[t] = IF t = s THEN "SUCCEEDED" ELSE stepState[t]
  BY DEF LedgerInv, TypeOK
<1>2. \A t \in Steps : stepState'[t] =
         IF JobOf[t] = JobOf[s] /\ done[t] = "PENDING" /\ \A p \in DependsOn[t] : done[p] = "SUCCEEDED"
         THEN "READY" ELSE done[t]
  BY DEF Activated
<1> HIDE DEF done
<1>3. \A t \in Steps : stepState'[t] = "SUCCEEDED" <=> done[t] = "SUCCEEDED"
  BY <1>2
<1>4. \A t \in Steps : \A p \in DependsOn[t] : p \in Steps /\ JobOf[p] = JobOf[t]
  BY PlanAssumption
<1>5. /\ stepState'[s] = "SUCCEEDED"
      /\ \A t \in Steps : /\ stepState[t] = "SUCCEEDED" => stepState'[t] = "SUCCEEDED"
                          /\ stepState'[t] = "SUCCEEDED" => stepState[t] = "SUCCEEDED" \/ t = s
  BY <1>1, <1>3
<1>6. ASSUME NEW t \in Steps, t # s
      PROVE  \/ stepState'[t] = stepState[t]
             \/ /\ stepState[t] = "PENDING" /\ stepState'[t] = "READY" /\ JobOf[t] = JobOf[s]
                /\ \A p \in DependsOn[t] : stepState'[p] = "SUCCEEDED"
  BY <1>1, <1>2, <1>3, <1>4, <1>6
<1>7. ASSUME NEW t \in Steps, stepState'[t] = "PENDING"
      PROVE  stepState[t] = "PENDING" /\ \E p \in DependsOn[t] : stepState'[p] # "SUCCEEDED"
  <2>1. stepState[t] = "PENDING" /\ done[t] = "PENDING"
    BY <1>1, <1>2, <1>7
  <2>2. CASE JobOf[t] = JobOf[s]
    BY <1>2, <1>3, <1>4, <1>7, <2>1, <2>2
  <2>3. CASE JobOf[t] # JobOf[s]
    <3>1. PICK p \in DependsOn[t] : stepState[p] # "SUCCEEDED"
      BY <2>1 DEF LedgerInv, StepsMatchHistory, StepHistory
    <3>2. p \in Steps /\ p # s  BY <1>4, <2>3
    <3> QED  BY <1>5, <2>1, <3>1, <3>2
  <2> QED  BY <2>2, <2>3
<1> QED  BY <1>5, <1>6, <1>7

\* What an accepted commit of step s relies on,
CommitGuard(s, refs) ==
    /\ s \in Steps /\ JobOf[s] \in Jobs /\ s \in StepsOf(JobOf[s])
    /\ stepState[s] = "RUNNING" /\ ~cancelRequested[JobOf[s]]
    /\ jobState[JobOf[s]] \notin TERMINAL \cup {"ABSENT"}
    /\ refs # {} /\ refs \subseteq intents[s]
    /\ fence[s] \in Nat /\ fence[s] > 0 /\ attemptCount[s] = fence[s]

\* what it does to the states of the steps,
CommitSteps(s) ==
    /\ stepState'[s] = "SUCCEEDED"
    /\ \A t \in Steps : t # s =>
          \/ stepState'[t] = stepState[t]
          \/ /\ stepState[t] = "PENDING" /\ stepState'[t] = "READY" /\ JobOf[t] = JobOf[s]
             /\ \A p \in DependsOn[t] : stepState'[p] = "SUCCEEDED"
    /\ \A t \in Steps : /\ stepState[t] = "SUCCEEDED" => stepState'[t] = "SUCCEEDED"
                        /\ stepState'[t] = "SUCCEEDED" => stepState[t] = "SUCCEEDED" \/ t = s
    /\ \A t \in Steps : stepState'[t] = "PENDING" =>
          stepState[t] = "PENDING" /\ \E p \in DependsOn[t] : stepState'[p] # "SUCCEEDED"

\* what it writes at s,
CommitWrites(s, refs) ==
    /\ attempts' = [attempts EXCEPT ![s] = Closed(s, "SUCCEEDED")]
    /\ manifest' = [manifest EXCEPT ![s] = [refs |-> refs, fence |-> fence[s]]]
    /\ leaseOwner' = [leaseOwner EXCEPT ![s] = NoWorker]
    /\ leaseLeft' = [leaseLeft EXCEPT ![s] = 0]

\* and what it leaves alone.
CommitFrame(s) ==
    /\ UNCHANGED <<cancelRequested, attemptCount, fence, waitLeft, budgetLeft, reusedFrom,
                   intents, deliveredAge, deadLetters>>
    /\ RefreshJobs({JobOf[s]}, {})

CommitEffect(s, refs) ==
    CommitGuard(s, refs) /\ CommitSteps(s) /\ CommitWrites(s, refs) /\ CommitFrame(s)

\* commit has that effect: it accepts only the current lease of a running step.
LEMMA CommitHasEffect ==
    ASSUME LedgerInv, NEW l \in IssuedLeases, NEW refs \in SUBSET Refs, Commit(l, refs)
    PROVE  CommitEffect(l.step, refs)
<1>1. /\ l.step \in Steps /\ JobOf[l.step] \in Jobs /\ l.step \in StepsOf(JobOf[l.step])
  BY IssuedLeaseType, PlanAssumption DEF StepsOf, LedgerInv
<1>2. LeaseError(l) = "ok" /\ refs # {} /\ refs \subseteq intents[l.step]
  BY DEF Commit, CommitError
<1>3. /\ stepState[l.step] = "RUNNING" /\ fence[l.step] = l.fence /\ ~cancelRequested[JobOf[l.step]]
      /\ jobState[JobOf[l.step]] \notin TERMINAL \cup {"ABSENT"}
  BY <1>1, <1>2, ValidLease, ValidLeaseClaimable DEF Claimable
<1>4. fence[l.step] \in Nat /\ fence[l.step] > 0 /\ attemptCount[l.step] = fence[l.step]
  BY <1>1, <1>3 DEF LedgerInv, TypeOK, LeaseMatchesHistory, LeaseHistory
<1>5. stepState' = Activated(JobOf[l.step], [stepState EXCEPT ![l.step] = "SUCCEEDED"])
  BY DEF Commit
<1>6. CommitGuard(l.step, refs)  BY <1>1, <1>2, <1>3, <1>4 DEF CommitGuard
<1>7. CommitSteps(l.step)  BY <1>1, <1>3, <1>5, ActivatedAfterCommit DEF CommitSteps
<1>8. CommitWrites(l.step, refs)  BY <1>3 DEF Commit, CommitWrites
<1>9. CommitFrame(l.step)  BY DEF Commit, CommitFrame
<1> QED  BY <1>6, <1>7, <1>8, <1>9 DEF CommitEffect

\* The columns commit writes, at the committed step and elsewhere.
LEMMA CommitColumns ==
    ASSUME TypeOK, NEW s, NEW refs, CommitEffect(s, refs)
    PROVE  /\ leaseOwner'[s] = NoWorker /\ attempts'[s] = Closed(s, "SUCCEEDED")
           /\ manifest'[s] = [refs |-> refs, fence |-> fence[s]]
           /\ \A t \in Steps : t # s =>
                 /\ leaseOwner'[t] = leaseOwner[t] /\ attempts'[t] = attempts[t]
                 /\ manifest'[t] = manifest[t]
BY DEF TypeOK, CommitEffect, CommitGuard, CommitWrites

\* The attempt rows of a committed step: the last one SUCCEEDED, none RUNNING.
LEMMA CommittedRows ==
    ASSUME LedgerInv, NEW s, NEW refs, CommitEffect(s, refs)
    PROVE  /\ attempts'[s] \in Seq(Attempt) /\ Len(attempts'[s]) = fence[s]
           /\ \A n \in 1 .. fence[s] : attempts'[s][n].fence = n /\ attempts'[s][n].outcome # "RUNNING"
           /\ attempts'[s][fence[s]].outcome = "SUCCEEDED"
<1>0. PICK rows : rows = attempts'[s] /\ rows = Closed(s, "SUCCEEDED")
  <2>1. TypeOK  BY DEF LedgerInv
  <2> QED  BY <2>1, CommitColumns
<1>1. "SUCCEEDED" \in Outcome  BY DEF Outcome
<1>2. s \in Steps /\ fence[s] \in Nat /\ fence[s] > 0 /\ stepState[s] = "RUNNING"
  BY DEF CommitEffect, CommitGuard
<1>3. fence[s] \in 1 .. fence[s]  BY SMTT(60), <1>2
<1>4. /\ Len(attempts[s]) = fence[s]
      /\ \A n \in 1 .. fence[s] : attempts[s][n].fence = n
      /\ attempts[s][fence[s]].outcome = "RUNNING"
  BY <1>2, <1>3 DEF LedgerInv, LeaseMatchesHistory, LeaseHistory
<1>5. /\ rows \in Seq(Attempt) /\ Len(rows) = Len(attempts[s])
      /\ \A n \in 1 .. Len(attempts[s]) :
            /\ rows[n].fence = attempts[s][n].fence
            /\ rows[n].outcome = IF attempts[s][n].outcome = "RUNNING"
                                 THEN "SUCCEEDED" ELSE attempts[s][n].outcome
  BY <1>0, <1>1, <1>2, ClosedProperties DEF LedgerInv
<1> QED  BY <1>0, <1>3, <1>4, <1>5

\* commit keeps the types of the columns.
LEMMA CommitKeepsTypes ==
    ASSUME LedgerInv, NEW l \in IssuedLeases, NEW refs \in SUBSET Refs, Commit(l, refs)
    PROVE  TypeOK'
<1>1. TypeOK /\ CommitEffect(l.step, refs)  BY CommitHasEffect DEF LedgerInv
<1>2. jobState' \in [Jobs -> JobState]
  BY <1>1, RefreshJobsType DEF CommitEffect, CommitFrame
<1>3. stepState' \in [Steps -> StepState]
  <2>1. [stepState EXCEPT ![l.step] = "SUCCEEDED"] \in [Steps -> StepState]
    BY <1>1 DEF TypeOK, StepState
  <2> QED  BY <2>1, ActivatedType DEF Commit
<1>4. outbox' \in [Steps -> SUBSET OutboxRow]  BY <1>1, EnqueuedReadyType DEF Commit
<1>5. manifest' \in [Steps -> Manifest \cup {NoManifest}]
  BY <1>1 DEF CommitEffect, CommitGuard, CommitWrites, TypeOK, Manifest
<1>6. attempts' \in [Steps -> Seq(Attempt)]
  <2>1. attempts'[l.step] \in Seq(Attempt)  BY <1>1, CommittedRows
  <2>2. PICK new : attempts' = [attempts EXCEPT ![l.step] = new]
    BY <1>1 DEF CommitEffect, CommitWrites
  <2>3. new \in Seq(Attempt)  BY <1>1, <2>1, <2>2 DEF TypeOK, CommitEffect, CommitGuard
  <2> QED  BY <1>1, <2>2, <2>3 DEF TypeOK
<1>7. leaseOwner' \in [Steps -> Workers \cup {NoWorker}] /\ leaseLeft' \in [Steps -> Nat]
  BY <1>1 DEF CommitEffect, CommitWrites, TypeOK
<1> QED  BY <1>1, <1>2, <1>3, <1>4, <1>5, <1>6, <1>7 DEF CommitEffect, CommitFrame, TypeOK

\* commit keeps leases, fences and history in agreement.
LEMMA CommitKeepsLeases ==
    ASSUME LedgerInv, NEW s, NEW refs, CommitEffect(s, refs)
    PROVE  LeaseMatchesHistory' /\ AttemptsBounded'
<1>1. /\ leaseOwner'[s] = NoWorker /\ attempts'[s] = Closed(s, "SUCCEEDED")
      /\ \A t \in Steps : t # s => leaseOwner'[t] = leaseOwner[t] /\ attempts'[t] = attempts[t]
  <2>1. TypeOK  BY DEF LedgerInv
  <2> QED  BY <2>1, CommitColumns
<1>2. ASSUME NEW t \in Steps PROVE LeaseHistory(t)'
  <2>1. CASE t = s
    <3>1. /\ Len(attempts'[s]) = fence[s]
          /\ \A n \in 1 .. fence[s] : attempts'[s][n].fence = n /\ attempts'[s][n].outcome # "RUNNING"
      BY CommittedRows
    <3>2. fence'[s] = fence[s] /\ attemptCount'[s] = fence[s] /\ stepState'[s] = "SUCCEEDED"
      BY DEF CommitEffect, CommitGuard, CommitSteps, CommitFrame
    <3> QED  BY <1>1, <2>1, <3>1, <3>2 DEF LeaseHistory
  <2>2. CASE t # s
    <3>1. /\ fence'[t] = fence[t] /\ attemptCount'[t] = attemptCount[t]
          /\ stepState'[t] = "RUNNING" <=> stepState[t] = "RUNNING"
      BY <2>2 DEF CommitEffect, CommitSteps, CommitFrame
    <3>2. LeaseHistory(t)  BY DEF LedgerInv, LeaseMatchesHistory
    <3> QED  BY <1>1, <2>2, <3>1, <3>2 DEF LeaseHistory
  <2> QED  BY <2>1, <2>2
<1>3. ASSUME NEW t \in Steps PROVE AttemptBound(t)'
  <2>1. stepState'[t] \in Waiting => stepState[t] \in Waiting
    BY DEF CommitEffect, CommitGuard, CommitSteps, Waiting
  <2>2. AttemptBound(t) /\ attemptCount'[t] = attemptCount[t]
    BY DEF LedgerInv, AttemptsBounded, CommitEffect, CommitFrame
  <2> QED  BY <2>1, <2>2 DEF AttemptBound
<1> QED  BY <1>2, <1>3 DEF LeaseMatchesHistory, AttemptsBounded

\* commit keeps manifests fenced, also those copied from other steps.
LEMMA CommitKeepsResults ==
    ASSUME LedgerInv, NEW s, NEW refs \in SUBSET Refs, CommitEffect(s, refs)
    PROVE  ResultsAreFenced'
<1>1. /\ attempts'[s] = Closed(s, "SUCCEEDED")
      /\ manifest'[s] = [refs |-> refs, fence |-> fence[s]]
      /\ \A t \in Steps : t # s => attempts'[t] = attempts[t] /\ manifest'[t] = manifest[t]
  <2>1. TypeOK  BY DEF LedgerInv
  <2> QED  BY <2>1, CommitColumns
<1>2. fence[s] \in Nat /\ fence[s] # 0 /\ s \in Steps /\ stepState[s] = "RUNNING"
  BY SMTT(60) DEF CommitEffect, CommitGuard
<1>3. manifest'[s] # NoManifest /\ manifest[s] = NoManifest
  BY SMTT(60), <1>1, <1>2, NoManifestAssumption DEF LedgerInv, ResultsAreFenced, FencedResult, Manifest
<1>4. \A t \in Steps : fence'[t] = fence[t] /\ reusedFrom'[t] = reusedFrom[t] /\ intents'[t] = intents[t]
  BY DEF CommitEffect, CommitFrame
<1>5. FencedResult(s)'
  <2>1. attempts'[s][fence[s]].outcome = "SUCCEEDED"
    BY CommittedRows
  <2>2. manifest'[s].refs = refs /\ manifest'[s].fence = fence[s]
    BY SMTT(60), <1>1
  <2>3. stepState'[s] = "SUCCEEDED" /\ refs # {} /\ refs \subseteq intents[s]
    BY DEF CommitEffect, CommitGuard, CommitSteps
  <2> QED  BY <1>2, <1>3, <1>4, <2>1, <2>2, <2>3 DEF FencedResult
<1>6. ASSUME NEW t \in Steps, t # s PROVE FencedResult(t)'
  <2>1. stepState'[t] = "SUCCEEDED" <=> stepState[t] = "SUCCEEDED"
    BY <1>6 DEF CommitEffect, CommitSteps
  <2>2. FencedResult(t)  BY DEF LedgerInv, ResultsAreFenced
  <2>3. manifest[t] # NoManifest /\ fence[t] = 0 =>
           manifest'[reusedFrom[t]] = manifest[reusedFrom[t]]
    <3>1. reusedFrom[t] \in Steps \cup {NoStep}  BY DEF LedgerInv, TypeOK
    <3> QED  BY <1>1, <1>3, <2>2, <3>1 DEF FencedResult
  <2> QED  BY <1>1, <1>4, <1>6, <2>1, <2>2, <2>3 DEF FencedResult
<1> QED  BY <1>5, <1>6 DEF ResultsAreFenced

\* commit keeps the order of dependencies.
LEMMA CommitKeepsOrder ==
    ASSUME LedgerInv, NEW s, NEW refs, CommitEffect(s, refs)
    PROVE  DependencyOrder'
<1>1. reusedFrom' = reusedFrom /\ stepState[s] = "RUNNING"  BY DEF CommitEffect, CommitGuard, CommitFrame
<1>2. ASSUME NEW t \in Steps PROVE ParentsFirst(t)'
  <2>1. \A p \in DependsOn[t] : p \in Steps  BY PlanAssumption
  <2>2. \A p \in DependsOn[t] : stepState[p] = "SUCCEEDED" => stepState'[p] = "SUCCEEDED"
    BY <2>1 DEF CommitEffect, CommitSteps
  <2>3. ParentsFirst(t)  BY DEF LedgerInv, DependencyOrder
  <2>4. \/ t = s \/ stepState'[t] = stepState[t]
        \/ \A p \in DependsOn[t] : stepState'[p] = "SUCCEEDED"
    BY DEF CommitEffect, CommitSteps
  <2> QED  BY <1>1, <2>2, <2>3, <2>4 DEF ParentsFirst
<1> QED  BY <1>2 DEF DependencyOrder

\* The verdict commit leaves on the job j of the committed step; other jobs keep theirs.
CommittedJob(j) ==
    /\ \A t \in StepsOf(j) : stepState'[t] \notin {"FAILED", "CANCELLED"} /\ t \notin deadLetters'
    /\ jobState'[j] = IF \A t \in StepsOf(j) : stepState'[t] = "SUCCEEDED" THEN "COMPLETED"
                      ELSE IF \E t \in StepsOf(j) : stepState'[t] = "RUNNING" THEN "PROCESSING"
                      ELSE "QUEUED"
    /\ cancelRequested'[j] = FALSE
    /\ \A i \in Jobs : i # j => jobState'[i] = jobState[i] /\ cancelRequested'[i] = cancelRequested[i]

\* commit leaves that verdict.
LEMMA CommitVerdict ==
    ASSUME LedgerInv, NEW s, NEW refs, CommitEffect(s, refs), NEW j, j = JobOf[s]
    PROVE  CommittedJob(j)
<1>1. /\ j \in Jobs /\ ~cancelRequested[j] /\ jobState[j] \notin TERMINAL \cup {"ABSENT"}
      /\ cancelRequested' = cancelRequested /\ deadLetters' = deadLetters
      /\ RefreshJobs({j}, {})
  BY DEF CommitEffect, CommitGuard, CommitFrame
<1>2. jobState[j] \notin {"CANCEL_REQUESTED", "CANCELLED", "FAILED"}
  BY <1>1 DEF LedgerInv, CancellationFences, CancelFence, TERMINAL
<1>3. \A t \in StepsOf(j) : stepState[t] \notin {"FAILED", "CANCELLED"} /\ t \notin deadLetters
  <2>1. Verdict(j)  BY <1>1 DEF LedgerInv, VerdictMatchesSteps
  <2>2. \A t \in StepsOf(j) : stepState[t] # "CANCELLED"
    BY <1>2 DEF LedgerInv, StepsMatchHistory, StepHistory, StepsOf
  <2> QED  BY <1>2, <2>1, <2>2 DEF Verdict
<1>4. \A t \in StepsOf(j) : stepState'[t] \notin {"FAILED", "CANCELLED"} /\ t \notin deadLetters'
  BY <1>1, <1>3 DEF StepsOf, CommitEffect, CommitGuard, CommitSteps
<1>5. cancelRequested'[j] = FALSE  BY <1>1 DEF LedgerInv, TypeOK
<1>6. jobState'[j] = Refreshed(j, jobState[j], FALSE, stepState')
  BY <1>1, <1>5 DEF RefreshJobs
<1>7. \A i \in Jobs : i # j => jobState'[i] = jobState[i]
  BY <1>1 DEF RefreshJobs
<1> QED  BY <1>1, <1>4, <1>5, <1>6, <1>7 DEF Refreshed, CommittedJob

\* commit keeps verdicts and cancellation right.
LEMMA CommitKeepsJobs ==
    ASSUME LedgerInv, NEW s, NEW refs, CommitEffect(s, refs)
    PROVE  /\ VerdictMatchesSteps' /\ CancellationFences'
           /\ \A i \in Jobs : jobState'[i] # "PARTIAL"
<1>1. PICK j : j = JobOf[s] /\ CommittedJob(j)
  BY CommitVerdict
<1>2. ASSUME NEW i \in Jobs
      PROVE  Verdict(i)' /\ CancelFence(i)' /\ jobState'[i] # "PARTIAL"
  <2>1. CASE i = j
    BY <1>1, <2>1 DEF CommittedJob, Verdict, CancelFence, TERMINAL, Live, Waiting
  <2>2. CASE i # j
    <3>1. \A t \in StepsOf(i) : stepState'[t] = stepState[t]
      BY <1>1, <2>2 DEF StepsOf, CommitEffect, CommitSteps
    <3>2. deadLetters' = deadLetters  BY DEF CommitEffect, CommitFrame
    <3>3. Verdict(i) /\ CancelFence(i) /\ jobState[i] # "PARTIAL"
      BY DEF LedgerInv, VerdictMatchesSteps, CancellationFences
    <3>4. jobState'[i] = jobState[i] /\ cancelRequested'[i] = cancelRequested[i]
      BY <1>1, <2>2 DEF CommittedJob
    <3> QED  BY <3>1, <3>2, <3>3, <3>4 DEF Verdict, CancelFence
  <2> QED  BY <2>1, <2>2
<1> QED  BY <1>2 DEF VerdictMatchesSteps, CancellationFences

\* commit keeps what the state of a step says of its history.
LEMMA CommitKeepsHistory ==
    ASSUME LedgerInv, NEW s, NEW refs, CommitEffect(s, refs)
    PROVE  StepsMatchHistory'
<1>1. PICK j : j = JobOf[s] /\ CommittedJob(j) /\ jobState[j] # "ABSENT"
  <2>1. PICK j : j = JobOf[s]  OBVIOUS
  <2>2. jobState[j] # "ABSENT"  BY <2>1 DEF CommitEffect, CommitGuard
  <2> QED  BY <2>1, <2>2, CommitVerdict
<1>2. ASSUME NEW t \in Steps PROVE StepHistory(t)'
  <2>1. fence'[t] = fence[t] /\ reusedFrom'[t] = reusedFrom[t] /\ JobOf[t] \in Jobs
    BY PlanAssumption DEF CommitEffect, CommitFrame
  <2>2. StepHistory(t) /\ StepHistory(s) /\ stepState[s] = "RUNNING" /\ stepState'[s] = "SUCCEEDED"
    BY DEF LedgerInv, StepsMatchHistory, CommitEffect, CommitGuard, CommitSteps
  <2>3. jobState'[JobOf[t]] = "ABSENT" <=> jobState[JobOf[t]] = "ABSENT"
    BY <1>1, <2>1 DEF CommittedJob
  <2>4. CASE t = s
    BY <2>1, <2>2, <2>3, <2>4 DEF StepHistory
  <2>5. CASE t # s
    <3>1. /\ stepState'[t] = stepState[t] \/ (stepState[t] = "PENDING" /\ stepState'[t] = "READY")
          /\ stepState'[t] = "PENDING" => \E p \in DependsOn[t] : stepState'[p] # "SUCCEEDED"
      BY <2>5 DEF CommitEffect, CommitSteps
    <3>2. stepState'[t] = "CANCELLED" => jobState'[JobOf[t]] = jobState[JobOf[t]]
      BY <1>1, <2>1 DEF CommittedJob, StepsOf
    <3> QED  BY <2>1, <2>2, <2>3, <3>1, <3>2 DEF StepHistory
  <2> QED  BY <2>4, <2>5
<1> QED  BY <1>2 DEF StepsMatchHistory

\* commit keeps the invariant: the manifest, the closed attempt, the activated
\* children and the job verdict change together.
LEMMA CommitKeepsInv ==
    ASSUME LedgerInv, NEW l \in IssuedLeases, NEW refs \in SUBSET Refs, Commit(l, refs)
    PROVE  LedgerInv'
<1>1. CommitEffect(l.step, refs)  BY CommitHasEffect
<1> QED  BY <1>1, CommitKeepsTypes, CommitKeepsLeases, CommitKeepsResults, CommitKeepsOrder,
            CommitKeepsJobs, CommitKeepsHistory DEF LedgerInv

-----------------------------------------------------------------------------
(* Admitting a job. *)

\* A reused step's parents are reused from the parents of its source: equal specs
\* name the same parent units, and a unit names one step of the resumed job.
LEMMA CopiedParents ==
    ASSUME NEW j \in Jobs, NEW copied \in Copies(j), NEW source \in [copied -> Steps],
           \A s \in copied : source[s] \in Sources(j, s),
           NEW s \in copied, NEW p \in DependsOn[s]
    PROVE  p \in copied /\ source[p] \in DependsOn[source[s]]
<1>1. /\ copied \subseteq Steps
      /\ p \in copied
  BY SMTT(60) DEF Copies, Reusable, StepsOf
<1>2. /\ JobOf[source[p]] = ResumeFrom[j] /\ JobOf[source[s]] = ResumeFrom[j]
      /\ Unit[source[p]] = Unit[p] /\ Spec[source[s]] = Spec[s]
      /\ source[p] \in Steps /\ source[s] \in Steps /\ s \in Steps
  BY <1>1 DEF Sources
<1>3. Unit[p] \in {Unit[q] : q \in DependsOn[source[s]]}
  <2>1. {Unit[q] : q \in DependsOn[s]} = {Unit[q] : q \in DependsOn[source[s]]}
    BY <1>2, PlanAssumption
  <2>2. Unit[p] \in {Unit[q] : q \in DependsOn[s]}
    OBVIOUS
  <2> QED  BY <2>1, <2>2
<1>4. PICK q \in DependsOn[source[s]] : Unit[p] = Unit[q]
  BY <1>3
<1>5. q \in Steps /\ JobOf[q] = ResumeFrom[j]
  BY <1>2, <1>4, PlanAssumption
<1>6. q = source[p]
  BY SMTT(60), <1>2, <1>4, <1>5, PlanAssumption
<1> QED  BY <1>1, <1>4, <1>6

\* admit keeps the invariant, whichever results of the resumed job it copies.
LEMMA AdmitKeepsInv ==
    ASSUME LedgerInv, NEW j \in Jobs, Admit(j)
    PROVE  LedgerInv'
<1>inv. /\ TypeOK /\ LeaseMatchesHistory /\ AttemptsBounded /\ ResultsAreFenced
        /\ DependencyOrder /\ VerdictMatchesSteps /\ CancellationFences /\ StepsMatchHistory
        /\ \A i \in Jobs : jobState[i] # "PARTIAL"
  BY DEF LedgerInv
<1>1. PICK copied \in Copies(j) : \E source \in [copied -> Steps] :
          LET inserted == [s \in Steps |->
                  IF s \in copied THEN "SUCCEEDED"
                  ELSE IF JobOf[s] = j THEN "PENDING" ELSE stepState[s]]
          IN  /\ \A s \in copied : source[s] \in Sources(j, s)
              /\ stepState' = Activated(j, inserted)
              /\ outbox' = EnqueuedReady(inserted, stepState')
              /\ manifest' = [s \in Steps |->
                    IF s \in copied THEN [refs |-> manifest[source[s]].refs, fence |-> 0]
                    ELSE manifest[s]]
              /\ reusedFrom' = [s \in Steps |->
                    IF s \in copied THEN source[s] ELSE reusedFrom[s]]
              /\ jobState' = [jobState EXCEPT ![j] = Refreshed(j, "QUEUED", FALSE, stepState')]
  BY DEF Admit
<1> DEFINE inserted == [s \in Steps |->
                  IF s \in copied THEN "SUCCEEDED"
                  ELSE IF JobOf[s] = j THEN "PENDING" ELSE stepState[s]]
<1>2. PICK source \in [copied -> Steps] :
              /\ \A s \in copied : source[s] \in Sources(j, s)
              /\ stepState' = Activated(j, inserted)
              /\ outbox' = EnqueuedReady(inserted, stepState')
              /\ manifest' = [s \in Steps |->
                    IF s \in copied THEN [refs |-> manifest[source[s]].refs, fence |-> 0]
                    ELSE manifest[s]]
              /\ reusedFrom' = [s \in Steps |->
                    IF s \in copied THEN source[s] ELSE reusedFrom[s]]
              /\ jobState' = [jobState EXCEPT ![j] = Refreshed(j, "QUEUED", FALSE, stepState')]
  BY <1>1
<1>3. /\ jobState[j] = "ABSENT" /\ cancelRequested[j] = FALSE
      /\ UNCHANGED <<cancelRequested, attemptCount, fence, leaseOwner, leaseLeft, waitLeft,
                     budgetLeft, attempts, intents, deliveredAge, deadLetters>>
  BY <1>inv DEF Admit, leaseVars, CancellationFences, CancelFence, TypeOK
<1>4. copied \subseteq StepsOf(j) /\ StepsOf(j) \subseteq Steps
  BY DEF Copies, Reusable, StepsOf
<1>5. \A s \in StepsOf(j) :
        /\ stepState[s] = "ABSENT" /\ fence[s] = 0 /\ reusedFrom[s] = NoStep
        /\ manifest[s] = NoManifest /\ s \notin deadLetters
  <2>1. \A s \in StepsOf(j) : /\ s \in Steps /\ stepState[s] = "ABSENT" /\ fence[s] = 0
                              /\ reusedFrom[s] = NoStep
    BY <1>inv, <1>3 DEF StepsMatchHistory, StepHistory, StepsOf
  <2>2. \A s \in StepsOf(j) : manifest[s] = NoManifest
    BY <1>inv, <2>1 DEF ResultsAreFenced, FencedResult
  <2>3. \A s \in StepsOf(j) : s \notin deadLetters
    BY <1>inv, <2>1 DEF VerdictMatchesSteps, Verdict
  <2> QED  BY <2>1, <2>2, <2>3
<1>6. \A s \in copied :
        /\ source[s] \in Steps /\ JobOf[source[s]] # j /\ source[s] \notin StepsOf(j)
        /\ manifest[source[s]] \in Manifest /\ manifest[source[s]].refs # {}
  <2>1. \A s \in copied : source[s] \in Steps /\ JobOf[source[s]] = ResumeFrom[j]
                          /\ stepState[source[s]] = "SUCCEEDED"
    BY <1>2 DEF Sources
  <2>2. ResumeFrom[j] # j  BY RequestAssumption
  <2>3. \A s \in copied : manifest[source[s]] # NoManifest /\ manifest[source[s]].refs # {}
    BY <1>inv, <2>1 DEF ResultsAreFenced, FencedResult
  <2>4. \A s \in copied : manifest[source[s]] \in Manifest
    BY <1>inv, <2>1, <2>3 DEF TypeOK
  <2> QED  BY <2>1, <2>2, <2>3, <2>4 DEF StepsOf
<1>7. \A s \in Steps :
        /\ s \in copied => stepState'[s] = "SUCCEEDED"
        /\ s \in StepsOf(j) \ copied =>
              \/ stepState'[s] = "READY" /\ \A p \in DependsOn[s] : stepState'[p] = "SUCCEEDED"
              \/ stepState'[s] = "PENDING" /\ \E p \in DependsOn[s] : stepState'[p] # "SUCCEEDED"
        /\ s \notin StepsOf(j) => stepState'[s] = stepState[s]
  <2>1. \A s \in Steps : inserted[s] = IF s \in copied THEN "SUCCEEDED"
                                       ELSE IF JobOf[s] = j THEN "PENDING" ELSE stepState[s]
    OBVIOUS
  <2> HIDE DEF inserted
  <2>2. \A s \in Steps : stepState'[s] =
          IF JobOf[s] = j /\ inserted[s] = "PENDING" /\ \A p \in DependsOn[s] : inserted[p] = "SUCCEEDED"
          THEN "READY" ELSE inserted[s]
    BY <1>2 DEF Activated
  <2>3. \A s \in Steps : stepState'[s] = "SUCCEEDED" <=> inserted[s] = "SUCCEEDED"
    BY <2>2
  <2>4. \A s \in Steps : \A p \in DependsOn[s] : p \in Steps
    BY PlanAssumption
  <2> QED  BY <1>4, <2>1, <2>2, <2>3, <2>4 DEF StepsOf
<1>8. \A s \in Steps :
        /\ s \in copied => /\ manifest'[s] = [refs |-> manifest[source[s]].refs, fence |-> 0]
                           /\ reusedFrom'[s] = source[s]
        /\ s \notin copied => manifest'[s] = manifest[s] /\ reusedFrom'[s] = reusedFrom[s]
  BY <1>2
<1>9. TypeOK'
  <2>1. inserted \in [Steps -> StepState]
    BY <1>inv DEF TypeOK, StepState, Live, Waiting
  <2>2. stepState' \in [Steps -> StepState]
    BY <1>2, <2>1, ActivatedType
  <2>3. outbox' \in [Steps -> SUBSET OutboxRow]  BY <1>inv, <1>2, EnqueuedReadyType
  <2>4. jobState' \in [Jobs -> JobState]
    <3>1. "QUEUED" \in JobState  BY DEF JobState
    <3>2. Refreshed(j, "QUEUED", FALSE, stepState') \in JobState  BY <3>1, RefreshedType
    <3> QED  BY <1>inv, <1>2, <3>2 DEF TypeOK
  <2>5. manifest' \in [Steps -> Manifest \cup {NoManifest}]
    BY <1>inv, <1>2, <1>6 DEF TypeOK, Manifest
  <2>6. reusedFrom' \in [Steps -> Steps \cup {NoStep}]
    BY <1>inv, <1>2, <1>6 DEF TypeOK
  <2> QED  BY <1>inv, <1>3, <2>2, <2>3, <2>4, <2>5, <2>6 DEF TypeOK
<1>10. LeaseMatchesHistory'
  <2>1. \A s \in Steps : stepState'[s] = "RUNNING" <=> stepState[s] = "RUNNING"
    BY <1>4, <1>5, <1>7
  <2> QED  BY <1>inv, <1>3, <2>1 DEF LeaseMatchesHistory, LeaseHistory
<1>11. AttemptsBounded'
  <2>1. \A s \in StepsOf(j) : attemptCount[s] < Policy[JobOf[s]].max_attempts
    <3>1. \A s \in Steps : Policy[JobOf[s]] \in RetryPolicy
      BY PlanAssumption, RequestAssumption
    <3>2. \A s \in Steps : Policy[JobOf[s]].max_attempts \in Nat \ {0}
      BY <3>1 DEF RetryPolicy
    <3>3. \A s \in StepsOf(j) : s \in Steps /\ attemptCount[s] = 0
      BY <1>inv, <1>4, <1>5 DEF LeaseMatchesHistory, LeaseHistory
    <3> QED  BY SMTT(60), <3>2, <3>3
  <2> QED  BY <1>inv, <1>3, <1>7, <2>1 DEF AttemptsBounded, AttemptBound
<1>12. ResultsAreFenced'
  <2> SUFFICES ASSUME NEW s \in Steps
               PROVE  FencedResult(s)'
    BY DEF ResultsAreFenced
  <2>1. \A t \in Steps : manifest[t] # NoManifest => t \notin copied /\ manifest'[t] = manifest[t]
    BY <1>4, <1>5, <1>8
  <2>2. CASE s \in copied
    <3>1. /\ manifest'[s] # NoManifest /\ manifest'[s].fence = 0
          /\ manifest'[s].refs = manifest[source[s]].refs
      <4>1. manifest[source[s]].refs \in SUBSET Refs
        BY <1>6, <2>2 DEF Manifest
      <4>2. [refs |-> manifest[source[s]].refs, fence |-> 0] \in Manifest
        BY <4>1 DEF Manifest
      <4> QED  BY SMTT(60), <1>8, <2>2, <4>2, NoManifestAssumption
    <3>2. manifest'[source[s]] = manifest[source[s]] /\ manifest[source[s]] # NoManifest
      BY <1>4, <1>6, <1>8, <2>2, NoManifestAssumption
    <3>3. reusedFrom'[s] = source[s] /\ source[s] # NoStep /\ fence'[s] = 0
      BY <1>3, <1>4, <1>5, <1>6, <1>8, <2>2, RequestAssumption
    <3>4. stepState'[s] = "SUCCEEDED" /\ manifest[source[s]].refs # {}
      BY <1>6, <1>7, <2>2
    <3> QED  BY <3>1, <3>2, <3>3, <3>4 DEF FencedResult
  <2>3. CASE s \notin copied
    <3>1. stepState'[s] = "SUCCEEDED" <=> stepState[s] = "SUCCEEDED"
      BY <1>5, <1>7, <2>3
    <3>2. manifest[s] # NoManifest /\ fence[s] = 0 =>
             reusedFrom[s] \in Steps /\ manifest[reusedFrom[s]] # NoManifest
      BY <1>inv DEF ResultsAreFenced, FencedResult, TypeOK
    <3>3. /\ manifest'[s] = manifest[s] /\ reusedFrom'[s] = reusedFrom[s]
          /\ fence'[s] = fence[s] /\ attempts'[s] = attempts[s] /\ intents'[s] = intents[s]
      BY <1>3, <1>8, <2>3
    <3>4. manifest[s] # NoManifest /\ fence[s] = 0 =>
             manifest'[reusedFrom[s]] = manifest[reusedFrom[s]]
      BY <2>1, <3>2
    <3> QED  BY <1>inv, <3>1, <3>3, <3>4 DEF ResultsAreFenced, FencedResult
  <2> QED  BY <2>2, <2>3
<1>13. DependencyOrder'
  <2> SUFFICES ASSUME NEW s \in Steps
               PROVE  ParentsFirst(s)'
    BY DEF DependencyOrder
  <2>1. \A p \in DependsOn[s] : p \in Steps /\ JobOf[p] = JobOf[s]  BY PlanAssumption
  <2>2. CASE s \in copied
    <3>1. \A p \in DependsOn[s] : p \in copied /\ source[p] \in DependsOn[source[s]]
      BY <1>2, <2>2, CopiedParents
    <3> QED  BY <1>7, <1>8, <2>1, <2>2, <3>1 DEF ParentsFirst
  <2>3. CASE s \in StepsOf(j) \ copied
    BY <1>4, <1>5, <1>7, <1>8, <2>3 DEF ParentsFirst
  <2>4. CASE s \notin StepsOf(j)
    <3>1. \A p \in DependsOn[s] : p \notin StepsOf(j)  BY <2>1, <2>4 DEF StepsOf
    <3>2. \A p \in DependsOn[s] : stepState'[p] = stepState[p] /\ reusedFrom'[p] = reusedFrom[p]
      BY <1>4, <1>7, <1>8, <2>1, <3>1
    <3>3. stepState'[s] = stepState[s] /\ reusedFrom'[s] = reusedFrom[s]
      BY <1>4, <1>7, <1>8, <2>4
    <3> QED  BY <1>inv, <3>2, <3>3 DEF DependencyOrder, ParentsFirst
  <2> QED  BY <2>2, <2>3, <2>4
<1>14. /\ jobState'[j] = IF \A t \in StepsOf(j) : stepState'[t] = "SUCCEEDED" THEN "COMPLETED" ELSE "QUEUED"
       /\ \A i \in Jobs : i # j => jobState'[i] = jobState[i]
  <2>1. \A t \in StepsOf(j) : stepState'[t] \notin {"FAILED", "RUNNING"}
    BY <1>4, <1>7
  <2>2. jobState'[j] = Refreshed(j, "QUEUED", FALSE, stepState')
    BY <1>inv, <1>2 DEF TypeOK
  <2>3. \A i \in Jobs : i # j => jobState'[i] = jobState[i]
    BY <1>inv, <1>2 DEF TypeOK
  <2> QED  BY <2>1, <2>2, <2>3 DEF Refreshed, TERMINAL
<1>15. VerdictMatchesSteps' /\ CancellationFences' /\ \A i \in Jobs : jobState'[i] # "PARTIAL"
  <2> SUFFICES ASSUME NEW i \in Jobs
               PROVE  /\ Verdict(i)' /\ CancelFence(i)'
                      /\ jobState'[i] # "PARTIAL"
    BY DEF VerdictMatchesSteps, CancellationFences
  <2>1. CASE i = j
    <3>1. \A t \in StepsOf(j) : stepState'[t] \in {"SUCCEEDED", "READY", "PENDING"} /\ t \notin deadLetters'
      BY <1>3, <1>4, <1>5, <1>7
    <3>2. cancelRequested'[j] = FALSE  BY <1>3
    <3> QED  BY <1>14, <2>1, <3>1, <3>2 DEF Verdict, CancelFence, TERMINAL, Live, Waiting
  <2>2. CASE i # j
    <3>1. \A t \in StepsOf(i) : stepState'[t] = stepState[t]
      BY <1>7, <2>2 DEF StepsOf
    <3>2. deadLetters' = deadLetters /\ cancelRequested' = cancelRequested  BY <1>3
    <3> QED  BY SMTT(60), <1>inv, <1>14, <2>2, <3>1, <3>2 DEF VerdictMatchesSteps, Verdict, CancellationFences, CancelFence
  <2> QED  BY <2>1, <2>2
<1>16. StepsMatchHistory'
  <2> SUFFICES ASSUME NEW s \in Steps
               PROVE  StepHistory(s)'
    BY DEF StepsMatchHistory
  <2>1. JobOf[s] \in Jobs /\ \A p \in DependsOn[s] : p \in Steps /\ JobOf[p] = JobOf[s]
    BY PlanAssumption
  <2>2. CASE s \in StepsOf(j)
    <3>1. JobOf[s] = j /\ jobState'[j] \in {"COMPLETED", "QUEUED"} /\ fence'[s] = 0
      BY <1>3, <1>5, <1>14, <2>2 DEF StepsOf
    <3>2. s \notin copied => reusedFrom'[s] = NoStep
      BY <1>5, <1>8, <2>2
    <3> QED  BY <1>7, <2>2, <3>1, <3>2 DEF StepHistory
  <2>3. CASE s \notin StepsOf(j)
    <3>1. \A p \in DependsOn[s] : p \notin StepsOf(j)  BY <2>1, <2>3 DEF StepsOf
    <3>2. \A p \in DependsOn[s] : stepState'[p] = stepState[p]
      BY <1>7, <2>1, <3>1
    <3>3. /\ stepState'[s] = stepState[s] /\ reusedFrom'[s] = reusedFrom[s] /\ fence'[s] = fence[s]
          /\ jobState'[JobOf[s]] = jobState[JobOf[s]]
      BY <1>3, <1>4, <1>7, <1>8, <1>14, <2>1, <2>3 DEF StepsOf
    <3> QED  BY <1>inv, <3>2, <3>3 DEF StepsMatchHistory, StepHistory
  <2> QED  BY <2>2, <2>3
<1> QED  BY <1>9, <1>10, <1>11, <1>12, <1>13, <1>15, <1>16 DEF LedgerInv

-----------------------------------------------------------------------------
(* The operations that touch no state of a step. *)

\* Steps that touch only timers, intents or outbox rows keep the invariant.
LEMMA QuietKeepsInv ==
    ASSUME LedgerInv, TypeOK',
           UNCHANGED <<jobState, cancelRequested, stepState, attemptCount, fence, leaseOwner,
                       attempts, manifest, reusedFrom, deadLetters>>,
           \A s \in Steps : intents[s] \subseteq intents'[s]
    PROVE  LedgerInv'
<1>inv. /\ TypeOK /\ LeaseMatchesHistory /\ AttemptsBounded /\ ResultsAreFenced
        /\ DependencyOrder /\ VerdictMatchesSteps /\ CancellationFences /\ StepsMatchHistory
        /\ \A i \in Jobs : jobState[i] # "PARTIAL"
  BY DEF LedgerInv
<1>1. ResultsAreFenced'
  BY <1>inv DEF ResultsAreFenced, FencedResult
<1>2. LeaseMatchesHistory' /\ AttemptsBounded'
  BY <1>inv DEF LeaseMatchesHistory, LeaseHistory, AttemptsBounded, AttemptBound
<1>3. DependencyOrder' /\ StepsMatchHistory'
  BY <1>inv DEF DependencyOrder, ParentsFirst, StepsMatchHistory, StepHistory
<1>4. VerdictMatchesSteps' /\ CancellationFences'
  BY <1>inv DEF VerdictMatchesSteps, Verdict, CancellationFences, CancelFence
<1> QED  BY <1>inv, <1>1, <1>2, <1>3, <1>4 DEF LedgerInv

\* renew keeps the invariant.
LEMMA RenewKeepsInv ==
    ASSUME LedgerInv, NEW l \in IssuedLeases, Renew(l)
    PROVE  LedgerInv'
<1>1. TypeOK'
  BY SettingsAssumption DEF LedgerInv, TypeOK, Renew, jobVars, resultVars, dispatchVars
<1> QED  BY <1>1, QuietKeepsInv DEF Renew, jobVars, resultVars, dispatchVars

\* register_object keeps the invariant.
LEMMA RegisterObjectKeepsInv ==
    ASSUME LedgerInv, NEW l \in IssuedLeases, NEW ref \in Refs, RegisterObject(l, ref)
    PROVE  LedgerInv'
<1>1. intents' \in [Steps -> SUBSET Refs] /\ \A s \in Steps : intents[s] \subseteq intents'[s]
  BY DEF LedgerInv, TypeOK, RegisterObject
<1>2. UNCHANGED <<jobState, cancelRequested, stepState, attemptCount, fence, leaseOwner, leaseLeft,
                  waitLeft, budgetLeft, attempts, manifest, reusedFrom, outbox, deliveredAge,
                  deadLetters>>
  BY DEF RegisterObject, jobVars, leaseVars, dispatchVars
<1>3. TypeOK'
  BY <1>1, <1>2 DEF LedgerInv, TypeOK
<1> QED  BY <1>1, <1>2, <1>3, QuietKeepsInv

\* mark_delivered keeps the invariant.
LEMMA MarkDeliveredKeepsInv ==
    ASSUME LedgerInv, NEW s \in Steps, NEW row \in outbox[s], MarkDelivered(s, row)
    PROVE  LedgerInv'
<1>1. outbox' \in [Steps -> SUBSET OutboxRow] /\ deliveredAge' \in [Steps -> 0 .. RedeliverySeconds]
  BY SMTT(60), SettingsAssumption DEF LedgerInv, TypeOK, MarkDelivered
<1>2. UNCHANGED <<jobState, cancelRequested, stepState, attemptCount, fence, leaseOwner, leaseLeft,
                  waitLeft, budgetLeft, attempts, manifest, reusedFrom, intents, deadLetters>>
  BY DEF MarkDelivered, jobVars, leaseVars, resultVars
<1>3. TypeOK'
  BY <1>1, <1>2 DEF LedgerInv, TypeOK
<1> QED  BY <1>2, <1>3, QuietKeepsInv

\* The passage of time keeps the invariant.
LEMMA TickKeepsInv ==
    ASSUME LedgerInv, Tick
    PROVE  LedgerInv'
<1>1. UNCHANGED <<jobState, cancelRequested, stepState, attemptCount, fence, leaseOwner,
                  attempts, manifest, reusedFrom, intents, deadLetters>>
  BY DEF Tick, jobVars, resultVars
<1>2. \A n \in Nat \cup {NotStarted} : Dec(n) \in Nat \cup {NotStarted} /\ (n \in Nat => Dec(n) \in Nat)
  BY SMTT(60) DEF Dec, NotStarted
<1>3. /\ leaseLeft' \in [Steps -> Nat] /\ waitLeft' \in [Steps -> Nat]
      /\ budgetLeft' \in [Steps -> Nat \cup {NotStarted}]
  BY SMTT(60), <1>2 DEF Tick, LedgerInv, TypeOK
<1>4. outbox' \in [Steps -> SUBSET OutboxRow]
  <2>1. \A row \in OutboxRow : [row EXCEPT !.wait = Dec(@)] \in OutboxRow
    BY <1>2 DEF OutboxRow
  <2> QED  BY SMTT(60), <2>1 DEF Tick, LedgerInv, TypeOK
<1>5. deliveredAge' \in [Steps -> 0 .. RedeliverySeconds]
  BY SMTT(60), SettingsAssumption DEF Tick, LedgerInv, TypeOK
<1>6. TypeOK'
  BY <1>1, <1>3, <1>4, <1>5 DEF LedgerInv, TypeOK
<1> QED  BY <1>1, <1>6, QuietKeepsInv

-----------------------------------------------------------------------------
(* The invariant. *)

\* The empty ledger satisfies the invariant.
LEMMA InitInv ==
    Init => LedgerInv
<1> SUFFICES ASSUME Init PROVE LedgerInv  OBVIOUS
<1> USE DEF Init
<1>1. TypeOK
  BY SMTT(60), SettingsAssumption DEF TypeOK, JobState, StepState
<1>2. LeaseMatchesHistory
  BY SMTT(60) DEF LeaseMatchesHistory, LeaseHistory
<1>3. AttemptsBounded
  BY SMTT(60), PlanAssumption, RequestAssumption DEF AttemptsBounded, AttemptBound, RetryPolicy, Waiting
<1>4. ResultsAreFenced /\ DependencyOrder /\ CancellationFences
  BY DEF ResultsAreFenced, FencedResult, DependencyOrder, ParentsFirst, CancellationFences, CancelFence
<1>5. VerdictMatchesSteps
  <2>1. \A j \in Jobs : \E s \in StepsOf(j) : stepState[s] = "ABSENT"
    BY PlanAssumption DEF StepsOf
  <2> QED  BY <2>1 DEF VerdictMatchesSteps, Verdict, StepsOf, TERMINAL
<1>6. StepsMatchHistory
  BY PlanAssumption DEF StepsMatchHistory, StepHistory
<1> QED  BY <1>1, <1>2, <1>3, <1>4, <1>5, <1>6 DEF LedgerInv

\* The operations that touch no state of a step.
Quiet ==
    \/ \E l \in IssuedLeases : Renew(l) \/ \E ref \in Refs : RegisterObject(l, ref)
    \/ \E s \in Steps : \E row \in outbox[s] : row.wait = 0 /\ MarkDelivered(s, row)
    \/ Tick

\* Every operation of the ledger is of one of five kinds.
LEMMA KindsOfSteps ==
    ASSUME LedgerInv, Next
    PROVE  \/ \E j \in Jobs : Admit(j)
           \/ \E s \in Steps, w \in Workers : ClaimLends(s, w)
           \/ \E l \in IssuedLeases, refs \in SUBSET Refs : Commit(l, refs)
           \/ Settling
           \/ Quiet
<1>1. ASSUME NEW j \in Jobs, Cancel(j) PROVE Settling
  BY <1>1, CancelSettles
<1>2. ASSUME NEW s \in Steps, ClaimFails(s) PROVE Settling
  BY <1>2, ClaimFailsSettles
<1>3. ASSUME NEW l \in IssuedLeases,
             \/ \E c \in Classification, after \in RetryAfters : Fail(l, c, after)
             \/ SettleCancel(l)
      PROVE  Settling
  BY <1>3, FailSettles, SettleCancelSettles
<1>4. ASSUME Reconcile PROVE Settling
  BY <1>4, ReconcileSettles
<1> QED  BY <1>1, <1>2, <1>3, <1>4 DEF Next, Quiet

\* Every operation of the ledger keeps the invariant.
LEMMA NextKeepsInv ==
    LedgerInv /\ [Next]_vars => LedgerInv'
<1> SUFFICES ASSUME LedgerInv, [Next]_vars PROVE LedgerInv'  OBVIOUS
<1>1. ASSUME NEW j \in Jobs, Admit(j) PROVE LedgerInv'
  BY <1>1, AdmitKeepsInv
<1>2. ASSUME NEW s \in Steps, NEW w \in Workers, ClaimLends(s, w) PROVE LedgerInv'
  BY <1>2, ClaimLendsKeepsInv
<1>3. ASSUME NEW l \in IssuedLeases, NEW refs \in SUBSET Refs, Commit(l, refs) PROVE LedgerInv'
  BY <1>3, CommitKeepsInv
<1>4. CASE Settling
  BY <1>4, SettlingKeepsInv
<1>5. CASE Quiet
  BY <1>5, RenewKeepsInv, RegisterObjectKeepsInv, MarkDeliveredKeepsInv, TickKeepsInv DEF Quiet
<1>6. CASE UNCHANGED vars
  <2>1. TypeOK'
    BY <1>6 DEF LedgerInv, TypeOK, vars, jobVars, leaseVars, resultVars, dispatchVars
  <2> QED  BY <1>6, <2>1, QuietKeepsInv DEF vars, jobVars, leaseVars, resultVars, dispatchVars
<1> QED  BY <1>1, <1>2, <1>3, <1>4, <1>5, <1>6, KindsOfSteps

\* In every reachable state of the ledger, for all jobs, plans, workers and settings,
\* the whole inductive invariant holds.
THEOREM LedgerInvariant ==
    LedgerSpec => []LedgerInv
BY InitInv, NextKeepsInv, PTL DEF LedgerSpec

\* The columns of jobs, steps, attempts, manifests, intents, outbox and dead
\* letters keep their types and enumerations in every reachable state.
THEOREM LedgerIsTyped ==
    LedgerSpec => []TypeOK
<1>1. LedgerInv => TypeOK  BY DEF LedgerInv
<1> QED  BY <1>1, LedgerInvariant, PTL

\* Lease columns, fence and attempt rows of a step agree in every reachable state,
\* so a fence is never issued twice and an old lease is recognised for ever.
THEOREM HistoryAgrees ==
    LedgerSpec => []LeaseMatchesHistory
<1>1. LedgerInv => LeaseMatchesHistory  BY DEF LedgerInv
<1> QED  BY <1>1, LedgerInvariant, PTL

\* No step of any job is attempted more often than its RetryPolicy allows, whatever
\* mix of failures, expired leases and reconciliations it went through.
THEOREM AttemptsStayBounded ==
    LedgerSpec => []AttemptsBounded
<1>1. LedgerInv => AttemptsBounded  BY DEF LedgerInv
<1> QED  BY <1>1, LedgerInvariant, PTL

\* Every manifest belongs to the last lease of its step and names registered objects,
\* or is a copy of one (commit, admit).
THEOREM ManifestsAreFenced ==
    LedgerSpec => []ResultsAreFenced
<1>1. LedgerInv => ResultsAreFenced  BY DEF LedgerInv
<1> QED  BY <1>1, LedgerInvariant, PTL

\* No step runs before its parents succeeded, for every acyclic plan and every chain
\* of resumed jobs (_activate, admit).
THEOREM DependenciesHold ==
    LedgerSpec => []DependencyOrder
<1>1. LedgerInv => DependencyOrder  BY DEF LedgerInv
<1> QED  BY <1>1, LedgerInvariant, PTL

\* The state of every job is the verdict of its steps (_refresh, _terminal_failure).
THEOREM VerdictsHold ==
    LedgerSpec => []VerdictMatchesSteps
<1>1. LedgerInv => VerdictMatchesSteps  BY DEF LedgerInv
<1> QED  BY <1>1, LedgerInvariant, PTL

\* Cancellation leaves only the steps a worker holds live, and ends in CANCELLED.
THEOREM CancellationHolds ==
    LedgerSpec => []CancellationFences
<1>1. LedgerInv => CancellationFences  BY DEF LedgerInv
<1> QED  BY <1>1, LedgerInvariant, PTL

\* What a step's state says of its history holds for every plan (_activate, admit,
\* _cancel_step).
THEOREM StepHistoryHolds ==
    LedgerSpec => []StepsMatchHistory
<1>1. LedgerInv => StepsMatchHistory  BY DEF LedgerInv
<1> QED  BY <1>1, LedgerInvariant, PTL

-----------------------------------------------------------------------------
(* Open jobs have work. *)

\* Every non-empty set of natural numbers has a least element.
LEMMA LeastNatural ==
    ASSUME NEW T \in SUBSET Nat, T # {}
    PROVE  \E m \in T : \A n \in T : m <= n
<1> DEFINE R == OpToRel(<, Nat)
<1>1. IsWellFoundedOn(R, Nat)
  BY NatLessThanWellFounded
<1>2. \A x, y \in Nat : <<x, y>> \in R <=> x < y
  BY DEF OpToRel
<1> HIDE DEF R
<1>3. \E x \in T : \A y \in T : <<y, x>> \notin R
  BY <1>1, WFMin
<1>4. \E x \in T : \A y \in T : ~(y < x)
  BY <1>2, <1>3
<1> QED  BY SMT, <1>4

\* Among some steps of a plan there is one none of whose parents is among them: the
\* first in the order of Admission.steps.
LEMMA FirstStep ==
    ASSUME NEW S \in SUBSET Steps, S # {}
    PROVE  \E s \in S : \A p \in DependsOn[s] : p \notin S
<1> DEFINE T == {Position[s] : s \in S}
<1>1. T \in SUBSET Nat /\ T # {}
  <2>1. \A s \in S : Position[s] \in Nat
    BY PlanAssumption
  <2> QED  BY <2>1
<1>2. PICK m \in T : \A n \in T : m <= n
  BY <1>1, LeastNatural
<1>3. PICK s \in S : m = Position[s]
  BY <1>2
<1>4. ASSUME NEW p \in DependsOn[s], p \in S PROVE FALSE
  <2>1. Position[p] < Position[s] /\ Position[p] \in Nat /\ Position[s] \in Nat
    BY PlanAssumption
  <2>2. m <= Position[p]
    BY <1>2, <1>4
  <2> QED  BY SMT, <1>3, <2>1, <2>2
<1> QED  BY <1>4

\* A job without a verdict that is not being cancelled has steps that wait for
\* parents or succeeded, besides those that can be worked on; the first that waits
\* for a parent would have all its parents succeeded, and _activate leaves none such.
LEMMA OpenJobHasWork ==
    ASSUME LedgerInv
    PROVE  OpenJobsHaveWork
<1> SUFFICES ASSUME NEW j \in Jobs, jobState[j] \in {"QUEUED", "PROCESSING"},
                    \A s \in StepsOf(j) : stepState[s] \notin {"READY", "RUNNING", "RETRY_WAIT"}
             PROVE  FALSE
  BY DEF OpenJobsHaveWork
<1> DEFINE S == {s \in StepsOf(j) : stepState[s] = "PENDING"}
<1>1. \A s \in StepsOf(j) : s \in Steps /\ JobOf[s] = j /\ stepState[s] \in StepState
  BY DEF LedgerInv, TypeOK, StepsOf
<1>2. \A s \in StepsOf(j) : stepState[s] \in {"PENDING", "SUCCEEDED"}
  <2>1. \A s \in StepsOf(j) : stepState[s] # "FAILED"
    BY DEF LedgerInv, VerdictMatchesSteps, Verdict
  <2>2. \A s \in StepsOf(j) : stepState[s] # "ABSENT" /\ stepState[s] # "CANCELLED"
    BY <1>1 DEF LedgerInv, StepsMatchHistory, StepHistory
  <2> QED  BY <1>1, <2>1, <2>2 DEF StepState, Live, Waiting
<1>3. S # {}
  <2>1. \E s \in StepsOf(j) : stepState[s] # "SUCCEEDED"
    BY DEF LedgerInv, VerdictMatchesSteps, Verdict
  <2> QED  BY <1>2, <2>1
<1>4. S \in SUBSET Steps
  BY <1>1
<1>5. PICK s \in S : \A p \in DependsOn[s] : p \notin S
  BY <1>3, <1>4, FirstStep
<1>6. PICK p \in DependsOn[s] : stepState[p] # "SUCCEEDED"
  BY <1>1 DEF LedgerInv, StepsMatchHistory, StepHistory
<1>7. p \in StepsOf(j)
  BY <1>1, PlanAssumption DEF StepsOf
<1> QED  BY <1>2, <1>5, <1>6, <1>7

\* A plan is never left with PENDING steps only, for every acyclic plan.
THEOREM OpenJobsStayAlive ==
    LedgerSpec => []OpenJobsHaveWork
<1>1. LedgerInv => OpenJobsHaveWork  BY OpenJobHasWork
<1> QED  BY <1>1, LedgerInvariant, PTL

-----------------------------------------------------------------------------
(* Orphans. *)

\* A key reported as an orphan is no key of an accepted manifest, nor of an object a
\* live step registered.
LEMMA OrphanKey ==
    ASSUME NEW s \in Steps, NEW r, KeyOf[r] \in OrphanKeys
    PROVE  /\ manifest[s] # NoManifest => r \notin manifest[s].refs
           /\ stepState[s] \in Live => r \notin intents[s]
BY DEF OrphanKeys

\* commit and admit are the only operations that write manifests.
LEMMA OnlyTwoWriteManifests ==
    ASSUME LedgerInv, Next,
           ~ \E j \in Jobs : Admit(j),
           ~ \E l \in IssuedLeases, refs \in SUBSET Refs : Commit(l, refs)
    PROVE  manifest' = manifest
<1> USE DEF resultVars
<1>1. ASSUME NEW s \in Steps, NEW w \in Workers, ClaimLends(s, w) PROVE manifest' = manifest
  BY <1>1 DEF ClaimLends, ClaimDue, ClaimExpired, Lend
<1>2. ASSUME Settling PROVE manifest' = manifest
  <2>1. PICK F, C, W, T : SettleAction(F, C, W, T)  BY <1>2 DEF Settling
  <2> QED  BY <2>1 DEF SettleAction, SettleSteps
<1>3. ASSUME Quiet PROVE manifest' = manifest
  BY <1>3 DEF Quiet, Renew, RegisterObject, MarkDelivered, Tick
<1> QED  BY <1>1, <1>2, <1>3, KindsOfSteps

\* What admit writes for the steps it copies.
AdmitEffect(j, copied, source) ==
    /\ copied \subseteq StepsOf(j)
    /\ \A s \in copied :
          /\ DependsOn[s] \subseteq copied
          /\ source[s] \in Steps /\ stepState[source[s]] = "SUCCEEDED"
          /\ JobOf[source[s]] \in Jobs /\ jobState[JobOf[source[s]]] \in TERMINAL
    /\ manifest' = [s \in Steps |->
          IF s \in copied THEN [refs |-> manifest[source[s]].refs, fence |-> 0] ELSE manifest[s]]

\* admit has that effect: whatever it copies succeeded in a job that has its verdict,
\* and was copied together with its parents.
LEMMA AdmitHasEffect ==
    ASSUME NEW j \in Jobs, Admit(j)
    PROVE  \E copied \in SUBSET StepsOf(j) : \E source \in [copied -> Steps] :
              AdmitEffect(j, copied, source)
<1>1. PICK copied \in Copies(j) : \E source \in [copied -> Steps] :
          /\ \A s \in copied : source[s] \in Sources(j, s)
          /\ manifest' = [s \in Steps |->
                IF s \in copied THEN [refs |-> manifest[source[s]].refs, fence |-> 0] ELSE manifest[s]]
  BY DEF Admit
<1>2. PICK source \in [copied -> Steps] :
          /\ \A s \in copied : source[s] \in Sources(j, s)
          /\ manifest' = [s \in Steps |->
                IF s \in copied THEN [refs |-> manifest[source[s]].refs, fence |-> 0] ELSE manifest[s]]
  BY <1>1
<1>3. copied \in SUBSET StepsOf(j)
  BY DEF Copies, Reusable
<1>4. \A s \in copied : DependsOn[s] \subseteq copied /\ ResumeFrom[j] # NoJob
  BY SMTT(60) DEF Copies, Reusable
<1>5. \A s \in copied : /\ source[s] \in Steps /\ stepState[source[s]] = "SUCCEEDED"
                        /\ JobOf[source[s]] = ResumeFrom[j]
  BY <1>2 DEF Sources
<1>6. ResumeFrom[j] # NoJob => ResumeFrom[j] \in Jobs /\ jobState[ResumeFrom[j]] \in TERMINAL
  <2>1. ResumeFrom[j] # NoJob => jobState[ResumeFrom[j]] \in TERMINAL  BY DEF Admit
  <2> QED  BY <2>1, RequestAssumption
<1> QED  BY <1>2, <1>3, <1>4, <1>5, <1>6 DEF AdmitEffect

\* An object reported as an orphan stays out of every manifest that is written next,
\* whoever calls what: the theorem behind the deletion of orphans.
THEOREM OrphansAreSafe ==
    LedgerSpec => OrphansStayUnreferenced
<1> DEFINE Safe == \A s \in Steps : manifest'[s] # manifest[s] =>
                      \A r \in manifest'[s].refs : KeyOf[r] \notin OrphanKeys
<1>1. ASSUME LedgerInv, NEW j \in Jobs, Admit(j) PROVE Safe
  <2>1. PICK copied \in SUBSET StepsOf(j) : \E source \in [copied -> Steps] :
           AdmitEffect(j, copied, source)
    BY <1>1, AdmitHasEffect
  <2>2. PICK source \in [copied -> Steps] : AdmitEffect(j, copied, source)
    BY <2>1
  <2> SUFFICES ASSUME NEW s \in Steps, manifest'[s] # manifest[s],
                      NEW r \in manifest'[s].refs, KeyOf[r] \in OrphanKeys
               PROVE  FALSE
    OBVIOUS
  <2>3. s \in copied /\ manifest'[s] = [refs |-> manifest[source[s]].refs, fence |-> 0]
    BY <2>2 DEF AdmitEffect
  <2>4. source[s] \in Steps /\ manifest[source[s]] # NoManifest
    BY <1>1, <2>2, <2>3 DEF AdmitEffect, LedgerInv, ResultsAreFenced, FencedResult
  <2>5. r \in manifest[source[s]].refs
    BY SMTT(60), <2>3
  <2> QED  BY <2>4, <2>5, OrphanKey
<1>2. ASSUME LedgerInv, NEW l \in IssuedLeases, NEW refs \in SUBSET Refs, Commit(l, refs) PROVE Safe
  <2>1. CommitEffect(l.step, refs) /\ TypeOK
    BY <1>2, CommitHasEffect DEF LedgerInv
  <2>2. l.step \in Steps /\ stepState[l.step] = "RUNNING" /\ refs \subseteq intents[l.step]
    BY <2>1 DEF CommitEffect, CommitGuard
  <2> SUFFICES ASSUME NEW s \in Steps, manifest'[s] # manifest[s],
                      NEW r \in manifest'[s].refs, KeyOf[r] \in OrphanKeys
               PROVE  FALSE
    OBVIOUS
  <2>3. s = l.step /\ manifest'[s] = [refs |-> refs, fence |-> fence[s]]
    BY <2>1, <2>2, CommitColumns
  <2>4. r \in refs
    BY SMTT(60), <2>3
  <2> QED  BY <2>2, <2>3, <2>4, OrphanKey DEF Live
<1>3. ASSUME LedgerInv, Next PROVE Safe
  <2>1. CASE \E j \in Jobs : Admit(j)  BY <1>1, <1>3, <2>1
  <2>2. CASE \E l \in IssuedLeases, refs \in SUBSET Refs : Commit(l, refs)  BY <1>2, <1>3, <2>2
  <2>3. CASE manifest' = manifest  BY <2>3
  <2> QED  BY <1>3, <2>1, <2>2, <2>3, OnlyTwoWriteManifests
<1>4. LedgerInv /\ [Next]_vars => [Safe]_vars
  BY <1>3
<1> QED  BY <1>4, LedgerInvariant, PTL DEF LedgerSpec, OrphansStayUnreferenced

-----------------------------------------------------------------------------
(* Dispatch. *)

\* An operation that puts no step into RETRY_WAIT and takes no row away from one that
\* waits there keeps the dispatch of every waiting step.
LEMMA NobodyWaitsAnew ==
    ASSUME BackoffKeepsDispatch,
           \A s \in Steps : stepState'[s] = "RETRY_WAIT" =>
              /\ stepState[s] = "RETRY_WAIT" /\ waitLeft'[s] = waitLeft[s] /\ fence'[s] = fence[s]
              /\ outbox[s] \subseteq outbox'[s]
    PROVE  BackoffKeepsDispatch'
BY DEF BackoffKeepsDispatch

\* The row of a step that has to wait is written together with its wait (_failure,
\* reconcile).
LEMMA SettlingKeepsDispatch ==
    ASSUME BackoffKeepsDispatch, Settling
    PROVE  BackoffKeepsDispatch'
<1>1. PICK F, C, W, T : SettleAction(F, C, W, T)
  BY DEF Settling
<1>2. /\ SettleSteps(F, C, W)
      /\ \A s \in Steps : /\ outbox[s] \subseteq outbox'[s]
                          /\ s \in DOMAIN W => [fence |-> fence[s], wait |-> W[s]] \in outbox'[s]
  BY <1>1 DEF SettleAction
<1> SUFFICES ASSUME NEW s \in Steps, stepState'[s] = "RETRY_WAIT", waitLeft'[s] > 0
             PROVE  [fence |-> fence'[s], wait |-> waitLeft'[s]] \in outbox'[s]
  BY DEF BackoffKeepsDispatch
<1>3. fence' = fence
  BY <1>2 DEF SettleSteps
<1>4. CASE s \in DOMAIN W
  <2>1. waitLeft'[s] = W[s]  BY <1>2, <1>4 DEF SettleSteps
  <2> QED  BY <1>2, <1>3, <1>4, <2>1
<1>5. CASE s \notin DOMAIN W
  <2>1. stepState[s] = "RETRY_WAIT" /\ waitLeft'[s] = waitLeft[s]  BY <1>2, <1>5 DEF SettleSteps
  <2> QED  BY <1>2, <1>3, <2>1 DEF BackoffKeepsDispatch
<1> QED  BY <1>4, <1>5

\* mark_delivered takes away rows that are available, never the row of a step that
\* still waits; time brings the row and the wait to their end together.
LEMMA QuietKeepsDispatch ==
    ASSUME LedgerInv, BackoffKeepsDispatch, Quiet
    PROVE  BackoffKeepsDispatch'
<1> USE DEF BackoffKeepsDispatch
<1>1. ASSUME NEW l \in IssuedLeases, Renew(l) \/ \E ref \in Refs : RegisterObject(l, ref)
      PROVE  BackoffKeepsDispatch'
  BY <1>1, NobodyWaitsAnew DEF Renew, RegisterObject, leaseVars, dispatchVars
<1>2. ASSUME NEW s \in Steps, NEW row \in outbox[s], row.wait = 0, MarkDelivered(s, row)
      PROVE  BackoffKeepsDispatch'
  <2>1. \A t \in Steps : \A r \in outbox[t] : r \in outbox'[t] \/ r = row
    BY <1>2 DEF MarkDelivered, LedgerInv, TypeOK
  <2>2. UNCHANGED <<stepState, fence, waitLeft>>
    BY <1>2 DEF MarkDelivered, leaseVars
  <2>3. \A t \in Steps : waitLeft[t] > 0 => [fence |-> fence[t], wait |-> waitLeft[t]] # row
    BY SMTT(60), <1>2 DEF LedgerInv, TypeOK
  <2> QED  BY <2>1, <2>2, <2>3
<1>3. ASSUME Tick PROVE BackoffKeepsDispatch'
  <2> SUFFICES ASSUME NEW s \in Steps, stepState'[s] = "RETRY_WAIT", waitLeft'[s] > 0
               PROVE  [fence |-> fence'[s], wait |-> waitLeft'[s]] \in outbox'[s]
    OBVIOUS
  <2>1. waitLeft'[s] = Dec(waitLeft[s]) /\ fence' = fence /\ stepState[s] = "RETRY_WAIT"
    BY <1>3 DEF Tick
  <2>2. waitLeft[s] > 0
    BY SMTT(60), <2>1 DEF LedgerInv, TypeOK, Dec
  <2>3. PICK row \in outbox[s] : row = [fence |-> fence[s], wait |-> waitLeft[s]]
    BY <2>1, <2>2
  <2>4. [row EXCEPT !.wait = Dec(@)] = [fence |-> fence[s], wait |-> Dec(waitLeft[s])]
    BY SMTT(60), <2>3
  <2>5. [row EXCEPT !.wait = Dec(@)] \in outbox'[s]
    BY <1>3, <2>3 DEF Tick
  <2> QED  BY <2>1, <2>4, <2>5
<1> QED  BY <1>1, <1>2, <1>3 DEF Quiet

\* Every operation keeps the dispatch of the steps that wait.
LEMMA NextKeepsDispatch ==
    LedgerInv /\ BackoffKeepsDispatch /\ [Next]_vars => BackoffKeepsDispatch'
<1> SUFFICES ASSUME LedgerInv, BackoffKeepsDispatch, [Next]_vars PROVE BackoffKeepsDispatch'  OBVIOUS
<1>1. ASSUME NEW j \in Jobs, Admit(j) PROVE BackoffKeepsDispatch'
  <2>1. PICK copied, inserted :
           /\ stepState' = Activated(j, inserted) /\ outbox' = EnqueuedReady(inserted, stepState')
           /\ inserted = [s \in Steps |-> IF s \in copied THEN "SUCCEEDED"
                                          ELSE IF JobOf[s] = j THEN "PENDING" ELSE stepState[s]]
    BY <1>1 DEF Admit
  <2>2. waitLeft' = waitLeft /\ fence' = fence
    BY <1>1 DEF Admit, leaseVars
  <2>3. \A s \in Steps : outbox[s] \subseteq outbox'[s]
    BY <2>1 DEF EnqueuedReady
  <2>4. \A s \in Steps : stepState'[s] = "RETRY_WAIT" => stepState[s] = "RETRY_WAIT"
    BY <2>1 DEF Activated
  <2> QED  BY <2>2, <2>3, <2>4, NobodyWaitsAnew
<1>2. ASSUME NEW s \in Steps, NEW w \in Workers, ClaimLends(s, w) PROVE BackoffKeepsDispatch'
  <2>1. PICK rows : Lend(s, w, rows)
    BY <1>2 DEF ClaimLends, ClaimDue, ClaimExpired
  <2>2. \A t \in Steps : outbox[t] \subseteq outbox'[t]
    BY <1>2 DEF ClaimLends, ClaimDue, ClaimExpired, LedgerInv, TypeOK
  <2>3. /\ stepState'[s] = "RUNNING"
        /\ \A t \in Steps : t # s => /\ stepState'[t] = stepState[t] /\ waitLeft'[t] = waitLeft[t]
                                     /\ fence'[t] = fence[t]
    BY <2>1 DEF Lend, LedgerInv, TypeOK
  <2> QED  BY <2>2, <2>3, NobodyWaitsAnew
<1>3. ASSUME NEW l \in IssuedLeases, NEW refs \in SUBSET Refs, Commit(l, refs)
      PROVE  BackoffKeepsDispatch'
  <2>1. CommitEffect(l.step, refs)
    BY <1>3, CommitHasEffect
  <2>2. waitLeft' = waitLeft /\ fence' = fence
    BY <1>3 DEF Commit
  <2>3. \A s \in Steps : outbox[s] \subseteq outbox'[s]
    BY <1>3 DEF Commit, EnqueuedReady
  <2>4. \A s \in Steps : stepState'[s] = "RETRY_WAIT" => stepState[s] = "RETRY_WAIT"
    BY <2>1 DEF CommitEffect, CommitSteps
  <2> QED  BY <2>2, <2>3, <2>4, NobodyWaitsAnew
<1>4. CASE UNCHANGED vars
  BY <1>4, NobodyWaitsAnew DEF vars, leaseVars, dispatchVars
<1> QED  BY <1>1, <1>2, <1>3, <1>4, SettlingKeepsDispatch, QuietKeepsDispatch, KindsOfSteps

\* A step in backoff never loses the outbox row that will bring it back, for every
\* policy, jitter and order of deliveries (_failure, _enqueue, mark_delivered).
THEOREM BackoffIsNeverLost ==
    LedgerSpec => []BackoffKeepsDispatch
<1>1. Init => BackoffKeepsDispatch
  BY DEF Init, BackoffKeepsDispatch
<1> QED  BY <1>1, LedgerInvariant, NextKeepsDispatch, PTL DEF LedgerSpec

-----------------------------------------------------------------------------
(* The contract. *)

\* A step has a result in the sense of the contract exactly when it SUCCEEDED.
ResultsSeen == \A s \in Steps : resultSeen[s] # NoManifest <=> stepState[s] = "SUCCEEDED"

\* It has one by the invariant (commit and admit write the manifest with the state).
LEMMA SeenResult == LedgerInv => ResultsSeen
<1> SUFFICES ASSUME LedgerInv, NEW s \in Steps
             PROVE  resultSeen[s] # NoManifest <=> stepState[s] = "SUCCEEDED"
  BY DEF ResultsSeen
<1>1. stepState[s] = "SUCCEEDED" <=> manifest[s] # NoManifest
  BY DEF LedgerInv, ResultsAreFenced, FencedResult
<1>2. manifest[s] # NoManifest => manifest[s].refs \in SUBSET Refs
  BY SMTT(60) DEF LedgerInv, TypeOK, Manifest
<1>3. resultSeen[s] = IF manifest[s] = NoManifest THEN NoManifest ELSE manifest[s].refs
  BY DEF resultSeen
<1> QED  BY <1>1, <1>2, <1>3, NoManifestAssumption

\* The verdict of a job that is not being cancelled and none of whose steps failed is
\* the one the contract grades from the results.
LEMMA SeenGrade ==
    ASSUME LedgerInv', NEW j \in Jobs, jobState'[j] \in {"QUEUED", "PROCESSING", "COMPLETED"}
    PROVE  verdictSeen'[j] = Contract!Graded(j, resultSeen')
<1>1. jobState'[j] = "COMPLETED" <=> \A s \in StepsOf(j) : stepState'[s] = "SUCCEEDED"
  BY DEF LedgerInv, VerdictMatchesSteps, Verdict
<1>2. ResultsSeen'
  BY SeenResult, PTL
<1>3. \A s \in StepsOf(j) : resultSeen'[s] # NoManifest <=> stepState'[s] = "SUCCEEDED"
  BY <1>2 DEF ResultsSeen, StepsOf
<1>4. verdictSeen'[j] = IF jobState'[j] = "COMPLETED" THEN "COMPLETED" ELSE "OPEN"
  BY DEF verdictSeen, TERMINAL
<1> QED  BY <1>1, <1>3, <1>4 DEF Contract!Graded, Contract!StepsOf, StepsOf

\* The ledger starts where the contract starts.
LEMMA InitContract == Init => Contract!Init
BY DEF Init, Contract!Init, verdictSeen, resultSeen, TERMINAL

\* Two states show the contract the same verdicts and results.
LEMMA SameSeen ==
    ASSUME \A j \in Jobs : verdictSeen'[j] = verdictSeen[j],
           manifest' = manifest, cancelRequested' = cancelRequested
    PROVE  UNCHANGED Contract!contractVars
<1>1. verdictSeen' = verdictSeen  BY DEF verdictSeen
<1>2. resultSeen' = resultSeen  BY DEF resultSeen
<1> QED  BY <1>1, <1>2 DEF Contract!contractVars

\* A settlement ends the jobs that have an operation's failed or cancelled steps, or
\* takes a request for cancellation: GiveUp or RequestCancel of the contract.
LEMMA SettlingContract ==
    ASSUME LedgerInv, LedgerInv', Settling
    PROVE  Contract!Next \/ UNCHANGED Contract!contractVars
<1>1. PICK F, C, W, T : SettleAction(F, C, W, T)  BY DEF Settling
<1>2. resultSeen' = resultSeen
  BY <1>1 DEF SettleAction, SettleSteps, resultVars, resultSeen
<1>3. \A j \in Jobs : j \notin T => verdictSeen'[j] = verdictSeen[j]
  BY <1>1 DEF SettleAction, RefreshJobs, verdictSeen
<1>4. \A j \in Jobs : j \in T => verdictSeen[j] = "OPEN"
  <2>1. \A j \in Jobs : j \in T => jobState[j] \notin TERMINAL \cup {"ABSENT"}
    BY <1>1 DEF SettleAction
  <2> QED  BY <2>1 DEF verdictSeen
<1>5. ASSUME NEW j \in T, j \in Jobs
      PROVE  verdictSeen'[j] \in {"OPEN", IF cancelRequested'[j] THEN "CANCELLED" ELSE "FAILED"}
  <2>1. jobState[j] # "COMPLETED" /\ jobState[j] # "ABSENT"
    BY <1>1, <1>5 DEF SettleAction, TERMINAL
  <2>2. jobState'[j] # "COMPLETED"
    <3>1. \E s \in StepsOf(j) : stepState[s] # "SUCCEEDED"
      BY <1>5, <2>1 DEF LedgerInv, VerdictMatchesSteps, Verdict
    <3>2. \A s \in StepsOf(j) : stepState'[s] = "SUCCEEDED" <=> stepState[s] = "SUCCEEDED"
      BY <1>1, SettledSteps DEF StepsOf
    <3> QED  BY <1>5, <3>1, <3>2 DEF LedgerInv, VerdictMatchesSteps, Verdict
  <2>3. jobState'[j] # "ABSENT"
    BY <1>1, <1>5, <2>1, SettleOtherJob, SettleFailedJob, SettleOpenJob DEF JobSettled
  <2>4. jobState'[j] = "FAILED" => ~cancelRequested'[j]
    BY <1>5 DEF LedgerInv, CancellationFences, CancelFence
  <2>5. jobState'[j] = "CANCELLED" => cancelRequested'[j]
    BY <1>5 DEF LedgerInv, CancellationFences, CancelFence
  <2>6. /\ jobState'[j] \in JobState /\ jobState'[j] # "PARTIAL"
        /\ verdictSeen'[j] = IF jobState'[j] = "ABSENT" THEN "NONE"
                             ELSE IF jobState'[j] \in TERMINAL THEN jobState'[j] ELSE "OPEN"
    BY <1>5 DEF LedgerInv, TypeOK, verdictSeen
  <2> QED  BY <2>2, <2>3, <2>4, <2>5, <2>6 DEF JobState, TERMINAL
<1>6. CASE cancelRequested' = cancelRequested
  <2>1. PICK ended : ended = {j \in Jobs : verdictSeen[j] = "OPEN" /\ verdictSeen'[j] # "OPEN"}
    OBVIOUS
  <2>2. ended \in SUBSET {j \in Jobs : verdictSeen[j] = "OPEN"}
    BY <2>1
  <2>3. \A j \in Jobs : verdictSeen'[j] = IF j \notin ended THEN verdictSeen[j]
                                          ELSE IF cancelRequested[j] THEN "CANCELLED" ELSE "FAILED"
    BY <1>3, <1>4, <1>5, <1>6, <2>1
  <2>4. verdictSeen' = [j \in Jobs |-> IF j \notin ended THEN verdictSeen[j]
                                       ELSE IF cancelRequested[j] THEN "CANCELLED" ELSE "FAILED"]
    BY <2>3 DEF verdictSeen
  <2> QED  BY <1>2, <1>6, <2>2, <2>4 DEF Contract!Next, Contract!GiveUp
<1>7. ASSUME NEW j \in Jobs, T = {j}, cancelRequested' = [cancelRequested EXCEPT ![j] = TRUE]
      PROVE  Contract!RequestCancel(j)
  <2>1. cancelRequested'[j] = TRUE
    BY <1>7 DEF LedgerInv, TypeOK
  <2>2. verdictSeen[j] = "OPEN" /\ verdictSeen'[j] \in {"OPEN", "CANCELLED"}
    BY <1>4, <1>5, <1>7, <2>1
  <2>3. \A i \in Jobs : i # j => verdictSeen'[i] = verdictSeen[i]
    BY <1>3, <1>7
  <2>4. verdictSeen' = [verdictSeen EXCEPT ![j] = verdictSeen'[j]]
    BY <2>3 DEF verdictSeen
  <2> QED  BY <1>2, <1>7, <2>2, <2>4 DEF Contract!RequestCancel
<1> QED  BY <1>1, <1>6, <1>7 DEF SettleAction, Contract!Next

\* commit is Accept: the only step that gives a job its first result of a step.
LEMMA CommitContract ==
    ASSUME LedgerInv, LedgerInv', NEW l \in IssuedLeases, NEW refs \in SUBSET Refs, Commit(l, refs)
    PROVE  Contract!Accept(l.step, refs) /\ l.step \in Steps
<1>1. PICK s : s = l.step /\ CommitEffect(s, refs)
  BY CommitHasEffect
<1>2. PICK j : j = JobOf[s] /\ CommittedJob(j)
  BY <1>1, CommitVerdict
<1>3. /\ s \in Steps /\ j \in Jobs /\ ~cancelRequested[j] /\ stepState[s] = "RUNNING" /\ refs # {}
      /\ jobState[j] \notin TERMINAL \cup {"ABSENT"} /\ cancelRequested' = cancelRequested
  BY <1>1, <1>2 DEF CommitEffect, CommitGuard, CommitFrame
<1>4. verdictSeen[j] = "OPEN" /\ resultSeen[s] = NoManifest
  BY <1>3, SeenResult DEF ResultsSeen, verdictSeen
<1>5. \A p \in DependsOn[s] : resultSeen[p] # NoManifest
  <2>1. \A p \in DependsOn[s] : p \in Steps /\ stepState[p] = "SUCCEEDED"
    BY <1>3, PlanAssumption DEF LedgerInv, DependencyOrder, ParentsFirst
  <2> QED  BY <2>1, SeenResult DEF ResultsSeen
<1>6. resultSeen' = [resultSeen EXCEPT ![s] = refs]
  <2>1. /\ manifest'[s] = [refs |-> refs, fence |-> fence[s]]
        /\ \A t \in Steps : t # s => manifest'[t] = manifest[t]
    BY <1>1, CommitColumns DEF LedgerInv
  <2>2. manifest'[s].refs = refs  BY SMTT(60), <2>1
  <2>3. manifest'[s] # NoManifest
    BY <1>1, <1>3 DEF LedgerInv, ResultsAreFenced, FencedResult, CommitEffect, CommitSteps
  <2> QED  BY <2>1, <2>2, <2>3 DEF resultSeen
<1>7. verdictSeen' = [verdictSeen EXCEPT ![j] = Contract!Graded(j, resultSeen')]
  <2>1. jobState'[j] \in {"QUEUED", "PROCESSING", "COMPLETED"}
    BY <1>2 DEF CommittedJob
  <2>2. verdictSeen'[j] = Contract!Graded(j, resultSeen')
    BY <1>3, <2>1, SeenGrade
  <2>3. \A i \in Jobs : i # j => verdictSeen'[i] = verdictSeen[i]
    BY <1>2 DEF CommittedJob, verdictSeen
  <2> QED  BY <2>2, <2>3 DEF verdictSeen
<1> QED  BY <1>1, <1>2, <1>3, <1>4, <1>5, <1>6, <1>7 DEF Contract!Accept

\* admit is Submit: it starts a job, with the results it copies.
LEMMA AdmitContract ==
    ASSUME LedgerInv, LedgerInv', NEW j \in Jobs, Admit(j)
    PROVE  Contract!Submit(j)
<1>1. PICK copied \in SUBSET StepsOf(j) : \E source \in [copied -> Steps] :
         AdmitEffect(j, copied, source)
  BY AdmitHasEffect
<1>2. PICK source \in [copied -> Steps] : AdmitEffect(j, copied, source)
  BY <1>1
<1>3. verdictSeen[j] = "NONE" /\ jobState[j] = "ABSENT" /\ cancelRequested' = cancelRequested
  BY DEF Admit, verdictSeen
<1>4. \A s \in copied : /\ DependsOn[s] \subseteq copied
                        /\ resultSeen[source[s]] # NoManifest
                        /\ verdictSeen[JobOf[source[s]]] \in {"COMPLETED", "FAILED", "CANCELLED"}
  <2> SUFFICES ASSUME NEW s \in copied
               PROVE  /\ DependsOn[s] \subseteq copied
                      /\ resultSeen[source[s]] # NoManifest
                      /\ verdictSeen[JobOf[source[s]]] \in {"COMPLETED", "FAILED", "CANCELLED"}
    OBVIOUS
  <2>1. /\ DependsOn[s] \subseteq copied /\ source[s] \in Steps /\ stepState[source[s]] = "SUCCEEDED"
        /\ JobOf[source[s]] \in Jobs /\ jobState[JobOf[source[s]]] \in TERMINAL
    BY <1>2 DEF AdmitEffect
  <2>2. resultSeen[source[s]] # NoManifest
    BY <2>1, SeenResult DEF ResultsSeen
  <2>3. verdictSeen[JobOf[source[s]]] \in {"COMPLETED", "FAILED", "CANCELLED"}
    BY <2>1 DEF LedgerInv, verdictSeen, TERMINAL
  <2> QED  BY <2>1, <2>2, <2>3
<1>5. resultSeen' = [s \in Steps |-> IF s \in copied THEN resultSeen[source[s]] ELSE resultSeen[s]]
  <2>1. ASSUME NEW s \in copied PROVE resultSeen'[s] = resultSeen[source[s]] /\ s \in Steps
    <3>1. s \in Steps /\ source[s] \in Steps /\ stepState[source[s]] = "SUCCEEDED"
      BY <1>2 DEF AdmitEffect, StepsOf
    <3>2. manifest'[s] = [refs |-> manifest[source[s]].refs, fence |-> 0]
      BY <1>2, <3>1 DEF AdmitEffect
    <3>3. manifest'[s].refs = manifest[source[s]].refs
      BY SMTT(60), <3>2
    <3>4. manifest[source[s]] # NoManifest
      BY <3>1 DEF LedgerInv, ResultsAreFenced, FencedResult
    <3>5. manifest'[s] # NoManifest
      <4>1. manifest[source[s]].refs \in SUBSET Refs
        BY SMTT(60), <3>1, <3>4 DEF LedgerInv, TypeOK, Manifest
      <4>2. manifest'[s] \in Manifest
        BY SMTT(60), <3>2, <4>1 DEF Manifest
      <4> QED  BY <4>2, NoManifestAssumption
    <3> QED  BY <3>1, <3>3, <3>4, <3>5 DEF resultSeen
  <2>2. ASSUME NEW s \in Steps, s \notin copied PROVE resultSeen'[s] = resultSeen[s]
    <3>1. manifest'[s] = manifest[s]  BY <1>2, <2>2 DEF AdmitEffect
    <3> QED  BY <3>1 DEF resultSeen
  <2> QED  BY <2>1, <2>2 DEF resultSeen
<1>6. verdictSeen' = [verdictSeen EXCEPT ![j] = Contract!Graded(j, resultSeen')]
  <2>1. /\ jobState'[j] = Refreshed(j, "QUEUED", FALSE, stepState')
        /\ \A i \in Jobs : i # j => jobState'[i] = jobState[i]
    BY DEF Admit, LedgerInv, TypeOK
  <2>2. jobState'[j] \in {"QUEUED", "PROCESSING", "COMPLETED", "FAILED"}
    BY <2>1 DEF Refreshed, TERMINAL
  <2>3. jobState'[j] # "FAILED"
    <3>1. PICK set, inserted :
             /\ stepState' = Activated(j, inserted)
             /\ inserted = [s \in Steps |-> IF s \in set THEN "SUCCEEDED"
                                            ELSE IF JobOf[s] = j THEN "PENDING" ELSE stepState[s]]
      BY DEF Admit
    <3>2. \A s \in StepsOf(j) : inserted[s] \in {"SUCCEEDED", "PENDING"}
      BY <3>1 DEF StepsOf
    <3>3. \A s \in StepsOf(j) : stepState'[s] # "FAILED"
      BY <3>1, <3>2 DEF Activated, StepsOf
    <3> QED  BY <3>3 DEF LedgerInv, VerdictMatchesSteps, Verdict
  <2>4. verdictSeen'[j] = Contract!Graded(j, resultSeen')
    BY <2>2, <2>3, SeenGrade
  <2>5. \A i \in Jobs : i # j => verdictSeen'[i] = verdictSeen[i]
    BY <2>1 DEF verdictSeen
  <2> QED  BY <2>4, <2>5 DEF verdictSeen
<1>7. /\ copied \in SUBSET Contract!StepsOf(j)
      /\ source \in [copied -> Steps]
  BY DEF StepsOf, Contract!StepsOf
<1> QED  BY <1>3, <1>4, <1>5, <1>6, <1>7 DEF Contract!Submit

\* Lending a step shows only as PROCESSING, which the contract does not tell apart.
LEMMA LendContract ==
    ASSUME LedgerInv, NEW s \in Steps, NEW w \in Workers, ClaimLends(s, w)
    PROVE  UNCHANGED Contract!contractVars
<1>1. PICK rows : Lend(s, w, rows)
  BY DEF ClaimLends, ClaimDue, ClaimExpired
<1>2. UNCHANGED <<manifest, cancelRequested>>
  BY <1>1 DEF Lend, resultVars
<1>3. Claimable(s) /\ JobOf[s] \in Jobs
  BY PlanAssumption DEF ClaimLends, ClaimDue, ClaimExpired
<1>4. /\ RefreshJobs({JobOf[s]}, {}) /\ stepState'[s] = "RUNNING"
      /\ \A t \in Steps : t # s => stepState'[t] = stepState[t]
  BY <1>1 DEF Lend, LedgerInv, TypeOK
<1>5. jobState'[JobOf[s]] \notin TERMINAL \cup {"ABSENT"}
  <2>1. \A t \in StepsOf(JobOf[s]) : stepState'[t] # "FAILED"
    <3>1. \A t \in StepsOf(JobOf[s]) : t \in Steps /\ stepState[t] # "FAILED"
      BY SMTT(60), <1>3 DEF LedgerInv, VerdictMatchesSteps, Verdict, StepsOf, Claimable, TERMINAL
    <3> QED  BY <1>4, <3>1
  <2>2. s \in StepsOf(JobOf[s])  BY DEF StepsOf
  <2> QED  BY <1>2, <1>3, <1>4, <2>1, <2>2 DEF RefreshJobs, Refreshed, Claimable, TERMINAL
<1>6. \A j \in Jobs : verdictSeen'[j] = verdictSeen[j]
  <2>1. \A j \in Jobs : j # JobOf[s] => jobState'[j] = jobState[j]
    BY <1>4 DEF RefreshJobs
  <2> QED  BY <1>3, <1>5, <2>1 DEF verdictSeen, Claimable
<1> QED  BY <1>2, <1>6, SameSeen

\* Renewing, registering, delivering and time do not show at all.
LEMMA QuietContract ==
    ASSUME Quiet \/ UNCHANGED vars
    PROVE  UNCHANGED Contract!contractVars
<1>1. UNCHANGED <<jobState, cancelRequested, manifest>>
  BY DEF Quiet, Renew, RegisterObject, MarkDelivered, Tick, vars, jobVars, resultVars
<1> QED  BY <1>1, SameSeen DEF verdictSeen

\* Every step of the ledger is a step of the contract, or invisible to it.
LEMMA NextContract ==
    LedgerInv /\ LedgerInv' /\ [Next]_vars => [Contract!Next]_(Contract!contractVars)
<1> SUFFICES ASSUME LedgerInv, LedgerInv', [Next]_vars
             PROVE  Contract!Next \/ UNCHANGED Contract!contractVars
  OBVIOUS
<1>1. ASSUME NEW j \in Jobs, Admit(j) PROVE Contract!Next
  BY <1>1, AdmitContract DEF Contract!Next
<1>2. ASSUME NEW l \in IssuedLeases, NEW refs \in SUBSET Refs, Commit(l, refs) PROVE Contract!Next
  BY <1>2, CommitContract DEF Contract!Next
<1> QED  BY <1>1, <1>2, LendContract, SettlingContract, QuietContract, KindsOfSteps

\* The ledger implements the contract, for all jobs, plans, policies and workers: one
\* verdict per job, one result per step in dependency order, none after cancellation.
THEOREM LedgerKeepsContract ==
    LedgerSpec => ImplementsContract
BY InitContract, NextContract, LedgerInvariant, PTL
   DEF LedgerSpec, ImplementsContract, Contract!ContractSpec
=============================================================================
