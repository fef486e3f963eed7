------------------------------ MODULE JobLedger ------------------------------
(***************************************************************************)
(* The durable document-job ledger (documents/jobs/sqlite.py).             *)
(*                                                                         *)
(* Every operation of the ledger is one SQLite transaction opened with     *)
(* BEGIN IMMEDIATE and rolled back on any error, so every operation is one *)
(* atomic action here; a refused operation changes nothing and is only     *)
(* modelled where a caller looks at the refusal.  There is one variable    *)
(* per column that the code's decisions depend on.                         *)
(*                                                                         *)
(* Timestamps are kept as the time that is left until them: lease_expires  *)
(* as leaseLeft, not_before as waitLeft, started_at + budget as budgetLeft,*)
(* an outbox row's available_at as its wait, and the latest delivered_at   *)
(* of a step as deliveredAge.  Every comparison of the code is between one *)
(* timestamp and "now", so nothing is lost, and Tick needs no bound.       *)
(*                                                                         *)
(* A job is named by its admission request: (scope, request key) is unique *)
(* and admit replays an equal request, so a request makes at most one job. *)
(***************************************************************************)
EXTENDS Integers, Sequences, FiniteSets

CONSTANTS
    Jobs,           \* admission requests
    Steps,          \* steps of all requests
    JobOf,          \* step -> its job
    Unit,           \* step -> unit_id
    Spec,           \* step -> its whole StepSpec
    DependsOn,      \* step -> the parent steps (same job)
    Position,       \* step -> index in Admission.steps
    RequestKey,     \* job -> (scope, request_idempotency_key)
    Version,        \* job -> (scope, document_id, document_version_id)
    Compat,         \* job -> Admission.compatibility()
    ResumeFrom,     \* job -> the job it resumes, or NoJob
    Policy,         \* job -> RetryPolicy
    Workers, Refs,
    KeyOf,          \* object reference -> its key in the store
    LeaseSeconds, RedeliverySeconds,
    Limit,          \* rows one reconcile pass takes per phase
    RetryAfters,    \* values of Failure.retry_after, 0 for None
    NoJob, NoStep, NoWorker, NoManifest

TERMINAL == {"COMPLETED", "FAILED", "CANCELLED", "PARTIAL"}
Waiting == {"PENDING", "READY", "RETRY_WAIT"}
Live == Waiting \cup {"RUNNING"}

\* "ABSENT" is a row that does not exist.  "PROCESSING" stands for the three
\* stage names (EXTRACTING, NORMALIZING, VALIDATING) a job shows while a step
\* of that stage runs.
JobState == {"ABSENT", "QUEUED", "PROCESSING", "CANCEL_REQUESTED"} \cup TERMINAL
StepState == {"ABSENT", "SUCCEEDED", "FAILED", "CANCELLED"} \cup Live
Outcome == {"RUNNING", "SUCCEEDED", "RETRY_WAIT", "FAILED", "CANCELLED"}
Classification == {"RETRYABLE", "NON_RETRYABLE", "CANCELLED"}

RetryPolicy == [max_attempts : Nat \ {0}, base_seconds : Nat, max_seconds : Nat,
                budget_seconds : Nat \ {0}, jitter_percent : 0 .. 100]

\* Admission.valid: unit ids are unique in a job and every step names only
\* earlier steps of the same job as its parents.
ASSUME PlanAssumption ==
    /\ JobOf \in [Steps -> Jobs]
    /\ DependsOn \in [Steps -> SUBSET Steps]
    /\ Position \in [Steps -> Nat]
    /\ \A s \in Steps : \A p \in DependsOn[s] :
          JobOf[p] = JobOf[s] /\ Position[p] < Position[s]
    /\ \A s, t \in Steps : JobOf[s] = JobOf[t] /\ Unit[s] = Unit[t] => s = t
    /\ \A s, t \in Steps : Spec[s] = Spec[t] =>
          /\ Unit[s] = Unit[t]
          /\ {Unit[p] : p \in DependsOn[s]} = {Unit[p] : p \in DependsOn[t]}
    /\ \A j \in Jobs : \E s \in Steps : JobOf[s] = j

\* A resumed job is another request than the one that resumes it, and equal
\* compatibility digests mean equal retry policies.
ASSUME RequestAssumption ==
    /\ ResumeFrom \in [Jobs -> (Jobs \cup {NoJob})]
    /\ \A j \in Jobs : ResumeFrom[j] # j
    /\ Policy \in [Jobs -> RetryPolicy]
    /\ NoJob \notin Jobs /\ NoStep \notin Steps /\ NoWorker \notin Workers

ASSUME SettingsAssumption ==
    /\ LeaseSeconds \in Nat \ {0}
    /\ RedeliverySeconds \in Nat \ {0}
    /\ Limit \in Nat \ {0}
    /\ RetryAfters \subseteq Nat

Manifest == [refs : SUBSET Refs, fence : Nat]
ASSUME NoManifestAssumption ==
    NoManifest \notin Manifest /\ \A refs \in SUBSET Refs : refs # NoManifest

VARIABLES
    jobState, cancelRequested,                       \* table jobs
    stepState, attemptCount, fence, leaseOwner,      \* table job_steps
    leaseLeft, waitLeft, budgetLeft, reusedFrom,
    attempts,                                        \* table step_attempts
    manifest,                                        \* table artifact_manifests
    intents,                                         \* table object_intents
    outbox, deliveredAge,                            \* table outbox
    deadLetters                                      \* table dead_letters

jobVars == <<jobState, cancelRequested>>
leaseVars == <<attemptCount, fence, leaseOwner, leaseLeft, waitLeft, budgetLeft>>
resultVars == <<manifest, reusedFrom, intents>>
dispatchVars == <<outbox, deliveredAge>>
vars == <<jobVars, stepState, leaseVars, attempts, resultVars, dispatchVars, deadLetters>>

NotStarted == -1
Attempt == [worker : Workers, fence : Nat, outcome : Outcome]

\* An undelivered outbox row, named by the fence its step had when the row was
\* written; delivered rows only matter through the latest delivery.
OutboxRow == [fence : Nat, wait : Nat]

TypeOK ==
    /\ jobState \in [Jobs -> JobState]
    /\ cancelRequested \in [Jobs -> BOOLEAN]
    /\ stepState \in [Steps -> StepState]
    /\ attemptCount \in [Steps -> Nat]
    /\ fence \in [Steps -> Nat]
    /\ leaseOwner \in [Steps -> Workers \cup {NoWorker}]
    /\ leaseLeft \in [Steps -> Nat]
    /\ waitLeft \in [Steps -> Nat]
    /\ budgetLeft \in [Steps -> Nat \cup {NotStarted}]
    /\ reusedFrom \in [Steps -> Steps \cup {NoStep}]
    /\ attempts \in [Steps -> Seq(Attempt)]
    /\ manifest \in [Steps -> Manifest \cup {NoManifest}]
    /\ intents \in [Steps -> SUBSET Refs]
    /\ outbox \in [Steps -> SUBSET OutboxRow]
    /\ deliveredAge \in [Steps -> 0 .. RedeliverySeconds]
    /\ deadLetters \subseteq Steps

Init ==
    /\ jobState = [j \in Jobs |-> "ABSENT"]
    /\ cancelRequested = [j \in Jobs |-> FALSE]
    /\ stepState = [s \in Steps |-> "ABSENT"]
    /\ attemptCount = [s \in Steps |-> 0]
    /\ fence = [s \in Steps |-> 0]
    /\ leaseOwner = [s \in Steps |-> NoWorker]
    /\ leaseLeft = [s \in Steps |-> 0]
    /\ waitLeft = [s \in Steps |-> 0]
    /\ budgetLeft = [s \in Steps |-> NotStarted]
    /\ reusedFrom = [s \in Steps |-> NoStep]
    /\ attempts = [s \in Steps |-> << >>]
    /\ manifest = [s \in Steps |-> NoManifest]
    /\ intents = [s \in Steps |-> {}]
    /\ outbox = [s \in Steps |-> {}]
    /\ deliveredAge = [s \in Steps |-> RedeliverySeconds]
    /\ deadLetters = {}

-----------------------------------------------------------------------------
StepsOf(j) == {s \in Steps : JobOf[s] = j}
Admitted(j) == jobState[j] # "ABSENT"
Dec(n) == IF n > 0 THEN n - 1 ELSE n

\* Mutated: only steps without parents activate.
ActivatedRoots(j, st) ==
    [s \in Steps |-> IF JobOf[s] = j /\ st[s] = "PENDING" /\ DependsOn[s] = {} THEN "READY" ELSE st[s]]

\* _activate: every PENDING step of the job whose parents have all succeeded
\* becomes READY; the rows are read once, so activation does not cascade.
Activated(j, st) ==
    [s \in Steps |->
        IF JobOf[s] = j /\ st[s] = "PENDING" /\ \A p \in DependsOn[s] : st[p] = "SUCCEEDED"
        THEN "READY" ELSE st[s]]

\* _enqueue, for the steps that st makes READY.
EnqueuedReady(st, next) ==
    [s \in Steps |->
        IF next[s] = "READY" /\ st[s] # "READY"
        THEN outbox[s] \cup {[fence |-> fence[s], wait |-> 0]} ELSE outbox[s]]

\* _refresh: the state a job gets from the states of its steps.
Refreshed(j, state, cancel, st) ==
    LET Some(v) == \E s \in StepsOf(j) : st[s] = v
    IN  IF state \in TERMINAL THEN state
        ELSE IF cancel THEN (IF Some("RUNNING") THEN "CANCEL_REQUESTED" ELSE "CANCELLED")
        ELSE IF Some("FAILED") THEN "FAILED"
        ELSE IF \A s \in StepsOf(j) : st[s] = "SUCCEEDED" THEN "COMPLETED"
        ELSE IF Some("RUNNING") THEN "PROCESSING" ELSE "QUEUED"

\* The writes to jobs.state: _terminal_failure marks the jobs of `failed`, then
\* _refresh runs for the jobs in `touched`.
RefreshJobs(touched, failed) ==
    jobState' = [j \in Jobs |->
        IF j \in touched
        THEN Refreshed(j, IF \E s \in failed : JobOf[s] = j THEN "FAILED" ELSE jobState[j],
                       cancelRequested'[j], stepState')
        ELSE jobState[j]]

-----------------------------------------------------------------------------
\* RetryPolicy.delay: exponential backoff capped at max_seconds and scaled by a
\* jitter that depends on a digest, so any factor in [1 - jitter, 1] is possible.
BackoffDelays(s) ==
    LET policy == Policy[JobOf[s]]
        attempt == IF attemptCount[s] > 1 THEN attemptCount[s] ELSE 1
        full == policy.base_seconds * 2 ^ (attempt - 1)
        raw == IF full < policy.max_seconds THEN full ELSE policy.max_seconds
    IN  {d \in 0 .. policy.max_seconds :
            d <= raw /\ raw * (100 - policy.jitter_percent) <= 100 * d}

\* _failure: whether the attempt may be repeated after `delay`.
CanRetry(s, classification, delay) ==
    /\ classification = "RETRYABLE"
    /\ attemptCount[s] < Policy[JobOf[s]].max_attempts
    /\ delay < budgetLeft[s]

\* Mutated: running siblings are forgotten.
SiblingsUnheld(s) == {t \in StepsOf(JobOf[s]) \ {s} : stepState[t] \in Waiting}

\* The steps _terminal_failure cancels together with the failure of s.
Siblings(s) == {t \in StepsOf(JobOf[s]) \ {s} : stepState[t] \in Live}

\* Mutated: the attempt row is left as it is.
ClosedNot(s, outcome) == attempts[s]

\* The attempt rows of s once its running attempt has ended with `outcome`.
Closed(s, outcome) ==
    [n \in DOMAIN attempts[s] |->
        IF attempts[s][n].outcome = "RUNNING"
        THEN [attempts[s][n] EXCEPT !.outcome = outcome] ELSE attempts[s][n]]

\* The row updates of _failure, _terminal_failure and _cancel_step: the steps
\* that end FAILED (dead-lettered), those that end CANCELLED, and those that go
\* to RETRY_WAIT, the domain of wait, for wait[s].  A step that is retried and
\* cancelled was retried first and then cancelled by a sibling's failure.
SettleSteps(failed, cancelled, wait) ==
    LET retried == DOMAIN wait
        touched == failed \cup cancelled \cup retried
    IN  /\ stepState' = [s \in Steps |->
              IF s \in failed THEN "FAILED"
              ELSE IF s \in cancelled THEN "CANCELLED"
              ELSE IF s \in retried THEN "RETRY_WAIT" ELSE stepState[s]]
        /\ attempts' = [s \in Steps |->
              IF s \in failed THEN Closed(s, "FAILED")
              ELSE IF s \in retried THEN Closed(s, "RETRY_WAIT")
              ELSE IF s \in cancelled THEN Closed(s, "CANCELLED") ELSE attempts[s]]
        /\ leaseOwner' = [s \in Steps |-> IF s \in touched THEN NoWorker ELSE leaseOwner[s]]
        /\ leaseLeft' = [s \in Steps |-> IF s \in touched THEN 0 ELSE leaseLeft[s]]
        /\ waitLeft' = [s \in Steps |-> IF s \in retried THEN wait[s] ELSE waitLeft[s]]
        /\ deadLetters' = deadLetters \cup failed
        /\ UNCHANGED <<attemptCount, fence, budgetLeft, resultVars, deliveredAge>>

\* Mutated: the row is available at once instead of after the backoff.
EnqueueNow(wait) ==
    outbox' = [s \in Steps |->
        IF s \in DOMAIN wait THEN outbox[s] \cup {[fence |-> fence[s], wait |-> 0]} ELSE outbox[s]]

\* _enqueue: one new row for each step in the domain of wait.
Enqueue(wait) ==
    outbox' = [s \in Steps |->
        IF s \in DOMAIN wait THEN outbox[s] \cup {[fence |-> fence[s], wait |-> wait[s]]}
        ELSE outbox[s]]

Nobody == [s \in {} |-> 0]

\* _failure once the jitter is drawn, and _terminal_failure.
Retry(s, delay) ==
    /\ SettleSteps({}, {}, [t \in {s} |-> delay])
    /\ Enqueue([t \in {s} |-> delay])
    /\ RefreshJobs({JobOf[s]}, {})

TerminalFailure(s) ==
    /\ SettleSteps({s}, Siblings(s), Nobody)
    /\ RefreshJobs({JobOf[s]}, {s})
    /\ UNCHANGED outbox

Failure(s, classification, delay) ==
    /\ UNCHANGED cancelRequested
    /\ IF CanRetry(s, classification, delay) THEN Retry(s, delay) ELSE TerminalFailure(s)

-----------------------------------------------------------------------------
\* Mutated: neither fence nor owner is compared.
LeaseErrorAnyone(l) ==
    LET s == l.step
    IN  IF stepState[s] # "RUNNING" THEN "invalid_transition"
        ELSE IF cancelRequested[JobOf[s]] THEN "cancelled"
        ELSE IF leaseLeft[s] = 0 THEN "lease_expired" ELSE "ok"
\* Mutated: cancellation is ignored.
LeaseErrorUncancelled(l) ==
    LET s == l.step
    IN  IF fence[s] # l.fence \/ leaseOwner[s] # l.owner THEN "stale_fence"
        ELSE IF stepState[s] # "RUNNING" \/ jobState[JobOf[s]] \in TERMINAL THEN "invalid_transition"
        ELSE IF leaseLeft[s] = 0 THEN "lease_expired" ELSE "ok"

\* _check_lease, as the category it raises ("ok" if it raises none).
LeaseError(l) ==
    LET s == l.step
    IN  IF fence[s] # l.fence \/ leaseOwner[s] # l.owner THEN "stale_fence"
        ELSE IF stepState[s] # "RUNNING" THEN "invalid_transition"
        ELSE IF cancelRequested[JobOf[s]] THEN "cancelled"
        ELSE IF jobState[JobOf[s]] \in TERMINAL THEN "invalid_transition"
        ELSE IF leaseLeft[s] = 0 THEN "lease_expired" ELSE "ok"

\* _check_lease(settling=True) followed by settle_cancel's own test.
SettleError(l) ==
    LET s == l.step
    IN  IF fence[s] # l.fence \/ leaseOwner[s] # l.owner THEN "stale_fence"
        ELSE IF stepState[s] # "RUNNING" \/ ~cancelRequested[JobOf[s]] THEN "invalid_transition"
        ELSE "ok"

\* Leases only come from claim, and claim writes one attempt row for each.
IssuedLeases ==
    UNION {{[step |-> s, owner |-> attempts[s][n].worker, fence |-> attempts[s][n].fence] :
               n \in DOMAIN attempts[s]} : s \in Steps}

-----------------------------------------------------------------------------

\* The succeeded steps of the resumed job with the unit and the spec of s.
Sources(j, s) ==
    {t \in Steps : /\ JobOf[t] = ResumeFrom[j] /\ stepState[t] = "SUCCEEDED"
                   /\ Unit[t] = Unit[s] /\ Spec[t] = Spec[s]}

Reusable(j) ==
    {s \in StepsOf(j) : /\ ResumeFrom[j] # NoJob
                        /\ Compat[ResumeFrom[j]] = Compat[j]
                        /\ Sources(j, s) # {}}

\* admit: a step is copied when its source succeeded and all its parents were
\* copied before it; the plan is acyclic, so one set satisfies this.
Copies(j) == {copied \in SUBSET Reusable(j) :
                 copied = {s \in Reusable(j) : DependsOn[s] \subseteq copied}}

Admit(j) ==
    /\ jobState[j] = "ABSENT"
    /\ \A i \in Jobs : Admitted(i) => RequestKey[i] # RequestKey[j]
    /\ ResumeFrom[j] # NoJob => /\ jobState[ResumeFrom[j]] \in TERMINAL
                                /\ Version[ResumeFrom[j]] = Version[j]
    /\ \E copied \in Copies(j) : \E source \in [copied -> Steps] :
          LET inserted == [s \in Steps |->
                  IF s \in copied THEN "SUCCEEDED"
                  ELSE IF JobOf[s] = j THEN "PENDING" ELSE stepState[s]]
          IN  /\ \A s \in copied : source[s] \in Sources(j, s)
              /\ stepState' = Activated(j, inserted)
              /\ outbox' = EnqueuedReady(inserted, stepState')
              /\ manifest' = [s \in Steps |->
                    IF s \in copied THEN [refs |-> manifest[source[s]].refs, fence |-> 0]
                    ELSE manifest[s]]
              /\ reusedFrom' = [s \in Steps |->
                    IF s \in copied THEN source[s] ELSE reusedFrom[s]]
              /\ jobState' = [jobState EXCEPT ![j] = Refreshed(j, "QUEUED", FALSE, stepState')]
    /\ UNCHANGED <<cancelRequested, leaseVars, attempts, intents, deliveredAge, deadLetters>>

-----------------------------------------------------------------------------
Claimable(s) == ~cancelRequested[JobOf[s]] /\ jobState[JobOf[s]] \notin TERMINAL \cup {"ABSENT"}
Due(s) == stepState[s] \in {"READY", "RETRY_WAIT"} /\ waitLeft[s] = 0
\* Mutated: a running step never counts as lost once its job is being cancelled.
LeaseLostUncancelled(s) ==
    stepState[s] = "RUNNING" /\ leaseLeft[s] = 0 /\ ~cancelRequested[JobOf[s]]

LeaseLost(s) == stepState[s] = "RUNNING" /\ leaseLeft[s] = 0
BudgetSpent(s) == budgetLeft[s] = 0

\* The writes of a successful claim; rows are the attempt rows so far.
Lend(s, w, rows) ==
    /\ stepState' = [stepState EXCEPT ![s] = "RUNNING"]
    /\ attemptCount' = [attemptCount EXCEPT ![s] = @ + 1]
    /\ fence' = [fence EXCEPT ![s] = @ + 1]
    /\ leaseOwner' = [leaseOwner EXCEPT ![s] = w]
    /\ leaseLeft' = [leaseLeft EXCEPT ![s] = LeaseSeconds]
    /\ waitLeft' = [waitLeft EXCEPT ![s] = 0]
    /\ budgetLeft' = [budgetLeft EXCEPT
          ![s] = IF @ = NotStarted THEN Policy[JobOf[s]].budget_seconds ELSE @]
    /\ attempts' = [attempts EXCEPT
          ![s] = Append(rows, [worker |-> w, fence |-> fence[s] + 1, outcome |-> "RUNNING"])]
    /\ UNCHANGED <<cancelRequested, resultVars, deliveredAge, deadLetters>>
    /\ RefreshJobs({JobOf[s]}, {})

\* claim, by what it finds.  A due step is lent to the worker.
ClaimDue(s, w) ==
    /\ Claimable(s) /\ Due(s) /\ ~BudgetSpent(s)
    /\ Lend(s, w, attempts[s])
    /\ UNCHANGED outbox

\* An expired lease is failed first (worker_interrupted); when the backoff is
\* zero the step is due again and is lent in the same transaction.
ClaimExpired(s, w) ==
    /\ Claimable(s) /\ LeaseLost(s)
    /\ 0 \in BackoffDelays(s) /\ CanRetry(s, "RETRYABLE", 0)
    /\ Lend(s, w, Closed(s, "RETRY_WAIT"))
    /\ outbox' = [outbox EXCEPT ![s] = @ \cup {[fence |-> fence[s], wait |-> 0]}]

\* Otherwise the expired lease is failed and claim returns None.
ClaimReaps(s) ==
    /\ Claimable(s) /\ LeaseLost(s)
    /\ \E delay \in BackoffDelays(s) :
          /\ ~(delay = 0 /\ CanRetry(s, "RETRYABLE", delay))
          /\ Failure(s, "RETRYABLE", delay)

\* A due step whose budget has run out fails instead of running again.
ClaimExhausted(s) ==
    /\ Claimable(s) /\ Due(s) /\ BudgetSpent(s)
    /\ UNCHANGED cancelRequested
    /\ TerminalFailure(s)

ClaimLends(s, w) == ClaimDue(s, w) \/ ClaimExpired(s, w)
ClaimFails(s) == ClaimReaps(s) \/ ClaimExhausted(s)

\* claim returns None and writes nothing.
ClaimIdle(s) == ~Claimable(s) \/ ~(Due(s) \/ LeaseLost(s))

Renew(l) ==
    /\ LeaseError(l) = "ok"
    /\ leaseLeft' = [leaseLeft EXCEPT ![l.step] = LeaseSeconds]
    /\ UNCHANGED <<jobVars, stepState, attemptCount, fence, leaseOwner, waitLeft, budgetLeft,
                   attempts, resultVars, dispatchVars, deadLetters>>

\* register_object refuses a second, different reference under the same key.
KeyConflict(s, ref) == \E r \in intents[s] : KeyOf[r] = KeyOf[ref] /\ r # ref

RegisterObject(l, ref) ==
    /\ LeaseError(l) = "ok"
    /\ ~KeyConflict(l.step, ref)
    /\ intents' = [intents EXCEPT ![l.step] = @ \cup {ref}]
    /\ UNCHANGED <<jobVars, stepState, leaseVars, attempts, manifest, reusedFrom, dispatchVars,
                   deadLetters>>

\* commit, as the category it raises: the replay of the accepted commit is "ok"
\* and writes nothing, a first commit needs a valid lease and registered refs.
CommitError(l, refs) ==
    LET s == l.step
    IN  IF refs = {} THEN "manifest_conflict"
        ELSE IF stepState[s] = "SUCCEEDED"
        THEN IF /\ manifest[s].fence = l.fence
                /\ \E n \in DOMAIN attempts[s] :
                      attempts[s][n].fence = l.fence /\ attempts[s][n].worker = l.owner
             THEN IF manifest[s].refs = refs THEN "ok" ELSE "manifest_conflict"
             ELSE "stale_fence"
        ELSE IF LeaseError(l) # "ok" THEN LeaseError(l)
        ELSE IF refs \subseteq intents[s] THEN "ok" ELSE "manifest_conflict"

Commit(l, refs) ==
    LET s == l.step
        done == [stepState EXCEPT ![s] = "SUCCEEDED"]
    IN  /\ CommitError(l, refs) = "ok"
        /\ stepState[s] # "SUCCEEDED"
        /\ manifest' = [manifest EXCEPT ![s] = [refs |-> refs, fence |-> l.fence]]
        /\ stepState' = Activated(JobOf[s], done)
        /\ outbox' = EnqueuedReady(done, stepState')
        /\ leaseOwner' = [leaseOwner EXCEPT ![s] = NoWorker]
        /\ leaseLeft' = [leaseLeft EXCEPT ![s] = 0]
        /\ attempts' = [attempts EXCEPT ![s] = Closed(s, "SUCCEEDED")]
        /\ UNCHANGED <<cancelRequested, attemptCount, fence, waitLeft, budgetLeft, reusedFrom,
                       intents, deliveredAge, deadLetters>>
        /\ RefreshJobs({JobOf[s]}, {})

-----------------------------------------------------------------------------

\* The steps _cancel_job cancels: those no worker holds.
Unheld(j) == {s \in StepsOf(j) : stepState[s] \in Waiting}

\* fail(CANCELLED) cancels the job and settles the reporting step.
FailCancelled(l) ==
    LET j == JobOf[l.step]
    IN  /\ LeaseError(l) = "ok"
        /\ cancelRequested' = [cancelRequested EXCEPT ![j] = TRUE]
        /\ SettleSteps({}, Unheld(j) \cup {l.step}, Nobody)
        /\ RefreshJobs({j}, {})
        /\ UNCHANGED outbox

\* fail with any other classification: backoff or the provider's retry_after,
\* whichever is longer.
FailAttempt(l, classification, retryAfter) ==
    /\ LeaseError(l) = "ok"
    /\ \E d \in BackoffDelays(l.step) :
          Failure(l.step, classification, IF d > retryAfter THEN d ELSE retryAfter)

Fail(l, classification, retryAfter) ==
    IF classification = "CANCELLED" THEN FailCancelled(l)
    ELSE FailAttempt(l, classification, retryAfter)

Cancel(j) ==
    /\ Admitted(j) /\ jobState[j] \notin TERMINAL
    /\ cancelRequested' = [cancelRequested EXCEPT ![j] = TRUE]
    /\ SettleSteps({}, Unheld(j), Nobody)
    /\ RefreshJobs({j}, {})
    /\ UNCHANGED outbox

SettleCancel(l) ==
    /\ SettleError(l) = "ok"
    /\ UNCHANGED <<cancelRequested, outbox>>
    /\ SettleSteps({}, {l.step}, Nobody)
    /\ RefreshJobs({JobOf[l.step]}, {})

-----------------------------------------------------------------------------
\* pending_dispatch: the outbox rows a relay may send now.
Pending(s) == {row \in outbox[s] : row.wait = 0 /\ Claimable(s) /\ Due(s)}

\* mark_delivered; delivering a row twice changes nothing.
MarkDelivered(s, row) ==
    /\ row \in outbox[s]
    /\ outbox' = [outbox EXCEPT ![s] = @ \ {row}]
    /\ deliveredAge' = [deliveredAge EXCEPT ![s] = 0]
    /\ UNCHANGED <<jobVars, stepState, leaseVars, attempts, resultVars, deadLetters>>

\* Mutated: live steps that registered the object are not looked at.
OrphanKeysLive ==
    {k \in {KeyOf[r] : r \in Refs} :
        /\ \E s \in Steps : stepState[s] \in {"SUCCEEDED", "FAILED", "CANCELLED"}
                            /\ \E r \in intents[s] : KeyOf[r] = k
        /\ \A s \in Steps : manifest[s] # NoManifest => \A r \in manifest[s].refs : KeyOf[r] # k}

\* _orphans without the grace period: objects a finished step registered that no
\* manifest names and no live step registered.
OrphanKeys ==
    {k \in {KeyOf[r] : r \in Refs} :
        /\ \E s \in Steps : stepState[s] \in {"SUCCEEDED", "FAILED", "CANCELLED"}
                            /\ \E r \in intents[s] : KeyOf[r] = k
        /\ \A s \in Steps : manifest[s] # NoManifest => \A r \in manifest[s].refs : KeyOf[r] # k
        /\ \A s \in Steps : stepState[s] \in Live => \A r \in intents[s] : KeyOf[r] # k}

\* At most Limit rows of a query, in an order the model leaves open.
Batches(S) == IF Cardinality(S) <= Limit THEN {S}
              ELSE {B \in SUBSET S : Cardinality(B) = Limit}

\* Mutated: only READY steps are dispatched again.
UndispatchedReady(s) ==
    /\ Claimable(s) /\ Due(s) /\ stepState[s] = "READY"
    /\ outbox[s] = {} /\ deliveredAge[s] >= RedeliverySeconds

\* A due step with no outbox row that is undelivered or recently delivered.
Undispatched(s) ==
    Claimable(s) /\ Due(s) /\ outbox[s] = {} /\ deliveredAge[s] >= RedeliverySeconds

\* reconcile, first phase: the expired steps of jobs that may go on are failed one
\* after the other (worker_interrupted).  One that cannot be retried, a culprit,
\* ends its job, and the rest of the job's steps in the batch are settled with it,
\* the ones retried before as well as the ones not reached yet.
ReapOutcome(reaped, delay, culprits, retried) ==
    LET open == {s \in reaped : Claimable(s)}
        Again(s) == CanRetry(s, "RETRYABLE", delay[s])
    IN  /\ \A s \in reaped : delay[s] \in BackoffDelays(s)
        /\ culprits \subseteq {s \in open : ~Again(s)}
        /\ \A c, d \in culprits : JobOf[c] = JobOf[d] => c = d
        /\ retried \subseteq {s \in open : Again(s)}
        /\ \A s \in open : s \in retried \/ \E c \in culprits : JobOf[c] = JobOf[s]

\* Second phase: steps left live under a terminal job.
Stranded == {s \in Steps : jobState[JobOf[s]] \in TERMINAL /\ stepState[s] \in Live}

\* The whole pass; the third phase writes the missing dispatches.
Reconcile ==
    \E reaped \in Batches({s \in Steps : LeaseLost(s)}), stranded \in Batches(Stranded) :
    \E delay \in [reaped -> UNION {BackoffDelays(s) : s \in reaped}],
       culprits \in SUBSET reaped, retried \in SUBSET reaped :
    LET cancelled == {s \in reaped : ~Claimable(s)} \cup stranded
                     \cup UNION {Siblings(c) : c \in culprits}
    IN  \E missing \in Batches({s \in Steps \ cancelled : Undispatched(s)}) :
        /\ ReapOutcome(reaped, delay, culprits, retried)
        /\ SettleSteps(culprits, cancelled, [s \in retried |-> delay[s]])
        /\ Enqueue([s \in retried \cup missing |-> IF s \in retried THEN delay[s] ELSE 0])
        /\ UNCHANGED cancelRequested
        /\ RefreshJobs({JobOf[s] : s \in reaped \cup stranded}, culprits)

\* The clock of the ledger moves on.
Tick ==
    /\ leaseLeft' = [s \in Steps |-> Dec(leaseLeft[s])]
    /\ waitLeft' = [s \in Steps |-> Dec(waitLeft[s])]
    /\ budgetLeft' = [s \in Steps |-> Dec(budgetLeft[s])]
    /\ outbox' = [s \in Steps |-> {[row EXCEPT !.wait = Dec(@)] : row \in outbox[s]}]
    /\ deliveredAge' = [s \in Steps |->
          IF deliveredAge[s] < RedeliverySeconds THEN deliveredAge[s] + 1 ELSE deliveredAge[s]]
    /\ UNCHANGED <<jobVars, stepState, attemptCount, fence, leaseOwner, attempts, resultVars,
                   deadLetters>>

\* Any caller may use any operation at any time; a worker may present any lease
\* it was ever given, however old.
Next ==
    \/ \E j \in Jobs : Admit(j) \/ Cancel(j)
    \/ \E s \in Steps, w \in Workers : ClaimLends(s, w)
    \/ \E s \in Steps : ClaimFails(s)
    \/ \E l \in IssuedLeases :
          \/ Renew(l)
          \/ \E ref \in Refs : RegisterObject(l, ref)
          \/ \E refs \in SUBSET Refs : Commit(l, refs)
          \/ \E c \in Classification, after \in RetryAfters : Fail(l, c, after)
          \/ SettleCancel(l)
    \/ \E s \in Steps : \E row \in outbox[s] : row.wait = 0 /\ MarkDelivered(s, row)
    \/ Reconcile
    \/ Tick

LedgerSpec == Init /\ [][Next]_vars

-----------------------------------------------------------------------------
(* Properties *)

\* LeaseMatchesHistory, for one step.
LeaseHistory(s) ==
    /\ stepState[s] = "RUNNING" <=> leaseOwner[s] # NoWorker
    /\ attemptCount[s] = fence[s] /\ Len(attempts[s]) = fence[s]
    /\ \A n \in 1 .. fence[s] :
          /\ attempts[s][n].fence = n
          /\ attempts[s][n].outcome = "RUNNING" <=> n = fence[s] /\ stepState[s] = "RUNNING"
    /\ stepState[s] = "RUNNING" => fence[s] > 0 /\ attempts[s][fence[s]].worker = leaseOwner[s]

\* The lease columns, the fence and the attempt history of a step agree (claim,
\* fail, commit, _cancel_step, reconcile): a step is leased exactly while it is
\* RUNNING, the n-th attempt carries fence n, the only attempt that can still be
\* RUNNING is the one of the current lease, and it belongs to the lease's owner.
LeaseMatchesHistory == \A s \in Steps : LeaseHistory(s)

\* AttemptsBounded, for one step.
AttemptBound(s) ==
    /\ attemptCount[s] <= Policy[JobOf[s]].max_attempts
    /\ stepState[s] \in Waiting => attemptCount[s] < Policy[JobOf[s]].max_attempts

\* However leases expire and are reclaimed, a step is never attempted more often
\* than its policy allows, and a step still waiting has an attempt left, because
\* _failure tests attempt_count before every RETRY_WAIT.
AttemptsBounded == \A s \in Steps : AttemptBound(s)

\* ResultsAreFenced, for one step.
FencedResult(s) ==
    /\ stepState[s] = "SUCCEEDED" <=> manifest[s] # NoManifest
    /\ manifest[s] # NoManifest =>
          /\ manifest[s].refs # {}
          /\ manifest[s].fence = fence[s]
          /\ IF fence[s] = 0
             THEN /\ reusedFrom[s] # NoStep
                  /\ manifest[reusedFrom[s]] # NoManifest
                  /\ manifest[s].refs = manifest[reusedFrom[s]].refs
             ELSE /\ attempts[s][fence[s]].outcome = "SUCCEEDED"
                  /\ manifest[s].refs \subseteq intents[s]

\* A step has a manifest exactly when it SUCCEEDED, and the manifest is that of
\* its last lease (commit: every object registered by the step, the attempt with
\* that fence SUCCEEDED) or a copy of the manifest of the step it reuses (admit).
ResultsAreFenced == \A s \in Steps : FencedResult(s)

\* DependencyOrder, for one step.
ParentsFirst(s) ==
    /\ stepState[s] \notin {"ABSENT", "PENDING", "CANCELLED"} =>
          \A p \in DependsOn[s] : stepState[p] = "SUCCEEDED"
    /\ reusedFrom[s] # NoStep =>
          \A p \in DependsOn[s] : reusedFrom[p] \in DependsOn[reusedFrom[s]]

\* No step becomes READY, runs, succeeds or fails before all its parents have
\* SUCCEEDED (_activate), also when parents are copied from a resumed job, and
\* whatever is copied was copied together with its parents' source (admit).
DependencyOrder == \A s \in Steps : ParentsFirst(s)

\* VerdictMatchesSteps, for one job.
Verdict(j) ==
    /\ jobState[j] = "COMPLETED" <=> \A s \in StepsOf(j) : stepState[s] = "SUCCEEDED"
    /\ jobState[j] = "FAILED" <=> \E s \in StepsOf(j) : stepState[s] = "FAILED"
    /\ \A s, t \in StepsOf(j) : stepState[s] = "FAILED" /\ stepState[t] = "FAILED" => s = t
    /\ \A s \in StepsOf(j) : s \in deadLetters <=> stepState[s] = "FAILED"
    /\ jobState[j] \in TERMINAL => \A s \in StepsOf(j) : stepState[s] \notin Live

\* The state of a job is the verdict of its steps (_refresh, _terminal_failure):
\* COMPLETED iff every step SUCCEEDED, FAILED iff one step is dead-lettered and
\* then exactly that one FAILED, and a job with a verdict has no live step, so
\* the repair of stranded steps in reconcile never finds one.
VerdictMatchesSteps == \A j \in Jobs : Verdict(j)

\* CancellationFences, for one job.
CancelFence(j) ==
    /\ cancelRequested[j] <=> jobState[j] \in {"CANCEL_REQUESTED", "CANCELLED"}
    /\ cancelRequested[j] => \A s \in StepsOf(j) : stepState[s] \notin Waiting
    /\ jobState[j] = "CANCEL_REQUESTED" => \E s \in StepsOf(j) : stepState[s] = "RUNNING"

\* Once cancellation is requested, only steps a worker already holds are live,
\* the job shows CANCEL_REQUESTED exactly while there is one, and it ends
\* CANCELLED and in no other state (cancel, fail(CANCELLED), settle_cancel,
\* reconcile).
CancellationFences == \A j \in Jobs : CancelFence(j)

\* A step that waits for its backoff still has the undelivered outbox row that
\* becomes available when the wait ends, so no message consumed too early
\* (Worker.once acknowledges a claim that returned None) can lose the retry.
BackoffKeepsDispatch ==
    \A s \in Steps : stepState[s] = "RETRY_WAIT" /\ waitLeft[s] > 0 =>
        [fence |-> fence[s], wait |-> waitLeft[s]] \in outbox[s]

\* StepsMatchHistory, for one step.
StepHistory(s) ==
    /\ stepState[s] = "ABSENT" <=> jobState[JobOf[s]] = "ABSENT"
    /\ stepState[s] \in {"ABSENT", "PENDING", "READY"} => fence[s] = 0
    /\ reusedFrom[s] # NoStep => stepState[s] = "SUCCEEDED" /\ fence[s] = 0
    /\ stepState[s] = "PENDING" => \E p \in DependsOn[s] : stepState[p] # "SUCCEEDED"
    /\ stepState[s] = "CANCELLED" =>
          jobState[JobOf[s]] \in {"CANCEL_REQUESTED", "CANCELLED", "FAILED"}

\* What a step's state says about its history: a step that never ran has no fence,
\* a reused one keeps fence 0 for ever, a PENDING one still waits for a parent, and
\* a step is CANCELLED only with its job or because a sibling failed.
StepsMatchHistory == \A s \in Steps : StepHistory(s)

\* A job that is neither finished nor being cancelled always has a step that is
\* READY, RUNNING or RETRY_WAIT: commit activates the next steps in the same
\* transaction, so a plan can never be left with PENDING steps only.
OpenJobsHaveWork ==
    \A j \in Jobs : jobState[j] \in {"QUEUED", "PROCESSING"} =>
        \E s \in StepsOf(j) : stepState[s] \in {"READY", "RUNNING", "RETRY_WAIT"}

\* An object reported as an orphan candidate (_orphans) cannot enter a manifest
\* unless a worker registers it again first: the next step never commits it and
\* never copies it into a resumed job.
OrphansStayUnreferenced ==
    [][\A s \in Steps : manifest'[s] # manifest[s] =>
          \A r \in manifest'[s].refs : KeyOf[r] \notin OrphanKeys]_vars

\* The inductive invariant of the ledger.
LedgerInv ==
    /\ TypeOK
    /\ LeaseMatchesHistory
    /\ AttemptsBounded
    /\ ResultsAreFenced
    /\ DependencyOrder
    /\ VerdictMatchesSteps
    /\ CancellationFences
    /\ StepsMatchHistory
    /\ \A j \in Jobs : jobState[j] # "PARTIAL"

\* What the contract sees of a job and of a step: the verdict, or that there is none
\* yet, and the references of the accepted manifest.
verdictSeen == [j \in Jobs |->
    IF jobState[j] = "ABSENT" THEN "NONE"
    ELSE IF jobState[j] \in TERMINAL THEN jobState[j] ELSE "OPEN"]
resultSeen == [s \in Steps |-> IF manifest[s] = NoManifest THEN NoManifest ELSE manifest[s].refs]

\* The ledger implements the contract of JobContract.
Contract == INSTANCE JobContract WITH
    NoResult <- NoManifest, cancelling <- cancelRequested,
    verdict <- verdictSeen, result <- resultSeen

\* Every behaviour of the ledger is a behaviour of the contract: one verdict per
\* job, one result per step in dependency order, none after cancellation.
ImplementsContract == Contract!ContractSpec
=============================================================================
