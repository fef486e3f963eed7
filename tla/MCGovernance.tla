---------------------------- MODULE MCGovernance ----------------------------
\* The instance of GovernedExecution: two owners of one tenant, of whom "e" is an
\* evaluation scope of the second policy.
EXTENDS GovernedExecution, TLC

TwoOwners == {"a", "e"}
OneTenant == [o \in TwoOwners |-> "tenant"]

\* Interactive and background calls of "a" and "e"; b1 and b2 share a job.
FourCalls == {"i1", "b1", "b2", "e1"}
Owners == "i1" :> "a" @@ "b1" :> "a" @@ "b2" :> "a" @@ "e1" :> "e"
Workloads == [c \in FourCalls |->
                IF c \in {"b1", "b2"} THEN "DOCUMENT_BACKGROUND" ELSE "INTERACTIVE"]
Jobs == "i1" :> "chat" @@ "b1" :> "job" @@ "b2" :> "job" @@ "e1" :> "eval"
Inputs == [c \in FourCalls |-> 1]
Outputs == [c \in FourCalls |-> IF c = "e1" THEN 2 ELSE 1]

Limit(r, i, b, res, day, month, cost) ==
    [requests_per_window |-> r, window |-> 2, interactive_concurrent |-> i,
     background_concurrent |-> b, reserved_tokens |-> res, daily_tokens |-> day,
     monthly_tokens |-> month, monthly_cost |-> cost]

TwoPolicies ==
    << [owner |-> Limit(2, 1, 1, 4, 4, 5, 8), tenant |-> Limit(3, 1, 1, 4, 5, 6, 9),
        scopes |-> {}, evaluation |-> Limit(1, 1, 1, 1, 1, 1, 1)],
       [owner |-> Limit(3, 1, 1, 4, 4, 6, 9), tenant |-> Limit(3, 1, 1, 4, 5, 7, 10),
        scopes |-> {"e"}, evaluation |-> Limit(4, 2, 1, 7, 9, 9, 13)] >>

Queue == [rpm |-> 3, tpm |-> 8, concurrent |-> 2, interactive_rpm |-> 1,
          interactive_tpm |-> 3, interactive_slots |-> 1,
          per_job_concurrent |-> 1, per_job_rpm |-> 2]

\* Nothing, both counts, or, of i1, one of them; of b1, more than was reserved.
SomeUsages(c) ==
    {NoCounts, [input |-> 1, output |-> 1],
     [input |-> 1, output |-> CASE c = "i1" -> Unknown [] c = "b1" -> 4 [] OTHER -> 1]}

ProcessSymmetry == Permutations(Process)

\* Clients use the ledger in any order; or two processes execute an interactive and a
\* background call of "a"; or, within a minute, two background calls of one job.
VARIABLE scene

Books == ApiStep /\ UNCHANGED <<now, started, active, execVars>>
Executing(calls) ==
    \/ MigrateStep
    \/ \E p \in Process : Step(p) \/ Crash(p) \/ Reopen(p) \/ \E c \in calls : Begin(p, c)

SceneNext ==
    /\ \/ scene = "books" /\ (Books \/ TickStep)
       \/ scene = "mixed" /\ (Executing({"i1", "b1"}) \/ (now = 0 /\ TickStep))
       \/ scene = "job" /\ Executing({"b1", "b2"})
    /\ UNCHANGED scene
SceneInit == Init /\ scene \in {"books", "mixed", "job"}
SceneSpec == SceneInit /\ [][SceneNext]_<<vars, scene>>
=============================================================================
