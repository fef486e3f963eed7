---------------------------- MODULE QuotaLedger ----------------------------
(***************************************************************************)
(* The governance ledger (governance/ledger.py): every paid call reserves  *)
(* its worst case against the limits of its owner and of its tenant, and   *)
(* is later settled at what it really used.  A reservation whose usage     *)
(* never became known keeps its worst case, across days and months.        *)
(* governance/migration.py and governance/evaluation.py replace the policy *)
(* row of the same database.                                               *)
(***************************************************************************)
EXTENDS ProviderAdmission, Sequences

CONSTANTS Owner, OwnerOf,      \* [Call -> Owner]
          TenantOf,            \* [Owner -> tenant]
          InputPrice, OutputPrice,
          Policies,            \* the policies, oldest first (see Select)
          EventLimit,          \* event_limit
          MigrationLimit,      \* the migrations' own bound on the events table
          Day, Month,          \* calendar periods, in ticks
          Usages(_),           \* the usages a provider may report for a call
          MaxTime              \* bound: the clock

\* settle accepts a count or its absence, for the input and for the output; a count may be
\* larger than the reservation, which no provider is bound to keep to.
ASSUME UsageCounts ==
    \A c \in Call : Usages(c) \subseteq [input : Nat \cup {-1}, output : Nat \cup {-1}]

\* Limits, and the policies made of them.
Limits == [requests_per_window : Nat, window : Nat, interactive_concurrent : Nat,
           background_concurrent : Nat, reserved_tokens : Nat, daily_tokens : Nat,
           monthly_tokens : Nat, monthly_cost : Nat]
QuotaPolicy == [owner : Limits, tenant : Limits, scopes : SUBSET Owner,
                evaluation : Limits]

ASSUME LedgerTypes ==
    /\ OwnerOf \in [Call -> Owner] /\ InputPrice \in Nat /\ OutputPrice \in Nat
    /\ Policies \in Seq(QuotaPolicy) /\ Policies # <<>>
    /\ EventLimit \in Nat /\ MigrationLimit \in Nat /\ Day \in Nat \ {0} /\ Month \in Nat \ {0}

VARIABLES row,     \* [Call -> reservation]
          policy,  \* the index in Policies of the configuration row
          events   \* the number of rows of the events table

ledgerVars == <<row, policy, events>>

Unknown == -1
NoCounts == [input |-> Unknown, output |-> Unknown]
Known(u) == u.input # Unknown /\ u.output # Unknown
Reservation(s, t, u) == [state |-> s, created |-> t, actual |-> u]
NoReservation == Reservation("NONE", 0, NoCounts)

Cost(u) == InputPrice * u.input + OutputPrice * u.output
WorstCase(c) == [input |-> InputOf[c], output |-> OutputOf[c]]

\* The scopes of an evaluation binding have limits of their own, for the owner
\* and for the tenant; everyone else in the tenant keeps the ordinary ones.
Select(p, o) ==
    IF o \in Policies[p].scopes
    THEN [owner |-> Policies[p].evaluation, tenant |-> Policies[p].evaluation]
    ELSE [owner |-> Policies[p].owner, tenant |-> Policies[p].tenant]

\* m allows whatever l does.
Wider(l, m) ==
    /\ m.window <= l.window
    /\ \A f \in {"requests_per_window", "interactive_concurrent", "background_concurrent",
                 "reserved_tokens", "daily_tokens", "monthly_tokens", "monthly_cost"} : l[f] <= m[f]

\* target_policy raises limits, and so does the overlay of evaluation_policy for its scopes.
ASSUME PoliciesGrow ==
    \A k \in 1..(Len(Policies) - 1), o \in Owner :
       /\ Wider(Select(k, o).owner, Select(k + 1, o).owner)
       /\ Wider(Select(k, o).tenant, Select(k + 1, o).tenant)

Rows(S) == {c \in S : row[c].state # "NONE"}
Spent(S) == {c \in Rows(S) : row[c].state # "RELEASED"}
Unsettled(S) == {c \in Spent(S) : row[c].state # "SETTLED"}

\* What a row counts for: its worst case until it is settled.
Counts(c) == IF row[c].state = "SETTLED" THEN row[c].actual ELSE WorstCase(c)

\* Mutated: only the rows of the period, so that an unknown expense expires.
SinceFresh(S, start) == {c \in Spent(S) : row[c].created >= start}

\* A row counts in the period it was created in, and while it is unsettled.
Since(S, start) == {c \in Spent(S) : row[c].created >= start} \cup Unsettled(S)

DayStart == now - (now % Day)
MonthStart == now - (now % Month)
Tokens(S) == SumFunctionOnSet([c \in S |-> Counts(c).input + Counts(c).output], S)
Expense(S) == SumFunctionOnSet([c \in S |-> Cost(Counts(c))], S)
Current(S, w) ==
    {c \in S : row[c].state \in {"RESERVED", "ADMITTING", "STARTED"} /\ WorkloadOf[c] = w}
Cap(limits, w) ==
    IF w = "INTERACTIVE" THEN limits.interactive_concurrent ELSE limits.background_concurrent

\* Would one more call c, beside the calls S of its owner or tenant, break a limit?
Exceeds(limits, S, c) ==
    LET more == Estimate(c) IN
    \/ Cardinality({d \in Rows(S) : row[d].created > now - limits.window})
         >= limits.requests_per_window
    \/ Cardinality(Current(S, WorkloadOf[c])) >= Cap(limits, WorkloadOf[c])
    \/ Tokens(Unsettled(S)) + more > limits.reserved_tokens
    \/ Tokens(Since(S, DayStart)) + more > limits.daily_tokens
    \/ Tokens(Since(S, MonthStart)) + more > limits.monthly_tokens
    \/ Expense(Since(S, MonthStart)) + Cost(WorstCase(c)) > limits.monthly_cost

OfOwner(o) == {c \in Call : OwnerOf[c] = o}
OfTenant(o) == {c \in Call : TenantOf[OwnerOf[c]] = TenantOf[o]}

QuotaDenied(c, p) ==
    \/ Exceeds(Select(p, OwnerOf[c]).tenant, OfTenant(OwnerOf[c]), c)
    \/ Exceeds(Select(p, OwnerOf[c]).owner, OfOwner(OwnerOf[c]), c)

LedgerInit ==
    /\ row = [c \in Call |-> NoReservation]
    /\ policy = 1 /\ events = 0

\* One more event, or the transaction is rolled back at the limit.
Event == events < EventLimit /\ events' = events + 1

\* reserve, on a ledger opened with policy p.  The same identity again finds
\* its row and returns the same ticket (no step here); a denial is recorded.
Reserve(c, p) ==
    /\ p = policy /\ row[c].state = "NONE" /\ ~QuotaDenied(c, p)
    /\ row' = [row EXCEPT ![c] = Reservation("RESERVED", now, NoCounts)]
    /\ Event /\ UNCHANGED policy

DenyReserve(c, p) ==
    /\ p = policy /\ row[c].state = "NONE" /\ QuotaDenied(c, p)
    /\ Event /\ UNCHANGED <<row, policy>>

\* transition: a compare-and-swap on the state.
Transition(c, before, after) ==
    /\ row[c].state = before
    /\ row' = [row EXCEPT ![c].state = after]

\* Mutated: a later report may leave out what an earlier one knew.
MaySettleAny(c, u) == row[c].state \in {"STARTED", "UNKNOWN"}

MaySettle(c, u) ==
    \/ row[c].state = "STARTED"
    \/ /\ row[c].state = "UNKNOWN"
       /\ \A k \in {"input", "output"} : row[c].actual[k] \in {Unknown, u[k]}

\* settle; a repeated settlement of a SETTLED row returns or raises, unchanged.
Settle(c, u) ==
    /\ MaySettle(c, u)
    /\ row' = [row EXCEPT ![c] = Reservation(IF Known(u) THEN "SETTLED" ELSE "UNKNOWN",
                                             @.created, u)]

MayMigrate == policy < Len(Policies) /\ Unsettled(Call) = {}

\* migrate_l1_policy and apply_evaluation_migration: compare-and-swap of the
\* policy row, refused while any obligation is open.
Migrate ==
    /\ MayMigrate /\ events < MigrationLimit
    /\ policy' = policy + 1 /\ events' = events + 1
    /\ UNCHANGED row

Tick == now < MaxTime /\ now' = now + 1 /\ UNCHANGED <<started, active, ledgerVars>>

\* The ledger by itself, under every order of the calls its API allows.
ApiStep ==
    \/ \E c \in Call : Reserve(c, policy) \/ DenyReserve(c, policy)
    \/ /\ \E c \in Call :
             \/ Transition(c, "RESERVED", "ADMITTING")
             \/ Transition(c, "ADMITTING", "STARTED")
             \/ Transition(c, "ADMITTING", "RELEASED")
             \/ \E u \in Usages(c) : Settle(c, u)
       /\ UNCHANGED <<policy, events>>
    \/ Migrate
LedgerNext == (ApiStep /\ UNCHANGED <<now, started, active>>) \/ Tick
LedgerSpec == now = 0 /\ AdmissionInit /\ LedgerInit
              /\ [][LedgerNext]_<<now, started, active, ledgerVars>>

(* ---------------------------------------------------------------------- *)

Open(S) == {c \in S : row[c].state \in {"RESERVED", "ADMITTING", "STARTED", "UNKNOWN"}}
Owed(S, start) == Open(S) \cup {c \in S : row[c].state = "SETTLED" /\ row[c].created >= start}

\* Every row is in a state of the table's life cycle, with the counts its
\* state says it has, and the events table stays within its limit.
LedgerTypeOK ==
    /\ now \in Nat /\ policy \in 1..Len(Policies) /\ events \in (0..EventLimit) \cup (0..MigrationLimit)
    /\ \A c \in Call :
          /\ row[c].created \in 0..now
          /\ \/ row[c].state \in {"NONE", "RESERVED", "ADMITTING", "STARTED", "RELEASED"}
                /\ row[c].actual = NoCounts
             \/ row[c].state = "UNKNOWN" /\ ~Known(row[c].actual)
             \/ row[c].state = "SETTLED" /\ Known(row[c].actual)

\* The part of what a row counts for that its reservation covers: a provider that reports
\* more than was reserved is charged for all of it.
Smaller(m, n) == IF m <= n THEN m ELSE n
Covered(c) == [input |-> Smaller(Counts(c).input, InputOf[c]),
               output |-> Smaller(Counts(c).output, OutputOf[c])]
CoveredTokens(S) == SumFunctionOnSet([c \in S |-> Covered(c).input + Covered(c).output], S)
CoveredCost(S) == SumFunctionOnSet([c \in S |-> Cost(Covered(c))], S)

\* Everything but concurrency, of the calls S of one owner or tenant.
Within(limits, S) ==
    /\ Cardinality({c \in Rows(S) : row[c].created > now - limits.window})
         <= limits.requests_per_window
    /\ CoveredTokens(Open(S)) <= limits.reserved_tokens
    /\ CoveredTokens(Owed(S, DayStart)) <= limits.daily_tokens
    /\ CoveredTokens(Owed(S, MonthStart)) <= limits.monthly_tokens
    /\ CoveredCost(Owed(S, MonthStart)) <= limits.monthly_cost

\* What an owner and a tenant owe, with every open call at its worst case, never exceeds
\* a limit they are entitled to, over any sequence of calls, crashes, settlements, period
\* changes and policy migrations, but for what providers report beyond a reservation: a
\* reservation is no cap on the bill, settle charges whatever is reported, and a limit is
\* passed by at most that excess (reserve, settle; the tenant may stand at the allowance
\* of any of its owners, since an evaluation scope is given its own tenant limits).
BudgetsHold ==
    \A o \in Owner :
       LET peers == {q \in Owner : TenantOf[q] = TenantOf[o]} IN
       /\ Within(Select(policy, o).owner, OfOwner(o))
       /\ \E q \in peers : Within(Select(policy, q).tenant, OfTenant(o))
       /\ \A w \in {"INTERACTIVE", "DOCUMENT_BACKGROUND"} :
             /\ Cardinality(Current(OfOwner(o), w)) <= Cap(Select(policy, o).owner, w)
             /\ \E q \in peers :
                   Cardinality(Current(OfTenant(o), w)) <= Cap(Select(policy, q).tenant, w)

\* The books are not rewritten: a count once reported for a call is never changed or
\* forgotten, a settled call stays settled (settle), and the policy row is replaced only
\* when no call admitted under the old policy is still open (migrate_l1_policy,
\* apply_evaluation_migration).
BooksAreKept ==
    [][/\ \A c \in Call :
             /\ \A k \in {"input", "output"} :
                   row[c].actual[k] # Unknown => row'[c].actual[k] = row[c].actual[k]
             /\ row[c].state \in {"SETTLED", "RELEASED"} => row'[c] = row[c]
       /\ policy' # policy => Open(Call) = {}]_<<row, policy>>
=============================================================================
