------------------------------ MODULE OidcKeys ------------------------------
(***************************************************************************)
(* The signing keys of the identity provider, as OIDCVerifier caches them  *)
(* (security/identity.py).  A lookup, from verify or from a readiness      *)
(* probe, runs under a lock; it refreshes the cache when it is expired or  *)
(* lacks the key, at most once per refresh_seconds, and fails closed.  The *)
(* issuer publishes and withdraws keys and may be out of reach.            *)
(*                                                                         *)
(* Times are ages, capped where they stop mattering.                       *)
(***************************************************************************)
EXTENDS Integers, FiniteSets

CONSTANTS Key,        \* key identifiers, published or not
          Cache,      \* cache_seconds
          Refresh     \* refresh_seconds

\* OIDCSettings allows no others.
ASSUME Settings == Cache \in Nat \ {0} /\ Refresh \in Nat \ {0}

VARIABLES keys,      \* _keys
          loaded,    \* age of _loaded, Cache when expired or never
          attempted, \* age of _attempted, more than Refresh when never
          published, \* the issuer's keys
          up,        \* the issuer can be reached and answers well-formed keys
          outage,    \* it could not be at some time so far
          gone,      \* [Key -> time since the key was last published]
          quiet,     \* time since the last fetch
          verdict    \* the outcome of the last lookup at this time

keyVars == <<keys, loaded, attempted, published, up, outage, gone, quiet, verdict>>
issuerVars == <<published, up, outage, gone>>

Up(age, cap) == IF age < cap THEN age + 1 ELSE cap

NoVerdict == [key |-> CHOOSE k \in Key : TRUE, is |-> "none"]

KeysInit ==
    /\ keys = {} /\ loaded = Cache /\ attempted = Refresh + 1
    /\ published \in (SUBSET Key) \ {{}} /\ up = TRUE /\ outage = FALSE
    /\ gone = [k \in Key |-> IF k \in published THEN 0 ELSE Cache]
    /\ quiet = Refresh + 1 /\ verdict = NoVerdict

Expired == loaded = Cache
Answer(k, is) == verdict' = [key |-> k, is |-> is]

\* The cached keys answer.
LookupCached(k) ==
    /\ ~Expired /\ k \in keys
    /\ Answer(k, "accepted")
    /\ UNCHANGED <<keys, loaded, attempted, quiet, issuerVars>>

MayRefresh == attempted >= Refresh

\* No refresh is allowed yet.
LookupWait(k) ==
    /\ Expired \/ k \notin keys
    /\ ~MayRefresh
    /\ Answer(k, IF Expired THEN "unavailable" ELSE "unknown")
    /\ UNCHANGED <<keys, loaded, attempted, quiet, issuerVars>>

\* Mutated: a failed refresh prolongs the keys already held.
LookupFetchKeeps(k) ==
    /\ Expired \/ k \notin keys
    /\ MayRefresh /\ attempted' = 0 /\ quiet' = 0 /\ loaded' = 0
    /\ keys' = IF up THEN published ELSE keys
    /\ Answer(k, IF k \in keys' THEN "accepted" ELSE "unknown")
    /\ UNCHANGED issuerVars

\* The attempt is recorded before the fetch; a failed or malformed answer
\* raises and leaves the cache as it was.
LookupFetch(k) ==
    /\ Expired \/ k \notin keys
    /\ MayRefresh /\ attempted' = 0 /\ quiet' = 0
    /\ IF up
       THEN /\ keys' = published /\ loaded' = 0
            /\ Answer(k, IF k \in published THEN "accepted" ELSE "unknown")
       ELSE Answer(k, "unavailable") /\ UNCHANGED <<keys, loaded>>
    /\ UNCHANGED issuerVars

Lookup(k) == LookupCached(k) \/ LookupWait(k) \/ LookupFetch(k)

Tick ==
    /\ loaded' = Up(loaded, Cache) /\ attempted' = Up(attempted, Refresh + 1)
    /\ quiet' = Up(quiet, Refresh + 1)
    /\ gone' = [k \in Key |-> IF k \in published THEN 0 ELSE Up(gone[k], Cache)]
    /\ verdict' = NoVerdict /\ UNCHANGED <<keys, published, up, outage>>

\* The issuer rotates its keys, goes down or comes back.
Rotate ==
    /\ \E p \in (SUBSET Key) \ {{}} : published' = p
    /\ gone' = [k \in Key |-> IF k \in published \cup published' THEN 0 ELSE gone[k]]
    /\ UNCHANGED <<keys, loaded, attempted, quiet, up, outage, verdict>>
Outage ==
    /\ up' = ~up /\ outage' = TRUE
    /\ UNCHANGED <<keys, loaded, attempted, published, gone, quiet, verdict>>

KeysNext == Tick \/ Rotate \/ Outage \/ \E k \in Key : Lookup(k)

\* Time passes, and tokens signed with each key keep arriving.
KeysSpec == KeysInit /\ [][KeysNext]_keyVars /\ WF_keyVars(Tick) /\ \A k \in Key : WF_keyVars(Lookup(k))

(* ---------------------------------------------------------------------- *)

\* Ages stay within their caps, and a cache that was never loaded is expired.
KeysTypeOK ==
    /\ keys \subseteq Key /\ published \subseteq Key
    /\ loaded \in 0..Cache /\ attempted \in 0..Refresh + 1
    /\ gone \in [Key -> 0..Cache] /\ (keys = {} => Expired)
    /\ attempted = quiet

\* A key the issuer has withdrawn stops being accepted within cache_seconds,
\* also through an outage of the issuer (_key).
WithdrawnKeysDie ==
    verdict.is = "accepted" => gone[verdict.key] < Cache

\* While the issuer answers, a token is never refused for want of keys, as
\* long as the cache lives as long as the pause between refreshes (_key).
NeverUnavailable ==
    Refresh <= Cache /\ ~outage => verdict.is # "unavailable"

\* A key that stays published by a reachable issuer is eventually in use.
RotationIsAdopted ==
    \A k \in Key : <>[](k \in published /\ up) => <>[](verdict.key = k => verdict.is \in {"accepted", "none"})

\* What the ages are worth: a key that is held was published when the cache was loaded or
\* later, and while the issuer answers every fetch loads the cache (_key).
AgesAgree ==
    /\ \A k \in published : gone[k] = 0
    /\ \A k \in keys : gone[k] <= loaded
    /\ ~outage => up /\ (loaded <= attempted \/ attempted >= Refresh)

\* The clock of the key cache counts from the last fetch, a withdrawn key is accepted for
\* less than the life of the cache, and while the issuer answers no token is refused for
\* want of keys (OIDCVerifier._key).
KeysInv == KeysTypeOK /\ WithdrawnKeysDie /\ NeverUnavailable /\ AgesAgree
=============================================================================
