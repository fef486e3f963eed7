----------------------------- MODULE MCSecurity -----------------------------
\* One document shared and one not registered yet; the reader has two tokens with different roles.
EXTENDS SecureRelease, OidcKeys, TLC

People == {"keeper", "reader", "boss"}
TwoDocuments == {"doc", "draft"}
KeeperOwns == [d \in TwoDocuments |-> "keeper"]
TwoRequests == {"q1", "q2"}
ReaderCalls == [q \in TwoRequests |-> "reader"]
TwoTokens == "q1" :> "user" @@ "q2" :> "admin"
BothAnalyze == [q \in TwoRequests |-> {"doc"}]

\* "doc" is registered and shared with the reader.
SharedInit ==
    /\ account = [o \in Owner |-> [known |-> TRUE, epoch |-> 0, disabled |-> FALSE,
                                   role |-> IF o = "boss" THEN "admin" ELSE "user"]]
    /\ document = "doc" :> [state |-> "ACTIVE", epoch |-> 1] @@ "draft" :> [state |-> "NONE", epoch |-> 0]
    /\ grants = "doc" :> {"reader"} @@ "draft" :> {} /\ granted = grants
    /\ audit = 0
    /\ request = [q \in Request |-> [pc |-> "register", snapshot |-> NoSnapshot, sent |-> 0]]
    /\ lock = Free /\ blocked = Free /\ revoked = {} /\ mutations = 0

\* The requests run on the authority; or tokens meet the key cache.
VARIABLE scene

SceneInit ==
    /\ SharedInit /\ KeysInit
    /\ \/ scene = "requests" /\ published = Key
       \/ scene = "keys"
SceneNext ==
    /\ \/ scene = "requests" /\ Next /\ UNCHANGED keyVars
       \/ scene = "keys" /\ KeysNext /\ UNCHANGED vars
    /\ UNCHANGED scene
Requests(A) == scene = "requests" /\ A /\ UNCHANGED <<keyVars, scene>>
Tokens(A) == scene = "keys" /\ A /\ UNCHANGED <<vars, scene>>
SceneSpec ==
    /\ SceneInit /\ [][SceneNext]_<<vars, keyVars, scene>>
    /\ \A q \in Request : WF_vars(Requests(Step(q)))
    /\ WF_keyVars(Tokens(Tick))
    /\ \A k \in Key : WF_keyVars(Tokens(Lookup(k)))

\* Every request is answered, whoever holds the database (correlated_send); and a key
\* that stays published is accepted in the end (OIDCVerifier._key).
EveryoneIsServed ==
    (scene = "requests" => EveryRequestAnswered) /\ (scene = "keys" => RotationIsAdopted)
=============================================================================
