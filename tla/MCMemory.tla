------------------------------ MODULE MCMemory ------------------------------
\* Requests of one session on the bounded log with either provider; or calls of
\* two sessions on the file store that implements it.
EXTENDS Conversation, FileMemory

VARIABLE scene

\* A process that only serves the file has one configured provider and no requests.
SceneInit ==
    /\ Init /\ FileInit
    /\ \/ scene = "requests"
       \/ /\ scene = "file" /\ provider = CHOOSE p \in Provider : TRUE
          /\ kind = [r \in Request |-> "query"] /\ session = [r \in Request |-> CHOOSE s \in Session : TRUE]
SceneNext ==
    /\ \/ scene = "requests" /\ Next /\ UNCHANGED fileVars
       \/ scene = "file" /\ FileNext /\ UNCHANGED vars
    /\ UNCHANGED scene
Requests(A) == scene = "requests" /\ A /\ UNCHANGED <<fileVars, scene>>
Calls(A) == scene = "file" /\ A /\ UNCHANGED <<vars, scene>>
SceneSpec ==
    /\ SceneInit /\ [][SceneNext]_<<vars, fileVars, scene>>
    /\ \A r \in Request : WF_vars(Requests(ServerStep(r)))
    /\ \A x \in FileCall : WF_fileVars(Calls(FileStep(x))) /\ WF_fileVars(Calls(FileBegin(x)))

\* Every request that has begun ends unless its client neither reads nor goes away (query,
\* encode_events), and so does every call of the file store (FileMemoryStore).
EverythingEnds == (scene = "requests" => EveryRequestEnds) /\ (scene = "file" => CallsEnd)
=============================================================================
