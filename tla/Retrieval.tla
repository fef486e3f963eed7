----------------------------- MODULE Retrieval -----------------------------
(***************************************************************************)
(* The versioned corpus of the chat path: ingestion and reset of the       *)
(* Chroma collection (rag/ingest.py, rag/admin.py), the BM25 snapshot a    *)
(* replica builds at start-up (rag/bm25.py, api/app.py lifespan) and the   *)
(* readiness probe that takes a stale replica out of service.  Every       *)
(* remote call is a step of its own.  A collection object a process holds  *)
(* names one collection and caches its metadata (rag/chroma_store.py).     *)
(***************************************************************************)
EXTENDS Naturals, FiniteSets

CONSTANTS Replica, Operator, Version, Chunk,
          Corpus,          \* [Version -> the chunks of data/docs at that version]
          None,
          MaxCollections,  \* bound on the collections ever created
          MaxFaults        \* bound on failed calls of replicas

\* A version is immutable: its label stands for one set of chunks.
ASSUME CorpusType == Corpus \in [Version -> SUBSET Chunk]

VARIABLES coll,      \* the collection that has the configured name, 0 for none
          created,   \* how many collections were created
          chunks,    \* what the collection holds
          version,   \* its polymind_corpus_version, or None
          work,      \* [Operator -> what the command is doing]
          held,      \* [Operator -> the collection object it holds, 0 for none]
          target,    \* [Operator -> the version it ingests]
          todo,      \* [Operator -> the chunks it has not written]
          stage,        \* [Replica -> down, version, list or up]
          expected,  \* [Replica -> BM25_CORPUS_VERSION it was rolled with]
          handle,    \* [Replica -> the collection object it holds]
          loadedVersion,    \* [Replica -> loaded_corpus_version]
          snapshot,  \* [Replica -> the chunks in its BM25 index]
          probe,     \* [Replica -> the call its readiness probe makes next]
          ready,     \* [Replica -> the last probe answered 200]
          faults

store == <<coll, created, chunks, version>>
admins == <<work, held, target, todo>>
index == <<stage, expected, loadedVersion, snapshot>>
corpusVars == <<store, admins, index, handle, probe, ready, faults>>

NoHandle == [id |-> 0, version |-> None]
NewIndex == {}

CorpusInit ==
    /\ coll = 0 /\ created = 0 /\ chunks = {} /\ version = None /\ faults = 0
    /\ work = [a \in Operator |-> "idle"] /\ held = [a \in Operator |-> 0]
    /\ target = [a \in Operator |-> None] /\ todo = [a \in Operator |-> {}]
    /\ stage = [r \in Replica |-> "down"] /\ expected = [r \in Replica |-> None]
    /\ handle = [r \in Replica |-> NoHandle] /\ loadedVersion = [r \in Replica |-> None]
    /\ snapshot = [r \in Replica |-> NewIndex] /\ probe = [r \in Replica |-> "idle"]
    /\ ready = [r \in Replica |-> FALSE]

-----------------------------------------------------------------------------
(* The administrative commands: each is a process of its own, which may     *)
(* die or fail at any call.                                                 *)

\* get_or_create_collection(name).
GetOrCreate ==
    IF coll # 0 THEN UNCHANGED store
    ELSE /\ created < MaxCollections
         /\ created' = created + 1 /\ coll' = created'
         /\ chunks' = {} /\ version' = None

\* rag.ingest starts: its first upsert fetches the collection.
Ingest(a, v) ==
    /\ work[a] = "idle" /\ GetOrCreate
    /\ work' = [work EXCEPT ![a] = "ingest"]
    /\ target' = [target EXCEPT ![a] = v] /\ todo' = [todo EXCEPT ![a] = Corpus[v]]
    /\ held' = [held EXCEPT ![a] = coll']
    /\ UNCHANGED <<index, handle, probe, ready, faults>>

\* One chunk is upserted under its uuid5; an object of a deleted collection fails.
Upsert(a, c) ==
    /\ work[a] = "ingest" /\ c \in todo[a] /\ held[a] = coll
    /\ chunks' = chunks \cup {c}
    /\ todo' = [todo EXCEPT ![a] = @ \ {c}]
    /\ UNCHANGED <<coll, created, version, work, held, target, index, handle, probe, ready, faults>>

\* The process ends.
Ends(a) ==
    /\ work' = [work EXCEPT ![a] = "idle"] /\ held' = [held EXCEPT ![a] = 0]
    /\ target' = [target EXCEPT ![a] = None] /\ todo' = [todo EXCEPT ![a] = {}]

\* Every chunk is written and there was one: the version goes into the metadata
\* of the collection the command holds.
Publish(a) ==
    /\ work[a] = "ingest" /\ todo[a] = {} /\ held[a] = coll
    /\ Corpus[target[a]] # {}
    /\ version' = target[a] /\ Ends(a)
    /\ UNCHANGED <<coll, created, chunks, index, handle, probe, ready, faults>>

\* rag.admin reset deletes the collection, which may be missing ...
Delete(a) ==
    /\ work[a] = "idle" /\ created < MaxCollections
    /\ coll' = 0 /\ chunks' = {} /\ version' = None
    /\ work' = [work EXCEPT ![a] = "reset"]
    /\ UNCHANGED <<created, held, target, todo, index, handle, probe, ready, faults>>

\* ... and creates it again, unless an ingestion already has.
Recreate(a) ==
    /\ work[a] = "reset" /\ GetOrCreate /\ Ends(a)
    /\ UNCHANGED <<index, handle, probe, ready, faults>>

\* A call fails, the process dies, or there was no chunk at all: nothing is undone.
Abort(a) ==
    /\ work[a] # "idle" /\ Ends(a)
    /\ UNCHANGED <<store, index, handle, probe, ready, faults>>

-----------------------------------------------------------------------------
(* A replica starts, serves and stops.                                      *)

Fault == faults < MaxFaults /\ faults' = faults + 1

\* A process starts with the version the rollout gave it.
Start(r, v) ==
    /\ stage[r] = "down" /\ stage' = [stage EXCEPT ![r] = "version"]
    /\ expected' = [expected EXCEPT ![r] = v]
    /\ UNCHANGED <<store, admins, loadedVersion, snapshot, handle, probe, ready, faults>>

\* corpus_version() fetches the collection again: the object then held.
Refreshed(r) == [id |-> coll, version |-> version]

\* build_bm25 gave up: the service starts without a snapshot.
WithoutSnapshot(r) ==
    /\ stage' = [stage EXCEPT ![r] = "up"]
    /\ UNCHANGED <<store, admins, expected, loadedVersion, snapshot, probe, ready>>

\* build_bm25 reads the published version; a missing collection or another version
\* ends the build.
ReadVersion(r) ==
    /\ stage[r] = "version"
    /\ \/ /\ Fault /\ WithoutSnapshot(r) /\ UNCHANGED handle
       \/ /\ coll = 0 /\ WithoutSnapshot(r) /\ UNCHANGED <<handle, faults>>
       \/ /\ coll # 0 /\ handle' = [handle EXCEPT ![r] = Refreshed(r)]
          /\ handle'[r].version # expected[r] /\ WithoutSnapshot(r) /\ UNCHANGED faults
       \/ /\ coll # 0 /\ handle' = [handle EXCEPT ![r] = Refreshed(r)]
          /\ handle'[r].version = expected[r]
          /\ stage' = [stage EXCEPT ![r] = "list"]
          /\ UNCHANGED <<store, admins, expected, loadedVersion, snapshot, probe, ready, faults>>

\* Mutated: the collection is looked up by name again.
ListByName(r) ==
    /\ stage[r] = "list"
    /\ \/ /\ (Fault \/ (coll = 0 /\ UNCHANGED faults)) /\ WithoutSnapshot(r) /\ UNCHANGED handle
       \/ /\ coll # 0 /\ chunks # {}
          /\ snapshot' = [snapshot EXCEPT ![r] = chunks]
          /\ loadedVersion' = [loadedVersion EXCEPT ![r] = expected[r]]
          /\ stage' = [stage EXCEPT ![r] = "up"]
          /\ UNCHANGED <<store, admins, expected, handle, probe, ready, faults>>

\* It then lists the collection it holds and assigns the snapshot; the object of a
\* collection deleted meanwhile fails.
List(r) ==
    /\ stage[r] = "list"
    /\ \/ /\ (Fault \/ (handle[r].id # coll /\ UNCHANGED faults)) /\ WithoutSnapshot(r) /\ UNCHANGED handle
       \/ /\ handle[r].id = coll /\ chunks # {}
          /\ snapshot' = [snapshot EXCEPT ![r] = chunks]
          /\ loadedVersion' = [loadedVersion EXCEPT ![r] = expected[r]]
          /\ stage' = [stage EXCEPT ![r] = "up"]
          /\ UNCHANGED <<store, admins, expected, handle, probe, ready, faults>>

\* hybrid_retrieve searches the collection the replica holds, fetching it when it
\* holds none.
Query(r) ==
    /\ stage[r] = "up" /\ handle[r] = NoHandle /\ coll # 0
    /\ handle' = [handle EXCEPT ![r] = [id |-> coll, version |-> version]]
    /\ UNCHANGED <<store, admins, index, probe, ready, faults>>

\* Shutdown clears the snapshot and closes the stores; a crash loses them.
Stop(r) ==
    /\ stage[r] # "down" /\ stage' = [stage EXCEPT ![r] = "down"]
    /\ expected' = [expected EXCEPT ![r] = None]
    /\ loadedVersion' = [loadedVersion EXCEPT ![r] = None] /\ snapshot' = [snapshot EXCEPT ![r] = NewIndex]
    /\ handle' = [handle EXCEPT ![r] = NoHandle] /\ probe' = [probe EXCEPT ![r] = "idle"]
    /\ ready' = [ready EXCEPT ![r] = FALSE]
    /\ UNCHANGED <<store, admins, faults>>

-----------------------------------------------------------------------------
(* GET /ready.                                                              *)

Answered(r, ok) ==
    /\ ready' = [ready EXCEPT ![r] = ok] /\ probe' = [probe EXCEPT ![r] = "idle"]

\* Inference or memory is not ready, or a call to the store fails.
ProbeFails(r) ==
    /\ stage[r] = "up" /\ Fault /\ Answered(r, FALSE)
    /\ UNCHANGED <<store, admins, index, handle>>

\* Mutated: a failed count leaves the previous answer.
ProbeCountKeeps(r) ==
    /\ stage[r] = "up" /\ probe[r] = "idle"
    /\ LET h == IF handle[r] = NoHandle THEN [id |-> coll, version |-> version] ELSE handle[r]
       IN  IF h.id = 0 \/ h.id # coll
           THEN UNCHANGED <<ready, probe, handle>>
           ELSE /\ handle' = [handle EXCEPT ![r] = h]
                /\ probe' = [probe EXCEPT ![r] = "version"] /\ UNCHANGED ready
    /\ UNCHANGED <<store, admins, index, faults>>

\* check_readiness counts through the object it holds, or fetches one.
ProbeCount(r) ==
    /\ stage[r] = "up" /\ probe[r] = "idle"
    /\ LET h == IF handle[r] = NoHandle THEN [id |-> coll, version |-> version] ELSE handle[r]
       IN  IF h.id = 0 \/ h.id # coll
           THEN Answered(r, FALSE) /\ UNCHANGED handle
           ELSE /\ handle' = [handle EXCEPT ![r] = h]
                /\ probe' = [probe EXCEPT ![r] = "version"] /\ UNCHANGED ready
    /\ UNCHANGED <<store, admins, index, faults>>

\* check_bm25_readiness with the version just read.
Bm25Ready(r, published) ==
    /\ loadedVersion[r] # None
    /\ loadedVersion[r] = expected[r] /\ published = expected[r]

\* It reads the version afresh; when there is none check_bm25_readiness reads it
\* once more.
ProbeVersion(r) ==
    /\ stage[r] = "up" /\ probe[r] \in {"version", "again"}
    /\ IF coll = 0 THEN Answered(r, FALSE) /\ UNCHANGED handle
       ELSE /\ handle' = [handle EXCEPT ![r] = Refreshed(r)]
            /\ IF handle'[r].version = None /\ loadedVersion[r] # None /\ probe[r] = "version"
               THEN probe' = [probe EXCEPT ![r] = "again"] /\ UNCHANGED ready
               ELSE Answered(r, Bm25Ready(r, handle'[r].version))
    /\ UNCHANGED <<store, admins, index, faults>>

-----------------------------------------------------------------------------
Command(a) ==
    \/ \E v \in Version : Ingest(a, v)
    \/ \E c \in Chunk : Upsert(a, c)
    \/ Publish(a) \/ Delete(a) \/ Recreate(a) \/ Abort(a)

Serve(r) == ReadVersion(r) \/ List(r) \/ ProbeCount(r) \/ ProbeVersion(r)

CorpusNext ==
    \/ \E a \in Operator : Command(a)
    \/ \E r \in Replica : \/ Serve(r) \/ Query(r) \/ Stop(r) \/ ProbeFails(r)
                          \/ \E v \in Version : Start(r, v)

\* Start-up runs to its end and the orchestrator keeps probing; nobody has to
\* ingest, reset or roll.
RetrievalSpec ==
    CorpusInit /\ [][CorpusNext]_corpusVars /\ \A r \in Replica : WF_corpusVars(Serve(r))

-----------------------------------------------------------------------------

\* A snapshot that a replica labels with a version holds every chunk of that version
\* (build_bm25 reads the version before it lists, ingestion publishes last),
\* whatever ingestions, resets and failures run beside the start-up.
SnapshotComplete ==
    \A r \in Replica : loadedVersion[r] # None => Corpus[loadedVersion[r]] \subseteq snapshot[r]

\* A replica whose version is no longer the published one leaves readiness: the
\* metadata its collection object cached does not hide the publication
\* (corpus_version).
StaleLeavesReady ==
    \A r \in Replica :
       (stage[r] = "up" /\ version # expected[r])
          ~> (~ready[r] \/ version = expected[r] \/ stage[r] # "up")

\* A replica does not stay ready while the collection object it searches with is
\* that of a deleted collection: its searches would all fail (check_readiness
\* counts through the object itself).
DeadHandleLeavesReady ==
    \A r \in Replica :
       (stage[r] = "up" /\ handle[r].id # coll)
          ~> (~ready[r] \/ handle[r].id = coll \/ stage[r] # "up")

\* A replica rolled after the publication of its version enters service, if nothing
\* is published, reset or rolled meanwhile (lifespan, readiness).
Rolled(r) == /\ stage[r] = "up" /\ snapshot[r] # NewIndex
             /\ version = expected[r] /\ handle[r].id = coll
RolledServes == \A r \in Replica : Rolled(r) ~> (ready[r] \/ ~Rolled(r))

\* Readiness follows the corpus both ways: stale replicas leave it, rolled ones enter it
\* (readiness).
ReadinessFollows == StaleLeavesReady /\ DeadHandleLeavesReady /\ RolledServes
=============================================================================
