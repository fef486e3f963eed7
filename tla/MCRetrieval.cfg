CONSTANTS
    v1 = v1
    v2 = v2
    kept = kept
    old = old
    new = new
    None = None
    Replica = {r}
    Operator = {a, b}
    Version <- MCVersion
    Chunk <- MCChunk
    Corpus <- MCCorpus
    MaxCollections = 2
    MaxFaults = 1
SPECIFICATION RetrievalSpec
INVARIANTS SnapshotComplete
PROPERTIES ReadinessFollows
