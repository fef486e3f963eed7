INIT SystemInit
NEXT SystemNext
CONSTANTS
    Jobs = {"j"}
    Steps = {"a"}
    JobOf <- JobOfStep
    Unit <- Ownself
    Spec <- Ownself
    DependsOn <- Chain
    Position <- ChainPosition
    RequestKey <- SameForAll
    Version <- SameForAll
    Compat <- SameForAll
    ResumeFrom <- NotResumed
    Policy <- AnyDelay
    Workers = {w1, w2}
    Refs = {"r1"}
    KeyOf <- KeyOfRef
    LeaseSeconds = 1
    RedeliverySeconds = 1
    Limit = 2
    RetryAfters = {0}
    NoJob = "no_job"
    NoStep = "no_step"
    NoWorker = NoWorker
    NoManifest = NoManifest
    Output <- OutputOf
    MaxQueue = 1
    MaxCrashes = 1
CONSTRAINT RelayMatters
SYMMETRY WorkerSymmetry
INVARIANTS LedgerInv SystemInv BackoffKeepsDispatch
PROPERTIES StaleWorkersChangeNothing
