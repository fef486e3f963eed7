SPECIFICATION SystemSpec
CONSTANTS
    Jobs = {"j"}
    Steps = {"a", "b"}
    JobOf <- JobOfStep
    Unit <- Ownself
    Spec <- Ownself
    DependsOn <- Chain
    Position <- ChainPosition
    RequestKey <- SameForAll
    Version <- SameForAll
    Compat <- SameForAll
    ResumeFrom <- NotResumed
    Policy <- NoJitter
    Workers = {"w1"}
    Refs = {"r1"}
    KeyOf <- KeyOfRef
    LeaseSeconds = 1
    RedeliverySeconds = 1
    Limit = 2
    RetryAfters = {0}
    NoJob = "no_job"
    NoStep = "no_step"
    NoWorker = "no_worker"
    NoManifest = NoManifest
    Output <- OutputOf
    MaxQueue = 1
    MaxCrashes = 1
PROPERTIES
    JobsFinish
    CancellationSettles
