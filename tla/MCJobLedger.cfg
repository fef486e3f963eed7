SPECIFICATION ServiceSpec
CONSTANTS
    Jobs = {"j1", "j2"}
    Steps = {"a1", "b1", "a2", "c2"}
    JobOf <- JobOfStep
    Unit <- UnitOf
    Spec <- UnitOf
    DependsOn <- Parents
    Position <- PlanPosition
    RequestKey <- Ownself
    Version <- SameForAll
    Compat <- SameForAll
    ResumeFrom <- ResumeOf
    Policy <- OneAttempt
    Workers = {"w1"}
    Refs = {"r1"}
    KeyOf <- KeyOfRef
    LeaseSeconds = 1
    RedeliverySeconds = 1
    Limit = 1
    RetryAfters = {0}
    NoJob = "no_job"
    NoStep = "no_step"
    NoWorker = "no_worker"
    NoManifest = NoManifest
    Source <- SourceOf
    MaxDamage = 1
CONSTRAINT
    OnlyWhatMatters
INVARIANTS LedgerInv OpenJobsHaveWork
PROPERTIES OrphansStayUnreferenced ImplementsContract SettledReuseIsInspected
