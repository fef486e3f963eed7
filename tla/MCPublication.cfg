SPECIFICATION SceneSpec
CONSTANTS
    Version = {"v1", "v2"}
    DocumentOf <- TwoDocuments
    Job = {"j1", "j2"}
    VersionOf <- OneJobEach
    Admin = {a1, a2}
    Replica = {r1}
    Request = {q1}
    Oidc = TRUE
    NoGeneration = NoGeneration
    MaxEpoch = 4
    MaxCandidates = 3
    MaxFaults = 1
SYMMETRY AdminSymmetry
INVARIANTS PublicationInv AdmittedIsAnswered
PROPERTIES ImplementsHistory RevokedIsGone
