SPECIFICATION SceneSpec
CONSTANTS
  Owner <- People
  Document <- TwoDocuments
  OwnerOf <- KeeperOwns
  AuditLimit = 7
  Request <- TwoRequests
  CallerOf <- ReaderCalls
  RoleOf <- TwoTokens
  DocsOf <- BothAnalyze
  Admin = "boss"
  Messages = 2
  MaxMutations = 4
  Key = {k1, k2}
  Cache = 2
  Refresh = 2
INVARIANTS ReleaseInv KeysInv
PROPERTIES ChangesAreLawful EveryoneIsServed
CHECK_DEADLOCK FALSE
