SPECIFICATION SceneSpec
CONSTANTS
  Call <- FourCalls
  WorkloadOf <- Workloads
  JobOf <- Jobs
  InputOf <- Inputs
  OutputOf <- Outputs
  AdmissionPolicy <- Queue
  Minute = 1
  Owner <- TwoOwners
  OwnerOf <- Owners
  TenantOf <- OneTenant
  InputPrice = 1
  OutputPrice = 2
  Policies <- TwoPolicies
  EventLimit = 4
  MigrationLimit = 5
  Day = 1
  Month = 2
  Usages <- SomeUsages
  MaxTime = 2
  Process = {p1, p2}
  MaxFaults = 1
SYMMETRY ProcessSymmetry
INVARIANTS LimitsHold ExecutedAtMostOnce PaidIsAccounted OpenCallsHoldSlots
PROPERTIES BooksAreKept
CHECK_DEADLOCK FALSE
