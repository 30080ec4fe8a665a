SPECIFICATION Spec
SYMMETRY AnySource
CHECK_DEADLOCK FALSE
CONSTANTS
  b1 = b1
  b2 = b2
  s1 = s1
  s2 = s2
  s3 = s3
  Bindings = {b1}
  Sources = {s1, s2, s3}
  BindingOf <- ThreeSourcesBindingOf
  Admitted <- ThreeSourcesAdmitted
  Deadline <- ThreeSourcesDeadline
  ObsBytes <- ThreeSourcesBytes
  WithdrawalBytes = 2
  Reserve = 2
  Day = 1
  Retain = 1
  MaxGeneration = 3
  MaxAttempts = 1
  BindingLimits <- RoomForTwo
  InstallationLimits <- RoomForTwo
  DailyLimit = 3
  Times = {0,1,2}
  Leases = {1}
  Delays = {1}
  Receipts = {1}
  MaxClaims = 3
INVARIANTS
  TypeOK
  ObligationKept
  NoResurrection
  StorageBounded
