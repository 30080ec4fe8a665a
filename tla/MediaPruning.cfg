SPECIFICATION MediaSpec
CHECK_DEADLOCK FALSE
CONSTANTS
  b1 = b1
  s1 = s1
  s2 = s2
  Bindings = {b1}
  Sources = {s1}
  BindingOf <- OneBindingOf
  Admitted <- OneAdmitted
  Deadline <- OneDeadline
  ObsBytes <- OneBytes
  WithdrawalBytes = 2
  Reserve = 2
  Day = 2
  Retain = 3
  MaxGeneration = 3
  MaxAttempts = 2
  BindingLimits <- Roomy
  InstallationLimits <- Roomy
  DailyLimit = 2
  Times = {0,1,2,3}
  Leases = {1}
  Delays = {1}
  Receipts = {1}
  MaxClaims = 3
  MediaRetain = 2
  EvidenceIds = {1}
  MaxMediaClaims = 3
INVARIANTS
  ForeignKeyNeverBlocksPruning
