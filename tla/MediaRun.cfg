SPECIFICATION MediaSpec
CHECK_DEADLOCK FALSE
SYMMETRY EitherSource
CONSTANTS
  b1 = b1
  s1 = s1
  s2 = s2
  Bindings = {b1}
  Sources = {s1, s2}
  BindingOf <- TwoBindingOf
  Admitted <- TwoAdmitted
  Deadline <- TwoDeadline
  ObsBytes <- TwoBytes
  WithdrawalBytes = 2
  Reserve = 2
  Day = 1
  Retain = 1
  MaxGeneration = 3
  MaxAttempts = 2
  BindingLimits <- Roomy
  InstallationLimits <- Roomy
  DailyLimit = 2
  Times = {0,1,2}
  Leases = {1}
  Delays = {1}
  Receipts = {1}
  MaxClaims = 2
  MediaRetain = 1
  EvidenceIds = {1}
  MaxMediaClaims = 2
INVARIANTS
  MediaInv
  RequestsNeverOverlap
