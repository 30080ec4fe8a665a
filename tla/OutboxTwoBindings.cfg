SPECIFICATION Spec
SYMMETRY Exchange
CHECK_DEADLOCK FALSE
CONSTANTS
  b1 = b1
  b2 = b2
  s1 = s1
  s2 = s2
  s3 = s3
  Bindings = {b1, b2}
  Sources = {s1, s2}
  BindingOf <- TwoBindingsBindingOf
  Admitted <- TwoBindingsAdmitted
  Deadline <- TwoBindingsDeadline
  ObsBytes <- TwoBindingsBytes
  WithdrawalBytes = 2
  Reserve = 2
  Day = 2
  Retain = 2
  MaxGeneration = 3
  MaxAttempts = 1
  BindingLimits <- SmallBinding
  InstallationLimits <- SmallInstallation
  DailyLimit = 2
  Times = {0,1,2}
  Leases = {2}
  Delays = {1}
  Receipts = {1}
  MaxClaims = 2
INVARIANTS
  ClaimsNeverOverlap
PROPERTIES
  KeepsPromise
