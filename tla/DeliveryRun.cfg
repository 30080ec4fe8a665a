SPECIFICATION FairDeliverySpec
CHECK_DEADLOCK FALSE
CONSTANTS
  b1 = b1
  s1 = s1
  Bindings = {b1}
  Sources = {s1}
  BindingOf <- OneBindingOf
  Admitted <- OneAdmitted
  Deadline <- OneDeadline
  ObsBytes <- OneBytes
  WithdrawalBytes = 2
  Reserve = 2
  Day = 2
  Retain = 2
  MaxGeneration = 4
  MaxAttempts = 9
  BindingLimits <- Roomy
  InstallationLimits <- Roomy
  DailyLimit = 2
  Times = {0,1,2}
  Leases = {1}
  Delays = {1}
  Receipts = {1}
  MaxClaims = 5
  Lease = 1
  Margin = 0
  Backoff = 1
  ObsAttempts = 1
  TotalAttempts = 3
  PageRows = 1
  Rank <- OneRank
  MaxTime = 2
  CalmFrom = 2
INVARIANTS
  DeliveryInv
PROPERTIES
  SentOnlyIfThere
  GoneLeavesTheCloud
