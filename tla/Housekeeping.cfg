SPECIFICATION HousekeepingSpec
CHECK_DEADLOCK FALSE
CONSTANTS
  j1 = j1
  here = here
  Janitor = Janitor
  Jobs = {j1}
  Branches = {here}
  Sweepers = {Janitor, Listing}
  SiteLimit = 1
  TotalLimit = 2
  Retention = 2
  Grace = 1
  MaxTime = 4
  LastSubmit = 1
  CalmFrom = 2
  Servers = {s1, s2}
  Devices = {1, 2}
  DevicesPerPass = 1
  Vacant = Vacant
  MaxTrouble = 3
INVARIANTS
  MaintenanceInv
PROPERTIES
  DeviceComesRound
  FramesGoAway
  StoppedIsNotPublished
