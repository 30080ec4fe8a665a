SPECIFICATION Spec
CHECK_DEADLOCK FALSE
SYMMETRY AnyJobAnyBranch
CONSTANTS
  j1 = j1
  j2 = j2
  here = here
  there = there
  Janitor = Janitor
  Jobs = {j1, j2}
  Branches = {here, there}
  Sweepers = {Janitor}
  SiteLimit = 1
  TotalLimit = 1
  Retention = 2
  Grace = 1
  MaxTime = 2
  LastSubmit = 1
  CalmFrom = 3
INVARIANTS
  OwnershipInv
  RecordsInv
PROPERTIES
  ProtectedKept
