SPECIFICATION FairEvidenceSpec
CHECK_DEADLOCK FALSE
CONSTANTS
  s1 = s1
  e1 = e1
  e2 = e2
  h1 = h1
  h2 = h2
  c1 = c1
  c2 = c2
  Sources = {s1}
  Occurred <- AllAtOnce
  Expires <- Short
  Evidence = {e1}
  SourceOf <- OneSourceOf
  Day = 2
  Skew = 0
  Replay = 4
  Keep = 4
  PendingFor = 0
  DailyIntake = 9
  DailyUnknown = 9
  MaxReceipts = 9
  MaxTime = 4
  Uploads = {h1}
  Cleaners = {c1}
  Batch = 1
  Backoff = 1
  Broken = {}
  CalmFrom = 0
PROPERTIES
  UnreviewedShellsGoAway
