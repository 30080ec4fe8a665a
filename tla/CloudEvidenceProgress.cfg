SPECIFICATION FairEvidenceSpec
CHECK_DEADLOCK FALSE
CONSTANTS
  s1 = s1
  e1 = e1
  e2 = e2
  h1 = h1
  h2 = h2
  c1 = c1
  c2 = c2
  Sources = {s1}
  Occurred <- AllAtOnce
  Expires <- Shortest
  Evidence = {e1, e2}
  SourceOf <- OneSourceOf
  Day = 1
  Skew = 0
  Replay = 4
  Keep = 4
  PendingFor = 0
  DailyIntake = 9
  DailyUnknown = 9
  MaxReceipts = 9
  MaxTime = 2
  Uploads = {h1}
  Cleaners = {c1}
  Batch = 1
  Backoff = 1
  Broken = {e1}
  CalmFrom = 1
PROPERTIES
  EnvelopesGoAway
