SPECIFICATION PartsSpec
SYMMETRY Alike
CHECK_DEADLOCK FALSE
CONSTANTS
  m1 = m1
  m2 = m2
  m3 = m3
  k1 = k1
  k2 = k2
  a1 = a1
  a2 = a2
  Users = {m1, m2}
  Sites = {a, b}
  Tokens = {k1, k2}
  NoUser = NoUser
  MaxAccountChanges = 1
  MaxCodes = 2
  Cookies = {k1, k2, k3}
  NoCookie = NoCookie
  MaxAge = 3
  Idle = 2
  MaxTime = 4
  Emails = {m1, m2}
  Namespaces = {k1, k2}
  Window = 1
  PerKey = 2
  PerHost = 3
  MaxStamp = 2
  MaxWrongTries = 3
  Keys = {k1, k2}
  Sources = {s1}
  Nothing = Nothing
  Amounts = {1}
  MaxCases = 2
  MaxChanges = 3
  MaxTasks = 2
  RetryKeys = {k1, k2}
  Events = {e1}
  SourceIds = {s1}
  Inputs = {x, y}
  NoReport = NoReport
  MaxRequests = 2
  Clips = {c1}
  Unasked = Unasked
  Early = 0
  KeepFor = 1
  Old = 2
  MaxMoment = 1
  MaxLink = 5
  Samples <- MCSamples
  Citations <- MCCitations
  Openers = {m1, m2}
  Unset = Unset
  Identities = {i1, i2}
  MaxExchanges = 1
  Jobs = {j1}
  NoArchive = NoArchive
  Trials = {i1}
  Reviews = {1, 2, 3}
  RetryNames = {k1, k2}
  Cap = 2
  Threshold = 2
  MaxEdits = 2
  TriedAnswers <- MCTried
  People = {m1, m2, m3}
  Pharmacies = {p1}
  Browsers = {k1, k2}
  Slots = {k1, k2}
  Invites = {i1}
  Nobody = Nobody
  PerUser = 1
  MaxTries = 1
  MaxCode = 2
  MaxReading = 1
  MaxVersion = 2
  Episodes = {m1, m2}
  Eyes = {c1}
  NoEye = NoEye
  Windows <- MCWindows
  MaxRecords = 1
  MaxEvents = 9
  MaxEpisode = 8
  Grace = 1
  MaxAt = 9
  Late = 7
  Told <- MCTold
  Sequel <- MCSequel
  Again = {"EXIT_CROSSED"}
  Preparations = {m1, m2}
  Codes = {k1, k2}
  Actors = {a1, a2}
  Absent = Absent
  BranchOf <- MCBranchOf
  MaxGeneration = 3
  MaxAttempts = 2
INVARIANTS
  AccountsInv
  SignInInv
  TriesAreLimited
  CaseworkInv
  MadeOnce
  AnalysisInv
  ProjectionInv
  DatabaseInv
  RecoveryInv
  VerifierInv
  AuthInv
  CustodyInv
  ConnectionInv
PROPERTIES
  BranchKeepsManager
  LogIsKept
  NeverConverted
  AnswersStand
  CodesOnlyOnce
  RequestsAreCurrent
