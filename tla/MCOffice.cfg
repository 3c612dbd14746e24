SPECIFICATION OfficeSpec
CONSTANTS
  None = None
  Types = {"claim_ready_for_publish"}
  Claims = {"c1"}
  Accounts = {"a1", "a2"}
  Tested = {}
  Requests = {"q1", "q2"}
  Dispatchers = {"d1", "d2"}
  Crashes = TRUE
  Ids = {"i1", "i2"}
  Contents = {"v", "w"}
  Readers = {"t1"}
  MaxVersion = 3
  Editor = "q1"
  Editors = {"q1", "q2"}
  Contested = {"i1"}
  Faults = {"commit", "crash"}
  Jobs = {"j1"}
  Profiles = {"p1"}
  Batches = {"starter", "round5"}
  Modules = {"m1", "m2"}
  Kinds <- MCKinds
  Allowlisted <- MCAllowlisted
  PlainModule = "m3"
  DryTypes = {"extract"}
  Committed <- MCCommitted
  MaxAttempts = 2
  Edits = TRUE
  People = {"ann", "bob"}
  Actions = {"candidate_mutation", "evaluation_overwrite"}
  AdminActions = {"candidate_mutation"}
  AccessTTL = 1
  ApprovalTTL = 1
  ApiRows = {"k1", "k2"}
  Clients = {"x1", "x2"}
  RowLists <- MCRowLists
  MaxSources = 2
  Degraded = FALSE
INVARIANTS
  OfficeTypeOK
  RowsSayWhatHappened
  NobodyForgotten
  AuditMatchesFile
  CachedWasHeld
  RunsWhatWasQueued
  OfferedResolves
  NobodyActsAlone
  GreenIsSafe
  GreenWasReadTwice
PROPERTIES
  RevokedStaysRevoked
