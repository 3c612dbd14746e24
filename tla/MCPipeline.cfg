SPECIFICATION Spec
CONSTANTS
  None = None
  Names = {"a", "b"}
  Contexts = {"x", "y"}
  Texts = {"plain", "hostile"}
  Hostile = {"hostile"}
  SeedTexts <- MCSeedTexts
  SentencesOf <- MCSentences
  Features <- MCFeatures
  Candidates = {"c1"}
  Roster <- MCRoster
  Statements = {"t1"}
  Processes = {"p1", "p2"}
  RowIds = {"c1", "c2", "c3", "c4"}
  WholeRoster <- MCWholeRoster
  StatementIds = {"t1", "t2", "t3"}
  Process = "p1"
  BundleUrls = {"u1", "u2"}
  StatementUrl = "u1"
  Requests = {"r1"}
  Resync = "script"
  Claims = {"c1"}
  Urls = {"page", "record", "listing", "account", "advocacy"}
  PageType <- MCPageType
  Social = {"account"}
  PartisanDomains = {"advocacy"}
  Publishers = {"agency", "party"}
  PartisanPublishers = {"party"}
  Reviewers = {"ann", "bob"}
  Inputs <- MCInputs
  Batches <- MCBatches
  Seeds <- MCSeeds
  Legacy <- MCLegacy
  Bulks = {"b1"}
  Templates <- MCTemplates
  Records = {"r1"}
  Bills = {"b1", "b2"}
  AnchorSets <- MCAnchorSets
  MaxLimit = 2
  PublicClaims = {"c1", "c2", "c3", "c4"}
  CandidateOf <- MCCandidateOf
  IssueOf <- MCIssueOf
  SaidAt <- MCSaidAt
  Settled = {"c2", "c3", "c4"}
  LimitIssues = 1
  Keys = {"k1"}
  Threads = {"t1", "t2"}
  Limit = 2
  Window = 4
  Second = 2
  MaxClock = 8
  Targets = {"p1", "p2"}
  MaxRequests = 4
INVARIANTS
  TypeOK
  ScriptsAreIdempotent
  BundleFollowsSources
  EvidenceIsAdmissible
  BulkHasTwoReviewers
  AuditCountsRows
  AttachableIsCertain
  GapsHaveReasons
  ScoreIsExact
  LimitHolds
  ProbeAgrees
