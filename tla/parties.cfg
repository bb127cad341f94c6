SPECIFICATION Spec
CHECK_DEADLOCK FALSE
CONSTANTS
  Parts = {"accounts", "subsidies", "multisigs", "agents", "restrictions", "compliance", "permissions", "claims", "paging", "connection"}
  a = a
  b = b
  NotPassed = NotPassed
  Amounts = {1, 2}
  MaxTime = 3
  MaxDate = 4
  Period = 1
  Issuances = {1, 2, 3}
  MaxBalance = 4
  GivenNames = {a, b}
  IdLists <- MCIdLists
  Changes <- MCChanges
  MaxDocs = 4
  Locks = {0, 2, 4}
  NameLists <- MCNameLists
  MaxHeld = 2
  Texts = {"t1", "t2"}
  Types = {"s1", "s2"}
  VenueIds = {1, 2}
  Holders = {"me", "you"}
  PayLists <- MCPayLists
  MaxPoints = 3
  Starts = {2}
  Periods = {0, 1}
  Repetitions = {0, 1, 3}
  Schedules = {1}
  NoDate = 99
  Taxes = {1, 2}
  DocContents = {"x", "y"}
  MaxDidWhts = 1
  TargetLists <- MCTargetLists
  DocLists <- MCDocLists
  TaxLists <- MCTaxLists
  Watched = {"k1", "k2"}
  MaxInbox = 2
  AccountKeys = {"k0", "k1", "k2"}
  First = "k0"
  Scopes = {"all", "some"}
  Limit = 2
  Signers = {"a", "b", "c"}
  SignerLists <- MCSignerLists
  Quorums = {1, 2}
  Customs = {"g1", "g2"}
  Own = {"p"}
  People = {"me", "you"}
  RestrictionKinds = {"count", "percentage"}
  Values = {1, 2}
  Exempted = {"me"}
  MaxConditions = 3
  Requirements <- MCRequirements
  RequirementSets <- MCRequirementSets
  Issuers = {"me", "you"}
  Invalid = {"you"}
  MaxComplexity = 3
  RequirementIds = {1, 2}
  Tags <- MCTags
  Exempt <- MCExempt
  TxGroups <- MCTxGroups
  WrittenPermissions <- MCWrittenPermissions
  Assigned <- MCAssigned
  Requests <- MCRequests
  DiligenceIds = {"0", "1", "2"}
  Default = "0"
  PassedClaims <- MCPassedClaims
  PageEntries = {1, 2, 3}
  Claimed = {0, 1, 2}
  Sizes = {1, 2}
INVARIANTS
  TypeOK
  RevertedOnlyIfStale
PROPERTIES
  TurnedAwayRightly
  DoneAsAsked
