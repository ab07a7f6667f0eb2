CONSTANTS
  Null = Null
  r1 = r1
  r2 = r2
  A = A
  k1 = k1
  Family = {}
  Product = {}
  Variant = {}
  Batch = {}
  Unit = {}
  Prefix = {A}
  Revision = {r1, r2}
  Key = {k1}
  KeyOf <- OneKey
  PubId = {1, 2}
  RulePool <- Pool
  Row = {1, 2, 3}
  InitialRow <- Rows
  InitialStatus <- Statuses
  Call = {1, 2}
  Faults = TRUE
  ShownRevision = {r1, r2}
  FreeValue <- Values
  Filter <- Filters
  LastPage = 2
  MaxWrites <- Writings
  MaxMishaps <- Mishaps
  Pages = {"wizard", "rules", "history", "document"}
SPECIFICATION MCSpec
INVARIANTS
  RefusedForNews
  ListAnswersLatest
  RevokesWhatWasOpened
  ReportedIsListed
  NeverWaitsInVain
PROPERTIES
  RetiredRulesChangeOnlyInFlight
CHECK_DEADLOCK FALSE
