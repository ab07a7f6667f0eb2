CONSTANTS
  Null = Null
  r1 = r1
  r2 = r2
  r3 = r3
  r4 = r4
  k1 = k1
  k2 = k2
  p1 = p1
  p2 = p2
  u1 = u1
  A = A
  Family = {}
  Product = {p1, p2}
  Variant = {}
  Batch = {}
  Unit = {u1}
  Prefix = {A}
  Revision = {r1}
  Key = {k1}
  KeyOf <- OneKey
  PubId = {x1, x2}
  Publisher = {w1, w2}
  Revoker = {v1}
  Editor = {e1, e2}
  RulePool <- EditedPool
  Row = {1}
  ContextPool <- Contexts
  InitialStatus <- AllDraft
  InitialRules <- NoRules
  Crashes = TRUE
  MaxTime = 0
SPECIFICATION MCSpec
SYMMETRY Symmetry
VIEW WithoutAudit
INVARIANTS
  TypeOK
  FrozenWhileApproved
  NoReviewSkipped
  NoCompetingPublications
PROPERTIES
  ImplementsRegistry
  BackOnlyIfOvertaken
  RetiredIsFinal
CHECK_DEADLOCK FALSE
