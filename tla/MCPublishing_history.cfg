CONSTANTS
  Null = Null
  r1 = r1
  r2 = r2
  r3 = r3
  r4 = r4
  k1 = k1
  k2 = k2
  p1 = p1
  p2 = p2
  u1 = u1
  A = A
  Family = {}
  Product = {p1, p2}
  Variant = {}
  Batch = {}
  Unit = {u1}
  Prefix = {A}
  Revision = {r1, r2, r3, r4}
  Key = {k1, k2}
  KeyOf <- TwoKeys
  PubId = {x1, x2, x3}
  Publisher = {w1, w2, w3}
  Revoker = {v1, v2}
  Editor = {e1}
  RulePool <- FourPool
  Row = {1, 2}
  ContextPool <- Contexts
  InitialStatus <- ThirdDraft
  InitialRules <- FourRuleSets
  Crashes = TRUE
  MaxTime = 2
SPECIFICATION FocusSpec
INVARIANTS
  OneCheckedPerKey
  AuditTellsTheTruth
  ResolverUnambiguous
  HistoryUnambiguous
PROPERTIES
  PublishEnds
  RevokedIsFinal
CHECK_DEADLOCK FALSE
