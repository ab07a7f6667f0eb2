CONSTANTS
  Null = Null
  ada = ada
  ben = ben
  o1 = o1
  o2 = o2
  t1 = t1
  t2 = t2
  User = {ada, ben}
  Org = {o1, o2}
  Handler = {h1, h2}
  Tab = {t1, t2}
  Task = {k1, k2}
  SelfService = TRUE
  Crashes = TRUE
SPECIFICATION MCSpec
SYMMETRY Symmetry
VIEW WithoutAudit
INVARIANTS
  PortalTypeOK
  WritesHadAccess
PROPERTIES
  LastOperatorGoesInCrossfire
  WritesWhereShown
CHECK_DEADLOCK FALSE
