CONSTANTS
  Null = Null
  User = {u1, u2}
  Role = {"ADMINISTRATOR", "EDITOR"}
  Founder = {u1}
  Manager = {m1, m2}
  Inviter = {i1}
  Visitor = {v1, v2}
  InvitationId = {x1, x2}
  Crashes = TRUE
SPECIFICATION MCSpec
SYMMETRY Symmetry
VIEW WithoutAudit
INVARIANTS
  TypeOK
  TokenUsedOnce
  AcceptedMeansMember
  LastAdminProtected
PROPERTIES
  RejectedStaysRejected
CHECK_DEADLOCK FALSE
