CONSTANTS
  Null = Null
  User = {u1, u2}
  Role = {"ADMINISTRATOR", "EDITOR"}
  Founder = {u1, u2}
  Manager = {m1, m2}
  Inviter = {}
  Visitor = {}
  InvitationId = {}
  Crashes = FALSE
SPECIFICATION MCSpec
INVARIANTS
  AdminRemains
CHECK_DEADLOCK FALSE
