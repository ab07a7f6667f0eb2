CONSTANTS
  Null = Null
  r1 = r1
  r2 = r2
  r3 = r3
  p1 = p1
  A = A
  k1 = k1
  slot1 = slot1
  slot2 = slot2
  Family = {}
  Product = {p1}
  Variant = {}
  Batch = {}
  Unit = {}
  Prefix = {A}
  Revision = {r1, r2, r3}
  Key = {k1}
  KeyOf <- OneKey
  Slot = {slot1, slot2}
  SlotOf <- Slots
  Existing = {r3}
  PubId = {x1, x2}
  Publisher = {w1, w2}
  Revoker = {v1, v2}
  Editor = {e1}
  Uploader = {l1, l2}
  Visitor = {b1}
  RulePool <- Pool
  Row = {1}
  ContextPool <- Contexts
  InitialStatus <- Statuses
  InitialRules <- Rules
  Crashes = TRUE
  MaxTime = 2
SPECIFICATION MCSpec
SYMMETRY Symmetry
VIEW WithoutAudit
INVARIANTS
  LibraryTypeOK
  OneRowPerSlot
  PublishedHaveFiles
  RevokedNotServed
CHECK_DEADLOCK FALSE
