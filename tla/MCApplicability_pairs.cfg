CONSTANTS
  Null = Null
  Family = {f1}
  Product = {p1, p2}
  Variant = {v1}
  Batch = {}
  Unit = {u1, u2}
  Prefix = {A, B}
  Times = {0, 1, 2}
SPECIFICATION Spec
INVARIANTS
  OverlapIsConservative
  OverlapIsExactOnSerials
  CountMissesOnlyTheUndecided
CHECK_DEADLOCK FALSE
