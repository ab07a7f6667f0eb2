CONSTANTS
  Null = Null
  Bad = Bad
  Unsaid = Unsaid
  p1 = p1
  p2 = p2
  b1 = b1
  b2 = b2
  s1 = s1
  s2 = s2
  l1 = l1
  l2 = l2
  f1 = f1
  f2 = f2
  Product = {p1, p2}
  Variant = {}
  Batch = {b1, b2}
  ProductOf <- TwoBatches
  Label = {l1, l2}
  InitialDetails <- Everything
  DetailPool <- Renumbered
  EntryPool <- Entries
  PatchPool <- Patches
  Serial = {s1, s2}
  Keeper = {k1}
  File = {f1, f2}
  Content <- Files
  ImportId = {i1, i2}
  Handler = {h1, h2}
  Wizard = {w1}
  Choice <- Choices
  SampleSize = 1
  Crashes = TRUE
SPECIFICATION MCSpec
VIEW View
SYMMETRY Symmetry
INVARIANTS
  TypeOK
  UnitsConsistent
  ImportsAreWhole
  ReviewedBeforeImported
  ResultIsOwnIfNotStrayed
CHECK_DEADLOCK FALSE
