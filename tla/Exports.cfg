SPECIFICATION Spec
CONSTANTS
  t1 = t1
  t2 = t2
  p1 = p1
  p2 = p2
  d1 = d1
  Threads = {t1, t2}
  Exports = {p1, d1}
  Packs = {p1}
  Journaled = {p1, d1}
  Outcomes <- GoodOrBad
  Begins = {"unlicensed"}
  Methods = {"builtin"}
  MaxRounds = 2
  MaxWrites = 3
  MaxBuilds = 2
  MaxCrashes = 1
  Overlap = FALSE
  Rereads = FALSE
SYMMETRY Symmetry
INVARIANTS
  ExportsAgree
  AuthorizedIsRecoverable
  NoUnlicensedPrices
PROPERTIES
  PackStepsHold
CHECK_DEADLOCK FALSE
