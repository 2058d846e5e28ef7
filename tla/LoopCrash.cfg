SPECIFICATION Spec
CONSTANTS
  Researches = {r1}
  Workers = {w1}
  None = None
  Commands <- EveryCommand
  MaxFailures = 2
  MaxErrors = 2
  Budget = 1
  MaxBudget = 2
  MaxVersion = 2
  MaxCrashes = 1
  SameError = {TRUE}
  SecretGate = {"ok", "wait", "pause"}
INVARIANTS
  RecordsAgree
  MCountsRounds
  RoundsAreEarned
PROPERTIES
  LoopRespectsUser
CHECK_DEADLOCK FALSE
