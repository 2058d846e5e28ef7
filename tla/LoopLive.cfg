SPECIFICATION FairSpec
CONSTANTS
  Researches = {r1, r2}
  Workers = {w1}
  None = None
  Commands <- StartAndStop
  MaxFailures = 2
  MaxErrors = 2
  Budget = 1
  MaxBudget = 1
  MaxVersion = 1
  MaxCrashes = 0
  SameError = {TRUE}
  SecretGate = {"ok", "pause"}
PROPERTIES
  
  EveryRoundHasReceipt
CHECK_DEADLOCK FALSE
