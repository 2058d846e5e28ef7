SPECIFICATION FairSpec
CONSTANTS
  d1 = d1
  d2 = d2
  e1 = e1
  c1 = c1
  Proc = {d1, d2, e1}
  Cli = {c1}
  Child <- OneCommand
  Nobody = Nobody
  NoFile = NoFile
  MaxMishaps = 1
  MayStop = TRUE
INVARIANTS
  OneEngine
  
  StartsAreServed
PROPERTIES
  EveryStartEnds
CHECK_DEADLOCK FALSE
