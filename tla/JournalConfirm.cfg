SPECIFICATION FairSpec
CONSTANTS
  t1 = t1
  t2 = t2
  c0 = c0
  c1 = c1
  c2 = c2
  c3 = c3
  Thread = {t1, t2}
  Command = {c0, c1, c2}
  NoCommand = NoCommand
  NoRequest = NoRequest
  Nobody = Nobody
  Request <- ConfirmRequests
  Found = {"draft"}
  MaxStimuli = 4
  CliMayRun = TRUE
INVARIANTS
  ConfirmedOnce
PROPERTIES
  EveryRequestAnswered
CHECK_DEADLOCK FALSE
