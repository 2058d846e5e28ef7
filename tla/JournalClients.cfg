SPECIFICATION Spec
CONSTANTS
  t1 = t1
  t2 = t2
  c0 = c0
  c1 = c1
  c2 = c2
  c3 = c3
  Thread = {t1, t2}
  Command = {c0, c1, c2, c3}
  NoCommand = NoCommand
  NoRequest = NoRequest
  Nobody = Nobody
  Request <- ClientRequests
  Found = {"absent", "draft", "idle"}
  MaxStimuli = 4
  CliMayRun = FALSE
INVARIANTS
  TypeOK
  AppliedOnce
  StaleNeverApplies
  AnswersAreTrue
PROPERTIES
  ImplementsLog
  ResendIsAuthorized
CHECK_DEADLOCK FALSE
