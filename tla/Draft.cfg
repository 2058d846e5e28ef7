SPECIFICATION Spec
CONSTANTS
    Theses <- MCTheses
    Family <- MCFamily
    Hours = {1, 2}
    Parts = {"assets", "years"}
    Limits = {"industry"}
    Messages <- MCMessages
    Sources <- MCSources
    Unlicensed = {"yahoo"}
    SourceMarket <- MCSourceMarket
    Configured = {"file"}
    Rollouts = {TRUE, FALSE}
    MaxTurns = 5
    MaxOpened = 2
INVARIANTS
  BriefIsAgreed
  FamilyWasAnswered
  
CHECK_DEADLOCK FALSE
