SPECIFICATION FairSpec
CONSTANTS
    None = None
    Loads <- MCLoads
    Threads = {"compute"}
    Researches = {"r"}
    Sources = {"yahoo", "akshare"}
    Symbols = {"a", "b"}
    ThreadOf <- MCThreadOf
    OwnerOf <- MCOwnerOf
    SymbolsOf <- MCSymbolsOf
    WindowOf <- MCWindowOf
    Before <- MCBefore
    Workers = 2
    RateAttempts = 2
    SymbolAttempts = 2
INVARIANTS
  LoadsShowTheTruth
  LateSendsBounded
  CacheAgrees
PROPERTIES
  LoadsAreServed
CHECK_DEADLOCK FALSE
