SPECIFICATION Spec
CONSTANTS
  a = a
  b = b
  c1 = c1
  Researches = {a, b}
  Commands = {c1}
  Found = {a}
  Quantum = 2
  Limit = 1
  MaxTime = 4
  MaxCuts = 1
  MaxLate = 0
  None = None
INVARIANTS
  TimeIsNotOvercharged
  TimeIsNotLost
PROPERTIES
  NeverGivenBack
CHECK_DEADLOCK FALSE
