SPECIFICATION ShellFairSpec
CONSTANTS
  r1 = r1
  r2 = r2
  r3 = r3
  r4 = r4
  Recovery = {r1, r2, r3, r4}
  Main = Main
  NoEngine = NoEngine
  CliEngine = CliEngine
  MaxRestarts = 3
  MaxPid = 7
  MaxDeaths = 1
  MaxClicks = 1
  MaxCli = 1

  
PROPERTIES
  RecoveryRests
  
CHECK_DEADLOCK FALSE
