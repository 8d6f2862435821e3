\* Every invocation ends unless its own check, command or push hangs.
SPECIFICATION Spec
CONSTANTS
  timer = timer
  operator = operator
  Codes = {}
  CheckStates = {}
  Sections <- MCSections
  Procs <- MCProcs
  NoProc = NoProc
  Launches <- MCLaunches
  OptionSets <- MCRetryOptionSets
  Results <- MCResults
  MaxRunSeconds = 1
  MaxClock = 1
  MaxFailures = 1
PROPERTY EndsOrHangs
CHECK_DEADLOCK FALSE
