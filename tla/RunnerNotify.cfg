\* Does a failing notification leave the other checks alone?
SPECIFICATION Spec
CONSTANTS
  timer = timer
  operator = operator
  Codes = {}
  CheckStates = {}
  Sections <- MCSections
  Procs <- MCProcs
  NoProc = NoProc
  Launches <- MCLaunches
  OptionSets <- MCRetryOptionSets
  Results <- MCResults
  MaxRunSeconds = 1
  MaxClock = 2
  MaxFailures = 2
PROPERTY NotifyFailureIsContained
CHECK_DEADLOCK FALSE
