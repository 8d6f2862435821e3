\* Does a run use up only the bucket it was selected in?
SPECIFICATION Spec
CONSTANTS
  timer = timer
  operator = operator
  Codes = {}
  CheckStates = {}
  Sections <- MCSections
  Procs <- MCProcs
  NoProc = NoProc
  Launches <- MCLaunches
  OptionSets <- MCRetryOptionSets
  Results <- MCResults
  MaxRunSeconds = 1
  MaxClock = 2
  MaxFailures = 2
PROPERTY UsesUpItsBucket
CHECK_DEADLOCK FALSE
