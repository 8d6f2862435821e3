\* The timer and an operator over one state file.
SPECIFICATION Spec
CONSTANTS
  timer = timer
  operator = operator
  Codes = {}
  CheckStates = {}
  Sections <- MCSections
  Procs <- MCProcs
  NoProc = NoProc
  Launches <- MCLaunches
  OptionSets <- MCOptionSets
  Results <- MCResults
  MaxRunSeconds = 1
  MaxClock = 2
  MaxFailures = 2
INVARIANT TypeOK
INVARIANT CrashLosesOneCheck
INVARIANT ScheduleTableIsRight
PROPERTY OneRunPerSlot
PROPERTY NoRepeatOvertake
PROPERTY ExitTellsFailure
PROPERTY UsesStore
CHECK_DEADLOCK FALSE
