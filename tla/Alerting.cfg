\* Every interleaving of runs and time on one section.
SPECIFICATION Spec
CONSTANTS
  Codes = {"down", "slow"}
  CheckStates = {}
  Policies <- MCPolicies
  Results <- MCResults
  MaxClock = 4
  MaxFailures = 3
INVARIANT TypeOK
INVARIANT SilenceIsBrief
PROPERTY AlertNeedsFailAfter
PROPERTY NoRepeatWithinInterval
PROPERTY FirstSuccessOnce
PROPERTY EndIsTold
CHECK_DEADLOCK FALSE
