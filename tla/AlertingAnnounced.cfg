\* Is a problem past its threshold always reported?
SPECIFICATION Spec
CONSTANTS
  Codes = {"down", "slow"}
  CheckStates = {}
  Policies <- MCPolicies
  Results <- MCResults
  MaxClock = 4
  MaxFailures = 3
INVARIANT ProblemIsAnnounced
CHECK_DEADLOCK FALSE
