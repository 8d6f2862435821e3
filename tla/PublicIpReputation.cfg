\* The reputation cache over runs, retries, address changes and failures.
SPECIFICATION Spec
CONSTANTS
  home = home
  exit = exit
  IPs <- MCIPs
  NoIP = NoIP
  Providers <- MCProviders
  Answers <- MCAnswers
  ExitLists <- MCExitLists
  FailOn <- MCFailOn
  ReputationTtl = 2
  TorTtl = 1
  UseStale = TRUE
  MaxStale = 2
  ResetTimes = {2}
  Retries = 1
  MaxClock = 3
INVARIANT TypeOK
INVARIANT VerdictIsKnown
PROPERTY LimitsAreKept
PROPERTY QuotaIsSpared
