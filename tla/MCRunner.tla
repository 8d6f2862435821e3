------------------------------ MODULE MCRunner ------------------------------
(* Small instance of Runner: the timer and an operator, two sections of    *)
(* which the first notifies and the second pushes to Kuma.                 *)
EXTENDS Runner, TLC

CONSTANTS timer, operator

MCProcs == {timer, operator}
MCSections == {1, 2}

Run(mode, section) ==
  [mode |-> mode, section |-> section, dryRun |-> FALSE, noNotify |-> FALSE]

MCLaunches ==
  (timer :> {Run("due", NoSection)})
  @@ (operator :> {Run("due", NoSection),
                   [Run("all", NoSection) EXCEPT !.noNotify = TRUE],
                   Run("check", 1),
                   [Run("check", 1) EXCEPT !.dryRun = TRUE]})

MCPolicy ==
  [failAfter |-> 1, repeatAfter |-> 60, onWarn |-> FALSE, onRecovery |-> FALSE,
   onFirstSuccess |-> FALSE, hasCmd |-> TRUE]

MCOptions(retries) ==
  <<[policy |-> MCPolicy, interval |-> 1, retries |-> retries, kuma |-> FALSE],
    [policy |-> [MCPolicy EXCEPT !.hasCmd = FALSE],
     interval |-> 2, retries |-> 0, kuma |-> TRUE]>>

(* The first section is tried once, or (a misconfiguration that the loader *)
(* accepts) never; and with a retry, where the question is termination.    *)
MCOptionSets == {MCOptions(0), MCOptions(-1)}
MCRetryOptionSets == {MCOptions(1), MCOptions(-1)}

Result(status) == [status |-> status, code |-> NoCode, state |-> EmptyCheckState]
MCResults == {Result("OK"), Result("CRIT")}
MCThreeResults == MCResults \cup {Result("UNKNOWN")}

=============================================================================
