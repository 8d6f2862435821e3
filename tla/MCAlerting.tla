----------------------------- MODULE MCAlerting -----------------------------
(* Small instance of Alerting: three option sets, five results, a clock of *)
(* six instants against a repeat interval of two.                          *)
EXTENDS Alerting

Policy(n, w) ==
  [failAfter |-> n, repeatAfter |-> 2, onWarn |-> w, onRecovery |-> TRUE,
   onFirstSuccess |-> TRUE, hasCmd |-> TRUE]

MCPolicies ==
  {Policy(1, FALSE), Policy(2, FALSE), Policy(2, TRUE),
   [Policy(2, FALSE) EXCEPT !.onRecovery = FALSE, !.onFirstSuccess = FALSE],
   [Policy(2, TRUE) EXCEPT !.hasCmd = FALSE]}

MCResults ==
  {[status |-> "OK", code |-> NoCode, state |-> EmptyCheckState],
   [status |-> "WARN", code |-> "slow", state |-> EmptyCheckState],
   [status |-> "CRIT", code |-> "slow", state |-> EmptyCheckState],
   [status |-> "CRIT", code |-> "down", state |-> EmptyCheckState]}

=============================================================================
