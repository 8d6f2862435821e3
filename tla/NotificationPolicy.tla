------------------------- MODULE NotificationPolicy -------------------------
(***************************************************************************)
(* The notification policy of runner.process_result as pure operators: what*)
(* a check result does to the entry the state file keeps for its section,  *)
(* and which message, if any, it calls for.                                *)
(*                                                                         *)
(* policy  a section's options: failAfter, repeatAfter, onWarn, onRecovery,*)
(*         onFirstSuccess, hasCmd (notify_cmd is configured)               *)
(* prev    the section's entry in the loaded state, or Fresh               *)
(* res     what the check returned: status, problem code, check state      *)
(***************************************************************************)
EXTENDS Schedule

CONSTANTS Codes,        \* problem codes a check can report
          CheckStates   \* opaque values of a check's own persisted state

NoCode == "no_code"          \* details without a usable problem_code
EmptyCheckState == "empty"   \* the {} a check without state gets and returns

Statuses == {"OK", "WARN", "CRIT", "UNKNOWN"}
MessageKinds == {"problem", "recovery", "first_success"}

ResultType == [status : Statuses,
               code   : Codes \cup {NoCode},
               state  : CheckStates \cup {EmptyCheckState}]

EntryType == [status      : Statuses \cup {"none"},
              code        : Codes \cup {NoCode},
              problem     : BOOLEAN,
              consecutive : Nat,
              lastRun     : Nat \cup {Never},
              lastNotif   : Nat \cup {Never},
              lastSuccess : Nat \cup {Never},
              state       : CheckStates \cup {EmptyCheckState}]

PolicyType == [failAfter      : Int,
               repeatAfter    : Int,
               onWarn         : BOOLEAN,
               onRecovery     : BOOLEAN,
               onFirstSuccess : BOOLEAN,
               hasCmd         : BOOLEAN]

(* A section the state file says nothing about: checks_state.get(section, {}). *)
Fresh == [status |-> "none", code |-> NoCode, problem |-> FALSE,
          consecutive |-> 0, lastRun |-> Never, lastNotif |-> Never,
          lastSuccess |-> Never, state |-> EmptyCheckState]

-----------------------------------------------------------------------------
IsFailing(res) == res.status \in {"CRIT", "UNKNOWN"}

(* WARN is a problem only on request, or while a problem is already open. *)
IsProblem(policy, prev, res) ==
  IsFailing(res) \/ (res.status = "WARN" /\ (policy.onWarn \/ prev.problem))

(* A success takes one failure back instead of clearing the count. *)
Consecutive_Decay(policy, prev, res) ==
  IF IsProblem(policy, prev, res) THEN prev.consecutive + 1 ELSE prev.consecutive - 1

(* A success leaves the count as it is. *)
Consecutive_NoReset(policy, prev, res) ==
  IF IsProblem(policy, prev, res) THEN prev.consecutive + 1 ELSE prev.consecutive

Consecutive(policy, prev, res) ==
  IF IsProblem(policy, prev, res) THEN prev.consecutive + 1 ELSE 0

(* The open problem is no longer the one last recorded. *)
ProblemChanged(prev, res) ==
  /\ prev.problem
  /\ \/ prev.status # "none" /\ prev.status # res.status
     \/ NoCode \notin {prev.code, res.code} /\ prev.code # res.code

(* _seconds_since: a missing stamp is as good as infinitely old. *)
SecondsSince(previous, now) == IF previous = Never THEN 1000000000 ELSE now - previous

(* Every problem past the threshold is reported by every run. *)
AlertDue_EveryRun(policy, prev, res, now) ==
  /\ IsProblem(policy, prev, res)
  /\ Consecutive(policy, prev, res) >= policy.failAfter

AlertDue(policy, prev, res, now) ==
  /\ IsProblem(policy, prev, res)
  /\ Consecutive(policy, prev, res) >= policy.failAfter
  /\ \/ ~prev.problem
     \/ Consecutive(policy, prev, res) = policy.failAfter
     \/ ProblemChanged(prev, res)
     \/ SecondsSince(prev.lastNotif, now) >= policy.repeatAfter

(* Only a failing last result has something to recover from. *)
RecoveryDue_LastStatus(policy, prev, res) ==
  ~IsProblem(policy, prev, res) /\ prev.status \in {"CRIT", "UNKNOWN"} /\ policy.onRecovery

RecoveryDue(policy, prev, res) ==
  ~IsProblem(policy, prev, res) /\ prev.problem /\ policy.onRecovery

FirstSuccessDue(policy, prev, res) ==
  /\ ~IsProblem(policy, prev, res) /\ ~prev.problem
  /\ res.status = "OK"
  /\ policy.onFirstSuccess
  /\ prev.lastSuccess = Never

(* The messages a result calls for: at most one kind. *)
DueMessages(policy, prev, res, now) ==
  {kind \in MessageKinds :
     \/ kind = "problem" /\ AlertDue(policy, prev, res, now)
     \/ kind = "recovery" /\ RecoveryDue(policy, prev, res)
     \/ kind = "first_success" /\ FirstSuccessDue(policy, prev, res)}

(* A notification counted as made although the command failed. *)
NewEntry_CountFailedSend(policy, prev, res, now, sent) ==
  [status |-> res.status, code |-> res.code,
   problem |-> IsProblem(policy, prev, res),
   consecutive |-> Consecutive(policy, prev, res),
   lastRun |-> now,
   lastNotif |-> IF sent \/ DueMessages(policy, prev, res, now) # {} THEN now
                 ELSE prev.lastNotif,
   lastSuccess |-> IF res.status = "OK" /\ sent THEN now ELSE prev.lastSuccess,
   state |-> res.state]

(* The success stamp is dropped with every result that sends no message. *)
NewEntry_ForgetSuccess(policy, prev, res, now, sent) ==
  [status |-> res.status, code |-> res.code,
   problem |-> IsProblem(policy, prev, res),
   consecutive |-> Consecutive(policy, prev, res),
   lastRun |-> now,
   lastNotif |-> IF sent THEN now ELSE prev.lastNotif,
   lastSuccess |-> IF res.status = "OK" /\ sent THEN now ELSE Never,
   state |-> res.state]

(* new_check_state: the entry process_result leaves in the state. *)
NewEntry(policy, prev, res, now, sent) ==
  [status      |-> res.status,
   code        |-> res.code,
   problem     |-> IsProblem(policy, prev, res),
   consecutive |-> Consecutive(policy, prev, res),
   lastRun     |-> now,
   lastNotif   |-> IF sent THEN now ELSE prev.lastNotif,
   lastSuccess |-> IF res.status = "OK" /\ sent THEN now ELSE prev.lastSuccess,
   state       |-> res.state]

=============================================================================
