------------------------------ MODULE Alerting ------------------------------
(***************************************************************************)
(* The life of one section over many invocations: the entry the state file *)
(* keeps for it, and the messages that reach the operator.  Each run of the*)
(* check is one step (runner.process_result and the save that follows it); *)
(* the invocation may be killed, or abort, before that save.               *)
(*                                                                         *)
(* The variables after entry are history: no action reads them.            *)
(***************************************************************************)
EXTENDS NotificationPolicy

CONSTANTS Policies,      \* the option sets a section may be configured with
          Results,       \* the results the check may return
          MaxClock,      \* bound on time
          MaxFailures    \* bound on consecutive_failures

ASSUME AlertingConstants ==
  /\ Policies \subseteq PolicyType
  /\ Results \subseteq ResultType
  /\ MaxClock \in Nat /\ MaxFailures \in Nat

VARIABLES
  policy,       \* the section's options, fixed
  clock,        \* the time of day
  entry,        \* checks[section] in the state file
  streak,       \* problem results since the last record without one
  told,         \* the problem last reported, while it stays open and unchanged
  announced,    \* a problem message left since the open problem began
  greeted,      \* an OK message is on record as sent
  attempt,      \* what became of the message of the last recorded run
  lastSentAt,   \* when a message last left the machine
  sentNow       \* the message the last step sent

history == <<streak, told, announced, greeted, attempt, lastSentAt, sentNow>>
vars == <<policy, clock, entry, history>>

NotTold == [status |-> "none", code |-> NoCode, at |-> Never]
NoMessage == [kind |-> "none", status |-> "none", code |-> NoCode]
Attempts == {"none", "sent", "failed", "suppressed"}

Init ==
  /\ policy \in Policies
  /\ clock = 0
  /\ entry = Fresh
  /\ streak = 0
  /\ told = NotTold
  /\ announced = FALSE
  /\ greeted = FALSE
  /\ attempt = "none"
  /\ lastSentAt = Never
  /\ sentNow = NoMessage

-----------------------------------------------------------------------------
Due(res) == DueMessages(policy, entry, res, clock)

(* The message an open problem, or the end of one, leaves in the history. *)
Told(res, kind) ==
  IF kind = "problem" THEN [status |-> res.status, code |-> res.code, at |-> clock]
  ELSE IF IsProblem(policy, entry, res) /\ told.status = res.status /\ told.code = res.code
  THEN told ELSE NotTold

Message(res, kind) ==
  IF kind = "none" THEN NoMessage
  ELSE [kind |-> kind, status |-> res.status, code |-> res.code]

Streak(res) == IF IsProblem(policy, entry, res) THEN streak + 1 ELSE 0

(* A run whose entry is saved.  kind is the message that left, or "none".  *)
Record(res, kind, result) ==
  /\ entry.consecutive < MaxFailures
  /\ entry' = NewEntry(policy, entry, res, clock, kind # "none")
  /\ streak' = Streak(res)
  /\ told' = Told(res, kind)
  /\ announced' = (IsProblem(policy, entry, res) /\ (announced \/ kind = "problem"))
  /\ greeted' = (greeted \/ (kind # "none" /\ res.status = "OK"))
  /\ attempt' = result
  /\ lastSentAt' = IF kind = "none" THEN lastSentAt ELSE clock
  /\ sentNow' = Message(res, kind)
  /\ UNCHANGED <<policy, clock>>

(* Nothing is due, or no notify_cmd is configured. *)
RunQuietly ==
  \E res \in Results :
    /\ Due(res) = {} \/ ~policy.hasCmd
    /\ Record(res, "none", "none")

(* A message is due and the command exits 0. *)
RunNotified ==
  \E res \in Results : \E kind \in Due(res) :
    policy.hasCmd /\ Record(res, kind, "sent")

(* A message is due and the command exits with an error. *)
RunNotifyFailed ==
  \E res \in Results :
    Due(res) # {} /\ policy.hasCmd /\ Record(res, "none", "failed")

(* A message is due but the operator passed --no-notify. *)
RunSuppressed ==
  \E res \in Results : Due(res) # {} /\ Record(res, "none", "suppressed")

(* The invocation is killed or raises after the message left (if one did)  *)
(* and before the entry is saved.                                          *)
RunLost ==
  \E res \in Results : \E kind \in Due(res) \cup {"none"} :
    /\ kind # "none" => policy.hasCmd
    /\ streak < MaxFailures
    /\ streak' = IF IsProblem(policy, entry, res) THEN streak + 1 ELSE streak
    /\ told' = IF kind = "none" THEN told ELSE NotTold
    /\ announced' = (announced \/ kind = "problem")
    /\ lastSentAt' = IF kind = "none" THEN lastSentAt ELSE clock
    /\ sentNow' = Message(res, kind)
    /\ UNCHANGED <<policy, clock, entry, greeted, attempt>>

Tick ==
  /\ clock < MaxClock
  /\ clock' = clock + 1
  /\ sentNow' = NoMessage
  /\ UNCHANGED <<policy, entry, streak, told, announced, greeted, attempt, lastSentAt>>

Next ==
  \/ RunQuietly
  \/ RunNotified
  \/ RunNotifyFailed
  \/ RunSuppressed
  \/ RunLost
  \/ Tick

Spec == Init /\ [][Next]_vars

-----------------------------------------------------------------------------
TypeOK ==
  /\ policy \in PolicyType
  /\ clock \in Nat
  /\ entry \in EntryType
  /\ streak \in Nat
  /\ told \in [status : Statuses \cup {"none"}, code : Codes \cup {NoCode},
              at : Nat \cup {Never}]
  /\ announced \in BOOLEAN /\ greeted \in BOOLEAN
  /\ attempt \in Attempts
  /\ lastSentAt \in Nat \cup {Never}
  /\ sentNow \in [kind : MessageKinds \cup {"none"},
                 status : Statuses \cup {"none"}, code : Codes \cup {NoCode}]

(* A problem message leaves only after fail_after problem results since the*)
(* section was last on record without a problem, whatever was lost,        *)
(* suppressed or undelivered in between.                                   *)
AlertNeedsFailAfter ==
  [][sentNow'.kind = "problem" => streak' >= policy.failAfter]_vars

(* An open problem that has not changed since it was reported is not       *)
(* reported again before notify_repeat_after_minutes, unless the record of *)
(* the report was lost with the invocation that made it.                   *)
NoRepeatWithinInterval ==
  [][(/\ sentNow'.kind = "problem"
      /\ told.status = sentNow'.status /\ told.code = sentNow'.code)
     => clock - told.at >= policy.repeatAfter]_vars

(* A problem past its threshold stays unreported only while the command    *)
(* fails or is suppressed, or for at most the repeat interval after some   *)
(* other message did leave the machine.  (A missing stamp counts as 31     *)
(* years old: with a longer interval nothing bounds the silence.)          *)
SilenceIsBrief ==
  (/\ policy.hasCmd /\ policy.repeatAfter <= SecondsSince(Never, clock)
   /\ entry.problem /\ entry.consecutive >= policy.failAfter
   /\ ~announced /\ attempt = "none")
  => /\ lastSentAt # Never
     /\ entry.lastRun - lastSentAt < policy.repeatAfter

(* The first-success message is sent at most once in a section's life: an  *)
(* OK message on record, of either kind, rules it out whatever fails later.*)
FirstSuccessOnce ==
  [][sentNow'.kind = "first_success" => ~greeted]_vars

(* notify_on_recovery: the end of a problem the operator was told of is    *)
(* told once, by the run that records it, through WARN results and status  *)
(* changes in between.  The command may fail, and it is not tried again; a *)
(* problem whose record was lost with its invocation has no end on record. *)
EndIsTold ==
  [][(/\ announced /\ entry.problem /\ ~entry'.problem
      /\ policy.hasCmd /\ policy.onRecovery)
     => attempt' \in {"sent", "failed", "suppressed"}]_vars

(* ARCHITECTURE.md, notification policy: OK then CRIT is notified after    *)
(* fail_after.  A run past the threshold whose command was neither failing *)
(* nor suppressed leaves the problem reported.                             *)
ProblemIsAnnounced ==
  (/\ policy.hasCmd
   /\ entry.problem /\ entry.consecutive >= policy.failAfter
   /\ attempt \in {"none", "sent"})
  => announced

=============================================================================
