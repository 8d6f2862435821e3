---------------------------- MODULE Alerting_proofs ----------------------------
(***************************************************************************)
(* Proofs about Alerting, for any options, results and problem codes and   *)
(* any sequence of runs, kills and failing commands: what the entry in the *)
(* state file has to do with what the operator was told.                   *)
(***************************************************************************)
EXTENDS Alerting, NotificationPolicy_proofs

(* Failures on record were problem results. *)
CountIsHonest == streak >= entry.consecutive

(* A report that stands is the one on record: of the problem the entry has,*)
(* with its time, past the threshold.                                      *)
ToldIsOnRecord ==
  told # NotTold =>
    /\ entry.problem /\ entry.consecutive >= policy.failAfter
    /\ told.status = entry.status /\ told.code = entry.code
    /\ told.at \in Nat /\ told.at = entry.lastNotif

(* An OK message on record keeps its stamp. *)
GreetedIsOnRecord == greeted => entry.lastSuccess # Never

(* The stamp of the last message on record is that of a message that left, *)
(* and others may have left since.                                         *)
SentIsInThePast ==
  /\ lastSentAt <= clock /\ entry.lastNotif <= lastSentAt
  /\ entry.lastRun <= clock

AInv ==
  /\ TypeOK
  /\ CountIsHonest /\ ToldIsOnRecord /\ GreetedIsOnRecord /\ SentIsInThePast
  /\ SilenceIsBrief
-----------------------------------------------------------------------------
(* A message that left later is no longer ago. *)
LEMMA LaterIsShorter ==
  ASSUME NEW now \in Int, NEW a \in Nat, NEW b \in Nat \cup {Never}, NEW limit \in Int,
         a <= b, now - a < limit
  PROVE  b # Never /\ now - b < limit
  BY DEF Never

LEMMA ResultsAreTyped ==
  ASSUME NEW res \in Results
  PROVE  res \in ResultType /\ res.status \in Statuses /\ res.code \in Codes \cup {NoCode}
  BY AlertingConstants DEF ResultType

LEMMA MessageType ==
  ASSUME NEW res \in Results, NEW kind \in MessageKinds \cup {"none"}
  PROVE  Message(res, kind) \in [kind : MessageKinds \cup {"none"},
                                status : Statuses \cup {"none"}, code : Codes \cup {NoCode}]
  BY ResultsAreTyped DEF Message, NoMessage

(* A message that is reported is due. *)
LEMMA DueIsKind ==
  ASSUME NEW res \in Results, NEW kind \in Due(res) \cup {"none"}
  PROVE  /\ kind \in MessageKinds \cup {"none"}
         /\ kind = "problem" => AlertDue(policy, entry, res, clock)
         /\ kind = "first_success" => FirstSuccessDue(policy, entry, res)
  BY DueKinds DEF Due, MessageKinds

LEMMA InitAInv == Init => AInv
  <1> SUFFICES ASSUME Init PROVE AInv
    OBVIOUS
  <1>1. policy \in PolicyType
    BY AlertingConstants DEF Init
  <1>2. TypeOK
    BY <1>1, FreshType DEF Init, TypeOK, NotTold, NoMessage, Attempts
  <1> QED
    BY <1>2 DEF Init, AInv, CountIsHonest, ToldIsOnRecord, GreetedIsOnRecord,
       SentIsInThePast, SilenceIsBrief, Fresh, Never

(* What a recorded run leaves, but for how long it stays silent.           *)
LEMMA RecordStep ==
  ASSUME AInv, NEW res \in Results, NEW kind \in Due(res) \cup {"none"},
         NEW result \in Attempts, Record(res, kind, result)
  PROVE  /\ TypeOK' /\ CountIsHonest' /\ ToldIsOnRecord' /\ GreetedIsOnRecord'
         /\ SentIsInThePast'
  <1> USE DEF AInv, TypeOK
  <1>1. res \in ResultType /\ kind \in MessageKinds \cup {"none"}
    BY ResultsAreTyped, DueIsKind
  <1>2. entry' = NewEntry(policy, entry, res, clock, kind # "none")
    BY DEF Record
  <1>3. entry' \in EntryType /\ entry'.lastRun = clock
    BY <1>1, <1>2, NewEntryType
  <1>4. /\ entry'.problem = IsProblem(policy, entry, res)
        /\ entry'.consecutive = Consecutive(policy, entry, res)
        /\ entry'.status = res.status /\ entry'.code = res.code
        /\ entry'.lastNotif = IF kind # "none" THEN clock ELSE entry.lastNotif
        /\ entry'.lastSuccess = IF res.status = "OK" /\ kind # "none" THEN clock
                                ELSE entry.lastSuccess
    BY <1>2 DEF NewEntry
  <1>5. told' \in [status : Statuses \cup {"none"}, code : Codes \cup {NoCode},
                   at : Nat \cup {Never}]
    BY ResultsAreTyped DEF Record, Told, NotTold
  <1>6. TypeOK'
    <2>1. streak' \in Nat
      BY DEF Record, Streak
    <2>2. announced' \in BOOLEAN /\ greeted' \in BOOLEAN
      BY DEF Record, IsProblem, IsFailing, PolicyType, EntryType
    <2>3. sentNow' = Message(res, kind)
      BY DEF Record
    <2>4. /\ policy' = policy /\ clock' = clock /\ attempt' = result
          /\ lastSentAt' = IF kind = "none" THEN lastSentAt ELSE clock
      BY DEF Record
    <2> QED
      BY <1>1, <1>3, <1>5, <2>1, <2>2, <2>3, <2>4, MessageType
  <1>7. CountIsHonest'
    BY <1>4 DEF CountIsHonest, Record, Streak, Consecutive, EntryType
  <1>8. GreetedIsOnRecord'
    BY <1>4 DEF GreetedIsOnRecord, Record, Never
  <1>9. SentIsInThePast'
    BY <1>3, <1>4 DEF SentIsInThePast, Record, EntryType, Never
  <1>10. ToldIsOnRecord'
    <2>1. CASE kind = "problem"
      <3>1. AlertDue(policy, entry, res, clock)
        BY <2>1, DueIsKind
      <3>2. told' = [status |-> res.status, code |-> res.code, at |-> clock]
        BY <2>1 DEF Record, Told
      <3>3. entry'.problem /\ entry'.consecutive >= policy.failAfter
        BY <1>4, <3>1 DEF AlertDue
      <3>4. policy' = policy /\ clock \in Nat
        BY DEF Record
      <3> QED
        BY <1>4, <2>1, <3>2, <3>3, <3>4 DEF ToldIsOnRecord
    <2>2. CASE kind # "problem" /\ told' # NotTold
      <3>1. /\ IsProblem(policy, entry, res) /\ told' = told
            /\ told.status = res.status /\ told.code = res.code
        BY <2>2 DEF Record, Told
      <3>2. kind = "none"
        BY <1>1, <2>2, <3>1, DueKinds DEF Due, MessageKinds, RecoveryDue, FirstSuccessDue
      <3>3. told # NotTold
        BY <2>2, <3>1
      <3>4. entry'.consecutive = entry.consecutive + 1
        BY <1>4, <3>1 DEF Consecutive
      <3>5. entry.consecutive \in Nat /\ policy.failAfter \in Int
        BY DEF EntryType, PolicyType
      <3>6. entry.consecutive >= policy.failAfter /\ told.at \in Nat /\ told.at = entry.lastNotif
        BY <3>3 DEF ToldIsOnRecord
      <3>7. entry'.consecutive >= policy.failAfter
        BY <3>4, <3>5, <3>6
      <3>8. policy' = policy
        BY DEF Record
      <3> QED
        BY <1>4, <3>1, <3>2, <3>6, <3>7, <3>8 DEF ToldIsOnRecord
    <2> QED
      BY <2>1, <2>2 DEF ToldIsOnRecord
  <1> QED
    BY <1>6, <1>7, <1>8, <1>9, <1>10

(* A recorded run whose command was neither failing nor suppressed.        *)
LEMMA QuietlyStep == AInv /\ RunQuietly => AInv'
  <1> SUFFICES ASSUME AInv, RunQuietly PROVE AInv'
    OBVIOUS
  <1>1. PICK res \in Results :
          (Due(res) = {} \/ ~policy.hasCmd) /\ Record(res, "none", "none")
    BY DEF RunQuietly
  <1>2. /\ TypeOK' /\ CountIsHonest' /\ ToldIsOnRecord' /\ GreetedIsOnRecord'
        /\ SentIsInThePast'
    BY <1>1, RecordStep DEF Attempts
  <1>3. SilenceIsBrief'
    <2> SUFFICES ASSUME policy.hasCmd, policy.repeatAfter <= SecondsSince(Never, clock),
                        entry'.problem, entry'.consecutive >= policy.failAfter
                 PROVE  lastSentAt' # Never /\ entry'.lastRun - lastSentAt' < policy.repeatAfter
      BY <1>1, Ages DEF SilenceIsBrief, Record
    <2>1. entry' = NewEntry(policy, entry, res, clock, FALSE) /\ lastSentAt' = lastSentAt
      BY <1>1 DEF Record
    <2>2. IsProblem(policy, entry, res) /\ Consecutive(policy, entry, res) >= policy.failAfter
      BY <2>1 DEF NewEntry
    <2>3. ~(SecondsSince(entry.lastNotif, clock) >= policy.repeatAfter)
      BY <1>1, <2>2, QuietMeansRecent DEF Due
    <2>4. entry'.lastRun = clock
      BY <2>1 DEF NewEntry
    <2>5. /\ policy.repeatAfter \in Int /\ clock \in Nat
          /\ entry.lastNotif \in Nat \cup {Never} /\ lastSentAt \in Nat \cup {Never}
          /\ entry.lastNotif <= lastSentAt
      BY DEF AInv, TypeOK, PolicyType, EntryType, SentIsInThePast
    <2>6. entry.lastNotif # Never
      BY <2>3, <2>5, Ages
    <2>7. clock - entry.lastNotif < policy.repeatAfter
      BY <2>3, <2>5, <2>6, Ages
    <2>8. clock \in Int /\ entry.lastNotif \in Nat
      BY <2>5, <2>6
    <2>9. lastSentAt # Never /\ clock - lastSentAt < policy.repeatAfter
      BY <2>5, <2>7, <2>8, LaterIsShorter
    <2> QED
      BY <2>1, <2>4, <2>9
  <1> QED
    BY <1>2, <1>3 DEF AInv

(* A recorded run whose message left, failed or was suppressed.            *)
LEMMA MessageStep == AInv /\ (RunNotified \/ RunNotifyFailed \/ RunSuppressed) => AInv'
  <1> SUFFICES ASSUME AInv, RunNotified \/ RunNotifyFailed \/ RunSuppressed PROVE AInv'
    OBVIOUS
  <1>0. PICK res \in Results : \E kind \in Due(res) \cup {"none"} :
          \E result \in Attempts \ {"none"} : Record(res, kind, result)
    BY DEF RunNotified, RunNotifyFailed, RunSuppressed, Attempts
  <1>1. PICK kind \in Due(res) \cup {"none"}, result \in Attempts \ {"none"} :
          Record(res, kind, result)
    BY <1>0
  <1>2. SilenceIsBrief'
    BY <1>1 DEF SilenceIsBrief, Record
  <1> QED
    BY <1>1, <1>2, RecordStep DEF AInv

LEMMA LostStep == AInv /\ RunLost => AInv'
  <1> SUFFICES ASSUME AInv, RunLost PROVE AInv'
    OBVIOUS
  <1> USE DEF AInv, TypeOK
  <1>0. PICK res \in Results : \E kind \in Due(res) \cup {"none"} :
          /\ streak' = IF IsProblem(policy, entry, res) THEN streak + 1 ELSE streak
          /\ told' = IF kind = "none" THEN told ELSE NotTold
          /\ announced' = (announced \/ kind = "problem")
          /\ lastSentAt' = IF kind = "none" THEN lastSentAt ELSE clock
          /\ sentNow' = Message(res, kind)
          /\ UNCHANGED <<policy, clock, entry, greeted, attempt>>
    BY DEF RunLost
  <1>1. PICK kind \in Due(res) \cup {"none"} :
          /\ streak' = IF IsProblem(policy, entry, res) THEN streak + 1 ELSE streak
          /\ told' = IF kind = "none" THEN told ELSE NotTold
          /\ announced' = (announced \/ kind = "problem")
          /\ lastSentAt' = IF kind = "none" THEN lastSentAt ELSE clock
          /\ sentNow' = Message(res, kind)
          /\ UNCHANGED <<policy, clock, entry, greeted, attempt>>
    BY <1>0
  <1>2. Message(res, kind) \in [kind : MessageKinds \cup {"none"},
                               status : Statuses \cup {"none"}, code : Codes \cup {NoCode}]
    BY DueIsKind, MessageType
  <1>3. TypeOK'
    <2>1. told' \in [status : Statuses \cup {"none"}, code : Codes \cup {NoCode},
                     at : Nat \cup {Never}]
      BY <1>1 DEF NotTold
    <2>2. streak' \in Nat /\ announced' \in BOOLEAN /\ lastSentAt' \in Nat \cup {Never}
      BY <1>1
    <2> QED
      BY <1>1, <1>2, <2>1, <2>2
  <1>4. CountIsHonest' /\ ToldIsOnRecord' /\ GreetedIsOnRecord'
    BY <1>1 DEF CountIsHonest, ToldIsOnRecord, GreetedIsOnRecord, EntryType
  <1>5. SentIsInThePast'
    BY <1>1 DEF SentIsInThePast, EntryType, Never
  <1>6. SilenceIsBrief'
    <2>1. lastSentAt' = lastSentAt \/ lastSentAt' = clock
      BY <1>1
    <2>2. announced => announced'
      BY <1>1
    <2>3. /\ clock \in Nat /\ lastSentAt \in Nat \cup {-1} /\ lastSentAt <= clock
          /\ entry.lastRun \in Nat \cup {-1} /\ policy.repeatAfter \in Int
      BY DEF SentIsInThePast, EntryType, PolicyType, Never
    <2> QED
      BY <1>1, <2>1, <2>2, <2>3, Ages DEF SilenceIsBrief, Never
  <1> QED
    BY <1>3, <1>4, <1>5, <1>6

LEMMA TickStep == AInv /\ Tick => AInv'
  <1> SUFFICES ASSUME AInv, Tick PROVE AInv'
    OBVIOUS
  <1> USE DEF AInv, TypeOK
  <1>1. TypeOK'
    BY DEF Tick, NoMessage
  <1>2. CountIsHonest' /\ ToldIsOnRecord' /\ GreetedIsOnRecord'
    BY DEF Tick, CountIsHonest, ToldIsOnRecord, GreetedIsOnRecord
  <1>3. SentIsInThePast'
    BY DEF Tick, SentIsInThePast, EntryType, Never
  <1>4. SilenceIsBrief'
    BY <1>1, Ages DEF Tick, SilenceIsBrief
  <1> QED
    BY <1>1, <1>2, <1>3, <1>4

LEMMA StepAInv == AInv /\ [Next]_vars => AInv'
  <1>1. AInv /\ UNCHANGED vars => AInv'
    BY DEF vars, history, AInv, TypeOK, CountIsHonest, ToldIsOnRecord, GreetedIsOnRecord,
       SentIsInThePast, SilenceIsBrief
  <1> QED
    BY <1>1, QuietlyStep, MessageStep, LostStep, TickStep DEF Next

(* The entry and what the operator was told fit together in every          *)
(* reachable state.                                                        *)
THEOREM AlertingInvariant == Spec => []AInv
  BY InitAInv, StepAInv, PTL DEF Spec

(* The variables of the section's life keep their types. *)
THEOREM TypeCorrect == Spec => []TypeOK
  BY AlertingInvariant, PTL DEF AInv

(* should_notify in process_result: a problem past its threshold stays     *)
(* unreported only for the command's failures or suppressions, or within   *)
(* the repeat interval of another message.                                 *)
THEOREM SilenceStaysBrief == Spec => []SilenceIsBrief
  BY AlertingInvariant, PTL DEF AInv

-----------------------------------------------------------------------------
(* Every step sends at most the message that is due, of the result it had, *)
(* or does not set the message at all. *)
LEMMA SendingSteps ==
  ASSUME AInv, Next, sentNow'.kind # "none"
  PROVE  \E res \in Results :
           /\ sentNow'.kind \in Due(res)
           /\ sentNow'.status = res.status /\ sentNow'.code = res.code
           /\ IsProblem(policy, entry, res) => streak' = streak + 1
  <1>1. CASE \E res \in Results : \E kind \in Due(res) \cup {"none"} :
               \E result \in Attempts : Record(res, kind, result)
    BY <1>1 DEF Record, Message, NoMessage, Streak
  <1>2. CASE RunLost
    BY <1>2 DEF RunLost, Message, NoMessage
  <1>3. CASE Tick
    BY <1>3 DEF Tick, NoMessage
  <1> QED
    BY <1>1, <1>2, <1>3
    DEF Next, RunQuietly, RunNotified, RunNotifyFailed, RunSuppressed, Attempts

LEMMA ThresholdStep ==
  AInv /\ [Next]_vars => [sentNow'.kind = "problem" => streak' >= policy.failAfter]_vars
  <1> SUFFICES ASSUME AInv, Next, sentNow'.kind = "problem"
               PROVE  streak' >= policy.failAfter
    OBVIOUS
  <1>1. PICK res \in Results :
          /\ "problem" \in Due(res)
          /\ IsProblem(policy, entry, res) => streak' = streak + 1
    BY SendingSteps
  <1>2. AlertDue(policy, entry, res, clock)
    BY <1>1, DueKinds DEF Due
  <1>3. streak' = streak + 1 /\ entry.consecutive + 1 >= policy.failAfter
    BY <1>1, <1>2 DEF AlertDue, Consecutive
  <1> QED
    BY <1>3 DEF AInv, TypeOK, CountIsHonest, EntryType, PolicyType

(* fail_after: a problem message leaves only after that many problem       *)
(* results, whatever was lost, suppressed or undelivered in between.       *)
THEOREM ThresholdIsKept == Spec => AlertNeedsFailAfter
  BY AlertingInvariant, ThresholdStep, PTL DEF Spec, AlertNeedsFailAfter

LEMMA RepeatStep ==
  AInv /\ [Next]_vars =>
    [(/\ sentNow'.kind = "problem"
      /\ told.status = sentNow'.status /\ told.code = sentNow'.code)
     => clock - told.at >= policy.repeatAfter]_vars
  <1> SUFFICES ASSUME AInv, Next, sentNow'.kind = "problem",
                      told.status = sentNow'.status, told.code = sentNow'.code
               PROVE  clock - told.at >= policy.repeatAfter
    OBVIOUS
  <1>1. PICK res \in Results :
          /\ "problem" \in Due(res)
          /\ sentNow'.status = res.status /\ sentNow'.code = res.code
    BY SendingSteps
  <1>2. AlertDue(policy, entry, res, clock)
    BY <1>1, DueKinds DEF Due
  <1>3. told # NotTold
    BY <1>1, ResultsAreTyped DEF NotTold, Statuses
  <1>4. /\ policy \in PolicyType /\ entry \in EntryType /\ res \in ResultType /\ clock \in Nat
        /\ entry.problem /\ entry.consecutive >= policy.failAfter
        /\ entry.lastNotif \in Nat /\ told.at = entry.lastNotif
        /\ entry.status = res.status /\ entry.code = res.code
    BY <1>1, <1>3, ResultsAreTyped DEF AInv, TypeOK, ToldIsOnRecord
  <1> QED
    BY <1>2, <1>4, RepeatWaits

(* notify_repeat_after_minutes: an unchanged problem that was reported and *)
(* recorded is not reported again within the interval.                     *)
THEOREM RepeatIntervalIsKept == Spec => NoRepeatWithinInterval
  BY AlertingInvariant, RepeatStep, PTL DEF Spec, NoRepeatWithinInterval

LEMMA GreetingStep ==
  AInv /\ [Next]_vars => [sentNow'.kind = "first_success" => ~greeted]_vars
  <1> SUFFICES ASSUME AInv, Next, sentNow'.kind = "first_success" PROVE ~greeted
    OBVIOUS
  <1>1. PICK res \in Results : "first_success" \in Due(res)
    BY SendingSteps
  <1>2. FirstSuccessDue(policy, entry, res)
    BY <1>1, DueKinds DEF Due
  <1> QED
    BY <1>2 DEF FirstSuccessDue, AInv, GreetedIsOnRecord

(* last_success_notification_at: once an OK message is on record, no first-*)
(* success message follows.                                                *)
THEOREM GreetedOnce == Spec => FirstSuccessOnce
  BY AlertingInvariant, GreetingStep, PTL DEF Spec, FirstSuccessOnce

LEMMA EndStep ==
  AInv /\ [Next]_vars =>
    [(/\ announced /\ entry.problem /\ ~entry'.problem
      /\ policy.hasCmd /\ policy.onRecovery)
     => attempt' \in {"sent", "failed", "suppressed"}]_vars
  <1> SUFFICES ASSUME Next, entry.problem, ~entry'.problem, policy.hasCmd, policy.onRecovery
               PROVE  attempt' \in {"sent", "failed", "suppressed"}
    OBVIOUS
  <1>1. CASE RunQuietly
    <2>1. PICK res \in Results : Due(res) = {} /\ Record(res, "none", "none")
      BY <1>1 DEF RunQuietly
    <2>2. ~IsProblem(policy, entry, res)
      BY <2>1 DEF Record, NewEntry
    <2>3. "recovery" \in Due(res)
      BY <2>2, DueKinds DEF RecoveryDue, Due
    <2> QED
      BY <2>1, <2>3
  <1>2. CASE RunNotified \/ RunNotifyFailed \/ RunSuppressed
    BY <1>2 DEF RunNotified, RunNotifyFailed, RunSuppressed, Record
  <1>3. CASE RunLost \/ Tick
    BY <1>3 DEF RunLost, Tick
  <1> QED
    BY <1>1, <1>2, <1>3 DEF Next

(* notify_on_recovery: the run that records the end of a problem makes a   *)
(* recovery message of it, whatever results came in between.               *)
THEOREM RecoveryIsTold == Spec => EndIsTold
  BY AlertingInvariant, EndStep, PTL DEF Spec, EndIsTold

=============================================================================
