----------------------- MODULE NotificationPolicy_proofs -----------------------
(* Facts about the decisions of process_result, for every option set, entry*)
(* and result: the types, and which message rules out which.               *)
EXTENDS NotificationPolicy, Schedule_proofs

LEMMA FreshType == Fresh \in EntryType
  BY DEF Fresh, EntryType, Never, Statuses

(* The entry process_result stores is an entry. *)
LEMMA NewEntryType ==
  ASSUME NEW policy \in PolicyType, NEW prev \in EntryType, NEW res \in ResultType,
         NEW now \in Nat, NEW sent
  PROVE  /\ NewEntry(policy, prev, res, now, sent) \in EntryType
         /\ NewEntry(policy, prev, res, now, sent).lastRun = now
  <1>1. Consecutive(policy, prev, res) \in Nat
    BY DEF Consecutive, EntryType
  <1>2. IsProblem(policy, prev, res) \in BOOLEAN
    BY DEF IsProblem, IsFailing, EntryType, PolicyType
  <1>3. /\ (IF sent THEN now ELSE prev.lastNotif) \in Nat \cup {Never}
        /\ (IF res.status = "OK" /\ sent THEN now ELSE prev.lastSuccess) \in Nat \cup {Never}
    BY DEF EntryType
  <1> QED
    BY <1>1, <1>2, <1>3 DEF NewEntry, EntryType, ResultType

(* The branches of process_result: each kind of message has its condition. *)
LEMMA DueKinds ==
  ASSUME NEW policy, NEW prev, NEW res, NEW now
  PROVE  /\ DueMessages(policy, prev, res, now) \subseteq MessageKinds
         /\ "problem" \in DueMessages(policy, prev, res, now) <=> AlertDue(policy, prev, res, now)
         /\ "recovery" \in DueMessages(policy, prev, res, now) <=> RecoveryDue(policy, prev, res)
         /\ "first_success" \in DueMessages(policy, prev, res, now)
              <=> FirstSuccessDue(policy, prev, res)
  BY DEF DueMessages, MessageKinds

(* A result calls for at most one message. *)
THEOREM OneMessage ==
  ASSUME NEW policy, NEW prev, NEW res, NEW now,
         NEW k1 \in DueMessages(policy, prev, res, now),
         NEW k2 \in DueMessages(policy, prev, res, now)
  PROVE  k1 = k2
  BY DEF DueMessages, MessageKinds, AlertDue, RecoveryDue, FirstSuccessDue

(* A stamp's age, and the one age of all missing stamps. *)
LEMMA Ages ==
  ASSUME NEW previous \in Nat, NEW now \in Nat
  PROVE  /\ SecondsSince(previous, now) = now - previous
         /\ \A t : SecondsSince(Never, t) = SecondsSince(Never, now)
  BY DEF SecondsSince, Never

(* A problem as it was last recorded, past its threshold and on record as  *)
(* reported, is reported again only when the repeat interval is over.      *)
LEMMA RepeatWaits ==
  ASSUME NEW policy \in PolicyType, NEW prev \in EntryType, NEW res \in ResultType,
         NEW now \in Nat,
         prev.problem, prev.consecutive >= policy.failAfter, prev.lastNotif \in Nat,
         prev.status = res.status, prev.code = res.code,
         AlertDue(policy, prev, res, now)
  PROVE  now - prev.lastNotif >= policy.repeatAfter
  <1>1. IsProblem(policy, prev, res)
    BY DEF AlertDue
  <1>2. Consecutive(policy, prev, res) = prev.consecutive + 1
    BY <1>1 DEF Consecutive
  <1>3. ~ProblemChanged(prev, res)
    BY DEF ProblemChanged
  <1>4. SecondsSince(prev.lastNotif, now) = now - prev.lastNotif
    BY Ages
  <1>5. Consecutive(policy, prev, res) # policy.failAfter
    BY <1>2 DEF EntryType, PolicyType
  <1>6. SecondsSince(prev.lastNotif, now) >= policy.repeatAfter
    BY <1>3, <1>5 DEF AlertDue
  <1> QED
    BY <1>4, <1>6

(* A problem past its threshold that calls for no message had a message,   *)
(* of whatever kind, within the repeat interval.                           *)
LEMMA QuietMeansRecent ==
  ASSUME NEW policy, NEW prev, NEW res, NEW now,
         IsProblem(policy, prev, res),
         Consecutive(policy, prev, res) >= policy.failAfter,
         DueMessages(policy, prev, res, now) = {}
  PROVE  ~(SecondsSince(prev.lastNotif, now) >= policy.repeatAfter)
  BY DueKinds DEF AlertDue

=============================================================================
