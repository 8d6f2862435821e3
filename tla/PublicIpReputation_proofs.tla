---------------------- MODULE PublicIpReputation_proofs ----------------------
(***************************************************************************)
(* Proofs about PublicIpReputation, for any addresses, providers, answers, *)
(* periods and retries: what is on record is the last recorded lookup, a   *)
(* verdict given without asking is the last one known of the address, a    *)
(* provider's limit is kept, and an unchanged address is not looked up     *)
(* again within the cache's period.                                        *)
(***************************************************************************)
EXTENDS PublicIpReputation, TLAPS

(* A check_state that goes back to the last recorded lookup, for the       *)
(* address it is about, and remembers every limit that still holds.        *)
GoesBackTo(st) ==
  /\ st.rep = lookup
  /\ st.ip = st.rep.ip
  /\ \A p \in Providers : limit[p] <= st.disabled[p] \/ limit[p] <= clock

StatesAreCurrent == GoesBackTo(saved) /\ (attempt > 0 => GoesBackTo(mem))

(* The verdict on record is the last one known, unless the last lookup     *)
(* found none.                                                             *)
KnownIsOnRecord == lookup.verdict # "unknown" => known = lookup

RepInv == TypeOK /\ StatesAreCurrent /\ KnownIsOnRecord /\ VerdictIsKnown

-----------------------------------------------------------------------------
(* _classify finds one of the verdicts, or none. *)
LEMMA ClassifyType ==
  ASSUME NEW replies, \A p \in Providers : replies[p].verdict \in Verdicts \cup {"error"}
  PROVE  Classify(replies) \in Verdicts \cup {"unknown"}
  <1> DEFINE given  == {replies[p].verdict : p \in Providers}
             others == {replies[p].verdict : p \in Providers \ {"tor"}}
             raised == {i \in DOMAIN Flagged : Flagged[i] \in given}
             first  == CHOOSE i \in raised : \A j \in raised : i <= j
  <1>1. raised # {} => Flagged[first] \in Verdicts
    <2>1. raised \subseteq 1 .. 4
      BY DEF Flagged
    <2>2. raised # {} => \E i \in raised : \A j \in raised : i <= j
      BY <2>1
    <2>3. raised # {} => first \in raised
      BY <2>2
    <2>4. \A i \in 1 .. 4 : Flagged[i] \in Verdicts
      BY DEF Flagged, Verdicts
    <2> QED
      BY <2>1, <2>3, <2>4
  <1> QED
    BY <1>1 DEF Classify, Verdicts

LEMMA NoStateType == NoState \in StateType
  BY DEF NoState, StateType, RepType, NoRep, Never

(* What a refresh makes of the answers: every reply is a verdict or an     *)
(* error, and it carries a limit only if the provider was asked.           *)
LEMMA RepliesType ==
  ASSUME TypeOK, NEW ip \in IPs, NEW heard \in HeardByAsked, NEW list \in ListsAfter(heard)
  PROVE  /\ list \subseteq IPs
         /\ \A p \in Providers :
              /\ Replies(ip, heard, list)[p].verdict \in Verdicts \cup {"error"}
              /\ Replies(ip, heard, list)[p].until \in Nat
              /\ Replies(ip, heard, list)[p].until > 0 =>
                   /\ p \in Asked
                   /\ Replies(ip, heard, list)[p].until = heard[p].until
                   /\ heard[p].until >= clock
              /\ (p \in Asked /\ heard[p].until > clock) =>
                   Replies(ip, heard, list)[p].until = heard[p].until
  <1>1. list \subseteq IPs
    BY ReputationConstants DEF ListsAfter, TypeOK, StateType
  <1>2. clock \in Nat
    BY DEF TypeOK
  <1>3. \A d \in ResetTimes : clock + d \in Nat /\ clock + d >= clock
    BY <1>2, ReputationConstants
  <1>4. \A h \in Heard : /\ h.verdict \in Verdicts \cup {"error"} /\ h.until \in Nat
                         /\ h.until > 0 => h.until >= clock
    BY <1>2, <1>3, ReputationConstants DEF Heard
  <1>5. \A p \in Asked : /\ heard[p] \in Heard \cup {GotList}
                         /\ heard[p] # GotList => heard[p] \in Heard
                         /\ heard[p] = GotList => heard[p].until = 0
    BY DEF HeardByAsked, GotList
  <1>6. ASSUME NEW p \in Providers, p \in Asked /\ heard[p] # GotList
        PROVE  Replies(ip, heard, list)[p] = heard[p]
    BY <1>6 DEF Replies
  <1>7. ASSUME NEW p \in Providers, ~(p \in Asked /\ heard[p] # GotList)
        PROVE  /\ Replies(ip, heard, list)[p].until = 0
               /\ Replies(ip, heard, list)[p].verdict \in {"error", "tor", "clean"}
    BY <1>7 DEF Replies
  <1> QED
    BY <1>1, <1>2, <1>4, <1>5, <1>6, <1>7 DEF Verdicts

(* The check_state a refresh leaves: it is about the address asked about,  *)
(* and it keeps a limit of mem's or has one that ends now or later.        *)
LEMMA RefreshedType ==
  ASSUME TypeOK, NEW ip \in IPs, NEW heard \in HeardByAsked, NEW list \in ListsAfter(heard)
  PROVE  LET new == Refreshed(ip, heard, list) IN
         /\ new \in StateType
         /\ new.ip = ip /\ new.rep.ip = ip /\ new.rep.at = clock
         /\ new.rep.verdict \in Verdicts \cup {"unknown"} /\ new.rep # NoRep
         /\ \A p \in Providers :
              /\ \/ new.disabled[p] = mem.disabled[p]
                 \/ p \in Asked /\ new.disabled[p] >= clock
              /\ (p \in Asked /\ heard[p].until > clock) => new.disabled[p] = heard[p].until
  <1> DEFINE replies == Replies(ip, heard, list)
             verdict == Classify(replies)
             disabled == NewLimits(replies)
  <1>1. clock \in Nat /\ mem \in StateType /\ ip # NoIP
    BY ReputationConstants DEF TypeOK
  <1>2. verdict \in Verdicts \cup {"unknown"}
    BY RepliesType, ClassifyType
  <1>3. /\ disabled \in [Providers -> Nat]
        /\ \A p \in Providers :
             disabled[p] = IF replies[p].until > 0 THEN replies[p].until ELSE mem.disabled[p]
    BY <1>1, RepliesType DEF NewLimits, StateType
  <1>4. NewList(heard, list) \in [listed : SUBSET IPs, at : Nat \cup {Never}]
    BY <1>1, RepliesType DEF NewList, StateType
  <1>5. \A p \in Providers :
          /\ \/ disabled[p] = mem.disabled[p]
             \/ p \in Asked /\ disabled[p] >= clock
          /\ (p \in Asked /\ heard[p].until > clock) => disabled[p] = heard[p].until
    BY <1>1, <1>3, RepliesType
  <1> HIDE DEF replies, verdict, disabled
  <1>6. Refreshed(ip, heard, list) =
          [ip |-> ip, rep |-> [ip |-> ip, at |-> clock, verdict |-> verdict],
           tor |-> NewList(heard, list), disabled |-> disabled]
    BY DEF Refreshed, replies, verdict, disabled
  <1>7. [ip |-> ip, at |-> clock, verdict |-> verdict] \in RepType
    BY <1>1, <1>2 DEF RepType
  <1>8. [ip |-> ip, at |-> clock, verdict |-> verdict] # NoRep
    BY <1>1 DEF NoRep
  <1> QED
    BY <1>1, <1>2, <1>3, <1>4, <1>5, <1>6, <1>7, <1>8 DEF StateType

(* Another attempt: the check_state keeps its verdict, and its limits or   *)
(* those of this attempt.                                                  *)
LEMMA TryAgainStep ==
  ASSUME TypeOK, attempt > 0, NEW status, NEW limits \in [Providers -> Nat],
         TryAgain(status, limits)
  PROVE  /\ attempt' \in 0 .. Retries + 1 /\ mem' \in StateType
         /\ mem'.rep = mem.rep /\ mem'.ip = mem.ip
         /\ mem'.disabled = mem.disabled \/ mem'.disabled = limits
         /\ clock' = clock /\ saved' = saved
         /\ limit' = limit /\ lookup' = lookup /\ known' = known
  <1>1. attempt \in 0 .. Retries + 1 /\ Retries \in Nat /\ mem \in StateType
    BY ReputationConstants DEF TypeOK
  <1>2. [mem EXCEPT !.disabled = limits] \in StateType
    BY <1>1 DEF StateType
  <1>3. /\ [mem EXCEPT !.disabled = limits].rep = mem.rep
        /\ [mem EXCEPT !.disabled = limits].ip = mem.ip
        /\ [mem EXCEPT !.disabled = limits].disabled = limits
    BY <1>1 DEF StateType
  <1> QED
    BY <1>1, <1>2, <1>3 DEF TryAgain

(* The limits a refresh leaves are as good as those it found. *)
LEMMA LimitsStay ==
  ASSUME TypeOK, GoesBackTo(mem), NEW ip \in IPs,
         NEW heard \in HeardByAsked, NEW list \in ListsAfter(heard)
  PROVE  \A p \in Providers :
           LET d == Refreshed(ip, heard, list).disabled[p]
           IN limit[p] <= d \/ limit[p] <= clock
  <1> SUFFICES ASSUME NEW p \in Providers
               PROVE  \/ limit[p] <= Refreshed(ip, heard, list).disabled[p]
                      \/ limit[p] <= clock
    OBVIOUS
  <1>1. \/ Refreshed(ip, heard, list).disabled[p] = mem.disabled[p]
        \/ p \in Asked
    BY RefreshedType
  <1>2. p \in Asked => mem.disabled[p] <= clock
    BY DEF Asked, IsDisabled, TypeOK, StateType
  <1>3. limit[p] \in Nat /\ mem.disabled[p] \in Nat /\ clock \in Nat
    BY DEF TypeOK, StateType
  <1> QED
    BY <1>1, <1>2, <1>3 DEF GoesBackTo

(* An attempt that asks the providers. *)
LEMMA RefreshStep ==
  ASSUME RepInv, NEW ip \in IPs, NEW heard \in HeardByAsked, NEW list \in ListsAfter(heard),
         NEW verdict, NEW how \in {"fresh", "stale"},
         how = "fresh" => verdict = Refreshed(ip, heard, list).rep.verdict,
         how = "stale" => /\ CanUseStale(ip)
                          /\ Refreshed(ip, heard, list).rep.verdict = "unknown"
                          /\ verdict = mem.rep.verdict,
         Refresh(Refreshed(ip, heard, list), heard, verdict, how)
  PROVE  RepInv'
  <1> DEFINE new == Refreshed(ip, heard, list)
  <1>0. /\ TypeOK /\ GoesBackTo(saved) /\ GoesBackTo(mem) /\ KnownIsOnRecord /\ attempt > 0
        /\ ip # NoIP /\ clock \in Nat
    BY ReputationConstants DEF RepInv, StatesAreCurrent, Refresh, Reports, TypeOK
  <1>1. /\ new \in StateType /\ new.disabled \in [Providers -> Nat] /\ new.rep \in RepType
        /\ new.ip = ip /\ new.rep.ip = ip /\ new.rep.at = clock
        /\ new.rep.verdict \in Verdicts \cup {"unknown"} /\ new.rep # NoRep
        /\ \A p \in Providers :
             /\ limit[p] <= new.disabled[p] \/ limit[p] <= clock
             /\ (p \in Asked /\ heard[p].until > clock) => new.disabled[p] = heard[p].until
    BY <1>0, RefreshedType, LimitsStay DEF StateType
  <1> HIDE DEF new
  <1>2. how = "stale" =>
          /\ mem.rep.ip = ip /\ clock - mem.rep.at <= MaxStale
          /\ verdict \in Verdicts \cup {"unknown"}
          /\ verdict # "unknown" => known = mem.rep
    <2>1. how = "stale" => mem.rep.ip = ip /\ clock - mem.rep.at <= MaxStale
                           /\ verdict = mem.rep.verdict
      BY DEF CanUseStale, Age
    <2>2. mem.rep \in RepType /\ mem.rep = lookup
      BY <1>0 DEF GoesBackTo, TypeOK, StateType
    <2>3. mem.rep.ip = ip => mem.rep.verdict \in Verdicts \cup {"unknown"}
      BY <1>0, <2>2 DEF RepType, NoRep
    <2> QED
      BY <1>0, <2>1, <2>2, <2>3 DEF KnownIsOnRecord
  <1>3. report' = [ip |-> ip, verdict |-> verdict, how |-> how] /\ clock' = clock
    BY <1>1 DEF Refresh, Reports, TryAgain, Record, new
  <1>4. report' \in [ip : IPs \cup {NoIP}, verdict : Verdicts \cup {"unknown", "none"},
                     how : {"none", "cached", "fresh", "stale"}]
    BY <1>1, <1>2, <1>3 DEF new
  <1>5. CASE TryAgain(Status(verdict), new.disabled)
    <2>1. /\ attempt' \in 0 .. Retries + 1 /\ mem' \in StateType
          /\ mem'.rep = mem.rep /\ mem'.ip = mem.ip
          /\ mem'.disabled = mem.disabled \/ mem'.disabled = new.disabled
          /\ clock' = clock /\ saved' = saved
          /\ limit' = limit /\ lookup' = lookup /\ known' = known
      BY <1>0, <1>1, <1>5, TryAgainStep
    <2>2. TypeOK'
      BY <1>0, <1>4, <2>1 DEF TypeOK
    <2>3. GoesBackTo(saved)' /\ GoesBackTo(mem)'
      BY <1>0, <1>1, <2>1 DEF GoesBackTo
    <2>4. KnownIsOnRecord'
      BY <1>0, <2>1 DEF KnownIsOnRecord
    <2>5. VerdictIsKnown'
      BY <1>2, <1>3, <2>1 DEF VerdictIsKnown
    <2> QED
      BY <2>2, <2>3, <2>4, <2>5 DEF RepInv, StatesAreCurrent
  <1>6. CASE /\ Record(Status(verdict), new)
             /\ limit' = [p \in Providers |->
                            IF p \in Asked /\ heard[p].until > clock
                            THEN heard[p].until ELSE limit[p]]
             /\ lookup' = new.rep
             /\ known' = IF new.rep.verdict # "unknown" THEN new.rep
                         ELSE IF known.ip = new.rep.ip THEN known ELSE NoRep
    <2>1. attempt' = 0 /\ saved' = new /\ mem' = NoState /\ clock' = clock
      BY <1>6 DEF Record
    <2>2. TypeOK'
      <3>1. limit' \in [Providers -> Nat]
        <4>1. \A p \in Providers : new.disabled[p] \in Nat /\ limit[p] \in Nat
          BY <1>0, <1>1 DEF TypeOK
        <4> QED
          BY <1>1, <1>6, <4>1
      <3>2. lookup' \in RepType /\ known' \in RepType
        BY <1>0, <1>1, <1>6 DEF TypeOK, RepType
      <3>3. 0 \in 0 .. Retries + 1
        BY ReputationConstants
      <3> QED
        BY <1>0, <1>1, <1>4, <2>1, <3>1, <3>2, <3>3, NoStateType DEF TypeOK
    <2>3. GoesBackTo(saved)'
      <3>1. \A p \in Providers : limit'[p] <= new.disabled[p] \/ limit'[p] <= clock
        <4>1. \A p \in Providers : new.disabled[p] \in Nat
          BY <1>1
        <4> QED
          BY <1>1, <1>6, <4>1
      <3> QED
        BY <1>1, <1>6, <2>1, <3>1 DEF GoesBackTo
    <2>4. KnownIsOnRecord'
      BY <1>6 DEF KnownIsOnRecord
    <2>5. VerdictIsKnown'
      <3>1. how = "stale" => new.rep.verdict = "unknown"
        BY DEF new
      <3> QED
        BY <1>1, <1>2, <1>3, <1>6, <3>1 DEF VerdictIsKnown
    <2> QED
      BY <2>1, <2>2, <2>3, <2>4, <2>5 DEF RepInv, StatesAreCurrent
  <1> QED
    BY <1>5, <1>6 DEF Refresh, new

(* An attempt that leaves the check_state alone. *)
LEMMA NoRefreshStep ==
  ASSUME RepInv, attempt > 0, NEW status,
         TryAgain(status, mem.disabled) \/ RecordAsIs(status)
  PROVE  /\ clock' = clock /\ known' = known
         /\ saved' \in StateType /\ mem' \in StateType /\ attempt' \in 0 .. Retries + 1
         /\ limit' \in [Providers -> Nat] /\ lookup' \in RepType
         /\ StatesAreCurrent' /\ KnownIsOnRecord'
  <1>0. /\ TypeOK /\ GoesBackTo(saved) /\ GoesBackTo(mem) /\ KnownIsOnRecord
        /\ mem.disabled \in [Providers -> Nat] /\ 0 \in 0 .. Retries + 1
    BY ReputationConstants DEF RepInv, StatesAreCurrent, TypeOK, StateType
  <1>1. CASE TryAgain(status, mem.disabled)
    <2>1. /\ attempt' \in 0 .. Retries + 1 /\ mem' \in StateType
          /\ mem'.rep = mem.rep /\ mem'.ip = mem.ip /\ mem'.disabled = mem.disabled
          /\ clock' = clock /\ saved' = saved
          /\ limit' = limit /\ lookup' = lookup /\ known' = known
      BY <1>0, <1>1, TryAgainStep
    <2> QED
      BY <1>0, <2>1 DEF TypeOK, StatesAreCurrent, GoesBackTo, KnownIsOnRecord
  <1>2. CASE RecordAsIs(status)
    <2>1. /\ attempt' = 0 /\ saved' = mem /\ mem' = NoState /\ clock' = clock
          /\ limit' = limit /\ lookup' = lookup /\ known' = known
      BY <1>2 DEF RecordAsIs, Record
    <2> QED
      BY <1>0, <2>1, NoStateType DEF TypeOK, StatesAreCurrent, GoesBackTo, KnownIsOnRecord
  <1> QED
    BY <1>1, <1>2

-----------------------------------------------------------------------------
THEOREM InitRepInv == Init => RepInv
  <1> SUFFICES ASSUME Init PROVE RepInv
    OBVIOUS
  <1>1. TypeOK
    BY NoStateType, ReputationConstants DEF Init, TypeOK, NoReport, NoRep, RepType
  <1>2. StatesAreCurrent /\ KnownIsOnRecord /\ VerdictIsKnown
    BY DEF Init, StatesAreCurrent, GoesBackTo, NoState, NoRep, KnownIsOnRecord,
           VerdictIsKnown, NoReport
  <1> QED
    BY <1>1, <1>2 DEF RepInv

THEOREM StepRepInv == RepInv /\ [Next]_vars => RepInv'
  <1> SUFFICES ASSUME RepInv, [Next]_vars PROVE RepInv'
    OBVIOUS
  <1>0. TypeOK /\ GoesBackTo(saved) /\ KnownIsOnRecord /\ NoRep \in RepType
    BY DEF RepInv, StatesAreCurrent, RepType
  <1>1. NoReport \in [ip : IPs \cup {NoIP}, verdict : Verdicts \cup {"unknown", "none"},
                      how : {"none", "cached", "fresh", "stale"}]
        /\ NoReport.how = "none"
    BY DEF NoReport
  <1>2. CASE Begin
    <2>1. /\ attempt' = 1 /\ mem' = saved /\ report' = NoReport
          /\ UNCHANGED <<clock, saved, limit, lookup, known>> /\ 1 \in 0 .. Retries + 1
      BY <1>2, ReputationConstants DEF Begin
    <2> QED
      BY <1>0, <1>1, <2>1 DEF RepInv, TypeOK, StatesAreCurrent, GoesBackTo, KnownIsOnRecord,
                              VerdictIsKnown
  <1>3. CASE ServeCached
    <2>1. PICK ip \in IPs :
            /\ CacheServes(ip)
            /\ Reports(ip, mem.rep.verdict, "cached")
            /\ \/ TryAgain(Status(mem.rep.verdict), mem.disabled)
               \/ RecordAsIs(Status(mem.rep.verdict))
      BY <1>3 DEF ServeCached
    <2>2. attempt > 0 /\ report' = [ip |-> ip, verdict |-> mem.rep.verdict, how |-> "cached"]
      BY <2>1 DEF Reports
    <2>3. /\ clock' = clock /\ known' = known
          /\ saved' \in StateType /\ mem' \in StateType /\ attempt' \in 0 .. Retries + 1
          /\ limit' \in [Providers -> Nat] /\ lookup' \in RepType
          /\ StatesAreCurrent' /\ KnownIsOnRecord'
      BY <2>1, <2>2, NoRefreshStep
    <2>4. mem.rep.ip = ip /\ clock - mem.rep.at < ReputationTtl /\ ip # NoIP
      BY <2>1, ReputationConstants DEF CacheServes, Age
    <2>5. mem.rep \in RepType /\ mem.rep = lookup
      BY <2>2, <1>0 DEF RepInv, StatesAreCurrent, GoesBackTo, TypeOK, StateType
    <2>6. mem.rep.verdict \in Verdicts \cup {"unknown"}
      BY <2>4, <2>5 DEF RepType, NoRep
    <2>7. VerdictIsKnown'
      BY <1>0, <2>2, <2>3, <2>4, <2>5 DEF VerdictIsKnown, KnownIsOnRecord
    <2> QED
      BY <1>0, <2>2, <2>3, <2>6, <2>7 DEF RepInv, TypeOK
  <1>4. CASE AskProviders
    <2>1. PICK ip \in IPs : \E heard \in HeardByAsked : \E list \in ListsAfter(heard) :
            Refresh(Refreshed(ip, heard, list), heard,
                    Refreshed(ip, heard, list).rep.verdict, "fresh")
      BY <1>4 DEF AskProviders
    <2> QED
      BY <2>1, RefreshStep
  <1>5. CASE ServeStale
    <2>1. PICK ip \in IPs :
            /\ CanUseStale(ip)
            /\ \E heard \in HeardByAsked : \E list \in ListsAfter(heard) :
                 /\ Refreshed(ip, heard, list).rep.verdict = "unknown"
                 /\ Refresh(Refreshed(ip, heard, list), heard, mem.rep.verdict, "stale")
      BY <1>5 DEF ServeStale
    <2> QED
      BY <2>1, RefreshStep
  <1>6. CASE NotDetected
    <2>1. attempt > 0 /\ report' = NoReport
          /\ (TryAgain("UNKNOWN", mem.disabled) \/ RecordAsIs("UNKNOWN"))
      BY <1>6 DEF NotDetected
    <2>2. /\ clock' = clock /\ known' = known
          /\ saved' \in StateType /\ mem' \in StateType /\ attempt' \in 0 .. Retries + 1
          /\ limit' \in [Providers -> Nat] /\ lookup' \in RepType
          /\ StatesAreCurrent' /\ KnownIsOnRecord'
      BY <2>1, NoRefreshStep
    <2> QED
      BY <1>0, <1>1, <2>1, <2>2 DEF RepInv, TypeOK, VerdictIsKnown
  <1>7. CASE Raise
    <2>1. CASE TryAgain("UNKNOWN", mem.disabled)
      <3>1. attempt > 0 /\ report' = NoReport
        BY <1>7 DEF Raise
      <3>2. /\ clock' = clock /\ known' = known
            /\ saved' \in StateType /\ mem' \in StateType /\ attempt' \in 0 .. Retries + 1
            /\ limit' \in [Providers -> Nat] /\ lookup' \in RepType
            /\ StatesAreCurrent' /\ KnownIsOnRecord'
        BY <2>1, <3>1, NoRefreshStep
      <3> QED
        BY <1>0, <1>1, <3>1, <3>2 DEF RepInv, TypeOK, VerdictIsKnown
    <2>2. CASE ~TryAgain("UNKNOWN", mem.disabled)
      <3>1. /\ attempt' = 0 /\ saved' = NoState /\ mem' = NoState /\ clock' = clock
            /\ report' = NoReport
            /\ limit' = [p \in Providers |-> 0] /\ lookup' = NoRep /\ known' = NoRep
            /\ 0 \in 0 .. Retries + 1 /\ limit' \in [Providers -> Nat]
        BY <1>7, <2>2, ReputationConstants DEF Raise, Record
      <3>2. StatesAreCurrent'
        BY <3>1 DEF StatesAreCurrent, GoesBackTo, NoState, NoRep
      <3> QED
        BY <1>0, <1>1, <3>1, <3>2, NoStateType
        DEF RepInv, TypeOK, KnownIsOnRecord, VerdictIsKnown
    <2> QED
      BY <2>1, <2>2
  <1>8. CASE Lost
    <2>1. /\ attempt' = 0 /\ mem' = NoState /\ report' = NoReport
          /\ UNCHANGED <<clock, saved, limit, lookup, known>> /\ 0 \in 0 .. Retries + 1
      BY <1>8, ReputationConstants DEF Lost
    <2> QED
      BY <1>0, <1>1, <2>1, NoStateType DEF RepInv, TypeOK, StatesAreCurrent, GoesBackTo,
                                           KnownIsOnRecord, VerdictIsKnown
  <1>9. CASE Tick
    <2>1. /\ clock \in Nat /\ clock' = clock + 1 /\ report' = NoReport
          /\ UNCHANGED <<saved, mem, attempt, limit, lookup, known>>
      BY <1>0, <1>9 DEF Tick, TypeOK
    <2>2. \A p \in Providers : limit[p] \in Nat /\ (limit[p] <= clock => limit[p] <= clock + 1)
      BY <1>0, <2>1 DEF TypeOK
    <2>3. StatesAreCurrent'
      BY <2>1, <2>2 DEF RepInv, StatesAreCurrent, GoesBackTo
    <2> QED
      BY <1>0, <1>1, <2>1, <2>3 DEF RepInv, TypeOK, KnownIsOnRecord, VerdictIsKnown
  <1>10. CASE UNCHANGED vars
    BY <1>10 DEF vars, history, RepInv, TypeOK, StatesAreCurrent, GoesBackTo, KnownIsOnRecord,
                 VerdictIsKnown
  <1> QED
    BY <1>2, <1>3, <1>4, <1>5, <1>6, <1>7, <1>8, <1>9, <1>10 DEF Next

(* The check_state on record is that of the last recorded lookup, whatever *)
(* attempts, failures and changes of address came in between.              *)
THEOREM ReputationInvariant == Spec => []RepInv
  BY InitRepInv, StepRepInv, PTL DEF Spec

(* Every variable keeps its type: a verdict on record is one of the six or *)
(* "unknown", and a limit is a time.                                       *)
THEOREM TypeCorrect == Spec => []TypeOK
  <1>1. RepInv => TypeOK
    BY DEF RepInv
  <1> QED
    BY <1>1, ReputationInvariant, PTL

(* A verdict reported without asking (from the cache of run, or the        *)
(* expired one of _can_use_stale) is the last known of this address.       *)
THEOREM CacheTellsTheTruth == Spec => []VerdictIsKnown
  <1>1. RepInv => VerdictIsKnown
    BY DEF RepInv
  <1> QED
    BY <1>1, ReputationInvariant, PTL

(* Which attempts ask: they work on a copy of what is on record.           *)
LEMMA RefreshAsks ==
  ASSUME RepInv, Next, Refreshes
  PROVE  /\ GoesBackTo(mem)
         /\ report'.ip \in IPs /\ ~CacheServes(report'.ip)
  <1>1. AskProviders \/ ServeStale
    BY DEF Next, Refreshes, Begin, ServeCached, NotDetected, Raise, Lost, Tick, Reports, NoReport
  <1>2. PICK ip \in IPs :
          /\ ~CacheServes(ip)
          /\ \E heard \in HeardByAsked : \E list \in ListsAfter(heard) : \E verdict, how :
               Refresh(Refreshed(ip, heard, list), heard, verdict, how)
    BY <1>1 DEF AskProviders, ServeStale
  <1>3. attempt > 0 /\ report'.ip = ip
    BY <1>2, RefreshedType DEF RepInv, Refresh, Reports
  <1> QED
    BY <1>2, <1>3 DEF RepInv, StatesAreCurrent

(* No request goes to a provider before the time it set in a recorded run. *)
THEOREM ProvidersAreLeftAlone == Spec => LimitsAreKept
  <1>1. ASSUME RepInv, Next, Refreshes, NEW p \in Asked PROVE clock >= limit[p]
    <2>1. GoesBackTo(mem) /\ p \in Providers /\ mem.disabled[p] <= clock
      BY <1>1, RefreshAsks DEF Asked, IsDisabled, RepInv, TypeOK, StateType
    <2>2. limit[p] \in Nat /\ mem.disabled[p] \in Nat /\ clock \in Nat
      BY <1>1, <2>1 DEF RepInv, TypeOK, StateType
    <2> QED
      BY <2>1, <2>2 DEF GoesBackTo
  <1>2. RepInv /\ [Next]_vars => [Refreshes => \A p \in Asked : clock >= limit[p]]_vars
    BY <1>1
  <1> QED
    BY <1>2, ReputationInvariant, PTL DEF Spec, LimitsAreKept

(* An unchanged address is looked up once in a cache period.               *)
THEOREM LookupsAreSpared == Spec => QuotaIsSpared
  <1>1. ASSUME RepInv, Next, Refreshes, report'.ip = lookup.ip
        PROVE  clock - lookup.at >= ReputationTtl
    <2>1. /\ mem.rep = lookup /\ mem.ip = mem.rep.ip
          /\ report'.ip \in IPs /\ ~CacheServes(report'.ip)
      BY <1>1, RefreshAsks DEF GoesBackTo
    <2>2. ~(clock - mem.rep.at < ReputationTtl)
      BY <1>1, <2>1 DEF CacheServes, Age
    <2>3. clock \in Nat /\ mem.rep.at \in Int /\ ReputationTtl \in Nat
      BY <1>1, <2>1, ReputationConstants DEF RepInv, TypeOK, StateType, RepType, NoRep, Never
    <2> QED
      BY <2>1, <2>2, <2>3
  <1>2. RepInv /\ [Next]_vars =>
          [(Refreshes /\ report'.ip = lookup.ip) => clock - lookup.at >= ReputationTtl]_vars
    BY <1>1
  <1> QED
    BY <1>2, ReputationInvariant, PTL DEF Spec, QuotaIsSpared

=============================================================================
