--------------------------- MODULE Monerod_proofs ---------------------------
(***************************************************************************)
(* Proofs about Monerod, for any heights, answers and sync_stall_seconds:  *)
(* the count of a stall starts neither before the daemon last advanced nor *)
(* after a recorded run first read the height it has, so that a stall is   *)
(* never reported falsely and never goes unreported.                       *)
(***************************************************************************)
EXTENDS Monerod, TLAPS

(* The start of the count lies between the two moments that matter.        *)
CountIsRight ==
  /\ saved.height <= real
  /\ saved.changed <= clock /\ advanced <= clock /\ since <= clock
  /\ saved.height = real => advanced <= saved.changed
  /\ since # Missing => saved.height = real /\ saved.changed <= since

IInv == TypeOK /\ CountIsRight /\ NoFalseStall /\ StallIsSeen

(* A count that starts earlier is at least as long.                        *)
LEMMA EarlierIsLonger ==
  ASSUME NEW now \in Nat, NEW a \in Nat, NEW b \in Nat, NEW limit \in Nat,
         a <= b, now - b >= limit
  PROVE  now - a >= limit
  OBVIOUS

(* A view's findings carry known codes, and those about a slow sync come   *)
(* from get_info.                                                          *)
LEMMA FindingTypes ==
  ASSUME NEW view \in ViewType
  PROVE  \A f \in Findings(view) : f[2] \in Codes
  <1>1. \A f \in SyncFinding(view) \cup PeerFinding(view) : f[2] \in Codes
    BY DEF SyncFinding, PeerFinding, Codes
  <1>2. view.closed \subseteq Codes
    BY DEF ViewType, Codes
  <1>3. view.rpc \in {"off", "error", "empty", "info"}
    BY DEF ViewType
  <1> QED
    BY <1>1, <1>2, <1>3 DEF Findings, Codes

LEMMA SyncCodes ==
  ASSUME NEW view \in ViewType, NEW f \in Findings(view),
         f[2] \in {"sync_stalled", "sync_pending"}
  PROVE  /\ view.rpc = "info" /\ view.height
         /\ f[2] = "sync_stalled" => StalledFor(view) >= StallSeconds
         /\ f[2] = "sync_pending" => ~(StalledFor(view) >= StallSeconds)
  <1>1. f \notin PeerFinding(view)
    BY DEF PeerFinding
  <1>2. \A c \in view.closed : c \notin {"sync_stalled", "sync_pending"}
    BY DEF ViewType
  <1>3. view.rpc \in {"off", "error", "empty", "info"}
    BY DEF ViewType
  <1>4. view.rpc = "info" /\ f \in SyncFinding(view)
    BY <1>1, <1>2, <1>3 DEF Findings
  <1>5. Lagging(view) /\ view.busy
    BY <1>4 DEF SyncFinding
  <1>6. f = IF StalledFor(view) >= StallSeconds
            THEN <<"CRIT", "sync_stalled">> ELSE <<"WARN", "sync_pending">>
    BY <1>4, <1>5 DEF SyncFinding, Lagging
  <1> QED
    BY <1>4, <1>5, <1>6 DEF Lagging, Behind, HasHeights

(* What an evaluation records of the height and its time.                  *)
LEMMA SyncStateIsRight ==
  ASSUME TypeOK, CountIsRight, NEW view \in ViewType
  PROVE  /\ ChangedAt(view) \in Nat /\ ChangedAt(view) <= clock
         /\ SyncState(view).height \in Heights \cup {Missing}
         /\ SyncState(view).changed = ChangedAt(view)
         /\ SyncState(view).stalled \in Nat \cup {Missing}
         /\ SyncState(view).height <= real
         /\ SyncState(view).height = real => advanced <= ChangedAt(view)
         /\ view.height => SyncState(view).height = real
         /\ since # Missing => /\ SyncState(view).height = real
                               /\ ChangedAt(view) <= since
  <1> USE MonerodConstants
  <1>1. ChangedAt(view) \in Nat /\ ChangedAt(view) <= clock
    BY DEF ChangedAt, TypeOK, CountIsRight, Missing
  <1>2. StalledFor(view) \in Nat
    BY <1>1 DEF StalledFor, TypeOK
  <1>3. /\ SyncState(view).changed = ChangedAt(view)
        /\ SyncState(view).stalled \in Nat \cup {Missing}
    BY <1>2 DEF SyncState, TypeOK
  <1>4. SyncState(view).height = IF view.height THEN real ELSE saved.height
    BY DEF SyncState, HeightOf
  <1>5. /\ SyncState(view).height \in Heights \cup {Missing}
        /\ SyncState(view).height <= real
    BY <1>4 DEF TypeOK, CountIsRight
  <1>6. SyncState(view).height = real => advanced <= ChangedAt(view)
    BY <1>4 DEF ChangedAt, HeightOf, TypeOK, CountIsRight, Missing
  <1>7. since # Missing => SyncState(view).height = real /\ ChangedAt(view) <= since
    BY <1>4 DEF ChangedAt, HeightOf, TypeOK, CountIsRight, Missing
  <1> QED
    BY <1>1, <1>3, <1>4, <1>5, <1>6, <1>7

LEMMA Numbers ==
  ASSUME TypeOK
  PROVE  /\ clock \in Nat /\ real \in Int /\ saved.height \in Int
         /\ saved.changed \in Int /\ advanced \in Nat /\ since \in Int
  <1>1. saved.height \in Heights \cup {-1} /\ saved.changed \in Nat \cup {-1}
    BY DEF TypeOK, Missing
  <1>2. Heights \subseteq Nat
    BY MonerodConstants
  <1>3. clock \in Nat /\ advanced \in Nat /\ real \in Heights /\ since \in Nat \cup {-1}
    BY DEF TypeOK, Missing
  <1>4. -1 \in Int /\ Nat \subseteq Int
    OBVIOUS
  <1>5. saved.height \in Int
    BY <1>1, <1>2, <1>4
  <1>6. saved.changed \in Int /\ since \in Int
    BY <1>1, <1>3, <1>4
  <1> QED
    BY <1>2, <1>3, <1>4, <1>5, <1>6

LEMMA InitInv == Init => IInv
  BY MonerodConstants
  DEF Init, IInv, TypeOK, CountIsRight, NoFalseStall, StallIsSeen,
      NoState, NoReport, Missing, Codes

LEMMA EvaluateInv == IInv /\ Evaluate => IInv'
  <1> SUFFICES ASSUME IInv, Evaluate PROVE IInv'
    OBVIOUS
  <1> USE MonerodConstants DEF IInv
  <1>1. PICK view \in Views :
          /\ report' = [status |-> Worst(Findings(view)),
                        codes  |-> {f[2] : f \in {g \in Findings(view) :
                                                    g[1] = Worst(Findings(view))}}]
          /\ saved' = IF view.rpc = "info" THEN SyncState(view) ELSE saved
          /\ since' = IF view.rpc = "info" /\ view.height /\ since = Missing
                      THEN clock ELSE since
          /\ UNCHANGED <<clock, real, advanced>>
    BY DEF Evaluate
  <1> view \in ViewType
    OBVIOUS
  <1>2. report'.codes \subseteq {f[2] : f \in Findings(view)}
    BY <1>1
  <1>3. report' \in [status : {"none", "OK", "WARN", "CRIT", "UNKNOWN"}, codes : SUBSET Codes]
    <2>1. {f[2] : f \in {g \in Findings(view) : g[1] = Worst(Findings(view))}} \in SUBSET Codes
      BY FindingTypes
    <2>2. Worst(Findings(view)) \in {"none", "OK", "WARN", "CRIT", "UNKNOWN"}
      BY DEF Worst
    <2> QED
      BY <1>1, <2>1, <2>2
  <1>4. \A c \in {"sync_stalled", "sync_pending"} : c \in report'.codes =>
          /\ view.rpc = "info" /\ view.height
          /\ c = "sync_stalled" => StalledFor(view) >= StallSeconds
          /\ c = "sync_pending" => ~(StalledFor(view) >= StallSeconds)
    BY <1>2, SyncCodes
  <1>5. CASE view.rpc = "info"
    <2>1. saved' = SyncState(view)
      BY <1>1, <1>5
    <2>2. TypeOK'
      <3>1. saved' \in [height : Heights \cup {Missing}, changed : Nat \cup {Missing},
                        stalled : Nat \cup {Missing}]
        BY <2>1, SyncStateIsRight DEF SyncState
      <3>2. saved'.changed # Missing
        BY <2>1, SyncStateIsRight DEF Missing
      <3> QED
        BY <1>1, <1>3, <3>1, <3>2 DEF TypeOK
    <2>3. CountIsRight'
      BY <1>1, <1>5, <2>1, SyncStateIsRight DEF CountIsRight, TypeOK, Missing
    <2>4. NoFalseStall'
      <3> SUFFICES ASSUME "sync_stalled" \in report'.codes
                   PROVE  clock - advanced >= StallSeconds
        BY <1>1 DEF NoFalseStall
      <3>1. StalledFor(view) >= StallSeconds /\ view.height
        BY <1>4
      <3>2. advanced <= ChangedAt(view) /\ ChangedAt(view) \in Nat
        BY <3>1, SyncStateIsRight
      <3> QED
        BY <3>1, <3>2 DEF StalledFor, TypeOK
    <2>5. StallIsSeen'
      <3> SUFFICES ASSUME since' # Missing, clock - since' >= StallSeconds,
                          "sync_pending" \in report'.codes
                   PROVE  FALSE
        BY <1>1 DEF StallIsSeen
      <3>1. ~(StalledFor(view) >= StallSeconds)
        BY <1>4
      <3>2. ChangedAt(view) <= since' /\ since' \in Nat /\ ChangedAt(view) \in Nat
        BY <1>1, <1>5, SyncStateIsRight DEF TypeOK
      <3>3. clock \in Nat /\ StallSeconds \in Nat
        BY DEF TypeOK
      <3>4. clock - ChangedAt(view) >= StallSeconds
        BY <3>2, <3>3, EarlierIsLonger
      <3> QED
        BY <3>1, <3>4 DEF StalledFor
    <2> QED
      BY <2>2, <2>3, <2>4, <2>5
  <1>6. CASE view.rpc # "info"
    <2>1. /\ UNCHANGED <<clock, real, saved, advanced, since>>
          /\ "sync_stalled" \notin report'.codes
          /\ "sync_pending" \notin report'.codes
      BY <1>1, <1>4, <1>6
    <2> QED
      BY <1>3, <2>1 DEF TypeOK, CountIsRight, NoFalseStall, StallIsSeen
  <1> QED
    BY <1>5, <1>6

(* The steps that are no complete evaluation report nothing of the sync.   *)
LEMMA OtherInv == IInv /\ (Unevaluated \/ RunRaises \/ Advance \/ Tick) => IInv'
  <1> SUFFICES ASSUME IInv PROVE (Unevaluated \/ RunRaises \/ Advance \/ Tick) => IInv'
    OBVIOUS
  <1> USE MonerodConstants DEF IInv, TypeOK, CountIsRight, NoFalseStall, StallIsSeen, Missing
  <1>1. CASE Unevaluated
    BY <1>1 DEF Unevaluated, Codes
  <1>2. CASE RunRaises
    BY <1>2 DEF RunRaises, NoState
  <1>3. CASE Advance
    <2>1. PICK h \in Heights :
            /\ h > real /\ real' = h
            /\ advanced' = clock /\ since' = -1
            /\ report' = NoReport
            /\ UNCHANGED <<clock, saved>>
      BY <1>3 DEF Advance
    <2>2. /\ saved.height # real' /\ saved.height <= real'
          /\ saved'.height = saved.height /\ saved'.changed = saved.changed
      <3> HIDE MonerodConstants DEF TypeOK, CountIsRight, NoFalseStall, StallIsSeen, Missing
      <3>1. h \in Int
        BY MonerodConstants
      <3>2. saved.height \in Int /\ real \in Int /\ saved.height <= real
        BY Numbers DEF CountIsRight
      <3> QED
        BY <2>1, <3>1, <3>2
    <2>3. TypeOK'
      BY <2>1, <2>2 DEF NoReport
    <2>5. CountIsRight'
      <3>1. saved.changed <= clock /\ clock \in Nat /\ real' # saved.height
        BY <2>2
      <3>2. -1 <= clock
        BY <3>1
      <3> QED
        BY <2>1, <2>2, <3>1, <3>2
    <2>4. NoFalseStall' /\ StallIsSeen'
      BY <2>1 DEF NoReport
    <2> QED
      BY <2>3, <2>4, <2>5
  <1>4. CASE Tick
    BY <1>4 DEF Tick, NoReport
  <1> QED
    BY <1>1, <1>2, <1>3, <1>4

LEMMA StepInv == IInv /\ [Next]_vars => IInv'
  <1>1. IInv /\ UNCHANGED vars => IInv'
    BY DEF vars, IInv, TypeOK, CountIsRight, NoFalseStall, StallIsSeen
  <1> QED
    BY <1>1, EvaluateInv, OtherInv DEF Next

LEMMA InvAlways == Spec => []IInv
  BY InitInv, StepInv, PTL DEF Spec

(* The variables of the monerod check keep their types. *)
THEOREM TypeCorrect == Spec => []TypeOK
  BY InvAlways, PTL DEF IInv

(* run and _evaluate_sync: sync_stalled is reported only of a daemon that  *)
(* has not advanced for sync_stall_seconds.                                *)
THEOREM NeverFalselyStalled == Spec => []NoFalseStall
  BY InvAlways, PTL DEF IInv

(* run and _evaluate_sync: a daemon whose height a recorded run read that  *)
(* long ago is not reported as merely pending.                             *)
THEOREM StallAlwaysSeen == Spec => []StallIsSeen
  BY InvAlways, PTL DEF IInv

=============================================================================
