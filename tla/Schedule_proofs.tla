--------------------------- MODULE Schedule_proofs ---------------------------
(* Proofs about the scheduling rules of Schedule, for every interval. *)
EXTENDS Schedule, TLAPS

(* A bucket is the half-open stretch between two multiples of the interval.*)
LEMMA SlotBounds ==
  ASSUME NEW t \in Nat, NEW i \in Nat \ {0}
  PROVE  /\ Slot(t, i) \in Nat
         /\ Slot(t, i) * i <= t
         /\ t < (Slot(t, i) + 1) * i
  BY DEF Slot

(* A later bucket begins at a later multiple of the interval. *)
LEMMA MultipleMonotone ==
  ASSUME NEW a \in Nat, NEW b \in Nat, NEW i \in Nat \ {0}, a <= b
  PROVE  a * i <= b * i
  OBVIOUS

(* The time --list-scheduled shows is exactly when is_due turns true. *)
THEOREM NextDueIsFirstDue ==
  ASSUME NEW last \in Nat, NEW now \in Nat, NEW i \in Nat \ {0}
  PROVE  IsDue(last, i, now) <=> now >= NextDueAt(last, i)
  <1> DEFINE a == Slot(last, i)
             b == Slot(now, i)
  <1>1. a \in Nat /\ b \in Nat
    BY SlotBounds
  <1>2. IsDue(last, i, now) <=> b >= a + 1
    BY <1>1 DEF IsDue, Never
  <1>3. NextDueAt(last, i) = (a + 1) * i
    BY DEF NextDueAt, Never
  <1>4. ASSUME b >= a + 1 PROVE now >= (a + 1) * i
    <2>1. (a + 1) * i <= b * i
      BY <1>1, <1>4, MultipleMonotone
    <2>2. b * i <= now
      BY SlotBounds
    <2>3. (a + 1) * i \in Nat /\ b * i \in Nat
      BY <1>1
    <2> HIDE DEF a, b
    <2> QED
      BY <2>1, <2>2, <2>3
  <1>5. ASSUME b < a + 1 PROVE now < (a + 1) * i
    <2>1. (b + 1) * i <= (a + 1) * i
      BY <1>1, <1>5, MultipleMonotone
    <2>2. now < (b + 1) * i
      BY SlotBounds
    <2>3. (a + 1) * i \in Nat /\ (b + 1) * i \in Nat
      BY <1>1
    <2> HIDE DEF a, b
    <2> QED
      BY <2>1, <2>2, <2>3
  <1>6. (a + 1) * i \in Nat
    BY <1>1
  <1> HIDE DEF a, b
  <1> QED
    BY <1>1, <1>2, <1>3, <1>4, <1>5, <1>6

(* A check that ran is not due again in the bucket it ran in, and the clock*)
(* has moved on when it is.                                                *)
THEOREM DueMeansLater ==
  ASSUME NEW last \in Nat, NEW now \in Nat, NEW i \in Nat \ {0},
         IsDue(last, i, now)
  PROVE  Slot(now, i) > Slot(last, i) /\ now > last
  <1>1. Slot(now, i) > Slot(last, i)
    BY DEF IsDue, Never
  <1>2. now >= NextDueAt(last, i)
    BY NextDueIsFirstDue
  <1>3. last < NextDueAt(last, i)
    BY SlotBounds DEF NextDueAt, Never
  <1>4. NextDueAt(last, i) \in Int
    BY SlotBounds DEF NextDueAt, Never
  <1> QED
    BY <1>1, <1>2, <1>3, <1>4

(* The order of a run is total: of two sections one comes first. *)
THEOREM OrderIsTotal ==
  ASSUME NEW l1 \in Int, NEW l2 \in Int, NEW s1 \in Nat, NEW s2 \in Nat, s1 # s2
  PROVE  RunsBefore(l1, s1, l2, s2) <=> ~RunsBefore(l2, s2, l1, s1)
  BY DEF RunsBefore

=============================================================================
