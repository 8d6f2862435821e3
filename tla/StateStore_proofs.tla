-------------------------- MODULE StateStore_proofs --------------------------
(***************************************************************************)
(* Proofs about StateStore, for any number of invocations, sections and    *)
(* entries and any poll limit: Inv is inductive, and the file implements   *)
(* the atomic store.                                                       *)
(***************************************************************************)
EXTENDS StateStore, TLAPS

(* Every section's entry is Absent before anything is saved. *)
LEMMA EmptyMapType == EmptyMap \in Map
  BY DEF EmptyMap, Map, Entries

(* The three shapes of a file are contents. *)
LEMMA ContentTypes ==
  /\ Missing \in Content /\ Partial \in Content
  /\ \A m \in Map : Whole(m) \in Content
  BY EmptyMapType DEF Content, Missing, Partial, Whole

LEMMA TypeInit == Init => TypeOK
  BY ContentTypes, EmptyMapType
  DEF Init, TypeOK, Labels, Loaded, Content, Missing, Whole

THEOREM InitInv == Init => Inv
  <1> SUFFICES ASSUME Init PROVE Inv
    OBVIOUS
  <1>1. TypeOK
    BY TypeInit
  <1>2. LockIsHeld
    BY StoreConstants DEF Init, LockIsHeld, Holding, Saving
  <1>3. InSync /\ TmpIsMine
    BY DEF Init, InSync, TmpIsMine, Saving
  <1>4. NeverTorn /\ NoLostUpdate
    BY DEF Init, NeverTorn, NoLostUpdate, Missing, Whole
  <1> QED
    BY <1>1, <1>2, <1>3, <1>4 DEF Inv

(* Types are preserved by every step. *)
LEMMA TypeStep ==
  ASSUME TypeOK, NEW p \in Procs, Step(p)
  PROVE  TypeOK'
  <1> USE DEF TypeOK
  <1>1. CASE Open(p)
    BY <1>1 DEF Open, Go, Labels
  <1>2. CASE Acquire(p)
    BY <1>2 DEF Acquire, Go, Labels, Holding
  <1>3. CASE PollAgain(p)
    BY <1>3 DEF PollAgain
  <1>4. CASE GiveUp(p)
    BY <1>4, EmptyMapType DEF GiveUp, Exit, Labels
  <1>5. CASE Load(p)
    BY <1>5 DEF Load, Go, Labels, Holding, Loaded, Content
  <1>6. CASE \E k \in Keys, v \in Values : Edit(p, k, v)
    BY <1>6 DEF Edit, Go, Labels, Holding, Saving, Map, Entries
  <1>7. CASE OpenTmp(p)
    BY <1>7, ContentTypes DEF OpenTmp, Go, Labels, Holding, Saving
  <1>8. CASE WriteTmp(p)
    BY <1>8, ContentTypes DEF WriteTmp, Go, Labels, Holding, Saving
  <1>9. CASE Replace(p)
    BY <1>9, ContentTypes DEF Replace, Go, Labels, Holding, Map
  <1>10. CASE Leave(p)
    BY <1>10 DEF Leave, Labels, Holding
  <1>11. CASE Unlock(p)
    BY <1>11, EmptyMapType DEF Unlock, Exit, Labels
  <1>12. CASE Crash(p)
    BY <1>12, EmptyMapType DEF Crash, Exit, Labels
  <1>13. CASE ReadUnlocked(p)
    BY <1>13 DEF ReadUnlocked, Go, Labels, Loaded, Content
  <1>14. CASE \E k \in Keys, v \in Values : EditUnsaved(p, k, v)
    BY <1>14 DEF EditUnsaved, Map, Entries
  <1>15. CASE EndRead(p)
    BY <1>15, EmptyMapType DEF EndRead, Exit, Labels
  <1> QED
    BY <1>1, <1>2, <1>3, <1>4, <1>5, <1>6, <1>7, <1>8, <1>9, <1>10, <1>11,
       <1>12, <1>13, <1>14, <1>15 DEF Step

(* The lock is held by exactly the invocation between lock and unlock. *)
LEMMA LockStep ==
  ASSUME TypeOK, LockIsHeld, NEW p \in Procs, Step(p)
  PROVE  LockIsHeld'
  <1> USE StoreConstants DEF TypeOK, LockIsHeld, Holding, Saving
  <1>1. CASE Open(p) \/ PollAgain(p) \/ GiveUp(p)
    BY <1>1 DEF Open, PollAgain, GiveUp, Go, Exit
  <1>2. CASE Acquire(p)
    BY <1>2 DEF Acquire, Go
  <1>3. CASE Load(p) \/ OpenTmp(p) \/ WriteTmp(p) \/ Replace(p) \/ Leave(p)
    BY <1>3 DEF Load, OpenTmp, WriteTmp, Replace, Leave, Go
  <1>4. CASE \E k \in Keys, v \in Values : Edit(p, k, v)
    BY <1>4 DEF Edit, Go
  <1>5. CASE Unlock(p) \/ Crash(p)
    BY <1>5 DEF Unlock, Crash, Exit
  <1>6. CASE ReadUnlocked(p) \/ EndRead(p)
    BY <1>6 DEF ReadUnlocked, EndRead, Go, Exit
  <1>7. CASE \E k \in Keys, v \in Values : EditUnsaved(p, k, v)
    BY <1>7 DEF EditUnsaved
  <1> QED
    BY <1>1, <1>2, <1>3, <1>4, <1>5, <1>6, <1>7 DEF Step

(* One invocation's step leaves what the others have in memory alone. *)
LEMMA OthersStep ==
  ASSUME TypeOK, NEW p \in Procs, Step(p), NEW q \in Procs, q # p
  PROVE  pc'[q] = pc[q] /\ mem'[q] = mem[q] /\ unsaved'[q] = unsaved[q]
  <1> USE DEF TypeOK
  <1>1. CASE Open(p) \/ Acquire(p) \/ PollAgain(p) \/ Load(p) \/ ReadUnlocked(p)
    BY <1>1 DEF Open, Acquire, PollAgain, Load, ReadUnlocked, Go
  <1>2. CASE GiveUp(p) \/ Unlock(p) \/ Crash(p) \/ EndRead(p)
    BY <1>2 DEF GiveUp, Unlock, Crash, EndRead, Exit
  <1>3. CASE OpenTmp(p) \/ WriteTmp(p) \/ Replace(p) \/ Leave(p)
    BY <1>3 DEF OpenTmp, WriteTmp, Replace, Leave, Go
  <1>4. CASE \E k \in Keys, v \in Values : Edit(p, k, v)
    BY <1>4 DEF Edit, Go
  <1>5. CASE \E k \in Keys, v \in Values : EditUnsaved(p, k, v)
    BY <1>5 DEF EditUnsaved
  <1> QED
    BY <1>1, <1>2, <1>3, <1>4, <1>5 DEF Step

(* Only os.replace changes the state file, and only the holder of the lock *)
(* touches the temporary one.                                              *)
LEMMA FilesStep ==
  ASSUME NEW p \in Procs, Step(p)
  PROVE  /\ ~Replace(p) => file' = file /\ recorded' = recorded
         /\ tmp' # tmp => pc[p] \in Holding
  <1> USE DEF Holding, Saving
  <1>1. CASE Open(p) \/ Acquire(p) \/ PollAgain(p) \/ Load(p) \/ ReadUnlocked(p)
    BY <1>1 DEF Open, Acquire, PollAgain, Load, ReadUnlocked
  <1>2. CASE GiveUp(p) \/ Unlock(p) \/ Crash(p) \/ EndRead(p)
    BY <1>2 DEF GiveUp, Unlock, Crash, EndRead
  <1>3. CASE OpenTmp(p) \/ WriteTmp(p) \/ Replace(p) \/ Leave(p)
    BY <1>3 DEF OpenTmp, WriteTmp, Replace, Leave, Go
  <1>4. CASE \E k \in Keys, v \in Values : Edit(p, k, v) \/ EditUnsaved(p, k, v)
    BY <1>4 DEF Edit, EditUnsaved
  <1> QED
    BY <1>1, <1>2, <1>3, <1>4 DEF Step

(* What os.replace puts in place: the file with the unsaved section added. *)
LEMMA ReplaceStep ==
  ASSUME Inv, NEW p \in Procs, Replace(p)
  PROVE  /\ file' = Whole(mem[p])
         /\ mem[p] = recorded'
         /\ \E k \in Keys :
              /\ unsaved[p] = {k}
              /\ mem[p] = [Loaded(file) EXCEPT ![k] = mem[p][k]]
  <1> USE DEF Inv
  <1>1. pc[p] = "written" /\ pc[p] \in Saving
    BY DEF Replace, Go, Saving
  <1>2. file' = Whole(mem[p])
    BY <1>1 DEF Replace, TmpIsMine
  <1>3. \A k \in Keys \ unsaved[p] : mem[p][k] = Loaded(file)[k]
    BY <1>1 DEF InSync
  <1>4. PICK k \in Keys : unsaved[p] = {k}
    BY <1>1 DEF InSync
  <1>5. mem[p] \in [Keys -> Entries] /\ Loaded(file) \in [Keys -> Entries]
    BY DEF TypeOK, Map, Content, Loaded
  <1>6. mem[p] = [Loaded(file) EXCEPT ![k] = mem[p][k]]
    BY <1>3, <1>4, <1>5
  <1>7. mem[p] = recorded'
    BY <1>3, <1>5 DEF Replace, NoLostUpdate
  <1> QED
    BY <1>2, <1>4, <1>6, <1>7

(* Whoever edits or saves works on the file as it is. *)
LEMMA SyncStep ==
  ASSUME Inv, NEW p \in Procs, Step(p)
  PROVE  InSync'
  <1> DEFINE Sync(q) ==
        /\ pc[q] \notin {"leave"} \cup Saving => unsaved[q] = {}
        /\ pc[q] \in Saving => \E k \in Keys : unsaved[q] = {k}
        /\ pc[q] \in {"edit"} \cup Saving =>
             \A k \in Keys \ unsaved[q] : mem[q][k] = Loaded(file)[k]
  <1>1. \A q \in Procs : Sync(q)
    BY DEF Inv, InSync
  <1>2. ASSUME NEW q \in Procs, q # p PROVE Sync(q)'
    <2>1. pc'[q] = pc[q] /\ mem'[q] = mem[q] /\ unsaved'[q] = unsaved[q]
      BY <1>2, OthersStep DEF Inv
    <2>2. pc[q] \in {"edit"} \cup Saving => ~Replace(p)
      BY <1>2 DEF Inv, LockIsHeld, Holding, Saving, Replace, Go
    <2>3. pc[q] \in {"edit"} \cup Saving => Loaded(file)' = Loaded(file)
      BY <2>2, FilesStep DEF Loaded
    <2> QED
      BY <1>1, <2>1, <2>3
  <1>3. Sync(p)'
    <2> USE <1>1 DEF Inv, TypeOK, Saving
    <2>1. CASE Open(p) \/ Acquire(p) \/ PollAgain(p) \/ ReadUnlocked(p)
      BY <2>1 DEF Open, Acquire, PollAgain, ReadUnlocked, Go
    <2>2. CASE GiveUp(p) \/ Unlock(p) \/ Crash(p) \/ EndRead(p)
      BY <2>2 DEF GiveUp, Unlock, Crash, EndRead, Exit
    <2>3. CASE OpenTmp(p) \/ WriteTmp(p) \/ Leave(p)
      BY <2>3 DEF OpenTmp, WriteTmp, Leave, Go
    <2>4. CASE Load(p)
      BY <2>4 DEF Load, Go
    <2>5. ASSUME NEW k \in Keys, NEW v \in Values, Edit(p, k, v)
          PROVE  Sync(p)'
      BY <2>5 DEF Edit, Go, Map
    <2>6. CASE \E k \in Keys, v \in Values : EditUnsaved(p, k, v)
      BY <2>6 DEF EditUnsaved
    <2>7. CASE Replace(p)
      <3>1. pc'[p] = "edit" /\ unsaved'[p] = {} /\ mem' = mem
        BY <2>7 DEF Replace, Go
      <3>2. Loaded(file)' = mem[p]
        BY <2>7, ReplaceStep DEF Loaded, Whole
      <3> QED
        BY <3>1, <3>2
    <2> QED
      BY <2>1, <2>2, <2>3, <2>4, <2>5, <2>6, <2>7 DEF Step
  <1> QED
    BY <1>2, <1>3 DEF InSync

(* A temporary file that is ready to replace the state file is its own. *)
LEMMA TmpStep ==
  ASSUME Inv, NEW p \in Procs, Step(p)
  PROVE  TmpIsMine'
  <1>1. ASSUME NEW q \in Procs, q # p, pc'[q] = "written"
        PROVE  tmp' = Whole(mem'[q])
    <2>1. pc[q] = "written" /\ mem'[q] = mem[q]
      BY <1>1, OthersStep DEF Inv
    <2>2. pc[p] \notin Holding
      BY <1>1, <2>1 DEF Inv, LockIsHeld, Holding, Saving
    <2> QED
      BY <2>1, <2>2, FilesStep DEF Inv, TmpIsMine
  <1>2. ASSUME pc'[p] = "written"
        PROVE  tmp' = Whole(mem'[p])
    <2> USE DEF Inv, TypeOK
    <2>1. CASE WriteTmp(p)
      BY <2>1 DEF WriteTmp
    <2>2. CASE Open(p) \/ Acquire(p) \/ PollAgain(p) \/ ReadUnlocked(p) \/ Load(p)
      BY <1>2, <2>2 DEF Open, Acquire, PollAgain, ReadUnlocked, Load, Go
    <2>3. CASE GiveUp(p) \/ Unlock(p) \/ Crash(p) \/ EndRead(p)
      BY <1>2, <2>3 DEF GiveUp, Unlock, Crash, EndRead, Exit
    <2>4. CASE OpenTmp(p) \/ Replace(p) \/ Leave(p)
      BY <1>2, <2>4 DEF OpenTmp, Replace, Leave, Go
    <2>5. CASE \E k \in Keys, v \in Values : Edit(p, k, v) \/ EditUnsaved(p, k, v)
      BY <1>2, <2>5 DEF Edit, EditUnsaved, Go
    <2> QED
      BY <2>1, <2>2, <2>3, <2>4, <2>5 DEF Step
  <1> QED
    BY <1>1, <1>2 DEF TmpIsMine

(* Inv is inductive. *)
THEOREM StepInv == Inv /\ [Next]_vars => Inv'
  <1> SUFFICES ASSUME Inv, [Next]_vars PROVE Inv'
    OBVIOUS
  <1>1. ASSUME NEW p \in Procs, Step(p) PROVE Inv'
    <2>1. TypeOK' /\ LockIsHeld'
      BY <1>1, TypeStep, LockStep DEF Inv
    <2>2. InSync' /\ TmpIsMine'
      BY <1>1, SyncStep, TmpStep
    <2>3. NeverTorn' /\ NoLostUpdate'
      <3>1. CASE Replace(p)
        BY <3>1, ReplaceStep DEF NeverTorn, NoLostUpdate, Whole, Loaded
      <3>2. CASE ~Replace(p)
        BY <1>1, <3>2, FilesStep DEF Inv, NeverTorn, NoLostUpdate, Loaded
      <3> QED
        BY <3>1, <3>2
    <2> QED
      BY <2>1, <2>2, <2>3 DEF Inv
  <1>2. CASE UNCHANGED vars
    BY <1>2 DEF vars, Inv, TypeOK, LockIsHeld, InSync, TmpIsMine, NeverTorn,
                NoLostUpdate, Loaded
  <1> QED
    BY <1>1, <1>2 DEF Next

(* The lock, the loaded map, the temporary file and the state file always  *)
(* fit together (state.py, locked and save).                               *)
THEOREM StoreInvariant == Spec => []Inv
  BY InitInv, StepInv, PTL DEF Spec

(* No two invocations are between lock and unlock at once. *)
THEOREM Exclusion == Spec => []MutualExclusion
  <1>1. Inv => MutualExclusion
    BY DEF Inv, LockIsHeld, MutualExclusion
  <1> QED
    BY <1>1, StoreInvariant, PTL

(* The file holds the entry last saved for every section. *)
THEOREM NoUpdateIsLost == Spec => []NoLostUpdate
  <1>1. Inv => NoLostUpdate
    BY DEF Inv
  <1> QED
    BY <1>1, StoreInvariant, PTL

-----------------------------------------------------------------------------
(* The refinement: os.replace is the commit, everything else that happens  *)
(* to the files is invisible.                                              *)
LEMMA RefinesInit == Init => Atomic!Init
  BY DEF Init, Atomic!Init, Loaded, Missing, Whole, EmptyMap, Map, Entries

LEMMA RefinesStep == Inv /\ [Next]_vars => [Atomic!Next]_(Atomic!vars)
  <1> SUFFICES ASSUME Inv, [Next]_vars PROVE [Atomic!Next]_(Atomic!vars)
    OBVIOUS
  <1>1. ASSUME NEW p \in Procs, Step(p)
        PROVE  [Atomic!Next]_(Atomic!vars)
    <2>1. CASE Acquire(p)
      BY <2>1 DEF Acquire, Loaded, Atomic!Acquire, Atomic!Next
    <2>2. CASE Replace(p)
      <3>1. PICK k \in Keys : mem[p] = [Loaded(file) EXCEPT ![k] = mem[p][k]]
        BY <2>2, ReplaceStep
      <3>2. Loaded(file)' = mem[p]
        BY <2>2, ReplaceStep DEF Loaded, Whole
      <3>3. holder = p /\ holder' = holder
        BY <2>2 DEF Inv, LockIsHeld, Holding, Saving, Replace, Go
      <3>4. mem[p][k] \in Entries
        BY DEF Inv, TypeOK, Map
      <3> QED
        BY <3>1, <3>2, <3>3, <3>4 DEF Atomic!Commit, Atomic!Next
    <2>3. CASE Unlock(p) \/ Crash(p)
      <3>1. Unlock(p) => holder = p
        BY DEF Inv, LockIsHeld, Holding, Saving, Unlock
      <3> QED
        BY <2>3, <3>1 DEF Unlock, Crash, Loaded, Atomic!Release, Atomic!Next, Atomic!vars
    <2>4. CASE ~(Acquire(p) \/ Replace(p) \/ Unlock(p) \/ Crash(p))
      <3>1. file' = file
        BY <1>1, <2>4, FilesStep
      <3>2. holder' = holder
        BY <1>1, <2>4 DEF Step, Open, PollAgain, GiveUp, Load, Edit, OpenTmp, WriteTmp,
                          Leave, ReadUnlocked, EditUnsaved, EndRead
      <3> QED
        BY <3>1, <3>2 DEF Loaded, Atomic!vars
    <2> QED
      BY <2>1, <2>2, <2>3, <2>4
  <1>2. CASE UNCHANGED vars
    BY <1>2 DEF vars, Loaded, Atomic!vars
  <1> QED
    BY <1>1, <1>2 DEF Next

(* state.py, with its lock file, its temporary file and its crashes, does  *)
(* what the atomic store promises.                                         *)
THEOREM StoreIsAtomic == Spec => Implements
  BY RefinesInit, RefinesStep, StoreInvariant, PTL DEF Spec, Implements, Atomic!Spec

=============================================================================
