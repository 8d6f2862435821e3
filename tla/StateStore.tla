----------------------------- MODULE StateStore -----------------------------
(***************************************************************************)
(* state.py as runner.run drives it: locked(save=False) around the whole   *)
(* invocation, load after the lock is held, one edit of the loaded map per *)
(* check, save after every edit (written to one fixed .tmp path, then      *)
(* os.replace), unlock in the finally block.  Dry runs and the schedule    *)
(* table load without the lock and never save.                             *)
(*                                                                         *)
(* Any invocation may be killed between two steps (the kernel then drops   *)
(* its flock), or find that a write fails.                                 *)
(***************************************************************************)
EXTENDS Naturals

CONSTANTS Procs,       \* invocations that share the state file
          NoProc,
          Keys,        \* section names
          Values,      \* entries process_result may store
          Absent,      \* no entry for the section
          PollLimit    \* failed polls before _lock_timeout_expired; 0 = never

ASSUME StoreConstants ==
  /\ NoProc \notin Procs
  /\ Absent \notin Values
  /\ PollLimit \in Nat

VARIABLES
  file,       \* the state file
  tmp,        \* state_file.tmp
  holder,     \* who holds the flock on lock_file
  pc,         \* where each invocation is
  mem,        \* the map each invocation loaded and edits
  unsaved,    \* the sections each invocation has edited and not saved yet
  polls,      \* failed polls of the lock
  recorded    \* history: per section, the entry last saved by anyone

vars == <<file, tmp, holder, pc, mem, unsaved, polls, recorded>>

Entries == Values \cup {Absent}
Map == [Keys -> Entries]
EmptyMap == [k \in Keys |-> Absent]
Content == [state : {"missing", "partial", "whole"}, map : Map]
Missing == [state |-> "missing", map |-> EmptyMap]
Partial == [state |-> "partial", map |-> EmptyMap]
Whole(m) == [state |-> "whole", map |-> m]

Saving == {"dirty", "writing", "written"}
Holding == {"load", "edit", "leave"} \cup Saving
Labels == {"idle", "wait", "read"} \cup Holding

(* load: a missing file is the default state, with no section in it. *)
Loaded(content) == content.map

Init ==
  /\ file \in {Missing} \cup {Whole(m) : m \in Map}
  /\ tmp = Missing
  /\ holder = NoProc
  /\ pc = [p \in Procs |-> "idle"]
  /\ mem = [p \in Procs |-> EmptyMap]
  /\ unsaved = [p \in Procs |-> {}]
  /\ polls = [p \in Procs |-> 0]
  /\ recorded = Loaded(file)

(* What an invocation kept in memory goes with it. *)
Exit(p) ==
  /\ pc' = [pc EXCEPT ![p] = "idle"]
  /\ mem' = [mem EXCEPT ![p] = EmptyMap]
  /\ unsaved' = [unsaved EXCEPT ![p] = {}]
  /\ polls' = [polls EXCEPT ![p] = 0]

Go(p, from, to) == pc[p] = from /\ pc' = [pc EXCEPT ![p] = to]

-----------------------------------------------------------------------------
(* A normal invocation opens the lock file and starts to poll. *)
Open(p) ==
  /\ Go(p, "idle", "wait")
  /\ UNCHANGED <<file, tmp, holder, mem, unsaved, polls, recorded>>

(* flock(LOCK_EX | LOCK_NB) that never looks at who holds the lock. *)
Acquire_NoLock(p) ==
  /\ Go(p, "wait", "load")
  /\ holder' = p
  /\ UNCHANGED <<file, tmp, mem, unsaved, polls, recorded>>

(* _lock_file: flock succeeds. *)
Acquire(p) ==
  /\ holder = NoProc
  /\ Go(p, "wait", "load")
  /\ holder' = p
  /\ UNCHANGED <<file, tmp, mem, unsaved, polls, recorded>>

Expired(p) == PollLimit > 0 /\ polls[p] >= PollLimit

(* _lock_file: the lock is taken; sleep and poll again. *)
PollAgain(p) ==
  /\ holder # NoProc
  /\ pc[p] = "wait" /\ ~Expired(p)
  /\ polls' = [polls EXCEPT ![p] = IF PollLimit > 0 THEN @ + 1 ELSE @]
  /\ UNCHANGED <<file, tmp, holder, pc, mem, unsaved, recorded>>

(* The timeout restarts the clock it was measured with. *)
GiveUp_StartsOver(p) ==
  /\ holder # NoProc
  /\ pc[p] = "wait" /\ Expired(p)
  /\ polls' = [polls EXCEPT ![p] = 0]
  /\ UNCHANGED <<file, tmp, holder, pc, mem, unsaved, recorded>>

(* The timeout goes through an unlock that does not look whose lock it is. *)
GiveUp_Unlocks(p) ==
  /\ holder # NoProc
  /\ pc[p] = "wait" /\ Expired(p)
  /\ Exit(p)
  /\ holder' = NoProc
  /\ UNCHANGED <<file, tmp, recorded>>

(* _lock_file: the lock is taken and the time is up: TimeoutError. *)
GiveUp(p) ==
  /\ holder # NoProc
  /\ pc[p] = "wait" /\ Expired(p)
  /\ Exit(p)
  /\ UNCHANGED <<file, tmp, holder, recorded>>

(* A load that starts from the default state although there is a file. *)
Load_Nothing(p) ==
  /\ Go(p, "load", "edit")
  /\ UNCHANGED <<file, tmp, holder, mem, unsaved, polls, recorded>>

Load(p) ==
  /\ Go(p, "load", "edit")
  /\ mem' = [mem EXCEPT ![p] = Loaded(file)]
  /\ UNCHANGED <<file, tmp, holder, unsaved, polls, recorded>>

(* process_result stores the new entry of one section in the loaded map. *)
Edit(p, k, v) ==
  /\ Go(p, "edit", "dirty")
  /\ mem' = [mem EXCEPT ![p][k] = v]
  /\ unsaved' = [unsaved EXCEPT ![p] = @ \cup {k}]
  /\ UNCHANGED <<file, tmp, holder, polls, recorded>>

(* save that opens the state file itself instead of a temporary one. *)
OpenTmp_InPlace(p) ==
  /\ Go(p, "dirty", "writing")
  /\ file' = Partial
  /\ UNCHANGED <<tmp, holder, mem, unsaved, polls, recorded>>

(* save: open(tmp_path, "w") truncates what an earlier save left there. *)
OpenTmp(p) ==
  /\ Go(p, "dirty", "writing")
  /\ tmp' = Partial
  /\ UNCHANGED <<file, holder, mem, unsaved, polls, recorded>>

(* save: json.dump and the closing of the file. *)
WriteTmp(p) ==
  /\ Go(p, "writing", "written")
  /\ tmp' = Whole(mem[p])
  /\ UNCHANGED <<file, holder, mem, unsaved, polls, recorded>>

(* save: os.replace. *)
Replace(p) ==
  /\ Go(p, "written", "edit")
  /\ file' = tmp
  /\ tmp' = Missing
  /\ recorded' = [k \in Keys |-> IF k \in unsaved[p] THEN mem[p][k] ELSE recorded[k]]
  /\ unsaved' = [unsaved EXCEPT ![p] = {}]
  /\ UNCHANGED <<holder, mem, polls>>

(* The loop is over, or a save or a notification raised: into finally. *)
Leave(p) ==
  /\ pc[p] \in {"load", "edit"} \cup Saving
  /\ pc' = [pc EXCEPT ![p] = "leave"]
  /\ UNCHANGED <<file, tmp, holder, mem, unsaved, polls, recorded>>

(* finally: _unlock_file. *)
Unlock(p) ==
  /\ pc[p] = "leave"
  /\ Exit(p)
  /\ holder' = NoProc
  /\ UNCHANGED <<file, tmp, recorded>>

(* The invocation is killed; the kernel releases its lock. *)
Crash(p) ==
  /\ pc[p] # "idle"
  /\ Exit(p)
  /\ holder' = IF holder = p THEN NoProc ELSE holder
  /\ UNCHANGED <<file, tmp, recorded>>

(* A dry run, or --list-scheduled: load without the lock. *)
ReadUnlocked(p) ==
  /\ Go(p, "idle", "read")
  /\ mem' = [mem EXCEPT ![p] = Loaded(file)]
  /\ UNCHANGED <<file, tmp, holder, unsaved, polls, recorded>>

(* A dry run edits its own copy of the map and saves nothing. *)
EditUnsaved(p, k, v) ==
  /\ pc[p] = "read"
  /\ mem' = [mem EXCEPT ![p][k] = v]
  /\ UNCHANGED <<file, tmp, holder, pc, unsaved, polls, recorded>>

EndRead(p) ==
  /\ pc[p] = "read"
  /\ Exit(p)
  /\ UNCHANGED <<file, tmp, holder, recorded>>

Step(p) ==
  \/ Open(p)
  \/ Acquire(p)
  \/ PollAgain(p)
  \/ GiveUp(p)
  \/ Load(p)
  \/ \E k \in Keys, v \in Values : Edit(p, k, v)
  \/ OpenTmp(p)
  \/ WriteTmp(p)
  \/ Replace(p)
  \/ Leave(p)
  \/ Unlock(p)
  \/ Crash(p)
  \/ ReadUnlocked(p)
  \/ \E k \in Keys, v \in Values : EditUnsaved(p, k, v)
  \/ EndRead(p)

Next == \E p \in Procs : Step(p)

(* A live invocation keeps polling; nothing is assumed of the lock's holder.*)
Fairness == \A p \in Procs : WF_vars(Acquire(p) \/ PollAgain(p) \/ GiveUp(p))

Spec == Init /\ [][Next]_vars /\ Fairness

-----------------------------------------------------------------------------
TypeOK ==
  /\ file \in Content /\ tmp \in Content
  /\ holder \in Procs \cup {NoProc}
  /\ pc \in [Procs -> Labels]
  /\ mem \in [Procs -> Map]
  /\ unsaved \in [Procs -> SUBSET Keys]
  /\ polls \in [Procs -> Nat]
  /\ recorded \in Map

(* At most one invocation is between lock and unlock. *)
MutualExclusion ==
  \A p, q \in Procs : pc[p] \in Holding /\ pc[q] \in Holding => p = q

(* Whoever opens the state file, with the lock or without, and whoever was *)
(* killed before, finds a whole document or no file at all.                *)
NeverTorn == file.state # "partial"

(* The state file holds, for every section, what the last save of that     *)
(* section by any invocation put there: no invocation undoes another's.    *)
NoLostUpdate == Loaded(file) = recorded

(* A save that has reached os.replace has written its own map. *)
TmpIsMine == \A p \in Procs : pc[p] = "written" => tmp = Whole(mem[p])

(* An invocation that waits for the lock stops waiting, whatever the holder*)
(* does: it gets the lock or gives up.                                     *)
WaitEnds == \A p \in Procs : pc[p] = "wait" ~> pc[p] # "wait"

(* state.py implements the atomic store. *)
Atomic == INSTANCE AtomicStore WITH db <- Loaded(file), owner <- holder
Implements == Atomic!Spec

-----------------------------------------------------------------------------
(* The inductive invariant behind NoLostUpdate: between load and unlock the*)
(* holder's map differs from the file in the unsaved section at most.      *)
LockIsHeld == \A p \in Procs : pc[p] \in Holding <=> holder = p
InSync ==
  \A p \in Procs :
    /\ pc[p] \notin {"leave"} \cup Saving => unsaved[p] = {}
    /\ pc[p] \in Saving => \E k \in Keys : unsaved[p] = {k}
    /\ pc[p] \in {"edit"} \cup Saving =>
         \A k \in Keys \ unsaved[p] : mem[p][k] = Loaded(file)[k]

Inv ==
  /\ TypeOK
  /\ LockIsHeld
  /\ InSync
  /\ TmpIsMine
  /\ NeverTorn
  /\ NoLostUpdate

=============================================================================
