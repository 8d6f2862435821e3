----------------------------- MODULE AtomicStore -----------------------------
(***************************************************************************)
(* What state.py promises the runner: a map from section to entry that one *)
(* owner at a time changes, one section per step, each change taking effect*)
(* at once and for good.  An owner may go away at any moment.              *)
(***************************************************************************)
CONSTANTS Procs, NoProc, Keys, Entries

VARIABLES db,      \* the entry on record for each section
          owner    \* the invocation that may change it, or NoProc

vars == <<db, owner>>

Init ==
  /\ db \in [Keys -> Entries]
  /\ owner = NoProc

Acquire(p) ==
  /\ owner = NoProc
  /\ owner' = p
  /\ UNCHANGED db

Commit(p, k) ==
  /\ owner = p
  /\ db'[k] \in Entries
  /\ db' = [db EXCEPT ![k] = db'[k]]
  /\ UNCHANGED owner

Release(p) ==
  /\ owner = p
  /\ owner' = NoProc
  /\ UNCHANGED db

Next ==
  \E p \in Procs :
    \/ Acquire(p)
    \/ \E k \in Keys : Commit(p, k)
    \/ Release(p)

Spec == Init /\ [][Next]_vars

=============================================================================
