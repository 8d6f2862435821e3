------------------------------ MODULE Schedule ------------------------------
(***************************************************************************)
(* When a check runs: the pure scheduling rules of runner.py (is_due,      *)
(* _interval_slot, _last_run_sort_key) and of the --list-scheduled table   *)
(* of cli.py (compute_next_due_at).  A time stamp is a natural number of   *)
(* time units; an interval is an integer number of the same units.         *)
(***************************************************************************)
EXTENDS Integers

(* A missing or unreadable time stamp.  It sorts before every real one, as *)
(* datetime.min does in _last_run_sort_key.                                *)
Never == -1

(* _interval_slot: the wall-clock bucket a moment falls in. *)
Slot(moment, interval) == moment \div interval

(* is_due: never run, not rate-limited, or in a later bucket than last time. *)
IsDue(last, interval, now) ==
  \/ last = Never
  \/ interval <= 0
  \/ Slot(now, interval) > Slot(last, interval)

(* A sort by section name alone. *)
RunsBefore_ByName(last1, section1, last2, section2) == section1 < section2

(* _last_run_sort_key: oldest last run first, ties in section order. *)
RunsBefore(last1, section1, last2, section2) ==
  \/ last1 < last2
  \/ last1 = last2 /\ section1 < section2

(* One interval after the last run, wherever in its bucket that was. *)
NextDueAt_Elapsed(last, interval) ==
  IF last = Never \/ interval <= 0 THEN Never ELSE last + interval

(* compute_next_due_at: the start of the bucket after the last run's. *)
NextDueAt(last, interval) ==
  IF last = Never \/ interval <= 0 THEN Never
  ELSE (Slot(last, interval) + 1) * interval

=============================================================================
