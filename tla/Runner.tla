------------------------------- MODULE Runner -------------------------------
(***************************************************************************)
(* runner.run and what it calls, for several invocations that share one    *)
(* state file: the timer's and an operator's, normal, --no-notify and dry. *)
(*                                                                         *)
(*   Launch -> (lock, load) -> select -> check loop -> unlock -> exit code *)
(*                                                                         *)
(* Each turn of the check loop runs one check with its retries, stamps the *)
(* time, sends the message that is due, pushes to Kuma, stores the new     *)
(* entry and saves.  The store is the atomic one of AtomicStore, which     *)
(* StateStore implements.  Checks return, time passes, commands fail or    *)
(* raise, and invocations are killed, at any point in between.             *)
(***************************************************************************)
EXTENDS NotificationPolicy, FiniteSets

CONSTANTS Sections,        \* section names: naturals, in the order of the names
          Procs,           \* invocations that may be alive at once
          NoProc,
          Launches,        \* Launches[p]: the command lines p may be started with
          OptionSets,      \* the configurations to consider
          Results,         \* results a check may return
          MaxRunSeconds,   \* max_run_seconds
          MaxClock,        \* bound on time
          MaxFailures      \* bound on consecutive_failures when launching

NoSection == -1

(* No selection option, --all, or --check section; --dry-run; --no-notify. *)
LaunchType == [mode     : {"due", "all", "check"},
               section  : Sections \cup {NoSection},
               dryRun   : BOOLEAN,
               noNotify : BOOLEAN]

OptionType == [Sections -> [policy   : PolicyType,
                            interval : Int,
                            retries  : Int,
                            kuma     : BOOLEAN]]

ASSUME RunnerConstants ==
  /\ Sections \subseteq Nat /\ IsFiniteSet(Sections)
  /\ NoProc \notin Procs
  /\ \A p \in Procs : Launches[p] \subseteq LaunchType
  /\ OptionSets \subseteq OptionType
  /\ Results \subseteq ResultType
  /\ MaxRunSeconds \in Nat /\ MaxClock \in Nat /\ MaxFailures \in Nat

VARIABLES
  options,    \* the loaded configuration, fixed
  clock,      \* wall clock and monotonic clock in one
  disk,       \* checks in the state file
  holder,     \* who holds the lock
  pc,         \* where each invocation is
  mem,        \* checks_state of each invocation
  job,        \* the other locals of run, process_selected_checks, process_result
  seen,       \* history: the statuses an invocation's checks ended with
  ahead       \* history: ahead[s], who was recorded before s while s was due

vars == <<options, clock, disk, holder, pc, mem, job, seen, ahead>>
history == <<seen, ahead>>

Labels == {"idle", "wait", "select", "next", "check", "notify", "kuma", "save", "leave"}
Looping == {"next", "check", "notify", "kuma", "save"}
NoExit == -1
NoResult == [status |-> "OK", code |-> NoCode, state |-> EmptyCheckState]

JobType == [launch : LaunchType,
            todo   : SUBSET Sections,   \* selected and not yet started
            count  : Nat,               \* how many were started: index
            began  : Nat,               \* run_started
            cur    : Sections \cup {NoSection},
            attempt : Nat,
            res    : ResultType,
            stamp  : Nat,               \* now in process_result
            sent   : BOOLEAN,           \* notification_was_sent
            worst  : Statuses,          \* worst_status
            exit   : {NoExit, 0, 1, 2}]

NoLaunch == [mode |-> "due", section |-> NoSection, dryRun |-> FALSE, noNotify |-> FALSE]
NewJob(l) == [launch |-> l, todo |-> {}, count |-> 0, began |-> 0,
              cur |-> NoSection, attempt |-> 0, res |-> NoResult, stamp |-> 0,
              sent |-> FALSE, worst |-> "OK", exit |-> NoExit]

NoJob == NewJob(NoLaunch)

EmptyState == [s \in Sections |-> Fresh]

Init ==
  /\ options \in OptionSets
  /\ clock = 0
  /\ disk = EmptyState
  /\ holder = NoProc
  /\ pc = [p \in Procs |-> "idle"]
  /\ mem = [p \in Procs |-> EmptyState]
  /\ job = [p \in Procs |-> NoJob]
  /\ seen = [p \in Procs |-> {}]
  /\ ahead = [s \in Sections |-> {}]

(* The process is gone, and with it what it had in memory. *)
Exit(p) ==
  /\ pc' = [pc EXCEPT ![p] = "idle"]
  /\ mem' = [mem EXCEPT ![p] = EmptyState]
  /\ job' = [job EXCEPT ![p] = NoJob]
  /\ seen' = [seen EXCEPT ![p] = {}]

Goto(p, from, to) == pc[p] = from /\ pc' = [pc EXCEPT ![p] = to]
IsDry(p) == job[p].launch.dryRun

(* The section p is working on, its options and its entry before this run. *)
Cur(p) == job[p].cur
Opt(p) == options[Cur(p)]
Previous(p) == mem[p][Cur(p)]

-----------------------------------------------------------------------------
(* cli.main calls run: a dry run loads without the lock, the others queue. *)
Launch(p) ==
  \E l \in Launches[p] :
    /\ \A s \in Sections : disk[s].consecutive < MaxFailures
    /\ Goto(p, "idle", IF l.dryRun THEN "select" ELSE "wait")
    /\ mem' = [mem EXCEPT ![p] = IF l.dryRun THEN disk ELSE EmptyState]
    /\ job' = [job EXCEPT ![p] = NewJob(l)]
    /\ UNCHANGED <<options, clock, disk, holder, history>>

(* An invocation that does not wait for the one before it. *)
Acquire_NoLock(p) ==
  /\ Goto(p, "wait", "select")
  /\ holder' = p
  /\ mem' = [mem EXCEPT ![p] = disk]
  /\ UNCHANGED <<options, clock, disk, job, history>>

(* StateStore.locked: take the lock, then load. *)
Acquire(p) ==
  /\ holder = NoProc
  /\ Goto(p, "wait", "select")
  /\ holder' = p
  /\ mem' = [mem EXCEPT ![p] = disk]
  /\ UNCHANGED <<options, clock, disk, job, history>>

(* max_lock_hold_minutes that is read and not enforced. *)
GiveUp_Never(p) == FALSE /\ UNCHANGED vars

(* StateStore.locked: TimeoutError after max_lock_hold_minutes; exit code 2.*)
GiveUp(p) ==
  /\ holder # NoProc
  /\ pc[p] = "wait"
  /\ Exit(p)
  /\ UNCHANGED <<options, clock, disk, holder, ahead>>

(* select_checks: one section regardless of its schedule, all, or the due. *)
Selected(p) ==
  CASE job[p].launch.mode = "due" ->
         {s \in Sections : IsDue(mem[p][s].lastRun, options[s].interval, clock)}
    [] job[p].launch.mode = "all" -> Sections
    [] job[p].launch.mode = "check" -> {job[p].launch.section} \cap Sections

(* handle_no_checks: nothing is due, or the section is not enabled. *)
SelectNone(p) ==
  /\ Goto(p, "select", "leave")
  /\ Selected(p) = {}
  /\ job' = [job EXCEPT ![p].exit = IF job[p].launch.mode = "check" THEN 2 ELSE 0]
  /\ UNCHANGED <<options, clock, disk, holder, mem, history>>

SelectChecks(p) ==
  /\ Goto(p, "select", "next")
  /\ Selected(p) # {}
  /\ job' = [job EXCEPT ![p].todo = Selected(p), ![p].began = clock]
  /\ UNCHANGED <<options, clock, disk, holder, mem, history>>

BudgetExhausted(p) ==
  /\ job[p].count > 0
  /\ MaxRunSeconds > 0
  /\ clock - job[p].began >= MaxRunSeconds

(* The selected section whose turn it is: sorted by _last_run_sort_key.    *)
(* Entries of sections still to come do not change during the loop.        *)
IsFirst(p, s) ==
  /\ s \in job[p].todo
  /\ \A t \in job[p].todo \ {s} :
       RunsBefore(mem[p][s].lastRun, s, mem[p][t].lastRun, t)

StartCheck(p) ==
  \E s \in Sections :
    /\ Goto(p, "next", "check")
    /\ ~BudgetExhausted(p)
    /\ IsFirst(p, s)
    /\ job' = [job EXCEPT ![p].todo = @ \ {s}, ![p].count = @ + 1,
                          ![p].cur = s, ![p].attempt = 1]
    /\ UNCHANGED <<options, clock, disk, holder, mem, history>>

ExitCode(worst) == IF worst \in {"CRIT", "UNKNOWN"} THEN 1 ELSE 0

EndLoop(p) ==
  /\ Goto(p, "next", "leave")
  /\ job[p].todo = {} \/ BudgetExhausted(p)
  /\ job' = [job EXCEPT ![p].exit = ExitCode(job[p].worst)]
  /\ UNCHANGED <<options, clock, disk, holder, mem, history>>

(* run_check_with_retries: a failing attempt that is not the last one. *)
RetryCheck(p) ==
  \E res \in Results :
    /\ pc[p] = "check"
    /\ IsFailing(res) /\ job[p].attempt <= Opt(p).retries
    /\ job' = [job EXCEPT ![p].attempt = @ + 1]
    /\ UNCHANGED <<options, clock, disk, holder, pc, mem, history>>

(* The status of the last check, whatever it was. *)
WorstStatus_LastResult(worst, res) == res.status

(* worst_status after a check: the last failing status. *)
WorstStatus(worst, res) == IF IsFailing(res) THEN res.status ELSE worst

(* run_check_with_retries returns: the first result that does not fail, or *)
(* the last attempt's.  A check that raised returned UNKNOWN.              *)
FinishCheck(p) ==
  \E res \in Results :
    /\ Goto(p, "check", "notify")
    /\ Opt(p).retries >= 0
    /\ ~IsFailing(res) \/ job[p].attempt > Opt(p).retries
    /\ job' = [job EXCEPT ![p].res = res, ![p].worst = WorstStatus(@, res)]
    /\ seen' = [seen EXCEPT ![p] = @ \cup {res.status}]
    /\ UNCHANGED <<options, clock, disk, holder, mem, ahead>>

(* run_check_with_retries: retries < 0 makes no attempt, and the assertion *)
(* at its end fails outside the handler that isolates a check.             *)
NoAttempt(p) ==
  /\ pc[p] = "check" /\ Opt(p).retries < 0
  /\ pc' = [pc EXCEPT ![p] = "leave"]
  /\ job' = [job EXCEPT ![p].exit = 2]
  /\ UNCHANGED <<options, clock, disk, holder, mem, history>>

(* process_result, up to the notification: a command is rendered. *)
CommandDue(p) ==
  /\ DueMessages(Opt(p).policy, Previous(p), job[p].res, clock) # {}
  /\ Opt(p).policy.hasCmd
  /\ ~job[p].launch.noNotify

(* The command runs and exits: with 0 the message has left. *)
Notify(p) ==
  \E delivered \in BOOLEAN :
    /\ Goto(p, "notify", "kuma")
    /\ CommandDue(p) /\ ~IsDry(p)
    /\ job' = [job EXCEPT ![p].stamp = clock, ![p].sent = delivered]
    /\ UNCHANGED <<options, clock, disk, holder, mem, history>>

(* No command to run; a dry run takes the one due for sent. *)
NoNotify(p) ==
  /\ Goto(p, "notify", "kuma")
  /\ ~CommandDue(p) \/ IsDry(p)
  /\ job' = [job EXCEPT ![p].stamp = clock, ![p].sent = CommandDue(p)]
  /\ UNCHANGED <<options, clock, disk, holder, mem, history>>

(* send_notification raises (no such command, unbalanced quotes): nothing  *)
(* between here and cli.main catches it.                                   *)
NotifyRaises(p) ==
  /\ Goto(p, "notify", "leave")
  /\ CommandDue(p) /\ ~IsDry(p)
  /\ job' = [job EXCEPT ![p].exit = 2]
  /\ UNCHANGED <<options, clock, disk, holder, mem, history>>

(* A dry run goes on to the save. *)
PushAndStore_DrySaves(p) ==
  /\ Goto(p, "kuma", "save")
  /\ mem' = [mem EXCEPT ![p][Cur(p)] =
               NewEntry(Opt(p).policy, Previous(p), job[p].res, job[p].stamp, job[p].sent)]
  /\ UNCHANGED <<options, clock, disk, holder, job, history>>

(* push_kuma returns, with an error or without, and process_result stores  *)
(* the new entry in the loaded map.  A dry run does not save it.           *)
PushAndStore(p) ==
  /\ Goto(p, "kuma", IF IsDry(p) THEN "next" ELSE "save")
  /\ mem' = [mem EXCEPT ![p][Cur(p)] =
               NewEntry(Opt(p).policy, Previous(p), job[p].res, job[p].stamp, job[p].sent)]
  /\ UNCHANGED <<options, clock, disk, holder, job, history>>

(* push_kuma raises what it does not catch (a malformed URL or answer). *)
KumaRaises(p) ==
  /\ Goto(p, "kuma", "leave")
  /\ Opt(p).kuma /\ ~IsDry(p)
  /\ job' = [job EXCEPT ![p].exit = 2]
  /\ UNCHANGED <<options, clock, disk, holder, mem, history>>

(* Those recorded before s while s waited its turn. *)
Ahead(p) ==
  [s \in Sections |->
     IF s = Cur(p) THEN {}
     ELSE IF s \in job[p].todo /\ job[p].launch.mode = "due"
          THEN ahead[s] \cup {Cur(p)} ELSE ahead[s]]

(* A save left to the end of the invocation. *)
Save_Skipped(p) ==
  /\ Goto(p, "save", "next")
  /\ disk' = IF job[p].todo = {} THEN mem[p] ELSE disk
  /\ ahead' = Ahead(p)
  /\ UNCHANGED <<options, clock, holder, mem, job, seen>>

(* save_state after every check. *)
Save(p) ==
  /\ Goto(p, "save", "next")
  /\ disk' = mem[p]
  /\ ahead' = Ahead(p)
  /\ UNCHANGED <<options, clock, holder, mem, job, seen>>

(* The save raises (no space, no permission). *)
SaveFails(p) ==
  /\ Goto(p, "save", "leave")
  /\ job' = [job EXCEPT ![p].exit = 2]
  /\ UNCHANGED <<options, clock, disk, holder, mem, history>>

(* finally: unlock; the exit code is already decided. *)
Leave(p) ==
  /\ pc[p] = "leave"
  /\ Exit(p)
  /\ holder' = IF holder = p THEN NoProc ELSE holder
  /\ UNCHANGED <<options, clock, disk, ahead>>

(* Killed: by the operator, by a reboot, for lack of memory. *)
Crash(p) ==
  /\ pc[p] # "idle"
  /\ Exit(p)
  /\ holder' = IF holder = p THEN NoProc ELSE holder
  /\ UNCHANGED <<options, clock, disk, ahead>>

Tick ==
  /\ clock < MaxClock
  /\ clock' = clock + 1
  /\ UNCHANGED <<options, disk, holder, pc, mem, job, history>>

(* The steps an invocation takes by itself. *)
Progress(p) ==
  \/ Acquire(p)
  \/ GiveUp(p)
  \/ SelectNone(p)
  \/ SelectChecks(p)
  \/ StartCheck(p)
  \/ EndLoop(p)
  \/ RetryCheck(p)
  \/ FinishCheck(p)
  \/ NoAttempt(p)
  \/ NoNotify(p)
  \/ PushAndStore(p)
  \/ KumaRaises(p)
  \/ Save(p)
  \/ SaveFails(p)
  \/ Leave(p)

(* The steps that wait for the notification command, which has no timeout. *)
Command(p) == Notify(p) \/ NotifyRaises(p)

Next ==
  \/ \E p \in Procs : Launch(p) \/ Progress(p) \/ Command(p) \/ Crash(p)
  \/ Tick

(* A live invocation goes on, but for what it waits for without a deadline *)
(* of its own: its notification command, and the answers its check and its *)
(* Kuma push read over HTTP, whose timeout is one of each single recv.     *)
Waiting == {"notify", "check", "kuma"}
Fairness == \A p \in Procs : WF_vars(pc[p] \notin Waiting /\ Progress(p))

Spec == Init /\ [][Next]_vars /\ Fairness

-----------------------------------------------------------------------------
TypeOK ==
  /\ options \in OptionType
  /\ clock \in Nat
  /\ disk \in [Sections -> EntryType]
  /\ holder \in Procs \cup {NoProc}
  /\ pc \in [Procs -> Labels]
  /\ mem \in [Procs -> [Sections -> EntryType]]
  /\ job \in [Procs -> JobType]
  /\ seen \in [Procs -> SUBSET Statuses]
  /\ ahead \in [Sections -> SUBSET Sections]

(* Scheduled runs of a section on record fall in different interval        *)
(* buckets, however many invocations the timer and the operator start and  *)
(* however long they wait for each other.                                  *)
OneRunPerSlot ==
  [][\A p \in Procs :
       LET s == Cur(p) i == Opt(p).interval IN
       (/\ pc[p] = "save" /\ pc'[p] = "next"
        /\ job[p].launch.mode = "due" /\ i > 0 /\ disk[s].lastRun # Never)
       => Slot(disk'[s].lastRun, i) > Slot(disk[s].lastRun, i)]_vars

(* Killed at any point, an invocation loses the check in hand at most: the *)
(* entries of the checks it has finished are in the file.                  *)
CrashLosesOneCheck ==
  \A p \in Procs : (pc[p] \in Looping /\ ~IsDry(p)) =>
    \A s \in Sections : mem[p][s] # disk[s] => pc[p] = "save" /\ s = Cur(p)

(* A budget that runs out every time does not starve a section: no         *)
(* invocation starts a check before a waiting one that a scheduled run     *)
(* recorded it ahead of.  Only a section without an interval may be passed *)
(* once more, by one recorded in the same second: stamps have no fractions.*)
NoRepeatOvertake ==
  [][\A p \in Procs :
       (pc[p] = "next" /\ pc'[p] = "check" /\ ~IsDry(p))
       => \A s \in job'[p].todo :
            job'[p].cur \in ahead[s] =>
              /\ options[s].interval <= 0
              /\ disk[job'[p].cur].lastRun = disk[s].lastRun]_vars

(* An invocation whose loop ends exits with 1 exactly when one of the      *)
(* checks it ran ended as CRIT or UNKNOWN, whichever came last.            *)
ExitTellsFailure ==
  [][\A p \in Procs :
       (pc[p] = "next" /\ pc'[p] = "leave")
       => (job'[p].exit = 1 <=> seen[p] \cap {"CRIT", "UNKNOWN"} # {})]_vars

(* --list-scheduled tells the truth: a section whose entry does not change *)
(* becomes due at the time shown, not before and not later.  The rule is   *)
(* the one of buckets, as README.md and the tests have it; the table of an *)
(* elapsed interval, which is the rule of ARCHITECTURE.md, would not be    *)
(* right for this code.                                                    *)
ScheduleTableIsRight ==
  \A s \in Sections : \A t \in 0 .. 2 * MaxClock :
    LET last == disk[s].lastRun  i == options[s].interval IN
    (last # Never /\ i > 0)
    => (IsDue(last, i, t) <=> t >= NextDueAt(last, i))

(* A dry run leaves the state file, the lock and the other invocations'    *)
(* entries alone; every other change of the file is one section's entry,   *)
(* made by the holder of the lock (the store that StateStore implements).  *)
Store == INSTANCE AtomicStore WITH
           db <- disk, owner <- holder, Keys <- Sections, Entries <- EntryType
UsesStore == Store!Spec

(* Every invocation ends, or comes to wait for its own check, notification *)
(* command or push.  One that hangs there keeps the lock, and the others   *)
(* give up instead of waiting for it.                                      *)
EndsOrHangs ==
  \A p \in Procs : pc[p] # "idle" ~> pc[p] \in Waiting \cup {"idle"}

-----------------------------------------------------------------------------
(* ARCHITECTURE.md: notify.py handles notification command failures without*)
(* crashing the whole run.  A run left after a notification has run every  *)
(* check it selected.                                                      *)
NotifyFailureIsContained ==
  [][\A p \in Procs :
       pc[p] = "notify" /\ pc'[p] = "leave" => job[p].todo = {}]_vars

(* README.md: interval_minutes=1 is due once per minute bucket, and is not *)
(* delayed because the previous run finished 59 seconds ago.  A run uses up*)
(* the bucket it was selected in, and no other.                            *)
UsesUpItsBucket ==
  [][\A p \in Procs :
       (/\ pc[p] = "save" /\ pc'[p] = "next"
        /\ job[p].launch.mode = "due" /\ Opt(p).interval > 0)
       => Slot(disk'[Cur(p)].lastRun, Opt(p).interval)
            = Slot(job[p].began, Opt(p).interval)]_vars

=============================================================================
