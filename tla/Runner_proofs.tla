---------------------------- MODULE Runner_proofs ----------------------------
(***************************************************************************)
(* Proofs about Runner, for any sections, options, results and number of   *)
(* invocations: RInv and HInv are inductive; killed at any point an        *)
(* invocation loses one check; no section is run twice in an interval      *)
(* bucket by the schedule, or passed by another it was recorded ahead of;  *)
(* the exit code tells of failures; the runner uses the state file as the  *)
(* atomic store.                                                           *)
(***************************************************************************)
EXTENDS Runner, NotificationPolicy_proofs

Step(p) == Launch(p) \/ Progress(p) \/ Command(p) \/ Crash(p)

Inside == Labels \ {"idle", "wait"}
OnCheck == {"check", "notify", "kuma", "save"}

(* The lock is held by exactly the invocation that is past it. *)
LockIsHeld ==
  \A p \in Procs :
    /\ holder = p <=> (pc[p] \in Inside /\ ~IsDry(p))
    /\ pc[p] \in {"wait", "save"} => ~IsDry(p)

(* In the loop, an invocation works on one of its sections, once. *)
CurIsTaken ==
  \A p \in Procs :
    pc[p] \in OnCheck => Cur(p) \in Sections /\ Cur(p) \notin job[p].todo

(* What an invocation has loaded or saved is what the file holds. *)
InSync ==
  \A p \in Procs : \A s \in Sections :
    (pc[p] \in Inside \ {"leave"} /\ ~IsDry(p) /\ mem[p][s] # disk[s])
    => pc[p] = "save" /\ s = Cur(p)

(* When invocation p began its loop, s was due by the entry last. *)
WasDue(p, last, s) == IsDue(last, options[s].interval, job[p].began)

(* A scheduled invocation has only sections that were due when it began.   *)
DueOf(p) ==
  (pc[p] \in Looping /\ job[p].launch.mode = "due") =>
    /\ job[p].began <= clock
    /\ \A s \in job[p].todo : WasDue(p, mem[p][s].lastRun, s)
    /\ pc[p] \in {"check", "notify", "kuma"} => WasDue(p, Previous(p).lastRun, Cur(p))
    /\ pc[p] = "kuma" => job[p].stamp >= job[p].began
    /\ pc[p] = "save" =>
         /\ WasDue(p, disk[Cur(p)].lastRun, Cur(p))
         /\ Previous(p).lastRun \in Nat /\ Previous(p).lastRun >= job[p].began

DueAtStart == \A p \in Procs : DueOf(p)

RInv == TypeOK /\ LockIsHeld /\ CurIsTaken /\ InSync /\ DueAtStart

-----------------------------------------------------------------------------
(* A later moment is in the same bucket or in a later one. *)
LEMMA SlotMonotone ==
  ASSUME NEW t \in Nat, NEW u \in Nat, t <= u, NEW i \in Nat \ {0}
  PROVE  Slot(t, i) <= Slot(u, i)
  <1> DEFINE a == Slot(t, i)
             b == Slot(u, i)
  <1>1. a \in Nat /\ b \in Nat /\ a * i <= t /\ u < (b + 1) * i
    BY SlotBounds
  <1> HIDE DEF a, b
  <1>2. ASSUME b + 1 <= a PROVE FALSE
    <2>1. (b + 1) * i <= a * i
      BY <1>1, <1>2, MultipleMonotone
    <2>2. (b + 1) * i \in Nat /\ a * i \in Nat
      BY <1>1
    <2> QED
      BY <1>1, <2>1, <2>2
  <1>3. a <= b
    BY <1>1, <1>2
  <1> QED
    BY <1>3 DEF a, b

LEMMA EmptyStateType == EmptyState \in [Sections -> EntryType]
  BY FreshType DEF EmptyState

LEMMA NewJobType == ASSUME NEW l \in LaunchType PROVE NewJob(l) \in JobType
  BY DEF NewJob, JobType, NoResult, ResultType, NoSection, NoExit, Statuses

LEMMA NoJobType == NoJob \in JobType
  <1>1. NoLaunch \in LaunchType
    BY DEF NoLaunch, LaunchType, NoSection
  <1> QED
    BY <1>1, NewJobType DEF NoJob

-----------------------------------------------------------------------------
LEMMA TypeInit == Init => TypeOK
  BY FreshType, EmptyStateType, NoJobType, RunnerConstants
  DEF Init, TypeOK, EmptyState, Labels

(* The locals stay of their types under each assignment of the loop. *)
LEMMA JobFields ==
  ASSUME NEW j \in JobType
  PROVE  /\ \A c \in {0, 1, 2} : [j EXCEPT !.exit = c] \in JobType
         /\ \A t \in SUBSET Sections, n \in Nat : [j EXCEPT !.todo = t, !.began = n] \in JobType
         /\ \A t \in SUBSET Sections, n \in Nat, s \in Sections :
              [j EXCEPT !.todo = t, !.count = n, !.cur = s, !.attempt = 1] \in JobType
         /\ [j EXCEPT !.attempt = @ + 1] \in JobType
         /\ \A r \in ResultType, w \in Statuses : [j EXCEPT !.res = r, !.worst = w] \in JobType
         /\ \A n \in Nat, b \in BOOLEAN : [j EXCEPT !.stamp = n, !.sent = b] \in JobType
  <1> USE DEF JobType
  <1>1. \A c \in {0, 1, 2} : [j EXCEPT !.exit = c] \in JobType
    OBVIOUS
  <1>2. \A t \in SUBSET Sections, n \in Nat : [j EXCEPT !.todo = t, !.began = n] \in JobType
    OBVIOUS
  <1>3. \A t \in SUBSET Sections, n \in Nat, s \in Sections :
          [j EXCEPT !.todo = t, !.count = n, !.cur = s, !.attempt = 1] \in JobType
    OBVIOUS
  <1>4. [j EXCEPT !.attempt = @ + 1] \in JobType
    OBVIOUS
  <1>5. \A r \in ResultType, w \in Statuses : [j EXCEPT !.res = r, !.worst = w] \in JobType
    OBVIOUS
  <1>6. \A n \in Nat, b \in BOOLEAN : [j EXCEPT !.stamp = n, !.sent = b] \in JobType
    OBVIOUS
  <1> QED
    BY <1>1, <1>2, <1>3, <1>4, <1>5, <1>6

LEMMA JobStep ==
  ASSUME TypeOK, NEW p \in Procs, Step(p)
  PROVE  job' \in [Procs -> JobType]
  <1>0. job \in [Procs -> JobType] /\ job[p] \in JobType
    BY DEF TypeOK
  <1> SUFFICES \E j \in JobType : job' = [job EXCEPT ![p] = j]
    BY <1>0
  <1>1. CASE Launch(p)
    <2>1. Launches[p] \subseteq LaunchType
      BY RunnerConstants
    <2>2. PICK l \in Launches[p] : job' = [job EXCEPT ![p] = NewJob(l)]
      BY <1>1 DEF Launch
    <2> QED
      BY <2>1, <2>2, NewJobType
  <1>2. CASE Acquire(p) \/ PushAndStore(p) \/ Save(p)
    <2>1. job' = [job EXCEPT ![p] = job[p]]
      BY <1>0, <1>2 DEF Acquire, PushAndStore, Save
    <2> QED
      BY <1>0, <2>1
  <1>3. CASE GiveUp(p) \/ Leave(p) \/ Crash(p)
    BY <1>3, NoJobType DEF GiveUp, Leave, Crash, Exit
  <1>4. CASE SelectNone(p) \/ EndLoop(p) \/ NoAttempt(p) \/ NotifyRaises(p)
             \/ KumaRaises(p) \/ SaveFails(p)
    <2>1. PICK c \in {0, 1, 2} : job' = [job EXCEPT ![p].exit = c]
      BY <1>4 DEF SelectNone, EndLoop, NoAttempt, NotifyRaises, KumaRaises, SaveFails, ExitCode
    <2> QED
      BY <1>0, <2>1, JobFields
  <1>5. CASE SelectChecks(p)
    <2>1. Selected(p) \in SUBSET Sections
      BY <1>0 DEF Selected, JobType, LaunchType
    <2>2. clock \in Nat
      BY DEF TypeOK
    <2> QED
      BY <1>0, <1>5, <2>1, <2>2, JobFields DEF SelectChecks
  <1>6. CASE StartCheck(p)
    <2>1. PICK s \in Sections :
            job' = [job EXCEPT ![p].todo = @ \ {s}, ![p].count = @ + 1,
                               ![p].cur = s, ![p].attempt = 1]
      BY <1>6 DEF StartCheck
    <2>2. job[p].todo \ {s} \in SUBSET Sections /\ job[p].count + 1 \in Nat
      BY <1>0 DEF JobType
    <2> QED
      BY <1>0, <2>1, <2>2, JobFields
  <1>7. CASE RetryCheck(p)
    BY <1>0, <1>7, JobFields DEF RetryCheck
  <1>8. CASE FinishCheck(p)
    <2>1. PICK res \in Results :
            job' = [job EXCEPT ![p].res = res, ![p].worst = WorstStatus(@, res)]
      BY <1>8 DEF FinishCheck
    <2>2. res \in ResultType /\ WorstStatus(job[p].worst, res) \in Statuses
      BY <1>0, RunnerConstants DEF WorstStatus, ResultType, JobType
    <2> QED
      BY <1>0, <2>1, <2>2, JobFields
  <1>9. CASE Notify(p) \/ NoNotify(p)
    <2>1. clock \in Nat /\ CommandDue(p) \in BOOLEAN
      BY DEF TypeOK, CommandDue
    <2>2. PICK b \in BOOLEAN : job' = [job EXCEPT ![p].stamp = clock, ![p].sent = b]
      BY <1>9, <2>1 DEF Notify, NoNotify
    <2> QED
      BY <1>0, <2>1, <2>2, JobFields
  <1> QED
    BY <1>1, <1>2, <1>3, <1>4, <1>5, <1>6, <1>7, <1>8, <1>9
    DEF Step, Progress, Command

(* One invocation's step leaves the others, the options and the clock alone.*)
LEMMA OthersStep ==
  ASSUME TypeOK, NEW p \in Procs, Step(p)
  PROVE  /\ options' = options /\ clock' = clock
         /\ \A q \in Procs \ {p} : pc'[q] = pc[q] /\ mem'[q] = mem[q] /\ job'[q] = job[q]
  <1> USE DEF TypeOK
  <1>1. CASE Launch(p) \/ Acquire(p) \/ SelectNone(p) \/ SelectChecks(p)
    BY <1>1 DEF Launch, Acquire, SelectNone, SelectChecks, Goto
  <1>2. CASE GiveUp(p) \/ Leave(p) \/ Crash(p)
    BY <1>2 DEF GiveUp, Leave, Crash, Exit
  <1>3. CASE StartCheck(p) \/ EndLoop(p) \/ RetryCheck(p) \/ FinishCheck(p) \/ NoAttempt(p)
    BY <1>3 DEF StartCheck, EndLoop, RetryCheck, FinishCheck, NoAttempt, Goto
  <1>4. CASE Notify(p) \/ NoNotify(p) \/ NotifyRaises(p)
    BY <1>4 DEF Notify, NoNotify, NotifyRaises, Goto
  <1>5. CASE PushAndStore(p) \/ KumaRaises(p) \/ Save(p) \/ SaveFails(p)
    BY <1>5 DEF PushAndStore, KumaRaises, Save, SaveFails, Goto
  <1> QED
    BY <1>1, <1>2, <1>3, <1>4, <1>5 DEF Step, Progress, Command

(* The state file changes in Save only, and the loaded map when it is      *)
(* loaded, when an entry is stored, and when the invocation goes.          *)
LEMMA FilesStep ==
  ASSUME NEW p \in Procs, Step(p)
  PROVE  /\ ~Save(p) => disk' = disk
         /\ ~(Launch(p) \/ Acquire(p) \/ PushAndStore(p) \/ GiveUp(p) \/ Leave(p) \/ Crash(p))
              => mem' = mem
  <1>1. CASE Launch(p) \/ Acquire(p) \/ SelectNone(p) \/ SelectChecks(p) \/ GiveUp(p)
    BY <1>1 DEF Launch, Acquire, SelectNone, SelectChecks, GiveUp
  <1>2. CASE StartCheck(p) \/ EndLoop(p) \/ RetryCheck(p) \/ FinishCheck(p) \/ NoAttempt(p)
    BY <1>2 DEF StartCheck, EndLoop, RetryCheck, FinishCheck, NoAttempt
  <1>3. CASE Notify(p) \/ NoNotify(p) \/ NotifyRaises(p) \/ PushAndStore(p) \/ KumaRaises(p)
    BY <1>3 DEF Notify, NoNotify, NotifyRaises, PushAndStore, KumaRaises
  <1>4. CASE Save(p) \/ SaveFails(p) \/ Leave(p) \/ Crash(p)
    BY <1>4 DEF Save, SaveFails, Leave, Crash
  <1> QED
    BY <1>1, <1>2, <1>3, <1>4 DEF Step, Progress, Command

(* What PushAndStore leaves in the loaded map. *)
LEMMA PushStep ==
  ASSUME TypeOK, CurIsTaken, NEW p \in Procs, PushAndStore(p)
  PROVE  /\ Cur(p) \in Sections
         /\ mem' \in [Procs -> [Sections -> EntryType]]
         /\ mem'[p][Cur(p)].lastRun = job[p].stamp
         /\ \A s \in Sections \ {Cur(p)} : mem'[p][s] = mem[p][s]
  <1>1. pc[p] = "kuma" /\ Cur(p) \in Sections
    BY DEF PushAndStore, Goto, CurIsTaken, OnCheck
  <1>2. /\ Opt(p).policy \in PolicyType /\ Previous(p) \in EntryType
        /\ job[p].res \in ResultType /\ job[p].stamp \in Nat /\ job[p].sent \in BOOLEAN
    BY <1>1 DEF TypeOK, OptionType, Opt, Previous, JobType
  <1> DEFINE x == NewEntry(Opt(p).policy, Previous(p), job[p].res, job[p].stamp, job[p].sent)
  <1>3. x \in EntryType /\ x.lastRun = job[p].stamp
    BY <1>2, NewEntryType
  <1>4. mem' = [mem EXCEPT ![p][Cur(p)] = x]
    BY DEF PushAndStore
  <1> HIDE DEF x
  <1> QED
    BY <1>1, <1>3, <1>4 DEF TypeOK

(* Types are preserved by every step. *)
LEMMA TypeStep ==
  ASSUME TypeOK, CurIsTaken, NEW p \in Procs, Step(p)
  PROVE  TypeOK'
  <1>1. options' \in OptionType /\ clock' \in Nat /\ job' \in [Procs -> JobType]
    BY OthersStep, JobStep DEF TypeOK
  <1>2. disk' \in [Sections -> EntryType]
    BY FilesStep DEF TypeOK, Save
  <1>3. mem' \in [Procs -> [Sections -> EntryType]]
    <2>1. CASE Launch(p) \/ Acquire(p) \/ GiveUp(p) \/ Leave(p) \/ Crash(p)
      BY <2>1, EmptyStateType DEF TypeOK, Launch, Acquire, GiveUp, Leave, Crash, Exit
    <2>2. CASE PushAndStore(p)
      BY <2>2, PushStep
    <2> QED
      BY <2>1, <2>2, FilesStep DEF TypeOK
  <1>4. pc' \in [Procs -> Labels] /\ holder' \in Procs \cup {NoProc}
    <2> USE DEF TypeOK, Labels, Goto
    <2>1. CASE Launch(p) \/ Acquire(p) \/ SelectNone(p) \/ SelectChecks(p)
      BY <2>1 DEF Launch, Acquire, SelectNone, SelectChecks
    <2>2. CASE GiveUp(p) \/ Leave(p) \/ Crash(p)
      BY <2>2 DEF GiveUp, Leave, Crash, Exit
    <2>3. CASE StartCheck(p) \/ EndLoop(p) \/ RetryCheck(p) \/ FinishCheck(p) \/ NoAttempt(p)
      BY <2>3 DEF StartCheck, EndLoop, RetryCheck, FinishCheck, NoAttempt
    <2>4. CASE Notify(p) \/ NoNotify(p) \/ NotifyRaises(p)
      BY <2>4 DEF Notify, NoNotify, NotifyRaises
    <2>5. CASE PushAndStore(p) \/ KumaRaises(p) \/ Save(p) \/ SaveFails(p)
      BY <2>5 DEF PushAndStore, KumaRaises, Save, SaveFails
    <2> QED
      BY <2>1, <2>2, <2>3, <2>4, <2>5 DEF Step, Progress, Command
  <1>5. seen' \in [Procs -> SUBSET Statuses] /\ ahead' \in [Sections -> SUBSET Sections]
    <2> USE DEF TypeOK, history
    <2>1. CASE FinishCheck(p)
      BY <2>1, RunnerConstants DEF FinishCheck, ResultType
    <2>2. CASE Save(p)
      <3>1. Cur(p) \in Sections
        BY <2>2 DEF Save, Goto, CurIsTaken, OnCheck
      <3> QED
        BY <2>2, <3>1 DEF Save, Ahead
    <2>3. CASE GiveUp(p) \/ Leave(p) \/ Crash(p)
      BY <2>3 DEF GiveUp, Leave, Crash, Exit
    <2>4. CASE Launch(p) \/ Acquire(p) \/ SelectNone(p) \/ SelectChecks(p)
      BY <2>4 DEF Launch, Acquire, SelectNone, SelectChecks
    <2>5. CASE StartCheck(p) \/ EndLoop(p) \/ RetryCheck(p) \/ NoAttempt(p)
      BY <2>5 DEF StartCheck, EndLoop, RetryCheck, NoAttempt
    <2>6. CASE Notify(p) \/ NoNotify(p) \/ NotifyRaises(p)
               \/ PushAndStore(p) \/ KumaRaises(p) \/ SaveFails(p)
      BY <2>6 DEF Notify, NoNotify, NotifyRaises, PushAndStore, KumaRaises, SaveFails
    <2> QED
      BY <2>1, <2>2, <2>3, <2>4, <2>5, <2>6 DEF Step, Progress, Command
  <1> QED
    BY <1>1, <1>2, <1>3, <1>4, <1>5 DEF TypeOK

Gone(p) == GiveUp(p) \/ Leave(p) \/ Crash(p)

(* Which of the locals each step changes, and how. *)
LEMMA LocalsStep ==
  ASSUME TypeOK, NEW p \in Procs, Step(p)
  PROVE  /\ Launch(p) => job'[p].launch.dryRun = (pc'[p] = "select")
         /\ ~(Launch(p) \/ Gone(p)) => job'[p].launch = job[p].launch
         /\ ~(Launch(p) \/ Gone(p) \/ SelectChecks(p)) => job'[p].began = job[p].began
         /\ ~(Launch(p) \/ Gone(p) \/ SelectChecks(p) \/ StartCheck(p))
              => job'[p].todo = job[p].todo /\ job'[p].cur = job[p].cur
         /\ SelectChecks(p) => job'[p].todo = Selected(p) /\ job'[p].began = clock
         /\ StartCheck(p) => \E s \in job[p].todo :
                              job'[p].cur = s /\ job'[p].todo = job[p].todo \ {s}
         /\ Notify(p) \/ NoNotify(p) => job'[p].stamp = clock
         /\ PushAndStore(p) => job'[p].stamp = job[p].stamp
  <1>0. job \in [Procs -> JobType] /\ pc \in [Procs -> Labels] /\ job[p] \in JobType
    BY DEF TypeOK
  <1> USE <1>0 DEF JobType
  <1>1. CASE Launch(p)
    <2>1. PICK l \in Launches[p] : /\ Goto(p, "idle", IF l.dryRun THEN "select" ELSE "wait")
                                   /\ job' = [job EXCEPT ![p] = NewJob(l)]
      BY <1>1 DEF Launch
    <2>2. l.dryRun \in BOOLEAN
      BY RunnerConstants DEF LaunchType
    <2>3. job'[p].launch = l
      BY <2>1 DEF NewJob
    <2>4. pc'[p] = "select" <=> l.dryRun
      BY <2>1, <2>2 DEF Goto
    <2>5. ~(SelectChecks(p) \/ StartCheck(p) \/ Notify(p) \/ NoNotify(p) \/ PushAndStore(p))
      BY <2>1 DEF Goto, SelectChecks, StartCheck, Notify, NoNotify, PushAndStore
    <2> QED
      BY <1>1, <2>2, <2>3, <2>4, <2>5
  <1>2. CASE Gone(p)
    <2>1. pc'[p] = "idle"
      BY <1>2 DEF Gone, GiveUp, Leave, Crash, Exit
    <2>2. ~(SelectChecks(p) \/ StartCheck(p) \/ Notify(p) \/ NoNotify(p) \/ PushAndStore(p)
            \/ Launch(p))
      BY <2>1 DEF Goto, SelectChecks, StartCheck, Notify, NoNotify, PushAndStore, Launch
    <2> QED
      BY <1>2, <2>2
  <1>3. CASE SelectChecks(p)
    <2>1. ~(Launch(p) \/ StartCheck(p) \/ Notify(p) \/ NoNotify(p) \/ PushAndStore(p))
      BY <1>3 DEF Goto, SelectChecks, StartCheck, Notify, NoNotify, PushAndStore, Launch
    <2>2. /\ job'[p].todo = Selected(p) /\ job'[p].began = clock
          /\ job'[p].launch = job[p].launch
      BY <1>3 DEF SelectChecks
    <2> QED
      BY <1>3, <2>1, <2>2
  <1>4. CASE StartCheck(p)
    <2>1. ~(Launch(p) \/ SelectChecks(p) \/ Notify(p) \/ NoNotify(p) \/ PushAndStore(p))
      BY <1>4 DEF Goto, SelectChecks, StartCheck, Notify, NoNotify, PushAndStore, Launch
    <2>2. /\ job'[p].launch = job[p].launch /\ job'[p].began = job[p].began
          /\ \E s \in job[p].todo : job'[p].cur = s /\ job'[p].todo = job[p].todo \ {s}
      BY <1>4 DEF StartCheck, IsFirst
    <2> QED
      BY <1>4, <2>1, <2>2
  <1>5. CASE Notify(p) \/ NoNotify(p)
    <2>1. ~(Launch(p) \/ SelectChecks(p) \/ StartCheck(p) \/ PushAndStore(p))
      BY <1>5 DEF Goto, SelectChecks, StartCheck, Notify, NoNotify, PushAndStore, Launch
    <2>2. /\ job'[p].launch = job[p].launch /\ job'[p].began = job[p].began
          /\ job'[p].todo = job[p].todo /\ job'[p].cur = job[p].cur /\ job'[p].stamp = clock
      BY <1>5 DEF Notify, NoNotify
    <2> QED
      BY <2>1, <2>2
  <1>6. CASE ~(Launch(p) \/ Gone(p) \/ SelectChecks(p) \/ StartCheck(p) \/ Notify(p) \/ NoNotify(p))
    <2>1. /\ job'[p].launch = job[p].launch /\ job'[p].began = job[p].began
          /\ job'[p].todo = job[p].todo /\ job'[p].cur = job[p].cur
          /\ PushAndStore(p) => job'[p].stamp = job[p].stamp
      <3>1. CASE Acquire(p) \/ PushAndStore(p) \/ Save(p)
        BY <3>1 DEF Acquire, PushAndStore, Save
      <3>2. CASE RetryCheck(p)
        BY <3>2 DEF RetryCheck, PushAndStore
      <3>3. CASE FinishCheck(p)
        BY <3>3 DEF FinishCheck, PushAndStore
      <3>4. CASE SelectNone(p) \/ EndLoop(p) \/ NoAttempt(p) \/ NotifyRaises(p)
                 \/ KumaRaises(p) \/ SaveFails(p)
        <4>1. PICK c : job' = [job EXCEPT ![p].exit = c]
          BY <3>4 DEF SelectNone, EndLoop, NoAttempt, NotifyRaises, KumaRaises, SaveFails
        <4> QED
          BY <4>1 DEF PushAndStore
      <3> QED
        BY <1>6, <3>1, <3>2, <3>3, <3>4 DEF Step, Progress, Command, Gone
    <2> QED
      BY <1>6, <2>1
  <1> QED
    BY <1>1, <1>2, <1>3, <1>4, <1>5, <1>6

(* Where each step starts and ends. *)
LEMMA PcStep ==
  ASSUME TypeOK, NEW p \in Procs, Step(p)
  PROVE  /\ Launch(p) => pc[p] = "idle" /\ pc'[p] \in {"wait", "select"}
         /\ Gone(p) => pc'[p] = "idle"
         /\ Acquire(p) => pc[p] = "wait" /\ pc'[p] = "select"
         /\ SelectChecks(p) => pc[p] = "select" /\ pc'[p] = "next"
         /\ StartCheck(p) => pc[p] = "next" /\ pc'[p] = "check"
         /\ RetryCheck(p) => pc[p] = "check" /\ pc'[p] = "check"
         /\ FinishCheck(p) => pc[p] = "check" /\ pc'[p] = "notify"
         /\ Notify(p) \/ NoNotify(p) => pc[p] = "notify" /\ pc'[p] = "kuma"
         /\ PushAndStore(p) => pc[p] = "kuma" /\ pc'[p] = IF IsDry(p) THEN "next" ELSE "save"
         /\ Save(p) => pc[p] = "save" /\ pc'[p] = "next"
         /\ SelectNone(p) \/ EndLoop(p) \/ NoAttempt(p) \/ NotifyRaises(p) \/ KumaRaises(p)
              \/ SaveFails(p) => pc[p] \in Inside /\ pc'[p] = "leave"
  <1> USE DEF TypeOK, Goto, Inside, Labels
  <1>1. /\ Launch(p) => pc[p] = "idle" /\ pc'[p] \in {"wait", "select"}
        /\ Gone(p) => pc'[p] = "idle"
        /\ Acquire(p) => pc[p] = "wait" /\ pc'[p] = "select"
        /\ SelectChecks(p) => pc[p] = "select" /\ pc'[p] = "next"
        /\ StartCheck(p) => pc[p] = "next" /\ pc'[p] = "check"
    BY DEF Launch, Gone, GiveUp, Leave, Crash, Exit, Acquire, SelectChecks, StartCheck
  <1>2. /\ RetryCheck(p) => pc[p] = "check" /\ pc'[p] = "check"
        /\ FinishCheck(p) => pc[p] = "check" /\ pc'[p] = "notify"
        /\ Notify(p) \/ NoNotify(p) => pc[p] = "notify" /\ pc'[p] = "kuma"
        /\ PushAndStore(p) => pc[p] = "kuma" /\ pc'[p] = IF IsDry(p) THEN "next" ELSE "save"
        /\ Save(p) => pc[p] = "save" /\ pc'[p] = "next"
    BY DEF RetryCheck, FinishCheck, Notify, NoNotify, PushAndStore, Save
  <1>3. SelectNone(p) \/ EndLoop(p) \/ NoAttempt(p) \/ NotifyRaises(p) \/ KumaRaises(p)
          \/ SaveFails(p) => pc[p] \in Inside /\ pc'[p] = "leave"
    BY DEF SelectNone, EndLoop, NoAttempt, NotifyRaises, KumaRaises, SaveFails
  <1> QED
    BY <1>1, <1>2, <1>3

(* Every step keeps the lock with the invocation that is past it. *)
LEMMA LockStep ==
  ASSUME TypeOK, LockIsHeld, NEW p \in Procs, Step(p)
  PROVE  LockIsHeld'
  <1> DEFINE Locked(q) ==
        /\ holder = q <=> (pc[q] \in Inside /\ ~IsDry(q))
        /\ pc[q] \in {"wait", "save"} => ~IsDry(q)
  <1>0. \A q \in Procs : Locked(q) /\ q # NoProc
    BY RunnerConstants DEF LockIsHeld
  <1>1. \A q \in Procs \ {p} : pc'[q] = pc[q] /\ IsDry(q)' = IsDry(q)
    BY OthersStep DEF IsDry
  <1>2. CASE Launch(p)
    <2>1. holder' = holder /\ pc[p] = "idle" /\ pc'[p] \in {"wait", "select"}
      BY <1>2, PcStep DEF Launch
    <2>2. job'[p].launch.dryRun = (pc'[p] = "select")
      BY <1>2, LocalsStep
    <2>3. Locked(p)'
      BY <1>0, <2>1, <2>2 DEF IsDry, Inside
    <2> QED
      BY <1>0, <1>1, <2>1, <2>3 DEF LockIsHeld
  <1>3. CASE Acquire(p)
    <2>1. holder = NoProc /\ holder' = p /\ pc'[p] = "select" /\ pc[p] = "wait"
      BY <1>3, PcStep DEF Acquire
    <2>2. IsDry(p)' = IsDry(p)
      BY <1>3, <2>1, PcStep, LocalsStep DEF IsDry
    <2> QED
      BY <1>0, <1>1, <2>1, <2>2 DEF LockIsHeld, Inside, Labels
  <1>4. CASE Gone(p)
    <2>1. pc'[p] = "idle"
      BY <1>4, PcStep
    <2>2. holder' = IF holder = p THEN NoProc ELSE holder
      <3>1. CASE GiveUp(p)
        BY <1>0, <3>1 DEF GiveUp, Inside
      <3> QED
        BY <1>4, <3>1 DEF Gone, Leave, Crash
    <2> QED
      BY <1>0, <1>1, <2>1, <2>2 DEF LockIsHeld, Inside
  <1>5. CASE ~(Launch(p) \/ Acquire(p) \/ Gone(p))
    <2>1. holder' = holder
      BY <1>5 DEF Step, Progress, Command, Gone, SelectNone, SelectChecks, StartCheck,
                  EndLoop, RetryCheck, FinishCheck, NoAttempt, NoNotify, PushAndStore,
                  KumaRaises, Save, SaveFails, Notify, NotifyRaises
    <2>2. IsDry(p)' = IsDry(p)
      BY <1>5, LocalsStep DEF IsDry
    <2>3. /\ pc[p] \in Inside /\ pc'[p] \in Inside
          /\ pc'[p] \in {"wait", "save"} => ~IsDry(p)
      BY <1>0, <1>5, PcStep DEF Step, Progress, Command, Gone, Inside, Labels
    <2> QED
      BY <1>0, <1>1, <2>1, <2>2, <2>3 DEF LockIsHeld
  <1> QED
    BY <1>2, <1>3, <1>4, <1>5

(* StartCheck takes a section off the list, and no step puts one on it. *)
LEMMA CurStep ==
  ASSUME TypeOK, CurIsTaken, NEW p \in Procs, Step(p)
  PROVE  CurIsTaken'
  <1>1. \A q \in Procs \ {p} : pc'[q] = pc[q] /\ job'[q] = job[q]
    BY OthersStep
  <1>2. pc'[p] \in OnCheck => Cur(p)' \in Sections /\ Cur(p)' \notin job'[p].todo
    <2>1. CASE StartCheck(p)
      <3>1. job[p].todo \in SUBSET Sections
        BY DEF TypeOK, JobType
      <3> QED
        BY <2>1, <3>1, LocalsStep DEF Cur
    <2>2. CASE RetryCheck(p) \/ FinishCheck(p) \/ Notify(p) \/ NoNotify(p) \/ PushAndStore(p)
      <3>1. /\ pc[p] \in OnCheck
            /\ ~(Launch(p) \/ Gone(p) \/ SelectChecks(p) \/ StartCheck(p))
            \/ pc'[p] \notin OnCheck
        BY <2>2, PcStep DEF OnCheck
      <3> QED
        BY <3>1, LocalsStep DEF CurIsTaken, Cur
    <2>3. CASE ~(StartCheck(p) \/ RetryCheck(p) \/ FinishCheck(p) \/ Notify(p) \/ NoNotify(p)
                 \/ PushAndStore(p))
      BY <2>3, PcStep DEF Step, Progress, Command, Gone, OnCheck
    <2> QED
      BY <2>1, <2>2, <2>3
  <1> QED
    BY <1>1, <1>2 DEF CurIsTaken, Cur

(* While one invocation saves, no other is past the lock. *)
LEMMA SaveAlone ==
  ASSUME LockIsHeld, NEW p \in Procs, pc[p] = "save",
         NEW q \in Procs \ {p}, pc[q] \in Inside
  PROVE  IsDry(q)
  BY DEF LockIsHeld, Inside, Labels

(* Between load and exit the loaded map differs from the file in the entry  *)
(* that is about to be saved, and in no other.                             *)
LEMMA SyncStep ==
  ASSUME TypeOK, LockIsHeld, CurIsTaken, InSync, NEW p \in Procs, Step(p)
  PROVE  InSync'
  <1> DEFINE Sync(q) == \A s \in Sections :
        (pc[q] \in Inside \ {"leave"} /\ ~IsDry(q) /\ mem[q][s] # disk[s])
        => pc[q] = "save" /\ s = Cur(q)
  <1>0. \A q \in Procs : Sync(q)
    BY DEF InSync
  <1>1. ASSUME NEW q \in Procs \ {p} PROVE Sync(q)'
    <2>1. pc'[q] = pc[q] /\ mem'[q] = mem[q] /\ IsDry(q)' = IsDry(q) /\ Cur(q)' = Cur(q)
      BY OthersStep DEF IsDry, Cur
    <2>2. pc[q] \in Inside /\ ~IsDry(q) => disk' = disk
      BY SaveAlone, FilesStep, PcStep
    <2> QED
      BY <1>0, <2>1, <2>2
  <1>2. Sync(p)'
    <2>1. CASE Launch(p)
      <3>1. pc'[p] = "select" => IsDry(p)'
        BY <2>1, LocalsStep DEF IsDry
      <3> QED
        BY <2>1, <3>1, PcStep DEF Inside
    <2>2. CASE Gone(p)
      BY <2>2, PcStep DEF Inside
    <2>3. CASE Acquire(p)
      BY <2>3 DEF Acquire, TypeOK
    <2>4. CASE PushAndStore(p)
      <3>1. pc[p] = "kuma" /\ disk' = disk /\ IsDry(p)' = IsDry(p) /\ Cur(p)' = Cur(p)
        BY <2>4, PcStep, FilesStep, LocalsStep DEF IsDry, Cur, Gone, GiveUp, Leave, Crash,
           PushAndStore, Goto
      <3>2. \A s \in Sections : mem'[p][s] # mem[p][s] => s = Cur(p)
        BY <2>4, PushStep
      <3>3. ~IsDry(p) => pc'[p] = "save"
        BY <2>4, PcStep
      <3> QED
        BY <1>0, <3>1, <3>2, <3>3 DEF Inside, Labels
    <2>5. CASE Save(p)
      BY <2>5 DEF Save
    <2>6. CASE ~(Launch(p) \/ Gone(p) \/ Acquire(p) \/ PushAndStore(p) \/ Save(p))
      <3>1. disk' = disk /\ mem' = mem /\ IsDry(p)' = IsDry(p)
        BY <2>6, FilesStep, LocalsStep DEF Gone, IsDry
      <3>2. \/ pc'[p] = "leave"
            \/ pc[p] \in Inside \ {"leave", "save"}
        BY <2>6, PcStep DEF Step, Progress, Command, Gone, Inside, Labels
      <3> QED
        BY <1>0, <3>1, <3>2
    <2> QED
      BY <2>1, <2>2, <2>3, <2>4, <2>5, <2>6
  <1> QED
    BY <1>1, <1>2 DEF InSync

(* What was due when the loop began stays so until its entry is saved. *)
LEMMA DueStep ==
  ASSUME RInv, NEW p \in Procs, Step(p)
  PROVE  DueAtStart'
  <1> USE DEF RInv
  <1>0. (\A q \in Procs : DueOf(q)) /\ options' = options /\ clock' = clock
    BY OthersStep DEF DueAtStart
  <1>1. ASSUME NEW q \in Procs \ {p} PROVE DueOf(q)'
    <2>1. pc'[q] = pc[q] /\ mem'[q] = mem[q] /\ job'[q] = job[q]
      BY OthersStep
    <2>2. pc[q] = "save" => disk' = disk
      BY SaveAlone, FilesStep, PcStep DEF LockIsHeld, Inside, Labels
    <2> QED
      BY <1>0, <2>1, <2>2 DEF DueOf, WasDue, Previous, Cur
  <1>2. DueOf(p)'
    <2>1. CASE Launch(p) \/ Acquire(p) \/ Gone(p) \/ SelectNone(p) \/ EndLoop(p)
               \/ NoAttempt(p) \/ NotifyRaises(p) \/ KumaRaises(p) \/ SaveFails(p)
      BY <2>1, PcStep DEF DueOf, Looping
    <2>2. CASE SelectChecks(p)
      <3>1. /\ pc'[p] = "next" /\ mem' = mem /\ job'[p].launch = job[p].launch
            /\ job'[p].todo = Selected(p) /\ job'[p].began = clock /\ clock \in Nat
        BY <2>2, PcStep, LocalsStep DEF SelectChecks, Goto, Launch, Gone, GiveUp, Leave, Crash,
           Exit, TypeOK
      <3> QED
        BY <1>0, <3>1 DEF DueOf, Selected, WasDue
    <2>3. CASE StartCheck(p)
      <3>1. /\ pc[p] = "next" /\ pc'[p] = "check" /\ mem' = mem
            /\ job'[p].launch = job[p].launch /\ job'[p].began = job[p].began
        BY <2>3, PcStep, LocalsStep DEF StartCheck
      <3>2. job'[p].todo \subseteq job[p].todo /\ job'[p].cur \in job[p].todo
        BY <2>3, LocalsStep
      <3> QED
        BY <1>0, <3>1, <3>2 DEF DueOf, WasDue, Previous, Cur, Looping
    <2>4. CASE RetryCheck(p) \/ FinishCheck(p) \/ Notify(p) \/ NoNotify(p)
      <3>1. /\ job'[p].launch = job[p].launch /\ job'[p].began = job[p].began
            /\ job'[p].todo = job[p].todo /\ job'[p].cur = job[p].cur
            /\ pc[p] \in {"check", "notify"} /\ pc'[p] \in {"check", "notify", "kuma"}
            /\ mem' = mem
        BY <2>4, PcStep, LocalsStep DEF RetryCheck, FinishCheck, Notify, NoNotify
      <3>2. pc'[p] = "kuma" => job'[p].stamp = clock
        BY <2>4, PcStep, LocalsStep
      <3> QED
        BY <1>0, <3>1, <3>2 DEF DueOf, WasDue, Previous, Cur, Looping, TypeOK
    <2>5. CASE PushAndStore(p)
      <3>1. /\ job'[p].launch = job[p].launch /\ job'[p].began = job[p].began
            /\ job'[p].todo = job[p].todo /\ job'[p].cur = job[p].cur
            /\ pc[p] = "kuma" /\ pc'[p] = (IF IsDry(p) THEN "next" ELSE "save")
            /\ disk' = disk
        BY <2>5, PcStep, LocalsStep, FilesStep
        DEF PushAndStore, Goto, Launch, Gone, GiveUp, Leave, Crash, Exit
      <3>2. /\ Cur(p) \in Sections /\ mem'[p][Cur(p)].lastRun = job[p].stamp
            /\ \A s \in Sections \ {Cur(p)} : mem'[p][s] = mem[p][s]
        BY <2>5, PushStep
      <3>3. job[p].stamp \in Nat /\ job[p].todo \subseteq Sections /\ Cur(p) \notin job[p].todo
        BY <3>1 DEF TypeOK, JobType, CurIsTaken, OnCheck
      <3>4. ~IsDry(p) => Previous(p) = disk[Cur(p)]
        BY <3>1, <3>2 DEF InSync, Inside, Labels, Previous
      <3> QED
        BY <1>0, <3>1, <3>2, <3>3, <3>4 DEF DueOf, WasDue, Previous, Cur, Looping
    <2>6. CASE Save(p)
      <3>1. /\ pc[p] = "save" /\ pc'[p] = "next" /\ mem' = mem /\ job' = job
        BY <2>6, PcStep DEF Save
      <3> QED
        BY <1>0, <3>1 DEF DueOf, WasDue, Looping
    <2> QED
      BY <2>1, <2>2, <2>3, <2>4, <2>5, <2>6 DEF Step, Progress, Command, Gone
  <1> QED
    BY <1>1, <1>2 DEF DueAtStart

-----------------------------------------------------------------------------
THEOREM InitRInv == Init => RInv
  <1> SUFFICES ASSUME Init PROVE RInv
    OBVIOUS
  <1>1. TypeOK
    BY TypeInit
  <1>2. \A p \in Procs : pc[p] = "idle" /\ holder # p
    BY RunnerConstants DEF Init
  <1> QED
    BY <1>1, <1>2 DEF RInv, LockIsHeld, CurIsTaken, InSync, DueAtStart, DueOf, Inside,
                      OnCheck, Looping

THEOREM StepRInv == RInv /\ [Next]_vars => RInv'
  <1> SUFFICES ASSUME RInv, [Next]_vars PROVE RInv'
    OBVIOUS
  <1>1. ASSUME NEW p \in Procs, Step(p) PROVE RInv'
    BY <1>1, TypeStep, LockStep, CurStep, SyncStep, DueStep DEF RInv
  <1>2. CASE Tick
    <2>1. clock \in Nat /\ clock' = clock + 1
      BY <1>2 DEF RInv, TypeOK, Tick
    <2>2. TypeOK' /\ LockIsHeld' /\ CurIsTaken' /\ InSync'
      BY <1>2, <2>1 DEF RInv, Tick, TypeOK, LockIsHeld, CurIsTaken, InSync, IsDry, Cur, history
    <2>3. DueAtStart'
      <3>1. \A p \in Procs : job[p].began \in Nat
        BY DEF RInv, TypeOK, JobType
      <3> QED
        BY <1>2, <2>1, <3>1 DEF RInv, Tick, DueAtStart, DueOf, WasDue, Previous, Cur
    <2> QED
      BY <2>2, <2>3 DEF RInv
  <1>3. CASE UNCHANGED vars
    BY <1>3 DEF vars, history, RInv, TypeOK, LockIsHeld, CurIsTaken, InSync, IsDry, Cur,
                DueAtStart, DueOf, WasDue, Previous
  <1> QED
    BY <1>1, <1>2, <1>3 DEF Next, Step

(* The lock, the invocations' copies of the state, the file and the        *)
(* schedule fit together in every reachable state (runner.run).            *)
THEOREM RunnerInvariant == Spec => []RInv
  BY InitRInv, StepRInv, PTL DEF Spec

(* Every variable keeps its type. *)
THEOREM TypeCorrect == Spec => []TypeOK
  <1>1. RInv => TypeOK
    BY DEF RInv
  <1> QED
    BY <1>1, RunnerInvariant, PTL

(* Killed at any point, an invocation loses one check at most. *)
THEOREM OneCheckIsLost == Spec => []CrashLosesOneCheck
  <1>1. RInv => CrashLosesOneCheck
    BY DEF RInv, InSync, CrashLosesOneCheck, Inside, Labels, Looping
  <1> QED
    BY <1>1, RunnerInvariant, PTL

(* A section whose entry does not change becomes due at the time shown. *)
THEOREM ScheduleTable == Spec => []ScheduleTableIsRight
  <1>1. TypeOK => ScheduleTableIsRight
    <2> SUFFICES ASSUME TypeOK, NEW s \in Sections, NEW t \in 0 .. 2 * MaxClock,
                        disk[s].lastRun # Never, options[s].interval > 0
                 PROVE  IsDue(disk[s].lastRun, options[s].interval, t)
                          <=> t >= NextDueAt(disk[s].lastRun, options[s].interval)
      BY DEF ScheduleTableIsRight
    <2>1. disk[s].lastRun \in Nat /\ options[s].interval \in Nat \ {0} /\ t \in Nat
      BY RunnerConstants DEF TypeOK, EntryType, OptionType
    <2> QED
      BY <2>1, NextDueIsFirstDue
  <1> QED
    BY <1>1, TypeCorrect, PTL

(* Only its own Save brings an invocation from save to next. *)
LEMMA SaveMoves ==
  ASSUME TypeOK, [Next]_vars, NEW p \in Procs, pc[p] = "save", pc'[p] = "next"
  PROVE  Save(p)
  <1>1. ASSUME NEW q \in Procs, Step(q) PROVE Save(p)
    <2>1. q = p
      BY <1>1, OthersStep
    <2> QED
      BY <1>1, <2>1, PcStep DEF Step, Progress, Command, Gone
  <1>2. ~Tick /\ ~UNCHANGED vars
    BY DEF Tick, vars
  <1> QED
    BY <1>1, <1>2 DEF Next, Step

(* The schedule runs a section on record once in an interval bucket. *)
LEMMA SlotStep == RInv /\ [Next]_vars =>
  \A p \in Procs :
    LET s == Cur(p) i == Opt(p).interval IN
    (/\ pc[p] = "save" /\ pc'[p] = "next"
     /\ job[p].launch.mode = "due" /\ i > 0 /\ disk[s].lastRun # Never)
    => Slot(disk'[s].lastRun, i) > Slot(disk[s].lastRun, i)
  <1> SUFFICES ASSUME RInv, [Next]_vars, NEW p \in Procs,
                      pc[p] = "save", pc'[p] = "next", job[p].launch.mode = "due",
                      Opt(p).interval > 0, disk[Cur(p)].lastRun # Never
               PROVE  Slot(disk'[Cur(p)].lastRun, Opt(p).interval)
                        > Slot(disk[Cur(p)].lastRun, Opt(p).interval)
    OBVIOUS
  <1> DEFINE i == Opt(p).interval
             last == disk[Cur(p)].lastRun
             new == Previous(p).lastRun
  <1>1. Cur(p) \in Sections
    BY DEF RInv, CurIsTaken, OnCheck
  <1>2. i \in Nat \ {0} /\ last \in Nat /\ job[p].began \in Nat
    BY <1>1 DEF RInv, TypeOK, OptionType, Opt, EntryType, JobType
  <1>3. IsDue(last, i, job[p].began) /\ new \in Nat /\ new >= job[p].began
    BY DEF RInv, DueAtStart, DueOf, WasDue, Looping, Opt
  <1>4. Slot(job[p].began, i) > Slot(last, i)
    BY <1>2, <1>3, DueMeansLater
  <1>5. Slot(new, i) >= Slot(job[p].began, i)
    BY <1>2, <1>3, SlotMonotone
  <1>6. disk'[Cur(p)].lastRun = new
    BY SaveMoves DEF RInv, Save, Previous
  <1>7. Slot(new, i) \in Nat /\ Slot(job[p].began, i) \in Nat /\ Slot(last, i) \in Nat
    BY <1>2, <1>3, SlotBounds
  <1> HIDE DEF i, last, new
  <1>8. Slot(new, i) > Slot(last, i)
    BY <1>4, <1>5, <1>7
  <1> QED
    BY <1>6, <1>8 DEF i, last, new

(* Scheduled runs of a section on record fall in different buckets. *)
THEOREM OnePerSlot == Spec => OneRunPerSlot
  BY RunnerInvariant, SlotStep, PTL DEF Spec, OneRunPerSlot

-----------------------------------------------------------------------------
Failing == {"CRIT", "UNKNOWN"}

(* worst_status fails exactly when a check of the invocation did. *)
WorstIsSeen ==
  \A p \in Procs :
    /\ job[p].worst \in Failing <=> seen[p] \cap Failing # {}
    /\ pc[p] = "idle" => seen[p] = {}

(* The stamp an invocation is about to record is no older than any on      *)
(* record.                                                                 *)
StampOf(p) ==
  ~IsDry(p) =>
    /\ pc[p] = "kuma" =>
         job[p].stamp <= clock /\ \A s \in Sections : disk[s].lastRun <= job[p].stamp
    /\ pc[p] = "save" =>
         Previous(p).lastRun <= clock /\ \A s \in Sections : disk[s].lastRun <= Previous(p).lastRun

StampIsLatest ==
  /\ \A s \in Sections : disk[s].lastRun <= clock
  /\ \A p \in Procs : StampOf(p)

(* What was recorded ahead of a waiting section carries a later stamp, or, *)
(* if the section has no interval, perhaps the same.                       *)
IsLater(c, s) ==
  /\ disk[s].lastRun <= disk[c].lastRun
  /\ options[s].interval > 0 => disk[s].lastRun < disk[c].lastRun

AheadIsLater == \A s \in Sections : \A c \in ahead[s] : IsLater(c, s)

HInv == RInv /\ WorstIsSeen /\ StampIsLatest /\ AheadIsLater

(* Which steps change the worst status and what the history variables note.*)
LEMMA HistoryStep ==
  ASSUME TypeOK, NEW p \in Procs, Step(p)
  PROVE  /\ \A q \in Procs \ {p} : seen'[q] = seen[q]
         /\ Gone(p) => seen'[p] = {} /\ job'[p].worst = "OK"
         /\ Launch(p) => seen'[p] = seen[p] /\ job'[p].worst = "OK"
         /\ FinishCheck(p) => \E res \in Results :
              /\ job'[p].worst = WorstStatus(job[p].worst, res)
              /\ seen'[p] = seen[p] \cup {res.status}
         /\ ~(Gone(p) \/ Launch(p) \/ FinishCheck(p))
              => seen'[p] = seen[p] /\ job'[p].worst = job[p].worst
         /\ ~Save(p) => ahead' = ahead
  <1>0. job \in [Procs -> JobType] /\ job[p] \in JobType /\ seen \in [Procs -> SUBSET Statuses]
    BY DEF TypeOK
  <1> USE <1>0 DEF JobType, history
  <1>1. CASE Gone(p)
    <2>1. /\ seen' = [seen EXCEPT ![p] = {}] /\ job' = [job EXCEPT ![p] = NoJob]
          /\ ahead' = ahead /\ pc'[p] = "idle"
      BY <1>1 DEF Gone, GiveUp, Leave, Crash, Exit, TypeOK
    <2>2. ~Launch(p) /\ ~FinishCheck(p)
      BY <2>1 DEF Launch, FinishCheck, Goto, TypeOK
    <2> QED
      BY <1>1, <2>1, <2>2 DEF NoJob, NewJob
  <1>2. CASE Launch(p)
    <2>1. /\ seen' = seen /\ ahead' = ahead /\ \E l : job' = [job EXCEPT ![p] = NewJob(l)]
      BY <1>2 DEF Launch
    <2>2. ~Gone(p) /\ ~FinishCheck(p)
      BY <1>2 DEF Launch, FinishCheck, Goto, TypeOK, Gone, GiveUp, Leave, Crash, Exit
    <2> QED
      BY <1>2, <2>1, <2>2 DEF NewJob
  <1>3. CASE FinishCheck(p)
    <2>1. PICK res \in Results :
            /\ job' = [job EXCEPT ![p].res = res, ![p].worst = WorstStatus(@, res)]
            /\ seen' = [seen EXCEPT ![p] = @ \cup {res.status}]
            /\ ahead' = ahead /\ pc'[p] = "notify"
      BY <1>3 DEF FinishCheck, Goto, TypeOK
    <2>2. ~Gone(p) /\ ~Launch(p)
      BY <1>3, <2>1 DEF Launch, FinishCheck, Goto, TypeOK, Gone, GiveUp, Leave, Crash, Exit
    <2> QED
      BY <1>3, <2>1, <2>2
  <1>4. CASE ~(Gone(p) \/ Launch(p) \/ FinishCheck(p))
    <2>1. seen' = seen /\ (~Save(p) => ahead' = ahead)
      BY <1>4 DEF Step, Progress, Command, Gone, Acquire, SelectNone, SelectChecks, StartCheck,
         EndLoop, RetryCheck, NoAttempt, Notify, NoNotify, NotifyRaises, PushAndStore,
         KumaRaises, Save, SaveFails
    <2>2. job'[p].worst = job[p].worst
      <3>1. CASE Acquire(p) \/ PushAndStore(p) \/ Save(p)
        BY <3>1 DEF Acquire, PushAndStore, Save
      <3>2. CASE SelectNone(p) \/ EndLoop(p) \/ NoAttempt(p) \/ NotifyRaises(p)
                 \/ KumaRaises(p) \/ SaveFails(p)
        <4>1. PICK c : job' = [job EXCEPT ![p].exit = c]
          BY <3>2 DEF SelectNone, EndLoop, NoAttempt, NotifyRaises, KumaRaises, SaveFails
        <4> QED
          BY <4>1
      <3>3. CASE SelectChecks(p)
        BY <3>3 DEF SelectChecks
      <3>4. CASE StartCheck(p)
        BY <3>4 DEF StartCheck
      <3>5. CASE RetryCheck(p)
        BY <3>5 DEF RetryCheck
      <3>6. CASE Notify(p) \/ NoNotify(p)
        BY <3>6 DEF Notify, NoNotify
      <3> QED
        BY <1>4, <3>1, <3>2, <3>3, <3>4, <3>5, <3>6 DEF Step, Progress, Command, Gone
    <2> QED
      BY <1>4, <2>1, <2>2
  <1> QED
    BY <1>1, <1>2, <1>3, <1>4

LEMMA WorstStep ==
  ASSUME TypeOK, WorstIsSeen, NEW p \in Procs, Step(p)
  PROVE  WorstIsSeen'
  <1> DEFINE Agree(q) == /\ job[q].worst \in Failing <=> seen[q] \cap Failing # {}
                         /\ pc[q] = "idle" => seen[q] = {}
  <1>0. \A q \in Procs : Agree(q)
    BY DEF WorstIsSeen
  <1>1. \A q \in Procs \ {p} : Agree(q)'
    BY <1>0, OthersStep, HistoryStep
  <1>2. CASE Gone(p) \/ Launch(p)
    <2>1. seen'[p] = {} /\ job'[p].worst = "OK"
      BY <1>0, <1>2, HistoryStep, PcStep
    <2> QED
      BY <1>1, <2>1 DEF WorstIsSeen, Failing
  <1>3. CASE FinishCheck(p)
    <2>1. PICK res \in Results : /\ job'[p].worst = WorstStatus(job[p].worst, res)
                                 /\ seen'[p] = seen[p] \cup {res.status}
      BY <1>3, HistoryStep
    <2>2. pc'[p] # "idle"
      BY <1>3, PcStep
    <2> QED
      BY <1>0, <1>1, <2>1, <2>2 DEF WorstIsSeen, WorstStatus, IsFailing, Failing
  <1>4. CASE ~(Gone(p) \/ Launch(p) \/ FinishCheck(p))
    <2>1. pc'[p] # "idle"
      BY <1>4, PcStep DEF Step, Progress, Command, Gone, Inside
    <2> QED
      BY <1>0, <1>1, <1>4, <2>1, HistoryStep DEF WorstIsSeen
  <1> QED
    BY <1>2, <1>3, <1>4

(* No invocation past the lock works while another one saves, so a saved   *)
(* entry is one section's, and it is stamped now at the latest.            *)
LEMMA SavedEntry ==
  ASSUME RInv, StampIsLatest, NEW p \in Procs, Save(p)
  PROVE  /\ Cur(p) \in Sections /\ ~IsDry(p)
         /\ Previous(p).lastRun \in Nat \cup {Never} /\ Previous(p).lastRun <= clock
         /\ \A s \in Sections : disk[s].lastRun <= Previous(p).lastRun
         /\ disk'[Cur(p)].lastRun = Previous(p).lastRun
         /\ \A s \in Sections \ {Cur(p)} : disk'[s] = disk[s]
  <1>1. pc[p] = "save" /\ disk' = mem[p] /\ Cur(p) \in Sections /\ ~IsDry(p)
    BY DEF Save, Goto, RInv, CurIsTaken, OnCheck, LockIsHeld
  <1>2. \A s \in Sections \ {Cur(p)} : disk'[s] = disk[s]
    BY <1>1 DEF RInv, InSync, Inside, Labels
  <1>3. Previous(p) \in EntryType
    BY <1>1 DEF RInv, TypeOK, Previous
  <1> QED
    BY <1>1, <1>2, <1>3 DEF StampIsLatest, StampOf, Previous, EntryType

LEMMA StampStep ==
  ASSUME RInv, StampIsLatest, NEW p \in Procs, Step(p)
  PROVE  StampIsLatest'
  <1>0. clock' = clock /\ TypeOK /\ LockIsHeld
    BY OthersStep DEF RInv
  <1>1. \A s \in Sections : disk'[s].lastRun <= clock
    <2>1. CASE Save(p)
      BY <2>1, SavedEntry DEF StampIsLatest
    <2>2. CASE ~Save(p)
      BY <2>2, FilesStep DEF StampIsLatest
    <2> QED
      BY <2>1, <2>2
  <1>2. ASSUME NEW q \in Procs \ {p} PROVE StampOf(q)'
    <2>1. pc'[q] = pc[q] /\ mem'[q] = mem[q] /\ job'[q] = job[q]
      BY <1>0, OthersStep
    <2>2. pc[q] \in {"kuma", "save"} /\ ~IsDry(q) => disk' = disk
      BY <1>0, SaveAlone, FilesStep, PcStep DEF Inside, Labels
    <2> QED
      BY <1>0, <2>1, <2>2 DEF StampIsLatest, StampOf, IsDry, Previous, Cur
  <1>3. StampOf(p)'
    <2>1. CASE Notify(p) \/ NoNotify(p)
      <3>1. pc'[p] = "kuma" /\ job'[p].stamp = clock /\ clock \in Nat
        BY <1>0, <2>1, PcStep, LocalsStep DEF TypeOK
      <3> QED
        BY <1>0, <1>1, <3>1 DEF StampOf
    <2>2. CASE PushAndStore(p)
      <3>1. /\ pc[p] = "kuma" /\ disk' = disk
            /\ job'[p] = job[p]
        BY <1>0, <2>2, PcStep DEF PushAndStore
      <3>2. pc'[p] # "kuma" /\ (pc'[p] = "save" => ~IsDry(p))
        BY <1>0, <2>2, PcStep
      <3>3. mem'[p][Cur(p)].lastRun = job[p].stamp
        BY <1>0, <2>2, PushStep DEF RInv
      <3> QED
        BY <1>0, <3>1, <3>2, <3>3 DEF StampIsLatest, StampOf, IsDry, Previous, Cur
    <2>3. CASE ~(Notify(p) \/ NoNotify(p) \/ PushAndStore(p))
      <3>1. pc'[p] \notin {"kuma", "save"}
        BY <1>0, <2>3, PcStep DEF Step, Progress, Command, Gone
      <3> QED
        BY <3>1 DEF StampOf
    <2> QED
      BY <2>1, <2>2, <2>3
  <1> QED
    BY <1>0, <1>1, <1>2, <1>3 DEF StampIsLatest

(* Recorded later, a section is behind those that still wait: a scheduled  *)
(* run began after the last run of each that has an interval.              *)
LEMMA AheadStep ==
  ASSUME RInv, StampIsLatest, AheadIsLater, NEW p \in Procs, Step(p)
  PROVE  AheadIsLater'
  <1>0. /\ options' = options /\ TypeOK
        /\ ahead \in [Sections -> SUBSET Sections] /\ disk \in [Sections -> EntryType]
        /\ \A s \in Sections : disk[s].lastRun \in Int
    BY OthersStep DEF RInv, TypeOK, EntryType, Never
  <1>1. CASE Save(p)
    <2> DEFINE c0 == Cur(p)
               new == Previous(p).lastRun
    <2>1. /\ c0 \in Sections /\ ~IsDry(p) /\ new \in Int
          /\ \A s \in Sections : disk[s].lastRun <= new
          /\ disk'[c0].lastRun = new
          /\ \A s \in Sections \ {c0} : disk'[s] = disk[s]
      BY <1>1, SavedEntry DEF Never
    <2>2. ahead' = Ahead(p) /\ pc[p] = "save"
      BY <1>1 DEF Save, Goto
    <2>3. ASSUME NEW s \in Sections \ {c0}, s \in job[p].todo, job[p].launch.mode = "due",
                 options[s].interval > 0
          PROVE  disk[s].lastRun < new
      <3>1. /\ WasDue(p, mem[p][s].lastRun, s) /\ job[p].began \in Nat /\ new >= job[p].began
            /\ options[s].interval \in Nat \ {0}
        BY <2>2, <2>3 DEF RInv, DueAtStart, DueOf, Looping, TypeOK, JobType, OptionType
      <3>2. mem[p][s] = disk[s] /\ disk[s].lastRun \in Nat \cup {Never}
        BY <2>1, <2>2 DEF RInv, InSync, Inside, Labels, TypeOK, EntryType
      <3>3. CASE disk[s].lastRun = Never
        BY <2>1, <3>1, <3>3 DEF Never
      <3>4. CASE disk[s].lastRun \in Nat
        <4>1. job[p].began > disk[s].lastRun
          BY <3>1, <3>2, <3>4, DueMeansLater DEF WasDue
        <4> QED
          BY <2>1, <3>1, <3>4, <4>1
      <3> QED
        BY <3>2, <3>3, <3>4
    <2> HIDE DEF c0, new
    <2>4. ASSUME NEW s \in Sections, NEW c \in ahead'[s] PROVE IsLater(c, s)'
      <3>1. s # c0 /\ c \in Sections
        BY <1>0, <2>1, <2>2, <2>4 DEF Ahead, c0
      <3>2. CASE c \in ahead[s]
        <4>1. IsLater(c, s)
          BY <3>2 DEF AheadIsLater
        <4>2. disk[c].lastRun <= disk'[c].lastRun /\ disk'[c].lastRun \in Int
          BY <1>0, <2>1, <3>1
        <4>3. disk'[s] = disk[s]
          BY <2>1, <3>1
        <4> QED
          BY <1>0, <3>1, <4>1, <4>2, <4>3 DEF IsLater
      <3>3. CASE c \notin ahead[s]
        <4>1. c = c0 /\ s \in job[p].todo /\ job[p].launch.mode = "due"
          BY <2>2, <2>4, <3>1, <3>3 DEF Ahead, c0
        <4>2. options[s].interval > 0 => disk[s].lastRun < new
          BY <2>3, <3>1, <4>1
        <4> QED
          BY <1>0, <2>1, <3>1, <4>1, <4>2 DEF IsLater
      <3> QED
        BY <3>2, <3>3
    <2> QED
      BY <2>4 DEF AheadIsLater
  <1>2. CASE ~Save(p)
    BY <1>0, <1>2, FilesStep, HistoryStep DEF AheadIsLater, IsLater
  <1> QED
    BY <1>1, <1>2

-----------------------------------------------------------------------------
LEMMA InitHInv == Init => HInv
  <1> SUFFICES ASSUME Init PROVE HInv
    OBVIOUS
  <1>1. RInv
    BY InitRInv
  <1>2. /\ \A p \in Procs : pc[p] = "idle" /\ seen[p] = {} /\ job[p].worst = "OK"
        /\ \A s \in Sections : ahead[s] = {} /\ disk[s].lastRun = Never /\ clock = 0
    BY DEF Init, NoJob, NewJob, EmptyState, Fresh
  <1> QED
    BY <1>1, <1>2 DEF HInv, WorstIsSeen, StampIsLatest, StampOf, AheadIsLater, Failing, Never

LEMMA StepHInv == HInv /\ [Next]_vars => HInv'
  <1> SUFFICES ASSUME HInv, [Next]_vars PROVE HInv'
    OBVIOUS
  <1>1. RInv' /\ TypeOK
    BY StepRInv DEF HInv, RInv
  <1>2. ASSUME NEW p \in Procs, Step(p) PROVE HInv'
    BY <1>1, <1>2, WorstStep, StampStep, AheadStep DEF HInv
  <1>3. CASE Tick
    <2>1. /\ clock \in Nat /\ clock' = clock + 1
          /\ \A s \in Sections : disk[s].lastRun \in Int
      BY <1>1, <1>3 DEF Tick, TypeOK, EntryType, Never
    <2>2. /\ disk' = disk /\ pc' = pc /\ mem' = mem /\ job' = job /\ options' = options
          /\ seen' = seen /\ ahead' = ahead
      BY <1>3 DEF Tick, history
    <2>3. \A p \in Procs : /\ job[p].stamp \in Nat
                           /\ pc[p] = "save" => Previous(p).lastRun \in Int
      BY <1>1 DEF HInv, RInv, TypeOK, JobType, EntryType, Never, Previous, CurIsTaken, OnCheck
    <2>4. StampIsLatest'
      BY <2>1, <2>2, <2>3 DEF HInv, StampIsLatest, StampOf, IsDry, Previous, Cur
    <2> QED
      BY <1>1, <2>2, <2>4 DEF HInv, WorstIsSeen, AheadIsLater, IsLater
  <1>4. CASE UNCHANGED vars
    BY <1>1, <1>4 DEF vars, history, HInv, WorstIsSeen, StampIsLatest, StampOf, IsDry, Previous,
                      Cur, AheadIsLater, IsLater
  <1> QED
    BY <1>2, <1>3, <1>4 DEF Next, Step

(* What the invocations report and the order they keep over many runs:     *)
(* worst_status, the stamps of process_result and the order of their saves.*)
THEOREM HistoryInvariant == Spec => []HInv
  BY InitHInv, StepHInv, PTL DEF Spec

(* Only EndLoop leaves from between two checks, with the code of the worst *)
(* status.                                                                 *)
LEMMA ExitStep == HInv /\ [Next]_vars =>
  \A p \in Procs :
    (pc[p] = "next" /\ pc'[p] = "leave")
    => (job'[p].exit = 1 <=> seen[p] \cap {"CRIT", "UNKNOWN"} # {})
  <1> SUFFICES ASSUME HInv, [Next]_vars, NEW p \in Procs, pc[p] = "next", pc'[p] = "leave"
               PROVE  job'[p].exit = 1 <=> seen[p] \cap {"CRIT", "UNKNOWN"} # {}
    OBVIOUS
  <1>0. TypeOK /\ job \in [Procs -> JobType]
    BY DEF HInv, RInv, TypeOK
  <1>1. EndLoop(p)
    <2>1. ASSUME NEW q \in Procs, Step(q) PROVE EndLoop(p)
      <3>1. q = p
        BY <1>0, <2>1, OthersStep
      <3>2. ~(SelectNone(p) \/ NoAttempt(p) \/ NotifyRaises(p) \/ KumaRaises(p) \/ SaveFails(p))
        BY DEF SelectNone, NoAttempt, NotifyRaises, KumaRaises, SaveFails, Goto
      <3> QED
        BY <1>0, <2>1, <3>1, <3>2, PcStep DEF Step, Progress, Command, Gone
    <2>2. ~Tick /\ ~UNCHANGED vars
      BY DEF Tick, vars
    <2> QED
      BY <2>1, <2>2 DEF Next, Step
  <1>2. job'[p].exit = ExitCode(job[p].worst)
    BY <1>0, <1>1 DEF EndLoop, JobType
  <1>3. job[p].worst \in Failing <=> seen[p] \cap Failing # {}
    BY DEF HInv, WorstIsSeen
  <1> QED
    BY <1>2, <1>3 DEF ExitCode, Failing

(* The exit code of a loop that ends tells whether a check failed.         *)
THEOREM ExitIsTruthful == Spec => ExitTellsFailure
  BY HistoryInvariant, ExitStep, PTL DEF Spec, ExitTellsFailure

(* The section that starts is first in the order of the stamps on record,  *)
(* and whoever was recorded ahead of another is behind it in that order.   *)
LEMMA OvertakeStep == HInv /\ [Next]_vars =>
  \A p \in Procs :
    (pc[p] = "next" /\ pc'[p] = "check" /\ ~IsDry(p))
    => \A s \in job'[p].todo :
         job'[p].cur \in ahead[s] =>
           /\ options[s].interval <= 0
           /\ disk[job'[p].cur].lastRun = disk[s].lastRun
  <1> SUFFICES ASSUME HInv, [Next]_vars, NEW p \in Procs,
                      pc[p] = "next", pc'[p] = "check", ~IsDry(p),
                      NEW s \in job'[p].todo, job'[p].cur \in ahead[s]
               PROVE  /\ options[s].interval <= 0
                      /\ disk[job'[p].cur].lastRun = disk[s].lastRun
    OBVIOUS
  <1>0. TypeOK /\ job \in [Procs -> JobType] /\ job[p].todo \subseteq Sections
    BY DEF HInv, RInv, TypeOK, JobType
  <1>1. StartCheck(p)
    <2>1. ASSUME NEW q \in Procs, Step(q) PROVE StartCheck(p)
      <3>1. q = p
        BY <1>0, <2>1, OthersStep
      <3> QED
        BY <1>0, <2>1, <3>1, PcStep DEF Step, Progress, Command, Gone
    <2>2. ~Tick /\ ~UNCHANGED vars
      BY DEF Tick, vars
    <2> QED
      BY <2>1, <2>2 DEF Next, Step
  <1>2. PICK c \in Sections : /\ IsFirst(p, c)
                              /\ job'[p].cur = c /\ job'[p].todo = job[p].todo \ {c}
    BY <1>0, <1>1 DEF StartCheck, JobType
  <1>3. s \in Sections /\ s # c /\ s \in job[p].todo
    BY <1>0, <1>2
  <1>4. mem[p][s] = disk[s] /\ mem[p][c] = disk[c]
    BY <1>3 DEF HInv, RInv, InSync, Inside, Labels
  <1>5. RunsBefore(disk[c].lastRun, c, disk[s].lastRun, s)
    BY <1>2, <1>3, <1>4 DEF IsFirst
  <1>6. IsLater(c, s)
    BY <1>2, <1>3 DEF HInv, AheadIsLater
  <1>7. /\ disk[c].lastRun \in Int /\ disk[s].lastRun \in Int
        /\ options[s].interval \in Int
    BY <1>0, <1>3 DEF TypeOK, EntryType, OptionType, Never
  <1> QED
    BY <1>2, <1>5, <1>6, <1>7 DEF RunsBefore, IsLater

(* No section is passed twice by another, whatever the budget cuts off.    *)
THEOREM NobodyIsPassed == Spec => NoRepeatOvertake
  BY HistoryInvariant, OvertakeStep, PTL DEF Spec, NoRepeatOvertake

-----------------------------------------------------------------------------
LEMMA StoreInit == Init => Store!Init
  BY EmptyStateType DEF Init, Store!Init

LEMMA StoreStep == RInv /\ [Next]_vars => [Store!Next]_(Store!vars)
  <1> SUFFICES ASSUME RInv, [Next]_vars PROVE [Store!Next]_(Store!vars)
    OBVIOUS
  <1>1. ASSUME NEW p \in Procs, Step(p) PROVE [Store!Next]_(Store!vars)
    <2>1. CASE Acquire(p)
      BY <2>1 DEF Acquire, Store!Acquire, Store!Next
    <2>2. CASE Save(p)
      <3>1. pc[p] = "save" /\ disk' = mem[p] /\ holder' = holder /\ Cur(p) \in Sections
        BY <2>2 DEF Save, Goto, RInv, CurIsTaken, OnCheck
      <3>2. holder = p
        BY <3>1 DEF RInv, LockIsHeld, Inside, Labels
      <3>3. \A s \in Sections : mem[p][s] # disk[s] => s = Cur(p)
        BY <3>1, <3>2 DEF RInv, InSync, LockIsHeld, Inside, Labels
      <3>4. /\ mem[p] \in [Sections -> EntryType] /\ disk \in [Sections -> EntryType]
        BY DEF RInv, TypeOK
      <3>5. disk' = [disk EXCEPT ![Cur(p)] = disk'[Cur(p)]] /\ disk'[Cur(p)] \in EntryType
        BY <3>1, <3>3, <3>4
      <3> QED
        BY <3>1, <3>2, <3>5 DEF Store!Commit, Store!Next
    <2>3. CASE Leave(p) \/ Crash(p)
      BY <2>3 DEF Leave, Crash, Store!Release, Store!Next, Store!vars
    <2>4. CASE ~(Acquire(p) \/ Save(p) \/ Leave(p) \/ Crash(p))
      <3>1. disk' = disk
        BY <1>1, <2>4, FilesStep
      <3>2. holder' = holder
        BY <1>1, <2>4 DEF Step, Progress, Command, Launch, GiveUp, SelectNone, SelectChecks,
           StartCheck, EndLoop, RetryCheck, FinishCheck, NoAttempt, NoNotify, PushAndStore,
           KumaRaises, SaveFails, Notify, NotifyRaises
      <3> QED
        BY <3>1, <3>2 DEF Store!vars
    <2> QED
      BY <2>1, <2>2, <2>3, <2>4
  <1>2. CASE Tick \/ UNCHANGED vars
    BY <1>2 DEF Tick, vars, Store!vars
  <1> QED
    BY <1>1, <1>2 DEF Next, Step

(* The runner changes the file as the atomic store allows: one section's   *)
(* entry at a time, under the lock; a dry run changes nothing.             *)
THEOREM RunnerUsesStore == Spec => UsesStore
  BY StoreInit, StoreStep, RunnerInvariant, PTL DEF Spec, UsesStore, Store!Spec

=============================================================================
