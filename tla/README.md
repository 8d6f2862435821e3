# service-check in TLA+

`service-check` is a small watchdog: a systemd timer starts it every minute, it
runs the checks whose interval has come (`tcp_port`, `ping`, `monerod`,
`public_ip_reputation`, ...), notifies a local command when a problem opens,
repeats or ends, pushes to Uptime Kuma, and keeps one JSON file of state that
every invocation shares. An invocation is short-lived, but several can overlap
(the timer's, an operator's `--check`, a slow one's successor), any of them can
be killed, and almost everything an operator cares about ("I am told once, in
time, and not for a blip") is a property of a *sequence* of invocations. That
is what is modelled here.

Paths below are relative to `src/`.

## 1. Inventory

| Component | State it keeps | Operations | What makes it correct |
| --- | --- | --- | --- |
| Scheduling rules (`runner.py` `is_due`, `_interval_slot`, `_last_run_sort_key`; `cli.py` `compute_next_due_at`) | none (pure) | due now? which first? due when? | one run in an interval bucket; the displayed time is the real one; nobody starves |
| Notification policy (`runner.py` `process_result`) | the section's entry: last status, `problem_code`, `last_problem`, `consecutive_failures`, four time stamps, `check_state` | decide on a message, build the new entry | threshold respected, no repeat within the interval, no problem passed over, one first-success message |
| State store (`state.py`) | the state file, its `.tmp`, the lock file | `locked`, `load`, `save`, `_lock_file`, `_unlock_file` | mutual exclusion, no lost update, never a torn file, waits end |
| Runner (`runner.py` `run`, `select_checks`, `process_selected_checks`, `run_check_with_retries`, `process_result`) | the loaded map, loop index, worst status, run budget | select, loop, retry, notify, push, store, save, exit code | a crash costs one check; the exit code tells of failures; dry runs change nothing |
| Local notifications (`notify.py`) | none | run `notify_cmd` | a failing command counts as not sent and harms nothing else |
| Kuma push (`kuma.py`) | none | one HTTP GET | a failing push harms nothing else; a dry run pushes nothing |
| Command line (`cli.py`) | none | options, exit codes, `--list-scheduled`, `--validate-config`, `--print-config` | exit code 2 for an aborted run |
| Configuration (`config.py`, `models.py`) | none | drop-in merging, typed reading, validation, rendering | what validation accepts is complete; what is printed is what is in use |
| Doctor (`doctor.py`) | none | look at configuration, paths, modules, commands, URLs, units | a configuration it clears does not end a run, as far as its texts tell |
| Check registry (`checks/__init__.py`) | none | import by name | an unknown name is a result, not an abort |
| `monerod` check | `check_state`: height, when it changed, length of the stall | service, file, ports, `get_info`, sync and peers | a stall alarm is never false, and never missing |
| `public_ip_reputation` check | `check_state`: address, verdict, exit list, rate limits | detect, ask providers, cache | the cache does not lie, limits are kept |
| `socks_proxy` check | the connection | SOCKS5 negotiation over a stream | OK means an open tunnel; no proxy keeps it busy for ever |
| `kuma_heartbeat` check | none | one push from inside the check | as for the push |
| `tcp_port`, `ping`, `github_release_update` checks | none | one probe | their options are read before use |
| Templates, installer, units | none / one-shot | formatting, installation | - |

Interaction. `cli.main` calls `runner.run`. `run` takes the lock and loads
through `StateStore.locked`, unless it is a dry run, which loads without the
lock. The check loop calls one check at a time in the same thread
(`run_check_with_retries`), then `process_result`, which calls
`send_notification` (a subprocess without a timeout) and `push_kuma` (HTTP with
a timeout) and puts the new entry into the loaded map; then `store.save` rewrites
the whole file. Nothing runs concurrently *inside* an invocation. Concurrency is
between invocations, and they share only the three files.

What is hard here: two invocations over one file; a lock holder that hangs;
death between a message and its record, or between two checks; a time budget
that cuts the loop short every time; failures of collaborators (command, HTTP,
disk) that are exceptions nobody catches before `main`; bucket arithmetic when a
run crosses a boundary; one time stamp (`last_notification_at`) that serves
three kinds of messages; what a run leaves in `check_state` for the next one; a
protocol read from a stream that may stop anywhere; and options that validation,
doctor, printer and checks each read in their own way. `PROJECT.json` lists each hazard at its line with the
properties that guard it.

## 2. Modules

| Module | Models | Notes |
| --- | --- | --- |
| `Schedule` | the scheduling rules | pure operators |
| `NotificationPolicy` | the decisions of `process_result` | pure operators over `policy`, `prev`, `res`; extends `Schedule` |
| `Alerting` | one section over many invocations | one step is one run of the check, with every outcome of its message |
| `AtomicStore` | what `state.py` promises | abstract: one owner, one key per commit |
| `StateStore` | `state.py`, with lock polling, `.tmp`, crashes, failing writes, lockless readers | implements `AtomicStore` |
| `Runner` | `runner.run` for several invocations, with retries, budget, notification, push, errors | extends `NotificationPolicy`, uses `AtomicStore` as its file |
| `PublicIpReputation` | the `public_ip_reputation` check over many runs: address, cached verdict, exit list, rate limits | one step is one attempt of `run_check_with_retries` |
| `Monerod` | the `monerod` check over many runs: findings, heights, stall detection | one step is one run; the daemon advances beside it |
| `Config` | `config.py`, the getters of `models.py`, the doctor's errors about the configuration | pure operators over a file, a function from `<<section, key>>` to texts |
| `SocksProxy` | the SOCKS5 client | variables and steps of one connection |
| `Probes` | one invocation over one section: load, check, retries, notification, push; the `tcp_port`, `ping`, `socks_proxy`, `kuma_heartbeat` and `github_release_update` checks | extends `Config` and `SocksProxy` |
| `Schedule_proofs`, `NotificationPolicy_proofs`, `Alerting_proofs`, `StateStore_proofs`, `Runner_proofs`, `PublicIpReputation_proofs`, `Monerod_proofs`, `Probes_proofs` | theorems | section 4; each extends the module it is about, `Probes_proofs` covers `Config` and `SocksProxy` as well |
| `MCAlerting`, `MCStateStore`, `MCRunner`, `MCPublicIpReputation`, `MCMonerod`, `MCProbes` | small instances for TLC | |

The stack is assume/guarantee: `StateStore` is shown to implement
`AtomicStore`, and `Runner`, which takes load and save as single steps, is shown
to use its file exactly as `AtomicStore` allows.

### How the model corresponds to the code

*Entries.* A section's entry is the record `EntryType`: `status` for
`last_status`, `code` for `last_details.problem_code`, `problem` for
`last_problem`, `consecutive`, and the stamps `lastRun`, `lastNotif`,
`lastSuccess` for `last_run_at`, `last_notification_at`,
`last_success_notification_at`. A missing or unreadable stamp is `Never`, a
missing entry is `Fresh`. Message texts and details other than the problem code
are abstracted away. `check_state` is an opaque value.

*Alerting.* The five `Run...` actions are the outcomes of one `process_result`
and its save: no message; a message whose command exited with 0; one whose
command failed; one suppressed by `--no-notify`; and an invocation that died
after the message (if any) and before the save. `entry` is the only state the
code has; the other variables are history, read by properties alone.

*StateStore.* `pc[p]` is where invocation `p` is in `locked`/`save`:
`idle -> wait -> load -> edit -> (dirty -> writing -> written -> edit)* ->
leave`, and `read` for a lockless reader; `writing` has the `.tmp` open and
`written` is about to `os.replace` it. The file is `Missing`, `Partial` or `Whole(map)`. A crash
drops the lock, as the kernel does with `flock`, and leaves the files as they
are. `WriteTmp` may fail (disk full) and leave a torn `.tmp`. The Windows branch
of `_lock_file` follows the same protocol with another system call. The
in-memory map of a dry run is edited and dropped.

*Runner.* `pc[p]` follows `run`: `wait` (lock), `select`, `next` (loop head),
`check`, `notify`, `kuma`, `save`, `leave` (finally, exit). `job[p]` holds the
locals. `Launches[p]` is what `p` may be started with, so the timer's and an
operator's invocations differ in their options only. A check returns any result
of `Results` (`run_one_check` turns every exception into UNKNOWN, so there is no
other way out of a check). `Tick` may happen between any two steps, hence inside
a check, a retry delay or a command.
`NotifyRaises`, `KumaRaises`, `SaveFails` and `NoAttempt` are the exceptions
that pass through to `main`, which exits with 2.

*PublicIpReputation.* `saved` is the section's `check_state` in the file, `mem`
what the attempts of the present invocation are given. An attempt ends in one of
`run`'s ways: the fresh cache (`ServeCached`), a refresh (`AskProviders`), a
refresh that found nothing and an expired answer that may still be used
(`ServeStale`), `ValueError` from the address detection (`NotDetected`), or any
other exception (`Raise`), which `run_one_check` turns into an UNKNOWN result
*without* state, so that what is recorded is an empty `check_state`. A failing
attempt that is not the last changes nothing but the limits:
`provider_disabled_until` is a dictionary that the shallow copies of
`check_state` share, so what an attempt learns there the next one knows, once a
refresh is on record. What a provider's payload means (`_check_ipapi_is`, ...)
is abstracted to the verdict it comes to.

*Monerod.* A run's input is a *view* (`ViewType`): what systemctl, the
configuration file, the ports and `get_info` show at that moment. `Findings` is
everything `run` appends to `errors` and `warnings`, `Worst` how it reports
them. `saved` is `check_state`, which a run updates only when `get_info` gave a
non-empty result. All attempts of an invocation get the same `check_state` and
the last one's is recorded, so that retries change nothing here and a run is one
step. `RunRaises` is the exception that empties `check_state`. The daemon
(`Advance`) only gains height. `advanced` and `since` are history.

*Config.* A text is a name; `IntOf` and `FloatOf` say which texts `int()` and
`float()` take and what they make of them (floats in tenths), `Commands` which
split into words of which the first is an executable of the host, `Rendered` which
have placeholders and what these may make of them, `Urls` which have the shape of
an http(s) URL, `Openable` which of those are really one. A `notify_cmd` is thus two
texts: the doctor asks whether the template is a command (`DoctorErrors`), a run
whether what it is rendered to is one (`Probes`' `Notify`). What that is depends on
the result's message and details, hence any of `Renderings(template)`. There is one check section, and of the
options every check has those whose reading can end a run; the others
(`interval_minutes`, `fail_after`, ...) are read in the same ways. Absent and empty
are kept apart, because `get`, `get_int`, `setdefault` and the validator treat them
differently. The file that is printed has all of the model's sections, `[global]`
included, and a number is written the way `_format_number` writes it: a whole one as an
integer, so that `1.0` comes back as `1`. What depends on a combination of options (which proxy option
counts, which timeout a check sees) is in `Option`-level operators that validation,
doctor, printing and running share, as the code shares its getters.

*Probes and SocksProxy.* `pc` follows one turn of the check loop: `attempt` (the
check), `socks` or `http` (in the middle of one), `judge`
(`run_check_with_retries`), `notify`, `push`, `pushed`. `aborted` is an exception
that only `main` catches, with its reason in `cause`. Each check's early returns
are a sequence of conditions in source order (`TcpComplaints`, ...). In
`SocksProxy`, `field` is the answer being read and `missing` the bytes of it still
to come: `Receive` is one `recv`, `Break` an end of stream, reset or timeout,
`Answer` a complete answer, any that the proxy can give. `After` is the decision
table of `_negotiate_auth`, `_authenticate_userpass`, `_connect_via_socks` and
`_read_socks_address`; `NextField` adds what the client cannot send (credentials
or a name that are too long, a name that cannot be encoded).

## 3. What TLC checks

| Run | Question | Bounds |
| --- | --- | --- |
| `alerting` | thresholds, repeats, silence, first success and recovery under every outcome of a message | time 0..4, up to 3 consecutive failures, two problem codes, policies of `MCAlerting` |
| `alerting_announced` (violation) | is a problem past `fail_after` always announced? | same |
| `state_store` | exclusion, no lost update, whole files, waits end, refinement of `AtomicStore` | two invocations, two sections, two values, two polls before the timeout |
| `runner` | one run in a bucket, order under a budget, crash loss, exit codes, schedule table, use of the store | two invocations, two sections with intervals 1 and 2, time 0..2, budget 1, `consecutive` below 2 when launching |
| `runner_ends` | every invocation ends, or hangs in its own command, check or push | time 0..1, one retry |
| `runner_bucket` (violation) | does a run use up only the bucket it was selected in? | as `runner`, with a retry |
| `runner_notify` (violation) | does a failing command leave the other checks alone? | as `runner`, with a retry |
| `reputation` | what the cache may answer, whom a refresh may ask | two addresses, the exit list and one other provider, one retry, time 0..3 with periods of 1 and 2 |
| `reputation_stale` (violation) | is the last verdict reused while it is young enough? | same |
| `monerod` | what counts as a stall | heights 0..2 below targets 1 and 3, time 0..5, threshold 2, every answer of `get_info` in its booleans, one deviation elsewhere |
| `probes` | what validation, doctor and printing promise; SOCKS5; retries; end of an invocation | for each check a plain configuration, every change of one cell of it, ten drop-ins of at most one cell; one retry by default |
| `probes_dry` (violation) | does a dry run push nothing? | same |

Properties, in words:

- `SilenceIsBrief`: a problem past its threshold stays unreported only while its
  command fails or is suppressed, or for at most the repeat interval after
  *some* message left. This is the true form of the promise that
  `ProblemIsAnnounced` states too strongly. It holds for repeat intervals up to
  the age that a missing stamp counts as (see below).
- `AlertNeedsFailAfter`: no problem message before `fail_after` problem results
  since the section was last on record without one, lost runs counted.
- `NoRepeatWithinInterval`: the same open problem is not reported twice within
  `notify_repeat_after_minutes`, unless the record of the report was lost.
- `FirstSuccessOnce`: once an OK message is on record no first-success message
  follows, whatever fails later.
- `EndIsTold`: a problem that was reported ends with a recovery message (or an
  attempt at one) in the run that records its end.
- `MutualExclusion`, `NoLostUpdate`, `WaitEnds`, `Implements`, and the inductive
  `Inv` of `StateStore`.
- `OneRunPerSlot`: the recorded times of scheduled runs of a section fall in
  different interval buckets, although the selection was made at another time
  and another invocation may have run the check in between.
- `NoRepeatOvertake`: no run that records starts a check before a waiting one
  it was already recorded ahead of by a scheduled run: the budget starves
  nobody, but for one more turn between checks recorded in the same second, of
  which the waiting one has no interval.
- `CrashLosesOneCheck`: what an invocation finished is in the file.
- `ExitTellsFailure`: exit code 1 exactly when a check ended CRIT or UNKNOWN.
- `ScheduleTableIsRight`: `--list-scheduled` shows when `is_due` turns true: both
  follow the rule of interval buckets of `README.md:375` and of
  `tests/test_runner_schedule.py`. `ARCHITECTURE.md:97` has another rule, to which
  the code does not conform (below).
- `UsesStore`: every change of file and lock is one `AtomicStore` allows.
- `EndsOrHangs`: see fairness.
- `VerdictIsKnown`: a verdict given without asking is the last one found for the
  address the host has now, within the cache's period, or within the stale
  limit when it is marked stale.
- `LimitsAreKept`: a provider that asked a recorded run to be left alone gets no
  request before its time.
- `QuotaIsSpared`: an unchanged address is not looked up twice within the
  cache's period. This holds for failed lookups too, which is the other side of
  what `StaleIsReused` finds.
- `NoFalseStall`: `sync_stalled` is reported only of a daemon that has not
  advanced for `sync_stall_seconds`, whatever runs were missed, failed or raised.
- `StallIsSeen`: once a recorded run has read the height, answers without one,
  failed requests and empty results do not restart the count: after
  `sync_stall_seconds` the daemon is not reported as pending. Together with
  `NoFalseStall` this pins the start of the count from both sides.
- `OkMeansTunnel`: a `socks_proxy` check that says OK got a success from the
  proxy at each stage and has read exactly the bytes of its answers.
- `AcceptedIsComplete`: a check whose configuration passes validation never
  reports a missing option.
- `ClearedRuns`: an invocation ends as a whole only with a configuration in which
  the doctor finds an error, or for a reason the doctor could not have seen
  (`Unforeseen`): negative numbers and URLs with a broken port (see below), an
  answer that cannot be parsed, an executable that does not start, and a command
  with placeholders. The last is no small exception: the doctor splits the template,
  a run the text it becomes, and an error text with an apostrophe unbalances
  quotes that were in order. Without placeholders the two are the same text, and
  what the doctor clears can be split and found.
- `PrintedIsEffective`: the output of `--print-config` passes validation and
  means the same when read again. A text is a single line (section 5).
- `InvocationEnds`: an invocation ends or waits for an HTTP answer.
- `EveryStepCounts`: its safety half, for which an attempt more than `retries` is
  one too many: each step takes the attempt further (by a
  byte or an answer of the proxy, or to the next stage), or begins another attempt, of
  which there are `retries`. So the number of steps is bounded, whoever answers.

**Why these bounds are enough.** Every hazard needs at most two invocations over
one section, or one invocation over two. Time 0..4 against repeat intervals of
a few units lets a message become repeatable and a bucket pass; three failures
lie on both sides of every `fail_after` in use. In `runner`, intervals 1 and 2
make two different bucket boundaries within time 0..2, and a budget of 1 cuts
the loop after any check during which the clock moved. In `monerod`, time 0..5 and
a threshold of 2 leave room for a stall, a gap and a second stall at another
height. In `probes`, two options interact at most through a drop-in over the main
file, and every pair of a changed cell and a drop-in is there. The invariants that
matter most do not rest on the bounds: they are proved (section 4).

**Deadlock.** `MaxClock` and `MaxFailures` stop time and launches, so the
instances of `Alerting`, `Runner` and `Monerod` come to rest, and so does `Probes` when its one
invocation has ended; their configurations say `CHECK_DEADLOCK FALSE`. `state_store` and the reputation runs are
checked for deadlock: an invocation can always begin or be lost.

**Fairness.** `StateStore` assumes weak fairness of the polling loop alone: a
waiter polls again, takes the lock, or gives up. The holder may hang for ever, and
`WaitEnds` holds nevertheless, because `_lock_timeout_expired` bounds the wait.
`Runner` assumes that a live invocation takes its next step, *except* where it
waits for its notification command, whose `subprocess.run` has no timeout
(`service_check/notify.py:17`), and for its check and its push, which may read an
HTTP answer: the timeout of `urlopen` is one of each single `recv`, and nothing
bounds their number. `EndsOrHangs` is then what can be promised: an invocation
ends or waits for one of these three, and those behind it give up. `Probes`
looks into the check: every wait of a connection, a `ping` or a SOCKS5 answer has
a deadline and a bounded number of bytes to come, so weak fairness of these
steps is justified; the steps that take an HTTP answer have none.

### Disagreements with the documents

1. A run that crosses a bucket boundary uses up the bucket it ends in
   (`runner_bucket`); `README.md:378` promises one run per minute bucket.
2. A notification command that cannot be started (missing file, unbalanced
   quotes) ends the whole run (`runner_notify`); `ARCHITECTURE.md:236` says it
   does not. The quotes may become unbalanced by what is filled in for a
   placeholder, in the very run that has a problem to report.
3. After a failed first message the retry waits for the repeat interval of
   whatever message came before, a recovery's included (`alerting_announced`);
   `ARCHITECTURE.md:468`.
4. A refresh in which every provider fails replaces the last verdict by
   `unknown` under a new time stamp; the last verdict is reported once more and
   then lost for a whole cache period (`reputation_stale`), where the check's
   `README.md:56` promises to reuse it.
5. The heartbeat check pushes in a dry run (`probes_dry`); `README.md:158` says that
   a dry run skips Kuma pushes. With retries it pushes once per attempt.
6. A check recorded late in its bucket is due again at the start of the next one;
   `ARCHITECTURE.md:94-98` says it is due when
   `now - last_run_at >= interval_minutes * 60`. Here two documents disagree:
   `README.md:375` and `tests/test_runner_schedule.py` have the rule of the code.
   The run `runner` refutes the rule of `ARCHITECTURE.md` when its table is put
   in the place of the code's: `ScheduleTableIsRight` fails with
   `NextDueAt_Elapsed` of `Schedule.tla` for `NextDueAt`.

Observed while modelling, in the model as the code has them, without a run of
their own:

- The aggregate status in the `run_end` log line is that of the *last* failing
  check (`runner.py:131`); `ARCHITECTURE.md:487` gives CRIT precedence. The exit code is
  the same.
- `last_problem` is set below `fail_after` too, so that a blip that was never
  reported ends with a recovery message (`runner.py:326`).
- `get_info` with an empty result is neither an error nor evaluated
  (`checks/monerod/check.py:121`): the run may report OK. After a stall has
  ended, `sync_stalled_for_seconds` stays in the details of later runs.
- A missing time stamp counts as 10^9 seconds ago (`runner.py:599`). With a repeat
  interval above that, some 31 years, a section whose first message failed would
  never be reported.
- Time stamps are whole seconds. A section without an interval that was recorded in
  the same second as another may be passed by it once more; the sort key then
  goes by name.
- A dry run sorts by the copy it loaded without the lock, which may be old by
  the time it gets to a check; it records nothing, so that the order matters to
  nobody.
- An exception in the reputation check (an unreachable `public_ip_provider` is one)
  empties its `check_state` (`runner.py:257`), the providers' rate limits included;
  the check's `README.md:93` has a provider that answered 429 disabled until its
  reset time. The properties of the check except a run that raises.
- Negative `retries`, `retry_delay_seconds` and `timeout_seconds` pass validation
  and the doctor; the first two, and the third when there is a push, end the run.
- A Kuma URL with a port that is no number passes the doctor's look at its
  shape and ends the run with `InvalidURL`, which is no `OSError`.
- `tcp_port` does not bound its port, and the resolver takes it modulo 2^16.
- An answer of GitHub that is no JSON is reported as `invalid_config`, because
  `JSONDecodeError` is a `ValueError` and that is caught first.

## 4. What is proved

All proofs are for arbitrary constants under the named assumptions, which TLC
evaluates on every instance: any number of invocations and sections, any options,
results, intervals and budgets, any heights, answers, addresses and thresholds,
any files and (single-line) texts.

| Assumption | Says |
| --- | --- |
| `StoreConstants`, `RunnerConstants` | the absent markers are no process and no value; options, launches and results have their types; sections are finitely many numbers, whose order is that of their names |
| `AlertingConstants` | policies and results have their types |
| `ReputationConstants` | providers answer with verdicts, exit lists hold addresses, periods are natural numbers |
| `MonerodConstants` | heights are natural numbers, views have their type, the stall threshold is positive |
| `ConfigConstants` | `float()` takes what `int()` takes, with the same value; an empty text is no number; the built-in defaults can be written as integers; an empty text has no placeholders; a URL that opens has the shape of one |
| `ProbesConstants` | the files are what configparser makes of files |

Every safety invariant and action property of the passing runs is a theorem.

- **`Schedule_proofs`.** `SlotBounds` places a moment inside its bucket;
  `NextDueIsFirstDue` derives that a check is due exactly from the time
  `compute_next_due_at` returns; `DueMeansLater` that due again means a later
  bucket; `OrderIsTotal` that the sort key leaves no ties.
- **`StateStore_proofs`.** `Inv` is inductive. Exclusion alone is not: it needs
  `LockIsHeld` (the holder is exactly the invocation between lock and unlock),
  and no-lost-update needs `InSync` (between load and save the loaded map is the
  file but for the one unsaved section) and `TmpIsMine` (a `.tmp` about to be
  renamed was written by the one that renames it). From `Inv`: `Exclusion`,
  `NoUpdateIsLost`, and `StoreIsAtomic`, the refinement, with `os.replace` as the
  commit point and every other file operation a stutter.
- **`Runner_proofs`.** `RInv` is inductive: types; `LockIsHeld` (who is past the
  lock and not dry holds it); `CurIsTaken` (the section in hand is off the list);
  `InSync` (the loaded map is the file but for the entry about to be saved);
  `DueAtStart` (what is on a scheduled invocation's list was due by its entry
  when the loop began, and the stamp it will get is no earlier). From it:
  `TypeCorrect`, `OneCheckIsLost`, `ScheduleTable` (with `NextDueIsFirstDue`),
  `OnePerSlot` (with `DueMeansLater` and the monotony of buckets) and
  `RunnerUsesStore`, the refinement of `AtomicStore`.

  Two more properties are about the past, and `HInv` adds what the past has left:
  `WorstIsSeen` (the worst status of an invocation fails exactly when a check it
  ran has), `StampIsLatest` (nothing on record is later than the stamp about to
  be saved) and `AheadIsLater` (what was recorded ahead of a waiting section has
  a later stamp than it, or an equal one if that section has no interval). From
  it `ExitIsTruthful`, and, since the loop takes the section that sorts first,
  `NobodyIsPassed`.

- **`NotificationPolicy_proofs`.** Types of the new entry; `OneMessage`: the three
  branches of `process_result` exclude each other; `RepeatWaits` and the other
  lemmas say what each kind of message requires of the entry.
- **`Alerting_proofs`.** What the operator was told is history, and none of the
  five properties is inductive. `AInv` ties history to the entry: `CountIsHonest`
  (failures on record were problem results), `ToldIsOnRecord` (a report that
  stands is of the problem on record, past its threshold, with the stamp on
  record), `GreetedIsOnRecord` (the first success keeps its stamp) and
  `SentIsInThePast` (the stamps are those of messages that left). From it
  `SilenceStaysBrief`, `ThresholdIsKept`, `RepeatIntervalIsKept`, `GreetedOnce`
  and `RecoveryIsTold`.
- **`PublicIpReputation_proofs`.** `RepInv`: what is in the file, and the copy the
  attempts of an invocation share, goes back to the last *recorded* lookup, for
  the address it is about, and has every limit that still holds
  (`StatesAreCurrent`); its verdict is the last one known unless that lookup found
  none (`KnownIsOnRecord`). From it `CacheTellsTheTruth`,
  `ProvidersAreLeftAlone` and `LookupsAreSpared`.
- **`Monerod_proofs`.** Neither `NoFalseStall` nor `StallIsSeen` is inductive: both
  speak of the present report, and a report depends on `check_state`.
  `CountIsRight` ties the recorded height and time to the two moments that matter:
  if the recorded height is the daemon's, the count started no earlier than the
  daemon reached it; if a recorded run has read it, no later than that run.
  `SyncStateIsRight` shows that an evaluation preserves this, `SyncCodes` that
  either code is reported only after comparing the count with the threshold.
  From them `TypeCorrect`, `NeverFalselyStalled`, `StallAlwaysSeen`.
- **`Probes_proofs`.** Five subjects, one invariant.
  *The stream.* `OkMeansTunnel` needs `InStep`: for each field that may be being
  read, what the proxy has said before it, and that the bytes read and those
  still missing are those of the answers so far; `SocksProxy`'s six answers are
  then a case distinction (`NextFieldIs`). `BeginsAfresh` says that an attempt
  starts without a connection and without an OK, so that a retry cannot inherit
  either.
  *The checks' options.* `ComplaintAccepted` compares the early returns of the
  five checks with `RequiredCheckKeys`: whatever is reported missing is an issue
  of `validate_config`.
  *The end of an invocation.* `LaunchStep`, `RetryStep` and `FinishStep` go through
  the exceptions that reach `main` and find each among the doctor's errors or in
  `Unforeseen`; for the notification command that is the step from the rendered
  text back to its template;
  `IsLoaded` carries to the push what the launch has established.
  *Printing.* `PrintedSaysItAll` is a theorem about `Config` alone. `ShownReads` is
  the round trip of a number, `DefaultsAreWritten` that of `[default]`;
  `OptionsArePrinted` says which text an option is printed as; from them
  `PrintedIsValid`, `ValidLoads` and `PrintedMeansTheSame`, field by field. An
  empty option is where this could fail, and validation is what excludes it for
  numbers: an empty text has no type.
  *The end.* `StepsAreBounded`: `DepthGrows` orders the fields of the stream by what
  must come before them, a field's position counting for more than its bytes
  (`DepthIs`), and `FurtherStep` orders the stages of an attempt.

Only model-checked: liveness (`WaitEnds`, `EndsOrHangs`, `InvocationEnds`), which
needs fairness and `ENABLED`, beyond this prover. The proofs are about the modules as
TLC checks them; no definition is replaced in a configuration.

## 5. Not modelled, and why

- A wall clock that is set back. `is_due` is then false until the clock has
  caught up with the recorded time; the model's clock only advances.
- A daemon that loses height (`pop_blocks`, a restored database): the check
  restarts its count, as for any other change.
- Power loss. `save` does not `fsync`; the model's crash is the end of a
  process, after which the kernel still has what was written.
- `max_lock_hold_minutes = 0` (wait for ever) in `Runner`; `StateStore` covers
  what waiting does.
- Texts: messages, templates, log lines, the query of a push, the payloads of
  the reputation providers and of GitHub. Multi-line option values, which
  `--print-config` writes in a form that does not read back.
- Option values beyond their classes: `nan` and `inf` are numbers to `float()`.
- The doctor's look at files, directories, the package and systemd; `install.sh`;
  the units: read-only or one-shot.

## 6. Plan

Done: all modules of section 2 and the proofs of section 4, which cover every
safety property of the passing runs. Next, in order:

1. A measure for the loop of `Runner` like that of `EveryStepCounts`: the safety half
   of `EndsOrHangs` for any number of sections.
2. `Alerting`'s step as the section's view of `Runner`'s: a refinement that
   carries the theorems about one section over to overlapping invocations.
3. The readings of the reputation providers, as operators on payloads.
