------------------------- MODULE PublicIpReputation -------------------------
(***************************************************************************)
(* The public_ip_reputation check over many runs: which address the host   *)
(* has, what the providers say of it, and the check_state that carries the *)
(* verdict, the Tor exit list and the providers' rate limits from one run  *)
(* to the next.                                                            *)
(*                                                                         *)
(* An invocation (run_check_with_retries) makes up to Retries + 1 attempts *)
(* with the check_state it loaded; the result of the last one is recorded. *)
(* Each attempt is one step: it ends with an answer from the cache, from   *)
(* the providers or from the expired cache, or with an error.              *)
(***************************************************************************)
EXTENDS Integers

CONSTANTS IPs,              \* addresses the host may have
          NoIP,
          Providers,        \* enabled providers; "tor" is the exit list
          Answers,          \* verdicts the other providers may give
          ExitLists,        \* exit lists that may be published
          FailOn,           \* fail_on_verdicts
          ReputationTtl,    \* reputation_cache_ttl_seconds
          TorTtl,           \* tor_cache_ttl_seconds
          UseStale,         \* use_stale_on_provider_failure
          MaxStale,         \* max_stale_ttl_seconds
          ResetTimes,       \* how long a provider may ask to be left alone
          Retries,          \* retries
          MaxClock          \* bound on time

Never == -1
Flagged == <<"tor", "vpn", "proxy", "hosting">>
Verdicts == {"tor", "vpn", "proxy", "hosting", "inconclusive", "clean"}

ASSUME ReputationConstants ==
  /\ NoIP \notin IPs
  /\ Providers # {}
  /\ Answers \subseteq Verdicts
  /\ ExitLists \subseteq SUBSET IPs
  /\ FailOn \subseteq Verdicts \cup {"unknown"}
  /\ ReputationTtl \in Nat /\ TorTtl \in Nat /\ MaxStale \in Nat
  /\ UseStale \in BOOLEAN
  /\ ResetTimes \subseteq Nat /\ Retries \in Nat /\ MaxClock \in Nat

VARIABLES
  clock,     \* now
  saved,     \* check_state in the state file
  mem,       \* check_state as this invocation's attempts see it
  attempt,   \* which attempt is next; 0 between invocations
  report,    \* history: what the last attempt said of an address
  limit,     \* history: until when a recorded run was told to wait
  lookup,    \* history: address and time of the last recorded refresh
  known      \* history: the last recorded verdict for lookup's address

history == <<report, limit, lookup, known>>
vars == <<clock, saved, mem, attempt, history>>

NoRep == [ip |-> NoIP, at |-> Never, verdict |-> "none"]

(* The empty check_state of a new section, or after a run that raised. *)
NoState == [ip |-> NoIP, rep |-> NoRep,
            tor |-> [listed |-> {}, at |-> Never],
            disabled |-> [p \in Providers |-> 0]]

RepType == {NoRep} \cup [ip : IPs, at : Nat, verdict : Verdicts \cup {"unknown"}]

StateType == [ip       : IPs \cup {NoIP},
              rep      : RepType,
              tor      : [listed : SUBSET IPs, at : Nat \cup {Never}],
              disabled : [Providers -> Nat]]

NoReport == [ip |-> NoIP, verdict |-> "none", how |-> "none"]

Init ==
  /\ clock = 0
  /\ saved = NoState /\ mem = NoState
  /\ attempt = 0
  /\ report = NoReport
  /\ limit = [p \in Providers |-> 0]
  /\ lookup = NoRep /\ known = NoRep

-----------------------------------------------------------------------------
(* A provider's answer, with the time until which it wants to be left      *)
(* alone (Retry-After of a 429, X-Ttl of ip_api's last answer), or 0.      *)
Heard == [verdict : Answers \cup {"error"},
          until   : {0} \cup {clock + d : d \in ResetTimes}]

(* The Tor project answers with its list, whatever address is asked about. *)
GotList == [verdict |-> "list", until |-> 0]

ListIsRecent == mem.tor.at # Never /\ clock - mem.tor.at < TorTtl

IsDisabled(p) == mem.disabled[p] > clock

(* The providers this refresh sends a request to. *)
Asked == {p \in Providers : ~IsDisabled(p) /\ ~(p = "tor" /\ ListIsRecent)}

(* What the providers asked may say, and the exit list there is then.      *)
HeardByAsked ==
  {heard \in [Asked -> Heard \cup {GotList}] :
     \A p \in Asked : IF p = "tor" THEN heard[p].verdict \in {"list", "error"}
                      ELSE heard[p].verdict # "list"}

ListFetched(heard) == "tor" \in Asked /\ heard["tor"] = GotList

ListsAfter(heard) == IF ListFetched(heard) THEN ExitLists ELSE {mem.tor.listed}

(* _refresh_reputation: one result per provider.  A disabled one counts as *)
(* an error, and so does a Tor list that is due and could not be fetched.  *)
Replies(ip, heard, list) ==
  [p \in Providers |->
     IF p \in Asked /\ heard[p] # GotList THEN heard[p]
     ELSE [until   |-> 0,
           verdict |-> IF IsDisabled(p) THEN "error"
                       ELSE IF ip \in list THEN "tor" ELSE "clean"]]

(* _classify: the first flag raised by anyone, then doubt, then a clean    *)
(* bill; the Tor list alone gives one only when nobody else is asked.      *)
Classify(replies) ==
  LET given  == {replies[p].verdict : p \in Providers}
      others == {replies[p].verdict : p \in Providers \ {"tor"}}
      raised == {i \in DOMAIN Flagged : Flagged[i] \in given}
  IN IF raised # {} THEN Flagged[CHOOSE i \in raised : \A j \in raised : i <= j]
     ELSE IF "inconclusive" \in given THEN "inconclusive"
     ELSE IF "clean" \in others \/ (others = {} /\ given = {"clean"}) THEN "clean"
     ELSE "unknown"

NewLimits(replies) ==
  [p \in Providers |-> IF replies[p].until > 0 THEN replies[p].until ELSE mem.disabled[p]]

NewList(heard, list) ==
  IF ListFetched(heard) THEN [listed |-> list, at |-> clock] ELSE mem.tor

(* The verdict is stored without the address it is about. *)
Refreshed_NoAddress(ip, heard, list) ==
  LET replies == Replies(ip, heard, list)
  IN [ip |-> ip,
      rep |-> [ip |-> NoIP, at |-> clock, verdict |-> Classify(replies)],
      tor |-> NewList(heard, list),
      disabled |-> NewLimits(replies)]

(* provider_disabled_until is built anew by each refresh. *)
Refreshed_ForgetLimits(ip, heard, list) ==
  LET replies == Replies(ip, heard, list)
  IN [ip |-> ip,
      rep |-> [ip |-> ip, at |-> clock, verdict |-> Classify(replies)],
      tor |-> NewList(heard, list),
      disabled |-> [p \in Providers |-> replies[p].until]]

(* The address is updated by a run that finds a verdict only. *)
Refreshed_OldAddress(ip, heard, list) ==
  LET replies == Replies(ip, heard, list)
  IN [ip |-> IF Classify(replies) = "unknown" THEN mem.ip ELSE ip,
      rep |-> [ip |-> ip, at |-> clock, verdict |-> Classify(replies)],
      tor |-> NewList(heard, list),
      disabled |-> NewLimits(replies)]

(* The check_state _refresh_reputation leaves. *)
Refreshed(ip, heard, list) ==
  LET replies == Replies(ip, heard, list)
  IN [ip |-> ip,
      rep |-> [ip |-> ip, at |-> clock, verdict |-> Classify(replies)],
      tor |-> NewList(heard, list),
      disabled |-> NewLimits(replies)]

Age == clock - mem.rep.at

(* run: the address is the one on record and the verdict is fresh. *)
CacheServes(ip) == mem.ip = ip /\ mem.rep.ip = ip /\ Age < ReputationTtl

(* A cache that is trusted for any address. *)
CanUseStale_AnyAddress(ip) == UseStale /\ mem.rep # NoRep /\ Age <= MaxStale

(* _can_use_stale *)
CanUseStale(ip) == UseStale /\ mem.rep.ip = ip /\ Age <= MaxStale

-----------------------------------------------------------------------------
Status(verdict) == IF verdict \in FailOn THEN "CRIT" ELSE "OK"

(* The attempt returns a failing status and is not the last: the next one  *)
(* gets the same check_state, with the limits that were written into the   *)
(* dictionary both share (there is one once a refresh has been recorded).  *)
TryAgain(status, limits) ==
  /\ status # "OK" /\ attempt <= Retries
  /\ attempt' = attempt + 1
  /\ mem' = IF mem.rep = NoRep THEN mem ELSE [mem EXCEPT !.disabled = limits]
  /\ UNCHANGED <<clock, saved, limit, lookup, known>>

(* The invocation ends with this attempt's check_state on record. *)
Record(status, new) ==
  /\ status = "OK" \/ attempt > Retries
  /\ attempt' = 0
  /\ saved' = new
  /\ mem' = NoState
  /\ UNCHANGED clock

RecordAsIs(status) ==
  Record(status, mem) /\ UNCHANGED <<limit, lookup, known>>

Reports(ip, verdict, how) ==
  /\ attempt > 0
  /\ report' = [ip |-> ip, verdict |-> verdict, how |-> how]

(* run_check_with_retries, with the section's check_state. *)
Begin ==
  /\ attempt = 0
  /\ attempt' = 1
  /\ mem' = saved
  /\ report' = NoReport
  /\ UNCHANGED <<clock, saved, limit, lookup, known>>

ServeCached ==
  \E ip \in IPs :
    /\ CacheServes(ip)
    /\ Reports(ip, mem.rep.verdict, "cached")
    /\ \/ TryAgain(Status(mem.rep.verdict), mem.disabled)
       \/ RecordAsIs(Status(mem.rep.verdict))

(* A refresh, with what it reports and what its record makes known. *)
Refresh(new, heard, verdict, how) ==
  /\ Reports(new.rep.ip, verdict, how)
  /\ \/ TryAgain(Status(verdict), new.disabled)
     \/ /\ Record(Status(verdict), new)
        /\ limit' = [p \in Providers |->
                       IF p \in Asked /\ heard[p].until > clock
                       THEN heard[p].until ELSE limit[p]]
        /\ lookup' = new.rep
        /\ known' = IF new.rep.verdict # "unknown" THEN new.rep
                    ELSE IF known.ip = new.rep.ip THEN known ELSE NoRep

(* The providers decide, or nobody could be asked and no old answer is left.*)
AskProviders ==
  \E ip \in IPs :
    /\ ~CacheServes(ip)
    /\ \E heard \in HeardByAsked : \E list \in ListsAfter(heard) :
         LET new == Refreshed(ip, heard, list) IN
         /\ new.rep.verdict # "unknown" \/ ~CanUseStale(ip)
         /\ Refresh(new, heard, new.rep.verdict, "fresh")

(* The refresh found nothing: report the expired verdict, record the new   *)
(* one.                                                                    *)
ServeStale ==
  \E ip \in IPs :
    /\ ~CacheServes(ip) /\ CanUseStale(ip)
    /\ \E heard \in HeardByAsked : \E list \in ListsAfter(heard) :
         LET new == Refreshed(ip, heard, list) IN
         /\ new.rep.verdict = "unknown"
         /\ Refresh(new, heard, mem.rep.verdict, "stale")

(* _detect_public_ip raises ValueError (no such interface, not an address).*)
NotDetected ==
  /\ attempt > 0
  /\ report' = NoReport
  /\ TryAgain("UNKNOWN", mem.disabled) \/ RecordAsIs("UNKNOWN")

(* Any other exception, an unreachable detection endpoint among them, ends *)
(* in run_one_check, whose result carries no check_state.                  *)
Raise ==
  /\ attempt > 0
  /\ report' = NoReport
  /\ \/ TryAgain("UNKNOWN", mem.disabled)
     \/ /\ Record("UNKNOWN", NoState)
        /\ limit' = [p \in Providers |-> 0]
        /\ lookup' = NoRep /\ known' = NoRep

(* The invocation is killed before it saves. *)
Lost ==
  /\ attempt > 0
  /\ attempt' = 0
  /\ mem' = NoState
  /\ report' = NoReport
  /\ UNCHANGED <<clock, saved, limit, lookup, known>>

Tick ==
  /\ clock < MaxClock
  /\ clock' = clock + 1
  /\ report' = NoReport
  /\ UNCHANGED <<saved, mem, attempt, limit, lookup, known>>

Next ==
  \/ Begin \/ ServeCached \/ AskProviders \/ ServeStale
  \/ NotDetected \/ Raise \/ Lost \/ Tick

Spec == Init /\ [][Next]_vars

-----------------------------------------------------------------------------
TypeOK ==
  /\ clock \in Nat
  /\ saved \in StateType /\ mem \in StateType
  /\ attempt \in 0 .. Retries + 1
  /\ report \in [ip : IPs \cup {NoIP},
                 verdict : Verdicts \cup {"unknown", "none"},
                 how : {"none", "cached", "fresh", "stale"}]
  /\ limit \in [Providers -> Nat]
  /\ lookup \in RepType /\ known \in RepType

(* The step asks the providers, all but those it leaves alone.             *)
Refreshes == report'.how \in {"fresh", "stale"}

(* A verdict reported without asking is the last one a recorded run found  *)
(* for the address the host has now, and it is younger than the cache's    *)
(* period, or no older than max_stale_ttl_seconds when it is called stale. *)
VerdictIsKnown ==
  (report.how \in {"cached", "stale"} /\ report.verdict # "unknown")
  => /\ report.ip = known.ip /\ report.verdict = known.verdict
     /\ report.how = "cached" => clock - known.at < ReputationTtl
     /\ report.how = "stale" => clock - known.at <= MaxStale

(* The check's README, provider notes: a provider that told a recorded run *)
(* to leave it alone is not sent a request before its time, whatever runs, *)
(* retries and changes of address come in between; only a run that raises  *)
(* forgets.                                                                *)
LimitsAreKept ==
  [][Refreshes => \A p \in Asked : clock >= limit[p]]_vars

(* reputation_cache_ttl_seconds in the check's README: an unchanged address*)
(* is not looked up again within that time of a recorded lookup, failed    *)
(* ones included.                                                          *)
QuotaIsSpared ==
  [][(Refreshes /\ report'.ip = lookup.ip) => clock - lookup.at >= ReputationTtl]_vars

(* use_stale_on_provider_failure in the check's README: reuse expired data *)
(* when refresh fails.  While the address is unchanged and its last verdict is  *)
(* no older than max_stale_ttl_seconds, the check knows a verdict.         *)
StaleIsReused ==
  (UseStale /\ report.verdict = "unknown" /\ report.ip = known.ip /\ known # NoRep)
  => clock - known.at > MaxStale

=============================================================================
