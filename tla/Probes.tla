------------------------------- MODULE Probes -------------------------------
(***************************************************************************)
(* One invocation that runs one check section, from its configuration to   *)
(* its end: load, attempts with retries, the notification command and the  *)
(* Kuma push.  The check is one of tcp_port, ping, socks_proxy,            *)
(* kuma_heartbeat and github_release_update, or one there is no module for.*)
(* What an invocation does to the state is Runner's subject, whether a     *)
(* notification is due is NotificationPolicy's.                            *)
(***************************************************************************)
EXTENDS Config, SocksProxy

CONSTANTS MainFiles, DropIns    \* files to consider, as functions on cells

ASSUME ProbesConstants == \A file \in MainFiles \cup DropIns : IsFile(file)

VARIABLES
  config,    \* the files as one, fixed
  dry,       \* --dry-run
  pc,
  attempt,
  result,    \* what the last attempt returned
  cause,     \* history: what ended the invocation early
  pushes     \* history: requests sent to Uptime Kuma

vars == <<config, dry, pc, attempt, result, cause, pushes, sockVars>>
outside == <<cause, pushes, sockVars>>

NoResult == [status |-> "none", code |-> ""]
Raised == [status |-> "UNKNOWN", code |-> ""]
Unknown(code) == [status |-> "UNKNOWN", code |-> code]
Crit(code) == [status |-> "CRIT", code |-> code]
Warn(code) == [status |-> "WARN", code |-> code]
Ok == [status |-> "OK", code |-> ""]

IsFailing(res) == res.status \in {"CRIT", "UNKNOWN"}

Init ==
  /\ \E main \in MainFiles, dropin \in DropIns : config = Merged(main, dropin)
  /\ dry \in BOOLEAN
  /\ pc = "idle" /\ attempt = 0
  /\ result = NoResult /\ cause = "" /\ pushes = 0
  /\ SockIdle

Goto(from, to) == pc = from /\ pc' = to

(* An exception that only cli.main catches: exit code 2. *)
Abort(why) == pc' = "aborted" /\ cause' = why

-----------------------------------------------------------------------------
(* The options of the checks. *)
Lacks(key) == Option(config, key) \in Nothing
LacksOneOf(keys) == \E key \in keys : Lacks(key)
IsInt(key) == Option(config, key) \in DOMAIN IntOf
TimeoutReads == Reads(config, FloatOf, "timeout_seconds")
Timeout == CheckTimeout(config)

(* proxy_host or host, proxy_port or port. *)
ProxyOption(key) == IF Lacks(ProxyKey[key]) THEN key ELSE ProxyKey[key]

ValidPort(key) == IsInt(key) /\ IntOf[Option(config, key)] \in 1 .. 65535

(* What each check finds wrong with its options, in the order it looks. *)
TcpComplaints ==
  << <<~TimeoutReads, Raised>>,
     <<Lacks("host"), Unknown("missing_host")>>,
     <<~IsInt("port"), Unknown("invalid_port")>> >>

PingComplaints ==
  << <<Lacks("host"), Unknown("missing_host")>>,
     <<~(Lacks("count") \/ IsInt("count")), Unknown("invalid_count")>>,
     <<IsInt("count") /\ IntOf[Option(config, "count")] <= 0, Unknown("invalid_count")>>,
     <<~TimeoutReads, Unknown("invalid_timeout")>>,
     <<TimeoutReads /\ Timeout <= 0, Unknown("invalid_timeout")>> >>

SocksComplaints ==
  << <<~TimeoutReads, Raised>>,
     <<LacksOneOf({ProxyOption("host"), ProxyOption("port"), "target_host", "target_port"}),
       Unknown("missing_config")>>,
     <<~ValidPort(ProxyOption("port")) \/ ~ValidPort("target_port"), Unknown("invalid_port")>> >>

HeartbeatComplaints ==
  << <<Lacks("heartbeat_url"), Unknown("missing_heartbeat_url")>>,
     <<~TimeoutReads, Raised>> >>

(* An expected version is compared without asking GitHub. *)
ReleaseComplaints ==
  IF ~Lacks("expected_version") THEN <<>>
  ELSE << <<~TimeoutReads, Unknown("invalid_config")>>,
          <<Option(config, "repository") = "unnamed", Unknown("invalid_config")>> >>

(* The first complaint that applies, or none. *)
FirstOf(complaints) ==
  LET apply == {i \in DOMAIN complaints : complaints[i][1]}
  IN IF apply = {} THEN NoResult
     ELSE complaints[CHOOSE i \in apply : \A j \in apply : i <= j][2]

(* get_check raises for a name it does not know. *)
Complaint ==
  IF Kind(config) = "tcp_port" THEN FirstOf(TcpComplaints)
  ELSE IF Kind(config) = "ping" THEN FirstOf(PingComplaints)
  ELSE IF Kind(config) = "socks_proxy" THEN FirstOf(SocksComplaints)
  ELSE IF Kind(config) = "kuma_heartbeat" THEN FirstOf(HeartbeatComplaints)
  ELSE IF Kind(config) = "github_release_update" THEN FirstOf(ReleaseComplaints)
  ELSE Raised

(* The ways a connection may end: the name is looked up before the timeout *)
(* is set, the port is taken modulo 2^16, and neither a timeout of 0 nor   *)
(* port 0 ever connects.                                                   *)
Reached(bad, port) ==
  IF Timeout < 0 THEN {Raised, bad}
  ELSE IF Timeout = 0 \/ IntOf[Option(config, port)] % 65536 = 0 THEN {bad}
  ELSE {Ok, bad}

Compared == {Ok, Warn("update_available"), Warn("version_newer"), Unknown("invalid_version")}

-----------------------------------------------------------------------------
(* cli.main, select_checks and run_check_with_retries up to its loop; a    *)
(* section that is not enabled ends the invocation.                        *)
Launch ==
  /\ pc = "idle"
  /\ \/ LoadRaises(config) /\ Abort("load") /\ UNCHANGED attempt
     \/ /\ ~LoadRaises(config) /\ ~Enabled(config)
        /\ pc' = "ended" /\ UNCHANGED <<attempt, cause>>
     \/ /\ ~LoadRaises(config) /\ Enabled(config)
        /\ IF ~Reads(config, IntOf, "retries") \/ ~Reads(config, FloatOf, "retry_delay_seconds")
           THEN Abort("text") /\ UNCHANGED attempt
           ELSE IF Retries(config) < 0 THEN Abort("negative") /\ UNCHANGED attempt
           ELSE pc' = "attempt" /\ attempt' = 1 /\ UNCHANGED cause
  /\ UNCHANGED <<config, dry, result, pushes, sockVars>>

(* The check ends without a request or after a simple one. *)
Returns(res) ==
  /\ Goto("attempt", "judge")
  /\ result' = res
  /\ UNCHANGED <<config, dry, attempt, outside>>

Complain ==
  /\ pc = "attempt"
  /\ Complaint # NoResult /\ Returns(Complaint)

(* The check named kind runs and its options are in order. *)
Runs(kind) == pc = "attempt" /\ Kind(config) = kind /\ Complaint = NoResult

ProbePort ==
  /\ Runs("tcp_port")
  /\ \E res \in Reached(Crit("port_unreachable"), "port") : Returns(res)

Ping ==
  /\ Runs("ping")
  /\ \E res \in {Ok, Crit("ping_failed"), Unknown("ping_command_missing"), Raised} : Returns(res)

(* push_kuma: a URL is refused before anything is sent, a text of another  *)
(* shape may be refused or opened in its own way.                          *)
Refused(url) == url \in Urls \ Openable
MayBeRefused(url) == url \notin Openable

(* push_kuma from inside the check.  Once the request has left, the answer *)
(* may keep the check as long as it likes.                                 *)
PushHeartbeat ==
  /\ Runs("kuma_heartbeat")
  /\ LET url == Option(config, "heartbeat_url")
     IN \/ /\ ~Refused(url) /\ Timeout > 0
           /\ pc' = "http" /\ pushes' = pushes + 1
           /\ UNCHANGED <<config, dry, attempt, result, cause, sockVars>>
        \/ ~Refused(url) /\ Returns(Crit("kuma_push_failed"))
        \/ (MayBeRefused(url) \/ Timeout < 0) /\ Returns(Raised)

HeartbeatAnswer ==
  /\ Kind(config) = "kuma_heartbeat" /\ Goto("http", "judge")
  /\ result' \in {Ok, Crit("kuma_push_failed"), Raised}
  /\ UNCHANGED <<config, dry, attempt, outside>>

(* The latest release is the expected version, or GitHub is asked for it.  *)
FetchRelease ==
  /\ Runs("github_release_update")
  /\ IF ~Lacks("expected_version") THEN \E res \in Compared : Returns(res)
     ELSE \/ /\ Timeout > 0 /\ pc' = "http"
             /\ UNCHANGED <<config, dry, attempt, result, outside>>
          \/ Returns(Unknown("fetch_failed"))
          \/ Timeout < 0 /\ Returns(Unknown("invalid_config"))

(* ValueError is caught first, that of json included. *)
ReleaseAnswer ==
  /\ Kind(config) = "github_release_update" /\ Goto("http", "judge")
  /\ result' \in Compared \cup {Unknown("fetch_failed"), Unknown("invalid_config"), Raised}
  /\ UNCHANGED <<config, dry, attempt, outside>>

(* The proxy takes the connection, or does not. *)
SocksConnect ==
  /\ Runs("socks_proxy")
  /\ \E res \in Reached(Crit("socks_connect_failed"), ProxyOption("port")) :
       IF res # Ok THEN Returns(res)
       ELSE /\ pc' = "socks" /\ Open
            /\ UNCHANGED <<config, dry, attempt, result, cause, pushes>>

SocksStep ==
  /\ pc = "socks"
  /\ \/ Receive
     \/ Break
     \/ Answer(Option(config, "username"), Option(config, "target_host"))
  /\ UNCHANGED <<config, dry, pc, attempt, result, cause, pushes>>

SocksEnd ==
  /\ Goto("socks", "judge")
  /\ field \in Ends
  /\ result' = [connected |-> Ok, failed |-> Crit("socks_connect_failed"), raised |-> Raised][field]
  /\ UNCHANGED <<config, dry, attempt, outside>>

(* A retry that is not counted. *)
Retry_Uncounted ==
  /\ pc = "judge" /\ IsFailing(result) /\ attempt <= Retries(config)
  /\ IF RetryDelay(config) < 0 THEN Abort("negative") /\ UNCHANGED attempt
     ELSE pc' = "attempt" /\ UNCHANGED <<attempt, cause>>
  /\ SockReset
  /\ UNCHANGED <<config, dry, result, pushes>>

(* One attempt more than retries. *)
Retry_OneMore ==
  /\ pc = "judge" /\ IsFailing(result) /\ attempt <= Retries(config) + 1
  /\ IF RetryDelay(config) < 0 THEN Abort("negative") /\ UNCHANGED attempt
     ELSE pc' = "attempt" /\ attempt' = attempt + 1 /\ UNCHANGED cause
  /\ SockReset
  /\ UNCHANGED <<config, dry, result, pushes>>

(* run_check_with_retries: sleep, then again.  A negative delay raises. *)
Retry ==
  /\ pc = "judge" /\ IsFailing(result) /\ attempt <= Retries(config)
  /\ IF RetryDelay(config) < 0 THEN Abort("negative") /\ UNCHANGED attempt
     ELSE pc' = "attempt" /\ attempt' = attempt + 1 /\ UNCHANGED cause
  /\ SockReset
  /\ UNCHANGED <<config, dry, result, pushes>>

Accept ==
  /\ Goto("judge", "notify")
  /\ ~IsFailing(result) \/ attempt > Retries(config)
  /\ UNCHANGED <<config, dry, attempt, result, outside>>

(* process_result: a notification may be due.  Its command is rendered,    *)
(* then split and run: quotes that do not match and a first word that is   *)
(* no executable raise, and what looks like a command may still not start  *)
(* (a directory, not a program, too long a message).                       *)
Notify ==
  /\ pc = "notify"
  /\ \/ pc' = "push" /\ UNCHANGED cause
     \/ \E command \in Renderings(NotifyCmd(config)) :
          /\ ~dry /\ command \notin Nothing
          /\ Abort(IF command \in Commands THEN "start" ELSE "command")
  /\ UNCHANGED <<config, dry, attempt, result, pushes, sockVars>>

(* process_result reads the timeout whether there is a URL or not. *)
PushTimeoutRaises ==
  /\ pc = "push" /\ ~TimeoutReads
  /\ Abort("text")
  /\ UNCHANGED <<config, dry, attempt, result, pushes, sockVars>>

Pushes == ~dry /\ ~Lacks("kuma_push_url")

NoPush ==
  /\ Goto("push", "ended")
  /\ TimeoutReads /\ ~Pushes
  /\ UNCHANGED <<config, dry, attempt, result, outside>>

PushKuma ==
  /\ pc = "push" /\ TimeoutReads /\ Pushes
  /\ LET url == Option(config, "kuma_push_url")
     IN \/ /\ ~Refused(url) /\ PushTimeout(config) > 0
           /\ pc' = "pushed" /\ pushes' = pushes + 1 /\ UNCHANGED cause
        \/ ~Refused(url) /\ pc' = "ended" /\ UNCHANGED <<cause, pushes>>
        \/ /\ MayBeRefused(url) \/ PushTimeout(config) < 0
           /\ Abort(IF Refused(url) THEN "port" ELSE IF MayBeRefused(url) THEN "url" ELSE "negative")
           /\ UNCHANGED pushes
  /\ UNCHANGED <<config, dry, attempt, result, sockVars>>

PushAnswer ==
  /\ pc = "pushed"
  /\ \/ pc' = "ended" /\ UNCHANGED cause
     \/ Abort("answer")
  /\ UNCHANGED <<config, dry, attempt, result, pushes, sockVars>>

(* The steps that nobody else can hold up for ever. *)
Progress ==
  \/ Launch \/ Complain
  \/ ProbePort \/ Ping \/ PushHeartbeat \/ FetchRelease
  \/ SocksConnect \/ SocksStep \/ SocksEnd
  \/ Retry \/ Accept
  \/ Notify \/ PushTimeoutRaises \/ NoPush \/ PushKuma

Next == Progress \/ HeartbeatAnswer \/ ReleaseAnswer \/ PushAnswer

(* Every other wait has a deadline: a timeout per connection or recv, and  *)
(* a bounded number of bytes to read.                                      *)
Spec == Init /\ [][Next]_vars /\ WF_vars(Progress)

-----------------------------------------------------------------------------
(* What ends an invocation early, if anything does. *)
Causes == {"", "load", "text", "negative", "command", "start", "url", "port", "answer"}

TypeOK ==
  /\ IsFile(config)
  /\ dry \in BOOLEAN
  /\ pc \in {"idle", "attempt", "socks", "http", "judge", "notify", "push", "pushed",
             "ended", "aborted"}
  /\ attempt \in Nat /\ pushes \in Nat
  /\ result.status \in {"none", "OK", "WARN", "CRIT", "UNKNOWN"}
  /\ cause \in Causes
  /\ SockTypeOK
  /\ pc = "socks" => field # "off"

(* socks_proxy's README, status OK: the handshake and the request          *)
(* succeeded.  Whatever the pieces the answers come in and wherever they   *)
(* break off, OK means that the proxy said so and that the client is in    *)
(* step with it.                                                           *)
OkMeansTunnel ==
  (Kind(config) = "socks_proxy" /\ result = Ok) => TunnelIsOpen

MissingCodes == {"missing_host", "missing_config", "missing_heartbeat_url"}

(* README, --validate-config: required keys.  A check whose configuration  *)
(* passes never reports that an option it needs is missing, whichever of   *)
(* its names an option is given by, and with defaults and drop-ins merged. *)
AcceptedIsComplete ==
  result.code \in MissingCodes => Issues(config) # {}

(* What ends an invocation that the doctor could not have seen: a negative *)
(* number, a URL that has only the shape of one, an answer, an executable  *)
(* that does not start, and a command that is one as it is written and is  *)
(* none, or has unmatched quotes, once its placeholders are filled in.     *)
Unforeseen ==
  \/ cause \in {"negative", "port", "answer", "start"}
  \/ cause = "command" /\ NotifyCmd(config) \in DOMAIN Rendered \cap Commands

(* README, --doctor: option names and values, notification command, Kuma   *)
(* URLs.  A configuration in which the doctor finds no error does not make *)
(* an invocation fail as a whole, but for what it could not have seen: a   *)
(* command without placeholders, for one, that it clears can be split.     *)
ClearedRuns ==
  (pc = "aborted" /\ ~Unforeseen) => DoctorErrors(config) # {}

(* README, --print-config: what is printed is the effective configuration. *)
(* Read again it passes validation and means the same, empty options and   *)
(* defaults included, as long as every text is a single line.              *)
PrintedIsEffective ==
  (pc = "idle" /\ Enabled(config) /\ Issues(config) = {} /\ ~LoadRaises(config)) =>
    LET again == Printed(config)
    IN Issues(again) = {} /\ ~LoadRaises(again) /\ Effective(again) = Effective(config)

(* An invocation ends or waits for an HTTP answer: its attempts are bounded*)
(* and no proxy can keep it busy for ever, byte by byte.                   *)
InvocationEnds == <>(pc \in {"ended", "aborted", "http", "pushed"})

(* How far an attempt has come.  An answer of the proxy counts for more    *)
(* than the bytes of the next.                                             *)
Depth ==
  17 * [off |-> 0, method |-> 1, auth |-> 2, reply |-> 3, length |-> 4, address |-> 5, port |-> 6,
        connected |-> 7, failed |-> 7, raised |-> 7][field] - missing

Place ==
  [idle |-> 0, attempt |-> 1, http |-> 2, socks |-> 2 + Depth, judge |-> 200, notify |-> 201,
   push |-> 202, pushed |-> 203, ended |-> 204, aborted |-> 204][pc]

(* retries, _recv_exact: an invocation takes a bounded number of steps, and*)
(* the proxy has no say in it: a step takes its attempt further, or begins *)
(* another one, of which there are retries.                                *)
EveryStepCounts ==
  [][\/ Place' > Place /\ (attempt' = attempt \/ pc = "idle")
     \/ attempt' = attempt + 1 /\ attempt <= Retries(config)]_vars

(* README, --dry-run: skip Kuma pushes. *)
DryRunPushesNothing == dry => pushes = 0

=============================================================================
