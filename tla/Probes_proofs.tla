---------------------------- MODULE Probes_proofs ----------------------------
(***************************************************************************)
(* Proofs about Probes, and about Config and SocksProxy, on which it       *)
(* rests: for any configuration files, any texts that are numbers,         *)
(* commands or URLs, and any answers and their pieces.                     *)
(***************************************************************************)
EXTENDS Probes, TLAPS

-----------------------------------------------------------------------------
(* The SOCKS client. *)

Unsaid(fields) == \A f \in fields : heard[f] = "nothing"

MethodIsSettled ==
  \/ heard.method = "none" /\ heard.auth = "nothing"
  \/ heard.method = "userpass" /\ heard.auth = "success"

AddressIsSized ==
  \/ heard.reply \in {"ipv4", "ipv6"} /\ heard.length = "nothing"
  \/ heard.reply = "domain" /\ heard.length \in {"empty", "short"}

AllGiven ==
  Given("method") + Given("auth") + Given("reply") + Given("length")
    + Given("address") + Given("port")

(* What has been said when a field is read, and that the bytes taken from  *)
(* the stream and those still missing are the answers' up to that field.   *)
InStep ==
  /\ field = "off" => heard = Silence /\ read = 0 /\ missing = 0
  /\ field = "method" => Unsaid(Fields)
  /\ field = "auth" => heard.method = "userpass" /\ Unsaid(Fields \ {"method"})
  /\ field = "reply" => MethodIsSettled /\ Unsaid(Fields \ {"method", "auth"})
  /\ field = "length" => MethodIsSettled /\ heard.reply = "domain"
                         /\ Unsaid({"length", "address", "port"})
  /\ field = "address" => MethodIsSettled /\ AddressIsSized /\ Unsaid({"address", "port"})
  /\ field = "port" => MethodIsSettled /\ AddressIsSized
                       /\ heard.address = "readable" /\ Unsaid({"port"})
  /\ field \in Fields => read + missing = AllGiven + Size(field, heard)
  /\ field \in Ends => missing = 0
  /\ field = "connected" => TunnelIsOpen

SockInv == SockTypeOK /\ heard = [f \in Fields |-> heard[f]] /\ InStep

LEMMA FieldsAre == Fields = {"method", "auth", "reply", "length", "address", "port"}
  BY DEF Fields, After

LEMMA SizeType == \A f, said : Size(f, said) \in 0 .. 16
  BY DEF Size

LEMMA GivenType == \A f : Given(f) \in 0 .. 16
  BY SizeType DEF Given

LEMMA SockIdleInv == SockIdle => SockInv
  <1> SUFFICES ASSUME SockIdle PROVE SockInv
    OBVIOUS
  <1>1. field = "off" /\ missing = 0 /\ read = 0 /\ heard = [f \in Fields |-> "nothing"]
    BY DEF SockIdle, Silence
  <1> QED
    BY <1>1, FieldsAre DEF SockInv, SockTypeOK, InStep, Silence, Ends

(* Connected, a client with a connection of its own starts from nothing. *)
LEMMA OpenStep == SockInv /\ field = "off" /\ Open => SockInv'
  <1> SUFFICES ASSUME SockInv, field = "off", Open PROVE SockInv'
    OBVIOUS
  <1>1. heard = [f \in Fields |-> "nothing"] /\ read = 0
    BY DEF SockInv, InStep, Silence
  <1>2. field' = "method" /\ missing' = 2 /\ heard' = heard /\ read' = read
    BY DEF Open, Size
  <1>3. AllGiven' = 0
    BY <1>1, <1>2, FieldsAre DEF AllGiven, Given
  <1>4. Size("method", heard') = 2
    BY DEF Size
  <1> QED
    BY <1>1, <1>2, <1>3, <1>4, FieldsAre DEF SockInv, SockTypeOK, InStep, Unsaid, Ends

(* One recv takes a piece of the answer; the count stays right. *)
LEMMA ReceiveStep == SockInv /\ Receive => SockInv'
  <1> SUFFICES ASSUME SockInv, Receive PROVE SockInv'
    OBVIOUS
  <1>1. PICK n \in 1 .. missing : missing' = missing - n /\ read' = read + n
    BY DEF Receive
  <1>2. field \in Fields /\ field' = field /\ heard' = heard
    BY DEF Receive
  <1>3. missing \in 0 .. 16 /\ read \in 0 .. 26 /\ n \in Int
    BY <1>1 DEF SockInv, SockTypeOK
  <1>4. AllGiven' = AllGiven /\ Size(field, heard)' = Size(field, heard)
    BY <1>2 DEF AllGiven, Given, Size
  <1>5. read' + missing' = AllGiven + Size(field, heard)
    BY <1>1, <1>2, <1>3 DEF SockInv, InStep
  <1>6. AllGiven + Size(field, heard) <= 26
    <2>1. CASE field \in {"method", "auth", "reply", "length"}
      BY <2>1, FieldsAre
      DEF SockInv, InStep, AllGiven, Given, Size, Unsaid, MethodIsSettled
    <2>2. CASE field \in {"address", "port"}
      BY <2>2, FieldsAre
      DEF SockInv, InStep, AllGiven, Given, Size, Unsaid, MethodIsSettled, AddressIsSized
    <2> QED
      BY <1>2, <2>1, <2>2, FieldsAre
  <1>7. missing' \in 0 .. 16 /\ read' \in 0 .. 26
    BY <1>1, <1>3, <1>5, <1>6, GivenType, SizeType DEF AllGiven
  <1> QED
    BY <1>2, <1>4, <1>5, <1>7, FieldsAre
    DEF SockInv, SockTypeOK, InStep, Unsaid, MethodIsSettled, AddressIsSized, Ends

LEMMA BreakStep == SockInv /\ Break => SockInv'
  BY FieldsAre DEF Break, SockInv, SockTypeOK, InStep, Ends

(* Where a complete answer leads: to the next field or to an end. *)
LEMMA NextFieldIs ==
  ASSUME field \in Fields, NEW answer \in DOMAIN After[field], NEW user, NEW target
  PROVE  LET next == NextField(answer, user, target) IN
         \/ next \in Ends \ {"connected"}
         \/ field = "method" /\ answer = "none" /\ next = "reply"
         \/ field = "method" /\ answer = "userpass" /\ next = "auth"
         \/ field = "auth" /\ answer = "success" /\ next = "reply"
         \/ field = "reply" /\ answer \in {"ipv4", "ipv6"} /\ next = "address"
         \/ field = "reply" /\ answer = "domain" /\ next = "length"
         \/ field = "length" /\ answer \in {"empty", "short"} /\ next = "address"
         \/ field = "address" /\ answer = "readable" /\ next = "port"
         \/ field = "port" /\ next = "connected"
  <1>1. CASE field = "method"
    BY <1>1 DEF NextField, After, Ends
  <1>2. CASE field = "auth"
    BY <1>2 DEF NextField, After, Ends
  <1>3. CASE field = "reply"
    BY <1>3 DEF NextField, After, Ends
  <1>4. CASE field = "length"
    BY <1>4 DEF NextField, After, Ends
  <1>5. CASE field = "address"
    BY <1>5 DEF NextField, After, Ends
  <1>6. CASE field = "port"
    BY <1>6 DEF NextField, After, Ends
  <1> QED
    BY <1>1, <1>2, <1>3, <1>4, <1>5, <1>6, FieldsAre

(* An answer moves its bytes from those read of the field to those given;  *)
(* only a reply says which address follows, and only a domain has a length.*)
LEMMA AnswerStep ==
  ASSUME SockInv, NEW user, NEW target, Answer(user, target)
  PROVE  SockInv'
  <1>1. PICK answer \in DOMAIN After[field] :
          /\ heard' = [heard EXCEPT ![field] = answer]
          /\ field' = NextField(answer, user, target)
          /\ missing' = Size(field', heard')
    BY DEF Answer
  <1>2. field \in Fields /\ missing = 0 /\ read' = read
    BY DEF Answer
  <1>3. /\ heard'[field] = answer /\ heard' = [f \in Fields |-> heard'[f]]
        /\ \A f \in Fields \ {field} : heard'[f] = heard[f]
    BY <1>1, <1>2 DEF SockInv
  <1>4. \A f \in Fields : heard'[f] \in {"nothing"} \cup DOMAIN After[f]
    BY <1>2, <1>3 DEF SockInv, SockTypeOK
  <1>5. answer # "nothing"
    BY <1>2, FieldsAre DEF After
  <1>6. read = AllGiven + Size(field, heard) /\ read \in 0 .. 26
    BY <1>2, SizeType, GivenType DEF SockInv, InStep, SockTypeOK, AllGiven
  <1>7. Size(field, heard') = Size(field, heard) /\ Given(field) = 0
    BY <1>2, <1>3, FieldsAre DEF SockInv, InStep, Given, Size, Unsaid
  <1>8. \A f \in Fields : Given(f)' = IF f = field THEN Size(field, heard) ELSE Given(f)
    <2>1. ASSUME NEW f \in Fields \ {field}, heard[f] # "nothing"
          PROVE  Size(f, heard') = Size(f, heard)
      BY <1>2, <1>3, <2>1, FieldsAre
      DEF SockInv, InStep, Size, Unsaid, MethodIsSettled, AddressIsSized
    <2> QED
      BY <1>2, <1>3, <1>5, <1>7, <2>1 DEF Given
  <1>9. read' = AllGiven'
    <2> DEFINE size == Size(field, heard)
    <2>1. \A f \in Fields : Given(f) \in Int /\ size \in Int
      BY GivenType, SizeType
    <2> HIDE DEF size
    <2> QED
      BY <1>2, <1>6, <1>7, <1>8, <2>1, FieldsAre DEF AllGiven, size
  <1>10. missing' \in 0 .. 16 /\ (field' \in Ends => missing' = 0)
    BY <1>1, SizeType DEF Size, Ends
  <1>11. field' \in Fields => read' + missing' = AllGiven' + Size(field', heard')
    BY <1>1, <1>9
  <1>12. /\ field' \in (Fields \cup Ends) \ {"off", "method"}
         /\ field' = "auth" => field = "method" /\ answer = "userpass"
         /\ field' = "reply" => \/ field = "method" /\ answer = "none"
                                \/ field = "auth" /\ answer = "success"
         /\ field' = "length" => field = "reply" /\ answer = "domain"
         /\ field' = "address" => \/ field = "reply" /\ answer \in {"ipv4", "ipv6"}
                                  \/ field = "length" /\ answer \in {"empty", "short"}
         /\ field' = "port" => field = "address" /\ answer = "readable"
         /\ field' = "connected" => field = "port"
    BY <1>1, <1>2, NextFieldIs, FieldsAre DEF Ends
  <1>13. field' = "connected" => TunnelIsOpen'
    BY <1>3, <1>9, <1>12, FieldsAre
    DEF SockInv, InStep, TunnelIsOpen, AllGiven, MethodIsSettled, AddressIsSized
  <1>14. CASE field' \in {"auth", "reply", "length"}
    BY <1>2, <1>3, <1>4, <1>6, <1>10, <1>11, <1>12, <1>14, FieldsAre
    DEF SockInv, SockTypeOK, InStep, Unsaid, MethodIsSettled, Ends
  <1>15. CASE field' \in {"address", "port"} \cup Ends
    BY <1>2, <1>3, <1>4, <1>6, <1>10, <1>11, <1>12, <1>13, <1>15, FieldsAre
    DEF SockInv, SockTypeOK, InStep, Unsaid, MethodIsSettled, AddressIsSized, Ends
  <1> QED
    BY <1>12, <1>14, <1>15, FieldsAre

-----------------------------------------------------------------------------
(* The configuration. *)

LEMMA MergedIsFile ==
  ASSUME NEW main \in MainFiles, NEW dropin \in DropIns
  PROVE  IsFile(Merged(main, dropin))
  <1>1. IsFile(main) /\ IsFile(dropin)
    BY ProbesConstants
  <1> QED
    BY <1>1 DEF IsFile, Merged, Overlay

(* A cell whose text has no number is an issue, wherever it is looked for. *)
LEMMA BadNumberIsIssue ==
  ASSUME NEW cfg, NEW key,
         \/ key \in IntKeys /\ ~Reads(cfg, IntOf, key)
         \/ key \in FloatKeys /\ ~Reads(cfg, FloatOf, key)
  PROVE  Issues(cfg) # {}
  <1> DEFINE cell == <<"probe", key>>
  <1>1. cell \in DOMAIN cfg /\ cell[1] = "probe" /\ cell[2] = key /\ cfg[cell] = Option(cfg, key)
    BY DEF Reads, Option, Text, Nothing
  <1>2. ~WellTyped(key, cfg[cell])
    BY <1>1 DEF Reads, WellTyped
  <1>3. \A allowed : <<"type", cell>> \in CellIssues(cfg, "probe", allowed)
    BY <1>1, <1>2 DEF CellIssues
  <1> HIDE DEF cell
  <1> QED
    BY <1>3 DEF Issues

(* An option a check needs and does not find is a missing key. *)
LEMMA MissingIsIssue ==
  ASSUME NEW cfg, Kind(cfg) \in Kinds, NEW key \in MissingKeys(cfg)
  PROVE  Issues(cfg) # {}
  <1>1. Kind(cfg) \notin Nothing
    BY DEF Nothing, Absent, Kinds, CheckKeys
  <1>2. <<"missing", key>> \in Issues(cfg)
    BY <1>1 DEF Issues
  <1> QED
    BY <1>2

-----------------------------------------------------------------------------
(* What a check may find wrong with its options. *)

LEMMA LeastExists ==
  ASSUME NEW S \in SUBSET (1 .. 5), S # {}
  PROVE  \E i \in S : \A j \in S : i <= j
  <1>1. S \subseteq {1, 2, 3, 4, 5}
    OBVIOUS
  <1>2. CASE 1 \in S
    BY <1>1, <1>2
  <1>3. CASE 1 \notin S /\ 2 \in S
    BY <1>1, <1>3
  <1>4. CASE S \subseteq {3, 4, 5} /\ 3 \in S
    BY <1>4
  <1>5. CASE S \subseteq {4, 5} /\ 4 \in S
    BY <1>5
  <1>6. CASE S = {5}
    BY <1>6
  <1> QED
    BY <1>1, <1>2, <1>3, <1>4, <1>5, <1>6

(* The ways a complaint may read; a missing option is an issue. *)
Accepted(res) ==
  /\ res.status \in {"none", "UNKNOWN"}
  /\ res.code \in MissingCodes => Issues(config) # {}

LEMMA FirstOfAccepted ==
  ASSUME NEW complaints, DOMAIN complaints \subseteq 1 .. 5,
         \A i \in DOMAIN complaints : complaints[i][1] => Accepted(complaints[i][2])
  PROVE  Accepted(FirstOf(complaints))
  <1> DEFINE apply == {i \in DOMAIN complaints : complaints[i][1]}
             first == CHOOSE i \in apply : \A j \in apply : i <= j
  <1>1. apply # {} => first \in apply
    BY LeastExists
  <1>2. FirstOf(complaints) = IF apply = {} THEN NoResult ELSE complaints[first][2]
    BY DEF FirstOf
  <1>3. Accepted(NoResult)
    BY DEF Accepted, NoResult, MissingCodes
  <1> HIDE DEF first
  <1> QED
    BY <1>1, <1>2, <1>3

LEMMA ComplaintAccepted == Accepted(Complaint)
  <1>0. Accepted(Raised)
    BY DEF Accepted, Raised, MissingCodes
  <1> USE DEF Unknown, MissingCodes
  <1>1. CASE Kind(config) = "tcp_port"
    <2>1. Lacks("host") => Issues(config) # {}
      <3>1. Lacks("host") => "host" \in MissingKeys(config)
        BY <1>1 DEF Lacks, MissingKeys, RequiredCheckKeys
      <3> QED
        BY <1>1, <3>1, MissingIsIssue DEF Kinds, CheckKeys
    <2>2. /\ DOMAIN TcpComplaints \subseteq 1 .. 5
          /\ \A i \in DOMAIN TcpComplaints :
               TcpComplaints[i][1] => Accepted(TcpComplaints[i][2])
      BY <1>0, <2>1 DEF TcpComplaints, Accepted
    <2> QED
      BY <1>1, <2>2, FirstOfAccepted DEF Complaint
  <1>2. CASE Kind(config) = "ping"
    <2>1. Lacks("host") => Issues(config) # {}
      <3>1. Lacks("host") => "host" \in MissingKeys(config)
        BY <1>2 DEF Lacks, MissingKeys, RequiredCheckKeys
      <3> QED
        BY <1>2, <3>1, MissingIsIssue DEF Kinds, CheckKeys
    <2>2. /\ DOMAIN PingComplaints \subseteq 1 .. 5
          /\ \A i \in DOMAIN PingComplaints :
               PingComplaints[i][1] => Accepted(PingComplaints[i][2])
      BY <1>0, <2>1 DEF PingComplaints, Accepted
    <2> QED
      BY <1>2, <2>2, FirstOfAccepted DEF Complaint
  <1>3. CASE Kind(config) = "socks_proxy"
    <2>1. LacksOneOf({ProxyOption("host"), ProxyOption("port"), "target_host", "target_port"})
            => Issues(config) # {}
      <3>1. ASSUME NEW k \in {ProxyOption("host"), ProxyOption("port"), "target_host", "target_port"},
                   Lacks(k)
            PROVE  \E key \in {"host", "port", "target_host", "target_port"} :
                     key \in MissingKeys(config)
        BY <1>3, <3>1 DEF Lacks, MissingKeys, RequiredCheckKeys, ProxyOption, ProxyKey
      <3> QED
        BY <1>3, <3>1, MissingIsIssue DEF Kinds, CheckKeys, LacksOneOf
    <2>2. /\ DOMAIN SocksComplaints \subseteq 1 .. 5
          /\ \A i \in DOMAIN SocksComplaints :
               SocksComplaints[i][1] => Accepted(SocksComplaints[i][2])
      BY <1>0, <2>1 DEF SocksComplaints, Accepted
    <2> QED
      BY <1>3, <2>2, FirstOfAccepted DEF Complaint
  <1>4. CASE Kind(config) = "kuma_heartbeat"
    <2>1. Lacks("heartbeat_url") => Issues(config) # {}
      <3>1. Lacks("heartbeat_url") => "heartbeat_url" \in MissingKeys(config)
        BY <1>4 DEF Lacks, MissingKeys, RequiredCheckKeys
      <3> QED
        BY <1>4, <3>1, MissingIsIssue DEF Kinds, CheckKeys
    <2>2. /\ DOMAIN HeartbeatComplaints \subseteq 1 .. 5
          /\ \A i \in DOMAIN HeartbeatComplaints :
               HeartbeatComplaints[i][1] => Accepted(HeartbeatComplaints[i][2])
      BY <1>0, <2>1 DEF HeartbeatComplaints, Accepted
    <2> QED
      BY <1>4, <2>2, FirstOfAccepted DEF Complaint
  <1>5. CASE Kind(config) = "github_release_update"
    <2>1. /\ DOMAIN ReleaseComplaints \subseteq 1 .. 5
          /\ \A i \in DOMAIN ReleaseComplaints :
               ReleaseComplaints[i][1] => Accepted(ReleaseComplaints[i][2])
      BY DEF ReleaseComplaints, Accepted
    <2> QED
      BY <1>5, <2>1, FirstOfAccepted DEF Complaint
  <1>6. CASE Kind(config) \notin {"tcp_port", "ping", "socks_proxy", "kuma_heartbeat",
                                  "github_release_update"}
    BY <1>0, <1>6 DEF Complaint
  <1> QED
    BY <1>1, <1>2, <1>3, <1>4, <1>5, <1>6

-----------------------------------------------------------------------------
(* The invocation. *)

(* Past the launch the configuration has been loaded and is in use. *)
IsLoaded ==
  pc \notin {"idle", "ended", "aborted"} => Enabled(config) /\ ~LoadRaises(config)

(* An attempt begins with no connection and without a good result. *)
BeginsAfresh ==
  /\ pc \in {"idle", "attempt"} => SockIdle
  /\ pc \in {"idle", "attempt", "socks", "http"} => result # Ok

ProbesInv ==
  /\ TypeOK /\ SockInv /\ IsLoaded /\ BeginsAfresh
  /\ OkMeansTunnel /\ AcceptedIsComplete /\ ClearedRuns

LEMMA ResultsDiffer ==
  /\ NoResult # Ok /\ Raised # Ok
  /\ \A code : Crit(code) # Ok /\ Unknown(code) # Ok
  /\ \A code : Warn(code) # Ok
  BY DEF NoResult, Raised, Ok, Crit, Unknown, Warn

LEMMA InitProbesInv == Init => ProbesInv
  <1> SUFFICES ASSUME Init PROVE ProbesInv
    OBVIOUS
  <1>1. IsFile(config)
    BY MergedIsFile DEF Init
  <1>2. SockInv /\ SockIdle
    BY SockIdleInv DEF Init
  <1>3. result = NoResult /\ result # Ok /\ result.status = "none" /\ result.code \notin MissingCodes
    BY ResultsDiffer DEF Init, NoResult, MissingCodes
  <1>4. cause \in Causes
    BY Zenon DEF Init, Causes
  <1>5. TypeOK
    BY <1>1, <1>2, <1>3, <1>4 DEF Init, TypeOK, SockInv
  <1> QED
    BY <1>2, <1>3, <1>5
    DEF Init, ProbesInv, IsLoaded, BeginsAfresh, OkMeansTunnel, AcceptedIsComplete, ClearedRuns

(* What an invariant says of the configuration stays said. *)
LEMMA ConfigKept ==
  ASSUME config' = config
  PROVE  /\ IsFile(config') <=> IsFile(config)
         /\ (Kind(config) = "socks_proxy")' <=> Kind(config) = "socks_proxy"
         /\ (Enabled(config) /\ ~LoadRaises(config))' <=> (Enabled(config) /\ ~LoadRaises(config))
         /\ (Issues(config) # {})' <=> Issues(config) # {}
         /\ (DoctorErrors(config) # {})' <=> DoctorErrors(config) # {}
  OBVIOUS

(* The connection is left alone. *)
LEMMA SockKept ==
  ASSUME SockInv, sockVars' = sockVars
  PROVE  /\ SockInv' /\ (SockIdle' <=> SockIdle) /\ (TunnelIsOpen' <=> TunnelIsOpen)
  BY DEF sockVars, SockInv, SockTypeOK, InStep, SockIdle, TunnelIsOpen, Unsaid, MethodIsSettled,
         AddressIsSized, AllGiven, Given

(* The check returns: what it does not return is a good result it did not  *)
(* earn or a complaint about a complete configuration.                     *)
LEMMA ReturnsStep ==
  ASSUME ProbesInv, NEW res, pc' = "judge", pc # "idle", pc \notin {"ended", "aborted"},
         result' = res, res.status \in {"none", "OK", "WARN", "CRIT", "UNKNOWN"},
         res.code \in MissingCodes => Issues(config) # {},
         Kind(config) = "socks_proxy" /\ res = Ok => TunnelIsOpen,
         UNCHANGED <<config, dry, attempt, outside>>
  PROVE  ProbesInv'
  <1>1. config' = config /\ sockVars' = sockVars
    BY DEF outside
  <1>2. TypeOK'
    BY <1>1, SockKept, ConfigKept DEF ProbesInv, TypeOK, outside, SockInv
  <1>3. IsLoaded' /\ BeginsAfresh' /\ ClearedRuns'
    BY <1>1, ConfigKept DEF ProbesInv, IsLoaded, BeginsAfresh, ClearedRuns
  <1>4. OkMeansTunnel' /\ AcceptedIsComplete'
    BY <1>1, SockKept, ConfigKept DEF ProbesInv, OkMeansTunnel, AcceptedIsComplete
  <1> QED
    BY <1>1, <1>2, <1>3, <1>4, SockKept DEF ProbesInv

(* A step that keeps the result, the attempt and the connection, and is no *)
(* way back to an attempt.                                                 *)
LEMMA OnwardStep ==
  ASSUME ProbesInv, UNCHANGED <<config, dry, attempt, result, sockVars>>,
         pc \notin {"idle", "ended", "aborted"},
         pc' \in {"http", "judge", "notify", "push", "pushed", "ended", "aborted"},
         pc' = "http" => pc = "attempt",
         cause' \in Causes,
         pushes' \in Nat,
         pc' = "aborted" /\ ~Unforeseen' => DoctorErrors(config) # {}
  PROVE  ProbesInv'
  <1>1. config' = config /\ sockVars' = sockVars /\ result' = result
    OBVIOUS
  <1>2. TypeOK'
    BY <1>1, SockKept, ConfigKept DEF ProbesInv, TypeOK, SockInv
  <1>3. IsLoaded' /\ BeginsAfresh'
    BY <1>1, ConfigKept DEF ProbesInv, IsLoaded, BeginsAfresh
  <1>4. ClearedRuns'
    BY <1>1, ConfigKept DEF ClearedRuns
  <1>5. OkMeansTunnel' /\ AcceptedIsComplete'
    BY <1>1, SockKept, ConfigKept DEF ProbesInv, OkMeansTunnel, AcceptedIsComplete
  <1> QED
    BY <1>1, <1>2, <1>3, <1>4, <1>5, SockKept DEF ProbesInv

(* A number that is not one is found by the doctor, as validate_config's.  *)
LEMMA BadNumberIsFound ==
  ASSUME NEW key,
         \/ key \in IntKeys /\ ~Reads(config, IntOf, key)
         \/ key \in FloatKeys /\ ~Reads(config, FloatOf, key)
  PROVE  DoctorErrors(config) # {}
  <1>1. Issues(config) # {}
    BY BadNumberIsIssue
  <1> QED
    BY <1>1 DEF DoctorErrors

(* cli.main: what ends an invocation before its loop is a configuration    *)
(* that does not load or a number that is not one, or a negative number.   *)
LEMMA LaunchStep == ProbesInv /\ Launch => ProbesInv'
  <1> SUFFICES ASSUME ProbesInv, Launch PROVE ProbesInv'
    OBVIOUS
  <1>1. /\ pc = "idle" /\ SockIdle /\ result # Ok
        /\ UNCHANGED <<config, dry, result, pushes, sockVars>>
    BY DEF Launch, ProbesInv, BeginsAfresh
  <1>2. \/ /\ pc' = "aborted" /\ attempt' = attempt
           /\ cause' \in {"load", "text", "negative"}
           /\ cause' # "negative" => DoctorErrors(config) # {}
        \/ pc' = "ended" /\ attempt' = attempt /\ cause' = cause
        \/ /\ pc' = "attempt" /\ attempt' = 1 /\ cause' = cause
           /\ Enabled(config) /\ ~LoadRaises(config)
    <2>1. CASE LoadRaises(config) /\ Abort("load") /\ UNCHANGED attempt
      BY <2>1 DEF Abort, DoctorErrors
    <2>2. CASE ~LoadRaises(config) /\ ~Enabled(config)
      BY <2>2 DEF Launch
    <2>3. CASE /\ ~LoadRaises(config) /\ Enabled(config)
               /\ ~Reads(config, IntOf, "retries") \/ ~Reads(config, FloatOf, "retry_delay_seconds")
      <3>1. DoctorErrors(config) # {}
        BY <2>3, BadNumberIsFound DEF IntKeys, FloatKeys
      <3> QED
        BY <2>3, <3>1 DEF Launch, Abort
    <2>4. CASE /\ ~LoadRaises(config) /\ Enabled(config)
               /\ Reads(config, IntOf, "retries") /\ Reads(config, FloatOf, "retry_delay_seconds")
      BY <2>4 DEF Launch, Abort
    <2> QED
      BY <2>1, <2>2, <2>3, <2>4 DEF Launch
  <1>3. TypeOK'
    <2>1. attempt' \in Nat
      BY <1>2 DEF ProbesInv, TypeOK
    <2>2. /\ pc' \in {"aborted", "ended", "attempt"}
          /\ cause' \in Causes
      <3>1. {"load", "text", "negative"} \subseteq Causes
        BY Zenon DEF Causes
      <3> QED
        BY <1>2, <3>1 DEF ProbesInv, TypeOK
    <2> QED
      BY <1>1, <2>1, <2>2, SockKept, ConfigKept DEF ProbesInv, TypeOK, SockInv
  <1>4. IsLoaded' /\ BeginsAfresh'
    BY <1>1, <1>2, SockKept, ConfigKept DEF ProbesInv, IsLoaded, BeginsAfresh
  <1>5. ClearedRuns' /\ OkMeansTunnel' /\ AcceptedIsComplete'
    BY <1>1, <1>2, ConfigKept
    DEF ProbesInv, ClearedRuns, Unforeseen, OkMeansTunnel, AcceptedIsComplete
  <1> QED
    BY <1>1, <1>3, <1>4, <1>5, SockKept DEF ProbesInv

(* The checks that return at once or wait for an HTTP answer. *)
LEMMA SimpleCheckStep ==
  ASSUME ProbesInv,
         Complain \/ ProbePort \/ Ping \/ PushHeartbeat \/ HeartbeatAnswer
           \/ FetchRelease \/ ReleaseAnswer
  PROVE  ProbesInv'
  <1>0. /\ pushes \in Nat /\ pc \in {"attempt", "http"}
        /\ cause \in Causes
    <2>1. pushes \in Nat /\ cause \in Causes
      BY DEF ProbesInv, TypeOK
    <2>2. pc = "attempt" \/ pc = "http"
      BY DEF Complain, ProbePort, Ping, PushHeartbeat, HeartbeatAnswer, FetchRelease,
             ReleaseAnswer, Runs, Goto
    <2> QED
      BY <2>1, <2>2
  <1>1. CASE Complain
    <2>1. Ok.status = "OK"
      BY DEF Ok
    <2>2. /\ Complaint.status \in {"none", "UNKNOWN"}
          /\ Complaint.code \in MissingCodes => Issues(config) # {}
      BY ComplaintAccepted DEF Accepted
    <2>3. Complaint # Ok
      BY <2>1, <2>2
    <2> QED
      BY <1>0, <1>1, <2>2, <2>3, ReturnsStep DEF Complain, Returns, Goto
  <1>2. CASE \E res \in {Ok, Raised} \cup {Crit(c) : c \in {"port_unreachable", "ping_failed",
                                                        "kuma_push_failed"}}
                        \cup {Unknown(c) : c \in {"ping_command_missing", "fetch_failed",
                                                  "invalid_config", "invalid_version"}}
                        \cup {Warn(c) : c \in {"update_available", "version_newer"}} :
               /\ Kind(config) # "socks_proxy" /\ pc' = "judge" /\ result' = res
               /\ UNCHANGED <<config, dry, attempt, outside>>
    <2>1. PICK res \in {Ok, Raised} \cup {Crit(c) : c \in {"port_unreachable", "ping_failed",
                                                          "kuma_push_failed"}}
                       \cup {Unknown(c) : c \in {"ping_command_missing", "fetch_failed",
                                                 "invalid_config", "invalid_version"}}
                       \cup {Warn(c) : c \in {"update_available", "version_newer"}} :
               /\ Kind(config) # "socks_proxy" /\ pc' = "judge" /\ result' = res
               /\ UNCHANGED <<config, dry, attempt, outside>>
      BY <1>2
    <2>2. /\ res.status \in {"none", "OK", "WARN", "CRIT", "UNKNOWN"}
          /\ res.code \notin MissingCodes
      <3>1. CASE res \in {Ok, Raised}
        <4>1. Ok.code \notin MissingCodes /\ Ok.status = "OK"
          BY DEF Ok, MissingCodes
        <4>2. Raised.code \notin MissingCodes /\ Raised.status = "UNKNOWN"
          BY DEF Raised, MissingCodes
        <4> QED
          BY <3>1, <4>1, <4>2
      <3>2. CASE \E c \in {"port_unreachable", "ping_failed", "kuma_push_failed"} : res = Crit(c)
        BY <3>2 DEF Crit, MissingCodes
      <3>3. CASE \E c \in {"ping_command_missing", "fetch_failed", "invalid_config",
                           "invalid_version"} : res = Unknown(c)
        BY <3>3 DEF Unknown, MissingCodes
      <3>4. CASE \E c \in {"update_available", "version_newer"} : res = Warn(c)
        BY <3>4 DEF Warn, MissingCodes
      <3> QED
        BY <2>1, <3>1, <3>2, <3>3, <3>4
    <2> QED
      BY <1>0, <2>1, <2>2, ReturnsStep
  <1>3. CASE /\ pc = "attempt" /\ pc' = "http" /\ pushes' \in {pushes, pushes + 1}
             /\ UNCHANGED <<config, dry, attempt, result, cause, sockVars>>
    <2>1. pushes' = pushes \/ pushes' = pushes + 1
      BY <1>3
    <2>2. pushes' \in Nat
      BY <1>0, <2>1
    <2> QED
      BY <1>0, <1>3, <2>2, OnwardStep
  <1>4. CASE ProbePort
    <2>1. Kind(config) = "tcp_port"
      BY <1>4 DEF ProbePort, Runs
    <2> QED
      BY <1>2, <1>4, <2>1 DEF ProbePort, Reached, Returns, Goto
  <1>5. CASE Ping
    BY <1>2, <1>5 DEF Ping, Runs, Returns, Goto
  <1>6. CASE PushHeartbeat
    <2>1. Kind(config) = "kuma_heartbeat" /\ pc = "attempt"
      BY <1>6 DEF PushHeartbeat, Runs
    <2> QED
      BY <1>2, <1>3, <1>6, <2>1 DEF PushHeartbeat, Returns, Goto
  <1>7. CASE HeartbeatAnswer
    BY <1>2, <1>7 DEF HeartbeatAnswer, Goto
  <1>8. CASE FetchRelease
    <2>1. Kind(config) = "github_release_update" /\ pc = "attempt"
      BY <1>8 DEF FetchRelease, Runs
    <2>2. CASE ~Lacks("expected_version")
      BY <1>2, <1>8, <2>1, <2>2 DEF FetchRelease, Compared, Returns, Goto
    <2>3. CASE Lacks("expected_version")
      BY <1>2, <1>3, <1>8, <2>1, <2>3 DEF FetchRelease, outside, Returns, Goto
    <2> QED
      BY <2>2, <2>3
  <1>9. CASE ReleaseAnswer
    BY <1>2, <1>9 DEF ReleaseAnswer, Compared, Goto
  <1> QED
    BY <1>1, <1>4, <1>5, <1>6, <1>7, <1>8, <1>9

(* A step of the connection, which the attempt waits for. *)
LEMMA SocksGoesOn ==
  ASSUME ProbesInv, SockInv', field' # "off", pc \in {"attempt", "socks"}, pc' = "socks",
         result # Ok, UNCHANGED <<config, dry, attempt, result, cause, pushes>>
  PROVE  ProbesInv'
  <1>1. config' = config
    OBVIOUS
  <1>2. TypeOK'
    BY <1>1, ConfigKept DEF ProbesInv, TypeOK, SockInv
  <1>3. IsLoaded' /\ BeginsAfresh'
    BY <1>1, ConfigKept DEF ProbesInv, IsLoaded, BeginsAfresh
  <1>4. ClearedRuns' /\ OkMeansTunnel' /\ AcceptedIsComplete'
    <2>1. result' # Ok'
      BY DEF Ok
    <2> QED
      BY <1>1, <2>1, ConfigKept DEF ProbesInv, ClearedRuns, OkMeansTunnel, AcceptedIsComplete
  <1> QED
    BY <1>2, <1>3, <1>4 DEF ProbesInv

(* The attempt's connection: its proxy answers in pieces, in step, to an   *)
(* end; only the last answer in its place earns an OK.                     *)
LEMMA SocksCheckStep ==
  ASSUME ProbesInv, SocksConnect \/ SocksStep \/ SocksEnd
  PROVE  ProbesInv'
  <1>0. Ok.status = "OK" /\ Ok.code \notin MissingCodes
    BY DEF Ok, MissingCodes
  <1>1. Raised.status = "UNKNOWN" /\ Raised.code \notin MissingCodes
    BY DEF Raised, MissingCodes
  <1>2. LET bad == Crit("socks_connect_failed") IN bad.status = "CRIT" /\ bad.code \notin MissingCodes
    BY DEF Crit, MissingCodes
  <1>3. CASE SocksConnect
    <2>1. PICK res \in {Ok, Raised, Crit("socks_connect_failed")} :
            IF res # Ok THEN Returns(res)
            ELSE /\ pc' = "socks" /\ Open
                 /\ UNCHANGED <<config, dry, attempt, result, cause, pushes>>
      BY <1>3 DEF SocksConnect, Reached
    <2>2. pc = "attempt" /\ field = "off" /\ SockInv /\ result # Ok
      BY <1>3 DEF SocksConnect, Runs, ProbesInv, BeginsAfresh, SockIdle
    <2>3. CASE res # Ok
      <3>1. /\ res.status \in {"none", "OK", "WARN", "CRIT", "UNKNOWN"}
            /\ res.code \notin MissingCodes
        BY <1>1, <1>2, <2>1, <2>3
      <3> QED
        BY <2>1, <2>2, <2>3, <3>1, ReturnsStep DEF Returns, Goto
    <2>4. CASE res = Ok
      <3>1. /\ pc' = "socks" /\ Open
            /\ UNCHANGED <<config, dry, attempt, result, cause, pushes>>
        BY <2>1, <2>4
      <3>2. SockInv' /\ field' # "off"
        BY <2>2, <3>1, OpenStep DEF Open
      <3> QED
        BY <2>2, <3>1, <3>2, SocksGoesOn
    <2> QED
      BY <2>3, <2>4
  <1>4. CASE SocksStep
    <2>1. /\ pc = "socks" /\ pc' = "socks" /\ SockInv /\ result # Ok
          /\ UNCHANGED <<config, dry, attempt, result, cause, pushes>>
      BY <1>4 DEF SocksStep, ProbesInv, BeginsAfresh
    <2>2. SockInv' /\ field' # "off"
      <3>1. CASE Receive
        BY <2>1, <3>1, ReceiveStep, FieldsAre DEF Receive
      <3>2. CASE Break
        BY <2>1, <3>2, BreakStep DEF Break
      <3>3. CASE Answer(Option(config, "username"), Option(config, "target_host"))
        <4>1. SockInv'
          BY <2>1, <3>3, AnswerStep
        <4>2. field' # "off"
          BY <3>3, NextFieldIs DEF Answer, Ends
        <4> QED
          BY <4>1, <4>2
      <3> QED
        BY <1>4, <3>1, <3>2, <3>3 DEF SocksStep
    <2> QED
      BY <2>1, <2>2, SocksGoesOn
  <1>5. CASE SocksEnd
    <2>1. /\ pc = "socks" /\ pc' = "judge" /\ field \in Ends
          /\ UNCHANGED <<config, dry, attempt, outside>>
      BY <1>5 DEF SocksEnd, Goto
    <2>2. \/ field = "connected" /\ result' = Ok
          \/ field = "failed" /\ result' = Crit("socks_connect_failed")
          \/ field = "raised" /\ result' = Raised
      BY <1>5 DEF SocksEnd, Ends
    <2>3. field = "connected" => TunnelIsOpen
      BY DEF ProbesInv, SockInv, InStep
    <2>4. PICK res : result' = res
      OBVIOUS
    <2>5. /\ res.status \in {"none", "OK", "WARN", "CRIT", "UNKNOWN"}
          /\ res.code \notin MissingCodes
          /\ res = Ok => TunnelIsOpen
      BY <1>0, <1>1, <1>2, <2>2, <2>3, <2>4
    <2> QED
      BY <2>1, <2>4, <2>5, ReturnsStep
  <1> QED
    BY <1>3, <1>4, <1>5

(* What a result that failed comes to: another attempt, from nothing, or,  *)
(* where the delay is negative, the end.                                   *)
LEMMA RetryStep == ProbesInv /\ Retry => ProbesInv'
  <1> SUFFICES ASSUME ProbesInv, Retry PROVE ProbesInv'
    OBVIOUS
  <1>1. /\ pc = "judge" /\ config' = config /\ dry' = dry /\ result' = result /\ pushes' = pushes
        /\ SockIdle'
    BY DEF Retry, SockReset, SockIdle, Silence
  <1>2. \/ pc' = "aborted" /\ cause' = "negative" /\ attempt' = attempt
        \/ pc' = "attempt" /\ cause' = cause /\ attempt' = attempt + 1
    BY DEF Retry, Abort
  <1>3. result # Ok /\ result' # Ok'
    <2>1. Ok.status = "OK" /\ Ok' = Ok
      BY DEF Ok
    <2>2. result.status \in {"CRIT", "UNKNOWN"} /\ result' = result
      BY DEF Retry, IsFailing
    <2> QED
      BY <2>1, <2>2
  <1>4. SockInv'
    BY <1>1, SockIdleInv, PTL
  <1>5. TypeOK'
    <2>1. attempt' \in Nat
      BY <1>2 DEF ProbesInv, TypeOK
    <2>2. cause' \in Causes
      <3>1. "negative" \in Causes
        BY Zenon DEF Causes
      <3> QED
        BY <1>2, <3>1 DEF ProbesInv, TypeOK
    <2>3. pc' = "aborted" \/ pc' = "attempt"
      BY <1>2
    <2> QED
      BY <1>1, <1>4, <2>1, <2>2, <2>3, ConfigKept DEF ProbesInv, TypeOK, SockInv
  <1>6. IsLoaded' /\ BeginsAfresh'
    BY <1>1, <1>2, <1>3, ConfigKept DEF ProbesInv, IsLoaded, BeginsAfresh
  <1>7. ClearedRuns' /\ OkMeansTunnel' /\ AcceptedIsComplete'
    BY <1>1, <1>2, <1>3, ConfigKept
    DEF ProbesInv, ClearedRuns, Unforeseen, OkMeansTunnel, AcceptedIsComplete
  <1> QED
    BY <1>4, <1>5, <1>6, <1>7 DEF ProbesInv

(* The result is judged, told and pushed: what ends the invocation here is *)
(* a command, a number or a URL the doctor finds, or what it cannot see.   *)
LEMMA FinishStep ==
  ASSUME ProbesInv,
         Accept \/ Notify \/ PushTimeoutRaises \/ NoPush \/ PushKuma \/ PushAnswer
  PROVE  ProbesInv'
  <1>0. {"text", "command", "start", "url", "port", "negative", "answer"} \subseteq Causes
    BY Zenon DEF Causes
  <1>1. pushes \in Nat /\ cause \in Causes /\ IsLoaded
    BY DEF ProbesInv, TypeOK
  <1>2. /\ pc \in {"judge", "notify", "push", "pushed"}
        /\ UNCHANGED <<config, dry, attempt, result, sockVars>>
    BY DEF Accept, Notify, PushTimeoutRaises, NoPush, PushKuma, PushAnswer, Goto, outside
  <1>3. Enabled(config) /\ ~LoadRaises(config)
    BY <1>1, <1>2 DEF IsLoaded
  <1>4. CASE /\ pc' \in {"notify", "push", "ended"}
             /\ cause' = cause /\ pushes' = pushes
    BY <1>1, <1>2, <1>4, OnwardStep
  <1>5. CASE /\ pc' = "aborted" /\ pushes' = pushes
             /\ cause' \in {"text", "command", "start", "url", "port", "negative", "answer"}
             /\ cause' \in {"text", "url"} => DoctorErrors(config) # {}
             /\ cause' = "command" /\ NotifyCmd(config) \notin DOMAIN Rendered \cap Commands
                  => DoctorErrors(config) # {}
    <2>1. NotifyCmd(config') = NotifyCmd(config)
      BY <1>2
    <2>2. ~Unforeseen' => DoctorErrors(config) # {}
      BY <1>5, <2>1 DEF Unforeseen
    <2> QED
      BY <1>0, <1>1, <1>2, <1>5, <2>2, OnwardStep
  <1>6. CASE Accept \/ NoPush
    BY <1>4, <1>6 DEF Accept, NoPush, Goto, outside
  <1>7. CASE Notify
    <2> DEFINE template == NotifyCmd(config)
    <2>1. template \notin Nothing \cup Commands => DoctorErrors(config) # {}
      <3> SUFFICES ASSUME template \notin Nothing \cup Commands
                   PROVE  DoctorErrors(config) # {}
        OBVIOUS
      <3>1. template \in CommandsUsed(config)
        BY <1>3 DEF NotifyCmd, CommandsUsed, Nothing
      <3>2. <<"notify_cmd", template>> \in DoctorErrors(config)
        BY <1>3, <3>1 DEF DoctorErrors
      <3> QED
        BY <3>2
    <2>2. ASSUME NEW command \in Renderings(template), command \notin Nothing \cup Commands,
                 template \notin DOMAIN Rendered \cap Commands
          PROVE  template \notin Nothing \cup Commands
      <3>1. CASE template \in DOMAIN Rendered
        BY <2>2, <3>1, ConfigConstants
      <3>2. CASE template \notin DOMAIN Rendered
        BY <2>2, <3>2 DEF Renderings
      <3> QED
        BY <3>1, <3>2
    <2>3. CASE \E command \in Renderings(template) :
                 /\ ~dry /\ command \notin Nothing
                 /\ Abort(IF command \in Commands THEN "start" ELSE "command")
      <3>1. PICK command \in Renderings(template) :
              /\ command \notin Nothing
              /\ Abort(IF command \in Commands THEN "start" ELSE "command")
        BY <2>3
      <3>2. /\ pc' = "aborted" /\ pushes' = pushes
            /\ cause' = IF command \in Commands THEN "start" ELSE "command"
        BY <1>7, <3>1 DEF Abort, Notify
      <3> QED
        BY <1>5, <2>1, <2>2, <3>1, <3>2
    <2> QED
      BY <1>4, <1>7, <2>3 DEF Notify
  <1>8. CASE PushTimeoutRaises
    <2>1. DoctorErrors(config) # {}
      BY <1>8, BadNumberIsFound DEF PushTimeoutRaises, TimeoutReads, FloatKeys
    <2> QED
      BY <1>5, <1>8, <2>1 DEF PushTimeoutRaises, Abort
  <1>9. CASE PushKuma
    <2> DEFINE url == Option(config, "kuma_push_url")
    <2>1. pc = "push" /\ url \notin Nothing
      BY <1>9 DEF PushKuma, Pushes, Lacks
    <2>2. CASE pc' = "pushed" /\ pushes' = pushes + 1 /\ cause' = cause
      <3>1. pushes' \in Nat
        BY <1>1, <2>2
      <3> QED
        BY <1>1, <1>2, <2>2, <3>1, OnwardStep
    <2>3. CASE pc' = "ended" /\ UNCHANGED <<cause, pushes>>
      BY <1>4, <2>3
    <2>4. CASE /\ Abort(IF Refused(url) THEN "port" ELSE IF MayBeRefused(url) THEN "url" ELSE "negative")
               /\ UNCHANGED pushes
      <3>1. ~Refused(url) /\ MayBeRefused(url) => DoctorErrors(config) # {}
        <4> SUFFICES ASSUME ~Refused(url), MayBeRefused(url) PROVE DoctorErrors(config) # {}
          OBVIOUS
        <4>1. url \notin Urls
          BY DEF Refused, MayBeRefused
        <4>2. url \in UrlsUsed(config)
          BY <1>3, <2>1 DEF UrlsUsed
        <4>3. <<"url", url>> \in DoctorErrors(config)
          BY <1>3, <4>1, <4>2 DEF DoctorErrors
        <4> QED
          BY <4>3
      <3> QED
        BY <1>5, <2>4, <3>1 DEF Abort
    <2> QED
      BY <1>9, <2>2, <2>3, <2>4 DEF PushKuma
  <1>10. CASE PushAnswer
    BY <1>4, <1>5, <1>10 DEF PushAnswer, Abort
  <1> QED
    BY <1>6, <1>7, <1>8, <1>9, <1>10

LEMMA StepProbesInv == ProbesInv /\ [Next]_vars => ProbesInv'
  <1> SUFFICES ASSUME ProbesInv, [Next]_vars PROVE ProbesInv'
    OBVIOUS
  <1>1. CASE Launch
    BY <1>1, LaunchStep
  <1>2. CASE Complain \/ ProbePort \/ Ping \/ PushHeartbeat \/ HeartbeatAnswer
               \/ FetchRelease \/ ReleaseAnswer
    BY <1>2, SimpleCheckStep
  <1>3. CASE SocksConnect \/ SocksStep \/ SocksEnd
    BY <1>3, SocksCheckStep
  <1>4. CASE Retry
    BY <1>4, RetryStep
  <1>5. CASE Accept \/ Notify \/ PushTimeoutRaises \/ NoPush \/ PushKuma \/ PushAnswer
    BY <1>5, FinishStep
  <1>6. CASE UNCHANGED vars
    <2>1. UNCHANGED <<config, dry, pc, attempt, result, cause, pushes, sockVars>>
      BY <1>6 DEF vars
    <2>2. SockInv' /\ (SockIdle' <=> SockIdle) /\ (TunnelIsOpen' <=> TunnelIsOpen) /\ field' = field
      BY <2>1, SockKept DEF ProbesInv, sockVars
    <2>3. TypeOK'
      BY <2>1, <2>2, ConfigKept DEF ProbesInv, TypeOK, SockInv
    <2> QED
      BY <2>1, <2>2, <2>3, ConfigKept
      DEF ProbesInv, IsLoaded, BeginsAfresh, OkMeansTunnel, AcceptedIsComplete, ClearedRuns,
          Unforeseen
  <1> QED
    BY <1>1, <1>2, <1>3, <1>4, <1>5, <1>6 DEF Next, Progress

-----------------------------------------------------------------------------
(* What --print-config writes, read again. *)

(* A cell of what is printed, section by section. *)
LEMMA PrintedCells ==
  ASSUME NEW cfg
  PROVE  /\ \A s, k : <<s, k>> \in DOMAIN Printed(cfg) <=>
                        \/ s = "global" /\ k = "max_run_seconds"
                        \/ s = "default" /\ k \in DOMAIN DefaultOptions(cfg)
                        \/ s = "probe" /\ k \in DOMAIN PrintedOptions(cfg)
         /\ \A c \in DOMAIN Printed(cfg) : c = <<c[1], c[2]>>
         /\ Printed(cfg)[<<"global", "max_run_seconds">>] = Shown(Budget(cfg))
         /\ \A k \in DOMAIN DefaultOptions(cfg) :
              Printed(cfg)[<<"default", k>>] = DefaultOptions(cfg)[k]
         /\ \A k \in DOMAIN PrintedOptions(cfg) :
              Printed(cfg)[<<"probe", k>>] = PrintedOptions(cfg)[k]
  <1> DEFINE shown == Shown(Budget(cfg))
             defaults == DefaultOptions(cfg)
             options == PrintedOptions(cfg)
             printed == [global |-> [max_run_seconds |-> shown], default |-> defaults,
                         probe |-> options]
             cells == UNION {{section} \X DOMAIN printed[section] : section \in DOMAIN printed}
  <1>1. Printed(cfg) = [c \in cells |-> printed[c[1]][c[2]]]
    BY DEF Printed
  <1> HIDE DEF shown, defaults, options
  <1>2. /\ DOMAIN printed = {"global", "default", "probe"}
        /\ DOMAIN printed["global"] = {"max_run_seconds"}
        /\ printed["global"]["max_run_seconds"] = shown
        /\ printed["default"] = defaults /\ printed["probe"] = options
    OBVIOUS
  <1> HIDE DEF printed
  <1>3. \A s, k : <<s, k>> \in cells <=> s \in DOMAIN printed /\ k \in DOMAIN printed[s]
    OBVIOUS
  <1>4. \A c \in cells : c = <<c[1], c[2]>>
    OBVIOUS
  <1> HIDE DEF cells
  <1>5. \A s, k : <<s, k>> \in cells => Printed(cfg)[<<s, k>>] = printed[s][k]
    BY <1>1
  <1>6. DOMAIN Printed(cfg) = cells
    BY <1>1
  <1> QED
    BY <1>2, <1>3, <1>4, <1>5, <1>6 DEF shown, defaults, options

(* What the cells say. *)
LEMMA PrintedTexts ==
  ASSUME NEW cfg
  PROVE  /\ Text(Printed(cfg), "global", "max_run_seconds") = Shown(Budget(cfg))
         /\ \A k : Text(Printed(cfg), "default", k) =
                     IF k \in DOMAIN DefaultOptions(cfg) THEN DefaultOptions(cfg)[k] ELSE Absent
         /\ \A k : Option(Printed(cfg), k) =
                     IF k \in DOMAIN PrintedOptions(cfg) THEN PrintedOptions(cfg)[k] ELSE Absent
  BY PrintedCells DEF Text, Option

(* Shown writes what float() reads as the same number, and int() as well   *)
(* if the number is whole.                                                 *)
LEMMA ShownReads ==
  /\ \A t \in DOMAIN FloatOf :
       LET s == Shown(FloatOf[t]) IN s \in DOMAIN FloatOf /\ FloatOf[s] = FloatOf[t]
  /\ \A t \in DOMAIN IntOf :
       LET s == Shown(10 * IntOf[t])
       IN s \in DOMAIN IntOf /\ s \in DOMAIN FloatOf /\ IntOf[s] = IntOf[t]
            /\ FloatOf[s] = 10 * IntOf[t]
  <1>1. ASSUME NEW t \in DOMAIN FloatOf
        PROVE  Shown(FloatOf[t]) \in DOMAIN FloatOf /\ FloatOf[Shown(FloatOf[t])] = FloatOf[t]
    <2> DEFINE whole == {s \in DOMAIN IntOf : FloatOf[s] = FloatOf[t]}
    <2>1. CASE whole # {}
      <3>1. Shown(FloatOf[t]) = CHOOSE s \in whole : TRUE
        BY <2>1 DEF Shown
      <3>2. Shown(FloatOf[t]) \in whole
        BY <2>1, <3>1
      <3> QED
        BY <3>2, ConfigConstants
    <2>2. CASE whole = {}
      <3>1. Shown(FloatOf[t]) = CHOOSE s \in DOMAIN FloatOf : FloatOf[s] = FloatOf[t]
        BY <2>2 DEF Shown
      <3> QED
        BY <3>1
    <2> QED
      BY <2>1, <2>2
  <1>2. ASSUME NEW t \in DOMAIN IntOf
        PROVE  LET s == Shown(10 * IntOf[t])
               IN s \in DOMAIN IntOf /\ s \in DOMAIN FloatOf /\ IntOf[s] = IntOf[t]
                    /\ FloatOf[s] = 10 * IntOf[t]
    <2> DEFINE whole == {s \in DOMAIN IntOf : FloatOf[s] = 10 * IntOf[t]}
               s == Shown(10 * IntOf[t])
    <2>1. t \in whole
      BY ConfigConstants
    <2>2. s = CHOOSE r \in whole : TRUE
      BY <2>1 DEF Shown
    <2>3. s \in whole
      BY <2>1, <2>2
    <2>4. s \in DOMAIN IntOf /\ FloatOf[s] = 10 * IntOf[t] /\ s \in DOMAIN FloatOf
      BY <2>3, ConfigConstants
    <2>5. FloatOf[s] = 10 * IntOf[s] /\ IntOf[s] \in Int /\ IntOf[t] \in Int
      BY <2>4, ConfigConstants
    <2> HIDE DEF s
    <2>6. IntOf[s] = IntOf[t]
      BY <2>4, <2>5
    <2> QED
      BY <2>4, <2>6 DEF s
  <1> QED
    BY <1>1, <1>2

(* A configuration a section can be printed from. *)
Printable(cfg) == IsFile(cfg) /\ Enabled(cfg) /\ Issues(cfg) = {} /\ ~LoadRaises(cfg)

LEMMA NumbersAreTexts == \A t \in DOMAIN IntOf \cup DOMAIN FloatOf : t \notin Nothing
  BY ConfigConstants

(* A cell a module knows, of its type, with the check's keys all there. *)
LEMMA ValidCells ==
  ASSUME NEW cfg, Printable(cfg)
  PROVE  /\ Kind(cfg) \in Kinds /\ Kind(cfg) \notin Nothing /\ MissingKeys(cfg) = {}
         /\ \A c \in DOMAIN cfg :
              /\ c = <<c[1], c[2]>> /\ cfg[c] # Absent /\ WellTyped(c[2], cfg[c])
              /\ c[1] = "global" => c[2] \in GlobalKeys
              /\ c[1] = "default" => c[2] \in DefaultKeys
              /\ c[1] = "probe" => c[2] \in CommonCheckKeys \cup CheckKeys[Kind(cfg)]
  <1>1. Kind(cfg) \notin Nothing
    BY DEF Printable, Issues
  <1>2. Kind(cfg) \in Kinds
    BY <1>1 DEF Printable, Issues
  <1>3. MissingKeys(cfg) = {}
    BY <1>1, <1>2 DEF Printable, Issues
  <1>4. /\ CellIssues(cfg, "global", GlobalKeys) = {}
        /\ CellIssues(cfg, "default", DefaultKeys) = {}
        /\ CellIssues(cfg, "probe", CommonCheckKeys \cup CheckKeys[Kind(cfg)]) = {}
    BY <1>1, <1>2 DEF Printable, Issues
  <1>5. ASSUME NEW section, NEW allowed, CellIssues(cfg, section, allowed) = {},
               NEW c \in DOMAIN cfg, c[1] = section
        PROVE  c[2] \in allowed /\ WellTyped(c[2], cfg[c])
    <2>1. c[2] \notin allowed => <<"unknown key", c>> \in CellIssues(cfg, section, allowed)
      BY <1>5 DEF CellIssues
    <2>2. ~WellTyped(c[2], cfg[c]) => <<"type", c>> \in CellIssues(cfg, section, allowed)
      BY <1>5 DEF CellIssues
    <2> QED
      BY <1>5, <2>1, <2>2
  <1>6. \A c \in DOMAIN cfg : /\ c = <<c[1], c[2]>> /\ c[1] \in {"global", "default", "probe"}
                              /\ cfg[c] # Absent
    BY DEF Printable, IsFile
  <1> QED
    BY <1>1, <1>2, <1>3, <1>4, <1>5, <1>6

(* The texts of the cells that count. *)
LEMMA ValidTexts ==
  ASSUME NEW cfg, Printable(cfg), NEW section \in {"global", "default", "probe"}, NEW key,
         Text(cfg, section, key) # Absent
  PROVE  <<section, key>> \in DOMAIN cfg /\ WellTyped(key, Text(cfg, section, key))
  <1>1. <<section, key>> \in DOMAIN cfg
    BY DEF Text
  <1> QED
    BY <1>1, ValidCells DEF Text

(* _defaults_as_options: the numbers of [default], written. *)
LEMMA DefaultsAreWritten ==
  ASSUME NEW cfg, Printable(cfg)
  PROVE  LET d == DefaultOptions(cfg) IN
         /\ DOMAIN d \subseteq DefaultKeys
         /\ {"retries", "retry_delay_seconds", "timeout_seconds", "notify_on_recovery"} \subseteq DOMAIN d
         /\ "notify_cmd" \in DOMAIN d <=> Text(cfg, "default", "notify_cmd") \notin Nothing
         /\ "notify_cmd" \in DOMAIN d => d["notify_cmd"] = Text(cfg, "default", "notify_cmd")
         /\ d["retries"] \in DOMAIN IntOf
         /\ IntOf[d["retries"]] = Default(cfg, IntOf, "retries")
         /\ \A k \in {"retry_delay_seconds", "timeout_seconds"} :
              d[k] \in DOMAIN FloatOf /\ FloatOf[d[k]] = Default(cfg, FloatOf, k)
         /\ d["notify_on_recovery"] = IF DefaultRecovery(cfg) THEN "1" ELSE "0"
  <1> DEFINE d == DefaultOptions(cfg)
             command == Text(cfg, "default", "notify_cmd")
             r == Shown(10 * Default(cfg, IntOf, "retries"))
             y == Shown(Default(cfg, FloatOf, "retry_delay_seconds"))
             m == Shown(Default(cfg, FloatOf, "timeout_seconds"))
             n == IF DefaultRecovery(cfg) THEN "1" ELSE "0"
             numbers == [retries |-> r, retry_delay_seconds |-> y, timeout_seconds |-> m,
                         notify_on_recovery |-> n]
             set == [k \in IF command \in Nothing THEN {} ELSE {"notify_cmd"} |-> command]
  <1>1. d = Overlay(numbers, set)
    BY DEF DefaultOptions
  <1>2. r \in DOMAIN IntOf /\ IntOf[r] = Default(cfg, IntOf, "retries")
    <2>1. \E t \in DOMAIN IntOf : Default(cfg, IntOf, "retries") = IntOf[t]
      <3>1. CASE Text(cfg, "default", "retries") \in Nothing
        <4>1. Default(cfg, IntOf, "retries") = 0
          BY <3>1 DEF Default, BuiltIn
        <4> QED
          BY <4>1, ConfigConstants
      <3>2. CASE Text(cfg, "default", "retries") \notin Nothing
        <4>1. Text(cfg, "default", "retries") # Absent
          BY <3>2 DEF Nothing
        <4>2. Text(cfg, "default", "retries") \in DOMAIN IntOf
          BY <4>1, ValidTexts DEF WellTyped, IntKeys
        <4> QED
          BY <3>2, <4>2 DEF Default
      <3> QED
        BY <3>1, <3>2
    <2> QED
      BY <2>1, ShownReads
  <1>3. ASSUME NEW k \in {"retry_delay_seconds", "timeout_seconds"}
        PROVE  LET s == Shown(Default(cfg, FloatOf, k))
               IN s \in DOMAIN FloatOf /\ FloatOf[s] = Default(cfg, FloatOf, k)
    <2>1. \E t \in DOMAIN FloatOf : Default(cfg, FloatOf, k) = FloatOf[t]
      <3>1. CASE Text(cfg, "default", k) \in Nothing
        <4>1. Default(cfg, FloatOf, k) = 10 * 1 \/ Default(cfg, FloatOf, k) = 10 * 5
          BY <3>1 DEF Default, BuiltIn
        <4>2. \E t \in DOMAIN IntOf : IntOf[t] = 1
          BY ConfigConstants
        <4>3. \E t \in DOMAIN IntOf : IntOf[t] = 5
          BY ConfigConstants
        <4> QED
          BY <4>1, <4>2, <4>3, ConfigConstants
      <3>2. CASE Text(cfg, "default", k) \notin Nothing
        <4>1. Text(cfg, "default", k) # Absent
          BY <3>2 DEF Nothing
        <4>2. Text(cfg, "default", k) \in DOMAIN FloatOf
          BY <4>1, ValidTexts DEF WellTyped, FloatKeys
        <4> QED
          BY <3>2, <4>2 DEF Default
      <3> QED
        BY <3>1, <3>2
    <2> QED
      BY <2>1, ShownReads
  <1>4. /\ y \in DOMAIN FloatOf /\ FloatOf[y] = Default(cfg, FloatOf, "retry_delay_seconds")
        /\ m \in DOMAIN FloatOf /\ FloatOf[m] = Default(cfg, FloatOf, "timeout_seconds")
    BY <1>3
  <1> HIDE DEF r, y, m, n, command
  <1>5. /\ DOMAIN d = {"retries", "retry_delay_seconds", "timeout_seconds", "notify_on_recovery"}
                        \cup (IF command \in Nothing THEN {} ELSE {"notify_cmd"})
        /\ d["retries"] = r /\ d["retry_delay_seconds"] = y /\ d["timeout_seconds"] = m
        /\ d["notify_on_recovery"] = n
        /\ command \notin Nothing => d["notify_cmd"] = command
    BY <1>1 DEF Overlay
  <1> HIDE DEF d
  <1> QED
    BY <1>2, <1>4, <1>5 DEF DefaultKeys, d, n, command

(* The options of the section are those it has a text for. *)
LEMMA OwnAreThere ==
  ASSUME NEW cfg, Printable(cfg)
  PROVE  /\ \A k : k \in DOMAIN OwnOptions(cfg) <=> Option(cfg, k) # Absent
         /\ \A k \in DOMAIN OwnOptions(cfg) : OwnOptions(cfg)[k] = Option(cfg, k)
  <1> DEFINE own == OwnOptions(cfg)
  <1>1. \A k : /\ k \in DOMAIN own <=> <<"probe", k>> \in DOMAIN cfg
               /\ k \in DOMAIN own => own[k] = Option(cfg, k)
    <2>1. DOMAIN own = {c[2] : c \in {e \in DOMAIN cfg : e[1] = "probe"}}
      BY DEF OwnOptions
    <2>2. \A k \in DOMAIN own : own[k] = Option(cfg, k)
      BY DEF OwnOptions
    <2>3. ASSUME NEW k, <<"probe", k>> \in DOMAIN cfg PROVE k \in DOMAIN own
      BY <2>1, <2>3
    <2>4. ASSUME NEW k \in DOMAIN own PROVE <<"probe", k>> \in DOMAIN cfg
      <3>1. PICK c \in DOMAIN cfg : c[1] = "probe" /\ k = c[2]
        BY <2>1
      <3> QED
        BY <3>1, ValidCells
    <2> QED
      BY <2>2, <2>3, <2>4
  <1>2. \A k : k \in DOMAIN own <=> Option(cfg, k) # Absent
    <2>1. \A k : <<"probe", k>> \in DOMAIN cfg => cfg[<<"probe", k>>] # Absent
      BY ValidCells
    <2> QED
      BY <1>1, <2>1 DEF Option, Text
  <1> QED
    BY <1>1, <1>2

(* render_effective_config: the section's own options are printed as they  *)
(* are, and the defaults where it has none.                                *)
LEMMA OptionsArePrinted ==
  ASSUME NEW cfg, Printable(cfg)
  PROVE  /\ Option(Printed(cfg), "enabled") = "1"
         /\ \A k : k # "enabled" =>
              Option(Printed(cfg), k) = IF Option(cfg, k) # Absent THEN Option(cfg, k)
                                        ELSE Text(Printed(cfg), "default", k)
         /\ \A k : k \notin DefaultKeys \cup {"enabled"} =>
              Option(Printed(cfg), k) = Option(cfg, k)
  <1> DEFINE own == OwnOptions(cfg)
             d == DefaultOptions(cfg)
             o == PrintedOptions(cfg)
  <1>1. \A k \in DOMAIN own : own[k] = Option(cfg, k)
    BY OwnAreThere
  <1>2. \A k : k \in DOMAIN own <=> Option(cfg, k) # Absent
    BY OwnAreThere
  <1> HIDE DEF own, d
  <1>3. /\ DOMAIN o = {"enabled"} \cup DOMAIN own \cup DOMAIN d
        /\ o["enabled"] = "1"
        /\ \A k \in DOMAIN own \ {"enabled"} : o[k] = own[k]
        /\ \A k \in DOMAIN d \ ({"enabled"} \cup DOMAIN own) : o[k] = d[k]
    BY DEF PrintedOptions, Overlay, own, d
  <1> HIDE DEF o
  <1>4. \A k : Option(Printed(cfg), k) = IF k \in DOMAIN o THEN o[k] ELSE Absent
    BY PrintedTexts DEF o
  <1>5. \A k : Text(Printed(cfg), "default", k) = IF k \in DOMAIN d THEN d[k] ELSE Absent
    BY PrintedTexts DEF d
  <1>6. DOMAIN d \subseteq DefaultKeys
    BY DefaultsAreWritten DEF d
  <1>7. ASSUME NEW k, k # "enabled"
        PROVE  Option(Printed(cfg), k) = IF Option(cfg, k) # Absent THEN Option(cfg, k)
                                         ELSE Text(Printed(cfg), "default", k)
    <2>1. CASE k \in DOMAIN own
      BY <1>1, <1>2, <1>3, <1>4, <1>7, <2>1
    <2>2. CASE k \notin DOMAIN own
      BY <1>2, <1>3, <1>4, <1>5, <1>7, <2>2
    <2> QED
      BY <2>1, <2>2
  <1>8. ASSUME NEW k, k \notin DefaultKeys \cup {"enabled"}
        PROVE  Option(Printed(cfg), k) = Option(cfg, k)
    <2>1. Text(Printed(cfg), "default", k) = Absent
      BY <1>5, <1>6, <1>8
    <2> QED
      BY <1>7, <1>8, <2>1
  <1> QED
    BY <1>3, <1>4, <1>7, <1>8

(* Every number that counts is printed as one. *)
LEMMA PrintedNumbers ==
  ASSUME NEW cfg, Printable(cfg)
  PROVE  /\ Shown(Budget(cfg)) \in DOMAIN FloatOf /\ FloatOf[Shown(Budget(cfg))] = Budget(cfg)
         /\ Option(Printed(cfg), "retries") \in DOMAIN IntOf
         /\ IntOf[Option(Printed(cfg), "retries")] = Retries(cfg)
         /\ \A k \in {"retry_delay_seconds", "timeout_seconds"} :
              /\ Option(Printed(cfg), k) \in DOMAIN FloatOf
              /\ FloatOf[Option(Printed(cfg), k)] = Number(cfg, FloatOf, k)
  <1>1. Shown(Budget(cfg)) \in DOMAIN FloatOf /\ FloatOf[Shown(Budget(cfg))] = Budget(cfg)
    <2>1. \E t \in DOMAIN FloatOf : Budget(cfg) = FloatOf[t]
      <3>1. CASE Text(cfg, "global", "max_run_seconds") \in Nothing
        <4>1. Budget(cfg) = 10 * 50
          BY <3>1 DEF Budget
        <4>2. \E t \in DOMAIN IntOf : IntOf[t] = 50
          BY ConfigConstants
        <4> QED
          BY <4>1, <4>2, ConfigConstants
      <3>2. CASE Text(cfg, "global", "max_run_seconds") \notin Nothing
        <4>1. Text(cfg, "global", "max_run_seconds") # Absent
          BY <3>2 DEF Nothing
        <4>2. Text(cfg, "global", "max_run_seconds") \in DOMAIN FloatOf
          BY <4>1, ValidTexts DEF WellTyped, FloatKeys
        <4> QED
          BY <3>2, <4>2 DEF Budget
      <3> QED
        BY <3>1, <3>2
    <2> QED
      BY <2>1, ShownReads
  <1>2. ASSUME NEW numbers, NEW k \in {"retries", "retry_delay_seconds", "timeout_seconds"},
               \A t \in DOMAIN numbers : t \notin Nothing,
               Option(cfg, k) # Absent => Option(cfg, k) \in DOMAIN numbers,
               DefaultOptions(cfg)[k] \in DOMAIN numbers,
               numbers[DefaultOptions(cfg)[k]] = Default(cfg, numbers, k)
        PROVE  /\ Option(Printed(cfg), k) \in DOMAIN numbers
               /\ numbers[Option(Printed(cfg), k)] = Number(cfg, numbers, k)
    <2>1. CASE Option(cfg, k) # Absent
      <3>1. Option(Printed(cfg), k) = Option(cfg, k)
        BY <1>2, <2>1, OptionsArePrinted
      <3> QED
        BY <1>2, <2>1, <3>1 DEF Number
    <2>2. CASE Option(cfg, k) = Absent
      <3>1. Option(Printed(cfg), k) = DefaultOptions(cfg)[k]
        <4>1. k \in DOMAIN DefaultOptions(cfg)
          BY <1>2, DefaultsAreWritten
        <4> QED
          BY <2>2, <4>1, OptionsArePrinted, PrintedTexts
      <3>2. Option(cfg, k) \in Nothing
        BY <2>2 DEF Nothing
      <3> QED
        BY <1>2, <3>1, <3>2 DEF Number
    <2> QED
      BY <2>1, <2>2
  <1>3. ASSUME NEW k, Option(cfg, k) # Absent PROVE WellTyped(k, Option(cfg, k))
    BY <1>3, ValidTexts DEF Option
  <1>4. Option(cfg, "retries") # Absent => Option(cfg, "retries") \in DOMAIN IntOf
    BY <1>3 DEF WellTyped, IntKeys
  <1>5. \A k \in {"retry_delay_seconds", "timeout_seconds"} :
          Option(cfg, k) # Absent => Option(cfg, k) \in DOMAIN FloatOf
    BY <1>3 DEF WellTyped, FloatKeys
  <1>6. /\ Option(Printed(cfg), "retries") \in DOMAIN IntOf
        /\ IntOf[Option(Printed(cfg), "retries")] = Retries(cfg)
    BY <1>2, <1>4, DefaultsAreWritten, NumbersAreTexts DEF Retries
  <1>7. ASSUME NEW k \in {"retry_delay_seconds", "timeout_seconds"}
        PROVE  /\ Option(Printed(cfg), k) \in DOMAIN FloatOf
               /\ FloatOf[Option(Printed(cfg), k)] = Number(cfg, FloatOf, k)
    BY <1>2, <1>5, <1>7, DefaultsAreWritten, NumbersAreTexts
  <1> QED
    BY <1>1, <1>6, <1>7

(* What is printed passes validation. *)
LEMMA PrintedIsValid ==
  ASSUME NEW cfg, Printable(cfg)
  PROVE  Issues(Printed(cfg)) = {}
  <1> DEFINE again == Printed(cfg)
  <1>1. Kind(again) = Kind(cfg) /\ Kind(cfg) \in Kinds /\ Kind(cfg) \notin Nothing
    BY OptionsArePrinted, ValidCells DEF Kind, DefaultKeys
  <1>2. MissingKeys(again) = {}
    <2>1. \A k \in DOMAIN ProxyKey \cup {"proxy_host", "proxy_port", "target_host", "target_port",
                                         "heartbeat_url"} :
            Option(again, k) = Option(cfg, k)
      BY OptionsArePrinted DEF DefaultKeys, ProxyKey
    <2>2. \A k \in RequiredCheckKeys[Kind(cfg)] : Option(again, k) = Option(cfg, k)
      BY <1>1, <2>1 DEF RequiredCheckKeys, Kinds, CheckKeys, ProxyKey
    <2>3. \A k \in {"host", "port"} : /\ Option(again, k) = Option(cfg, k)
                                      /\ Option(again, ProxyKey[k]) = Option(cfg, ProxyKey[k])
      BY <2>1 DEF ProxyKey
    <2>4. MissingKeys(again) \subseteq MissingKeys(cfg)
      BY <1>1, <2>2, <2>3 DEF MissingKeys
    <2> QED
      BY <2>4, ValidCells
  <1>3. ASSUME NEW c \in DOMAIN again, c[1] = "global"
        PROVE  c[2] \in GlobalKeys /\ WellTyped(c[2], again[c])
    <2>1. c[2] = "max_run_seconds" /\ again[c] = Shown(Budget(cfg))
      BY <1>3, PrintedCells
    <2> QED
      BY <2>1, PrintedNumbers DEF GlobalKeys, WellTyped, BoolKeys, IntKeys
  <1>4. ASSUME NEW k \in DOMAIN DefaultOptions(cfg)
        PROVE  k \in DefaultKeys /\ WellTyped(k, DefaultOptions(cfg)[k])
    <2>1. k \in {"retries", "retry_delay_seconds", "timeout_seconds", "notify_on_recovery",
                 "notify_cmd"}
      BY DefaultsAreWritten DEF DefaultKeys
    <2>2. CASE k = "retries"
      BY <2>2, DefaultsAreWritten DEF WellTyped, BoolKeys, FloatKeys, DefaultKeys
    <2>3. CASE k \in {"retry_delay_seconds", "timeout_seconds"}
      BY <2>3, DefaultsAreWritten DEF WellTyped, BoolKeys, IntKeys, DefaultKeys
    <2>4. CASE k = "notify_on_recovery"
      BY <2>4, DefaultsAreWritten DEF WellTyped, FloatKeys, IntKeys, DefaultKeys, Yes, No
    <2>5. CASE k = "notify_cmd"
      BY <2>5, DefaultsAreWritten DEF WellTyped, BoolKeys, FloatKeys, IntKeys, DefaultKeys
    <2> QED
      BY <2>1, <2>2, <2>3, <2>4, <2>5
  <1>5. ASSUME NEW c \in DOMAIN again, c[1] = "default"
        PROVE  c[2] \in DefaultKeys /\ WellTyped(c[2], again[c])
    <2>1. c[2] \in DOMAIN DefaultOptions(cfg) /\ again[c] = DefaultOptions(cfg)[c[2]]
      BY <1>5, PrintedCells
    <2> QED
      BY <1>4, <2>1
  <1>6. ASSUME NEW c \in DOMAIN again, c[1] = "probe"
        PROVE  /\ c[2] \in CommonCheckKeys \cup CheckKeys[Kind(cfg)]
               /\ WellTyped(c[2], again[c])
    <2> DEFINE k == c[2]
    <2>1. /\ k \in DOMAIN PrintedOptions(cfg) /\ again[c] = PrintedOptions(cfg)[k]
          /\ again[c] = Option(again, k)
      BY <1>6, PrintedCells, PrintedTexts
    <2>2. CASE k = "enabled"
      <3>1. again[c] = "1"
        BY <2>1, <2>2, OptionsArePrinted
      <3> QED
        BY <2>2, <3>1 DEF WellTyped, IntKeys, FloatKeys, Yes, CommonCheckKeys
    <2>3. CASE k # "enabled" /\ Option(cfg, k) # Absent
      <3>1. again[c] = Option(cfg, k)
        BY <2>1, <2>3, OptionsArePrinted
      <3>2. <<"probe", k>> \in DOMAIN cfg /\ WellTyped(k, Option(cfg, k))
        BY <2>3, ValidTexts DEF Option
      <3>3. k \in CommonCheckKeys \cup CheckKeys[Kind(cfg)]
        BY <3>2, ValidCells
      <3> QED
        BY <3>1, <3>2, <3>3
    <2>4. CASE k # "enabled" /\ Option(cfg, k) = Absent
      <3>1. k \in DOMAIN DefaultOptions(cfg)
        <4>1. DOMAIN PrintedOptions(cfg) =
                {"enabled"} \cup DOMAIN OwnOptions(cfg) \cup DOMAIN DefaultOptions(cfg)
          BY DEF PrintedOptions, Overlay
        <4>2. k \notin DOMAIN OwnOptions(cfg)
          BY <2>4, OwnAreThere
        <4> QED
          BY <2>1, <2>4, <4>1, <4>2
      <3>2. again[c] = DefaultOptions(cfg)[k]
        BY <2>1, <2>4, <3>1, OptionsArePrinted, PrintedTexts
      <3> QED
        BY <1>4, <3>1, <3>2 DEF CommonCheckKeys
    <2> QED
      BY <2>2, <2>3, <2>4
  <1> HIDE DEF again
  <1>7. ASSUME NEW section, NEW allowed,
               \A c \in DOMAIN again : c[1] = section => c[2] \in allowed /\ WellTyped(c[2], again[c])
        PROVE  CellIssues(again, section, allowed) = {}
    BY <1>7 DEF CellIssues
  <1>8. /\ CellIssues(again, "global", GlobalKeys) = {}
        /\ CellIssues(again, "default", DefaultKeys) = {}
        /\ CellIssues(again, "probe", CommonCheckKeys \cup CheckKeys[Kind(cfg)]) = {}
    BY <1>3, <1>5, <1>6, <1>7
  <1>9. Issues(again) = {}
    BY <1>1, <1>2, <1>8 DEF Issues
  <1> QED
    BY <1>9 DEF again

(* What passes validation and names its check loads. *)
LEMMA ValidLoads ==
  ASSUME NEW cfg, Issues(cfg) = {}, \A c \in DOMAIN cfg : c = <<c[1], c[2]>>
  PROVE  ~LoadRaises(cfg)
  <1>1. Kind(cfg) \notin Nothing
    BY DEF Issues
  <1>2. /\ CellIssues(cfg, "global", GlobalKeys) = {}
        /\ CellIssues(cfg, "default", DefaultKeys) = {}
    BY DEF Issues
  <1>3. ASSUME NEW c \in DOMAIN cfg, c[1] \in {"global", "default"}
        PROVE  WellTyped(c[2], cfg[c])
    <2>1. ~WellTyped(c[2], cfg[c]) => <<"type", c>> \in CellIssues(cfg, c[1], GlobalKeys)
      BY DEF CellIssues
    <2>2. ~WellTyped(c[2], cfg[c]) => <<"type", c>> \in CellIssues(cfg, c[1], DefaultKeys)
      BY DEF CellIssues
    <2> QED
      BY <1>2, <1>3, <2>1, <2>2
  <1>4. \A c \in DOMAIN cfg \cap (({"global"} \X GlobalKeys) \cup ({"default"} \X DefaultKeys)) :
          /\ c[2] \in IntKeys => cfg[c] \in DOMAIN IntOf
          /\ c[2] \in FloatKeys => cfg[c] \in DOMAIN FloatOf
    BY <1>3 DEF WellTyped
  <1> QED
    BY <1>1, <1>4, Zenon DEF LoadRaises

LEMMA TextsAreNotEmpty == \A t : t \notin Nothing => t # ""
  BY Zenon DEF Nothing

(* What is printed means the same. *)
LEMMA PrintedMeansTheSame ==
  ASSUME NEW cfg, Printable(cfg)
  PROVE  Effective(Printed(cfg)) = Effective(cfg)
  <1> DEFINE again == Printed(cfg)
  <1>1. Budget(again) = Budget(cfg)
    <2>1. Shown(Budget(cfg)) \notin Nothing
      BY PrintedNumbers, NumbersAreTexts
    <2>2. Budget(again) = FloatOf[Shown(Budget(cfg))]
      BY <2>1, PrintedTexts DEF Budget
    <2> QED
      BY <2>2, PrintedNumbers
  <1>2. Retries(again) = Retries(cfg)
    <2>1. Option(again, "retries") \notin Nothing
      BY PrintedNumbers, NumbersAreTexts
    <2>2. Retries(again) = IntOf[Option(again, "retries")]
      BY <2>1 DEF Retries, Number
    <2> QED
      BY <2>2, PrintedNumbers
  <1>3. ASSUME NEW k \in {"retry_delay_seconds", "timeout_seconds"}
        PROVE  Option(again, k) \notin Nothing /\ Number(again, FloatOf, k) = Number(cfg, FloatOf, k)
    <2>1. Option(again, k) \notin Nothing
      BY PrintedNumbers, NumbersAreTexts
    <2>2. Number(again, FloatOf, k) = FloatOf[Option(again, k)]
      BY <2>1 DEF Number
    <2> QED
      BY <2>1, <2>2, PrintedNumbers
  <1>4. RetryDelay(again) = RetryDelay(cfg) /\ PushTimeout(again) = PushTimeout(cfg)
    BY <1>3 DEF RetryDelay, PushTimeout
  <1>5. CheckTimeout(again) = CheckTimeout(cfg)
    <2>1. Option(again, "timeout_seconds") \notin Nothing
      BY <1>3
    <2>2. CheckTimeout(again) = PushTimeout(again)
      BY <2>1, TextsAreNotEmpty, Zenon DEF CheckTimeout
    <2>3. CASE Option(cfg, "timeout_seconds") = Absent
      <3>1. Option(cfg, "timeout_seconds") # ""
        BY <2>3, Zenon DEF Absent
      <3>2. CheckTimeout(cfg) = PushTimeout(cfg)
        BY <3>1, Zenon DEF CheckTimeout
      <3> QED
        BY <1>4, <2>2, <3>2
    <2>4. CASE Option(cfg, "timeout_seconds") # Absent
      <3>1. Option(cfg, "timeout_seconds") \in DOMAIN FloatOf
        BY <2>4, ValidTexts DEF Option, WellTyped, FloatKeys
      <3>2. Option(cfg, "timeout_seconds") \notin Nothing
        BY <3>1, NumbersAreTexts
      <3>3. CheckTimeout(cfg) = PushTimeout(cfg)
        BY <3>2, TextsAreNotEmpty, Zenon DEF CheckTimeout
      <3> QED
        BY <1>4, <2>2, <3>3
    <2> QED
      BY <2>3, <2>4
  <1>6. NotifyOnRecovery(again) = NotifyOnRecovery(cfg)
    <2> DEFINE k == "notify_on_recovery"
    <2>1. CASE Option(cfg, k) # Absent
      <3>1. Option(again, k) = Option(cfg, k)
        BY <2>1, OptionsArePrinted
      <3> QED
        BY <2>1, <3>1 DEF NotifyOnRecovery
    <2>2. CASE Option(cfg, k) = Absent
      <3>1. Option(again, k) = IF DefaultRecovery(cfg) THEN "1" ELSE "0"
        BY <2>2, OptionsArePrinted, PrintedTexts, DefaultsAreWritten
      <3>2. Option(again, k) # Absent /\ (Option(again, k) \in Yes <=> DefaultRecovery(cfg))
        BY <3>1 DEF Absent, Yes
      <3>3. NotifyOnRecovery(again) = (Option(again, k) \in Yes)
        BY <3>2 DEF NotifyOnRecovery
      <3>4. NotifyOnRecovery(cfg) = (Text(cfg, "default", k) \in Nothing \cup Yes)
        BY <2>2 DEF NotifyOnRecovery, DefaultRecovery
      <3>5. DefaultRecovery(cfg) <=> Text(cfg, "default", k) \in Nothing \cup Yes
        BY DEF DefaultRecovery
      <3> QED
        BY <3>2, <3>3, <3>4, <3>5
    <2> QED
      BY <2>1, <2>2
  <1>7. \/ NotifyCmd(again) = NotifyCmd(cfg)
        \/ NotifyCmd(again) \in Nothing /\ NotifyCmd(cfg) \in Nothing
    <2> DEFINE k == "notify_cmd"
    <2>1. CASE Option(cfg, k) # Absent
      <3>1. Option(again, k) = Option(cfg, k)
        BY <2>1, OptionsArePrinted
      <3> QED
        BY <2>1, <3>1 DEF NotifyCmd
    <2>2. CASE Option(cfg, k) = Absent
      <3>1. Option(again, k) = Text(again, "default", k)
        BY <2>2, OptionsArePrinted
      <3>2. NotifyCmd(cfg) = Text(cfg, "default", k)
        BY <2>2 DEF NotifyCmd
      <3>3. NotifyCmd(again) = Text(again, "default", k)
        BY <3>1 DEF NotifyCmd
      <3>4. \/ Text(again, "default", k) = Text(cfg, "default", k)
            \/ Text(again, "default", k) = Absent /\ Text(cfg, "default", k) \in Nothing
        BY PrintedTexts, DefaultsAreWritten
      <3> QED
        BY <3>2, <3>3, <3>4 DEF Nothing
    <2> QED
      BY <2>1, <2>2
  <1>8. Effective(again).own = Effective(cfg).own
    <2> DEFINE cells(file) == {c \in DOMAIN file : c[1] = "probe"
                                                  /\ c[2] \notin DefaultKeys \cup {"enabled"}}
    <2>1. \A c : c = <<c[1], c[2]>> /\ c \in cells(again)
                   <=> c = <<c[1], c[2]>> /\ c \in cells(cfg)
      <3>1. ASSUME NEW k, k \notin DefaultKeys \cup {"enabled"}
            PROVE  <<"probe", k>> \in DOMAIN again <=> <<"probe", k>> \in DOMAIN cfg
        <4>1. k \in DOMAIN PrintedOptions(cfg) <=> k \in DOMAIN OwnOptions(cfg)
          BY <3>1, DefaultsAreWritten DEF PrintedOptions, Overlay
        <4>2. <<"probe", k>> \in DOMAIN cfg <=> Option(cfg, k) # Absent
          BY ValidCells DEF Option, Text
        <4> QED
          BY <4>1, <4>2, OwnAreThere, PrintedCells
      <3> QED
        BY <3>1
    <2>2. cells(again) = cells(cfg)
      <3>1. \A c \in cells(again) : c = <<c[1], c[2]>>
        BY PrintedCells
      <3>2. \A c \in cells(cfg) : c = <<c[1], c[2]>>
        BY ValidCells
      <3> HIDE DEF cells
      <3> QED
        BY <2>1, <3>1, <3>2
    <2>3. ASSUME NEW c \in cells(cfg) PROVE again[c] = cfg[c]
      <3>1. c = <<"probe", c[2]>> /\ c \in DOMAIN cfg /\ c \in DOMAIN again
        BY <2>2, <2>3, ValidCells
      <3>2. Option(again, c[2]) = Option(cfg, c[2])
        BY <2>3, OptionsArePrinted
      <3>3. Option(again, c[2]) = again[c] /\ Option(cfg, c[2]) = cfg[c]
        BY <3>1 DEF Option, Text
      <3> QED
        BY <3>2, <3>3
    <2>4. Effective(again).own = [c \in cells(again) |-> again[c]]
      BY DEF Effective
    <2>5. Effective(cfg).own = [c \in cells(cfg) |-> cfg[c]]
      BY DEF Effective
    <2> HIDE DEF cells, again
    <2> QED
      BY <2>2, <2>3, <2>4, <2>5
  <1>9. Effective(again).command = Effective(cfg).command
    BY <1>7, Zenon DEF Effective
  <1> HIDE DEF again
  <1> DEFINE own(file) == Effective(file).own
             command(file) == Effective(file).command
  <1>10. \A file : Effective(file) = [budget |-> Budget(file), own |-> own(file),
                                      retries |-> Retries(file), delay |-> RetryDelay(file),
                                      timeouts |-> <<CheckTimeout(file), PushTimeout(file)>>,
                                      recovery |-> NotifyOnRecovery(file),
                                      command |-> command(file)]
    BY DEF Effective
  <1> HIDE DEF own, command
  <1>11. own(again) = own(cfg) /\ command(again) = command(cfg)
    BY <1>8, <1>9 DEF own, command
  <1>12. Effective(again) = Effective(cfg)
    BY <1>1, <1>2, <1>4, <1>5, <1>6, <1>10, <1>11
  <1> QED
    BY <1>12 DEF again

-----------------------------------------------------------------------------
(* How far an invocation has come. *)

DepthByField ==
  /\ missing \in 0 .. 16
  /\ field = "off" => Depth = 0 - missing
  /\ field = "method" => Depth = 17 - missing
  /\ field = "auth" => Depth = 34 - missing
  /\ field = "reply" => Depth = 51 - missing
  /\ field = "length" => Depth = 68 - missing
  /\ field = "address" => Depth = 85 - missing
  /\ field = "port" => Depth = 102 - missing
  /\ field \in Ends => Depth = 119 - missing

LEMMA DepthIs == SockTypeOK => DepthByField
  BY DEF DepthByField, Depth, SockTypeOK, Ends

(* A step of the connection takes it further: by a byte, or by an answer.  *)
LEMMA DepthGrows ==
  ASSUME SockInv, SockInv', NEW user, NEW target,
         Receive \/ Break \/ Answer(user, target)
  PROVE  Depth' > Depth
  <1>1. /\ SockTypeOK /\ SockTypeOK' /\ field \in Fields
        /\ field' \in Ends => missing' = 0
    BY DEF SockInv, InStep, Receive, Break, Answer
  <1>2. DepthByField
    BY <1>1, DepthIs
  <1>3. DepthByField'
    <2>1. SockTypeOK' => DepthByField'
      BY DepthIs, PTL
    <2> QED
      BY <1>1, <2>1
  <1>4. CASE Receive
    BY <1>1, <1>2, <1>3, <1>4, FieldsAre DEF Receive, DepthByField
  <1>5. CASE Break
    BY <1>1, <1>2, <1>3, <1>5, FieldsAre DEF Break, Ends, DepthByField
  <1>6. CASE Answer(user, target)
    <2>1. missing = 0
      BY <1>6 DEF Answer
    <2>2. PICK answer \in DOMAIN After[field] : field' = NextField(answer, user, target)
      BY <1>6 DEF Answer
    <2>3. \/ field' \in Ends
          \/ field = "method" /\ field' \in {"auth", "reply"}
          \/ field = "auth" /\ field' = "reply"
          \/ field = "reply" /\ field' \in {"address", "length"}
          \/ field = "length" /\ field' = "address"
          \/ field = "address" /\ field' = "port"
      BY <1>1, <2>2, NextFieldIs DEF Ends
    <2> QED
      BY <1>1, <1>2, <1>3, <2>1, <2>3, FieldsAre DEF DepthByField
  <1> QED
    BY <1>4, <1>5, <1>6

PlaceByLabel ==
  /\ pc = "idle" => Place = 0
  /\ pc = "attempt" => Place = 1
  /\ pc = "http" => Place = 2
  /\ pc = "socks" => Place = 2 + Depth
  /\ pc = "judge" => Place = 200
  /\ pc = "notify" => Place = 201
  /\ pc = "push" => Place = 202
  /\ pc = "pushed" => Place = 203
  /\ pc = "ended" => Place = 204
  /\ pc = "aborted" => Place = 204

LEMMA PlaceIs == PlaceByLabel
  BY DEF PlaceByLabel, Place

LEMMA FurtherStep ==
  ASSUME ProbesInv, ProbesInv', Next
  PROVE  \/ Place' > Place /\ (attempt' = attempt \/ pc = "idle")
         \/ attempt' = attempt + 1 /\ attempt <= Retries(config)
  <1>1. SockTypeOK /\ DepthByField /\ SockTypeOK' /\ DepthByField'
    <2>1. SockTypeOK' => DepthByField'
      BY DepthIs, PTL
    <2> QED
      BY <2>1, DepthIs DEF ProbesInv, SockInv
  <1>2. PlaceByLabel /\ PlaceByLabel'
    BY PlaceIs, PTL
  <1>3. CASE Launch
    <2>1. pc = "idle" /\ pc' \in {"ended", "aborted", "attempt"}
      BY <1>3 DEF Launch, Abort
    <2> QED
      BY <1>2, <2>1 DEF PlaceByLabel
  <1>4. CASE Retry
    <2>1. pc = "judge" /\ attempt <= Retries(config)
      BY <1>4 DEF Retry
    <2>2. \/ pc' = "aborted" /\ attempt' = attempt
          \/ attempt' = attempt + 1
      BY <1>4 DEF Retry, Abort
    <2>3. pc' = "aborted" => Place' > Place
      BY <1>2, <2>1 DEF PlaceByLabel
    <2> QED
      BY <2>1, <2>2, <2>3
  <1>5. CASE SocksConnect
    <2>1. PICK res :
            IF res # Ok THEN Returns(res)
            ELSE /\ pc' = "socks" /\ Open
                 /\ UNCHANGED <<config, dry, attempt, result, cause, pushes>>
      BY <1>5 DEF SocksConnect
    <2>2. pc = "attempt"
      BY <1>5 DEF SocksConnect, Runs
    <2>3. CASE res # Ok
      <3>1. pc' = "judge" /\ attempt' = attempt
        BY <2>1, <2>3 DEF Returns, Goto
      <3> QED
        BY <1>2, <2>2, <3>1 DEF PlaceByLabel
    <2>4. CASE res = Ok
      <3>1. pc' = "socks" /\ attempt' = attempt /\ field' = "method" /\ missing' = 2
        BY <2>1, <2>4 DEF Open, Size
      <3> QED
        BY <1>1, <1>2, <2>2, <3>1 DEF PlaceByLabel, DepthByField
    <2> QED
      BY <2>3, <2>4
  <1>6. CASE SocksStep
    <2>1. pc = "socks" /\ pc' = "socks" /\ attempt' = attempt
      BY <1>6 DEF SocksStep
    <2>2. Depth' > Depth
      <3>1. SockInv /\ SockInv'
        BY DEF ProbesInv
      <3> QED
        BY <1>6, <3>1, DepthGrows DEF SocksStep
    <2>3. Depth \in Int /\ Depth' \in Int
      BY <1>1, FieldsAre DEF DepthByField, SockTypeOK, Ends
    <2>4. Place = 2 + Depth /\ Place' = 2 + Depth'
      BY <1>2, <2>1 DEF PlaceByLabel
    <2>5. 2 + Depth' > 2 + Depth
      <3>1. \A a, b \in Int : a > b => 2 + a > 2 + b
        OBVIOUS
      <3> QED
        BY <2>2, <2>3, <3>1
    <2>6. Place' > Place
      BY <2>4, <2>5
    <2> QED
      BY <2>1, <2>6
  <1>7. CASE SocksEnd
    <2>1. pc = "socks" /\ pc' = "judge" /\ attempt' = attempt
      BY <1>7 DEF SocksEnd, Goto
    <2> QED
      BY <1>1, <1>2, <2>1, FieldsAre DEF PlaceByLabel, DepthByField, SockTypeOK, Ends
  <1>8. CASE Complain \/ ProbePort \/ Ping \/ PushHeartbeat \/ HeartbeatAnswer \/ FetchRelease
             \/ ReleaseAnswer
    <2>1. /\ attempt' = attempt
          /\ \/ pc = "attempt" /\ pc' \in {"judge", "http"}
             \/ pc = "http" /\ pc' = "judge"
      BY <1>8 DEF Complain, ProbePort, Ping, PushHeartbeat, HeartbeatAnswer, FetchRelease,
                  ReleaseAnswer, Runs, Returns, Goto
    <2> QED
      BY <1>2, <2>1 DEF PlaceByLabel
  <1>9. CASE Accept \/ Notify \/ PushTimeoutRaises \/ NoPush \/ PushKuma \/ PushAnswer
    <2>1. /\ attempt' = attempt
          /\ \/ pc = "judge" /\ pc' = "notify"
             \/ pc = "notify" /\ pc' \in {"push", "aborted"}
             \/ pc = "push" /\ pc' \in {"pushed", "ended", "aborted"}
             \/ pc = "pushed" /\ pc' \in {"ended", "aborted"}
      BY <1>9 DEF Accept, Notify, PushTimeoutRaises, NoPush, PushKuma, PushAnswer, Goto, Abort
    <2> QED
      BY <1>2, <2>1 DEF PlaceByLabel
  <1> QED
    BY <1>3, <1>4, <1>5, <1>6, <1>7, <1>8, <1>9 DEF Next, Progress

-----------------------------------------------------------------------------
(* What an invocation is at any point: in step with its proxy, past its    *)
(* launch with a configuration that loads, and an attempt begins afresh.   *)
THEOREM ProbesInvariant == Spec => []ProbesInv
  BY InitProbesInv, StepProbesInv, PTL DEF Spec

(* Whatever is configured, the files, the results and the counts of an     *)
(* invocation stay what they are.                                          *)
THEOREM TypeCorrect == Spec => []TypeOK
  <1>1. ProbesInv => TypeOK
    BY DEF ProbesInv
  <1> QED
    BY <1>1, ProbesInvariant, PTL

(* _recv_exact and the handshake: whatever the pieces the answers come in, *)
(* however often the check is retried, OK means an open tunnel.            *)
THEOREM OkIsEarned == Spec => []OkMeansTunnel
  <1>1. ProbesInv => OkMeansTunnel
    BY DEF ProbesInv
  <1> QED
    BY <1>1, ProbesInvariant, PTL

(* validate_config covers what the checks ask for: with no issue, no check *)
(* reports an option it needs as missing.                                  *)
THEOREM AcceptedLacksNothing == Spec => []AcceptedIsComplete
  <1>1. ProbesInv => AcceptedIsComplete
    BY DEF ProbesInv
  <1> QED
    BY <1>1, ProbesInvariant, PTL

(* run_doctor covers what ends an invocation: without an error of its, only*)
(* a negative number, a URL's port, an answer, an executable that does not *)
(* start, or a command that its placeholders have made another one can.    *)
THEOREM ClearedDoesNotFail == Spec => []ClearedRuns
  <1>1. ProbesInv => ClearedRuns
    BY DEF ProbesInv
  <1> QED
    BY <1>1, ProbesInvariant, PTL

(* render_effective_config: whatever the files, as long as their texts are *)
(* single lines, what is printed of a configuration that passes, read      *)
(* again, passes and means the same, with its defaults and empty options.  *)
THEOREM PrintedSaysItAll == Spec => []PrintedIsEffective
  <1>1. TypeOK => PrintedIsEffective
    <2> SUFFICES ASSUME TypeOK, Enabled(config), Issues(config) = {}, ~LoadRaises(config)
                 PROVE  LET again == Printed(config)
                        IN Issues(again) = {} /\ ~LoadRaises(again)
                             /\ Effective(again) = Effective(config)
      BY DEF PrintedIsEffective
    <2>1. Printable(config)
      BY DEF Printable, TypeOK
    <2>2. \A c \in DOMAIN Printed(config) : c = <<c[1], c[2]>>
      BY PrintedCells
    <2> QED
      BY <2>1, <2>2, PrintedIsValid, ValidLoads, PrintedMeansTheSame
  <1> QED
    BY <1>1, TypeCorrect, PTL

(* run_check_with_retries and _recv_exact: an invocation takes a bounded   *)
(* number of steps, for any retries and whatever the proxy sends.          *)
THEOREM StepsAreBounded == Spec => EveryStepCounts
  <1>1. ProbesInv /\ ProbesInv' /\ [Next]_vars =>
          [\/ Place' > Place /\ (attempt' = attempt \/ pc = "idle")
           \/ attempt' = attempt + 1 /\ attempt <= Retries(config)]_vars
    BY FurtherStep
  <1> QED
    BY <1>1, ProbesInvariant, PTL DEF Spec, EveryStepCounts

=============================================================================
