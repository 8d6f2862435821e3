----------------------------- MODULE SocksProxy -----------------------------
(***************************************************************************)
(* The SOCKS5 client of the socks_proxy check: the answers it reads from a *)
(* stream that delivers them in pieces and may break off, and where each   *)
(* answer leads.                                                           *)
(***************************************************************************)
EXTENDS Integers

VARIABLES field,    \* the answer being read, or how it ended
          missing,  \* bytes of it that have not come yet
          heard,    \* what the proxy has answered so far
          read      \* history: bytes taken from the stream

sockVars == <<field, missing, heard, read>>

(* After[field][answer]: what a complete answer leads to.  "failed" is the *)
(* CRIT of SocksProtocolError and OSError, "raised" any other exception.   *)
After ==
  [method  |-> [none |-> "reply", userpass |-> "auth", refused |-> "failed",
                unsupported |-> "failed", badversion |-> "failed"],
   auth    |-> [success |-> "reply", failure |-> "failed", badversion |-> "failed"],
   reply   |-> [ipv4 |-> "address", ipv6 |-> "address", domain |-> "length",
                unsupported |-> "failed", refused |-> "failed", badversion |-> "failed"],
   length  |-> [empty |-> "address", short |-> "address"],
   address |-> [readable |-> "port", garbled |-> "raised"],
   port    |-> [number |-> "connected"]]

Fields == DOMAIN After
Ends == {"connected", "failed", "raised"}

Silence == [f \in Fields |-> "nothing"]

(* The number of bytes _recv_exact is asked for. *)
Size(f, said) ==
  IF f \in {"method", "auth", "port"} THEN 2
  ELSE IF f = "reply" \/ (f = "address" /\ said.reply = "ipv4") THEN 4
  ELSE IF f = "length" THEN 1
  ELSE IF f = "address" /\ said.reply = "ipv6" THEN 16
  ELSE IF f = "address" /\ said.length = "short" THEN 3
  ELSE 0

SockIdle == /\ field = "off" /\ missing = 0 /\ heard = Silence /\ read = 0
(* A connection that goes on where the last attempt's broke off. *)
SockReset_Kept == field' = "off" /\ missing' = 0 /\ UNCHANGED <<heard, read>>

(* Each attempt has a connection of its own. *)
SockReset == /\ field' = "off" /\ missing' = 0 /\ heard' = Silence /\ read' = 0

(* Connected; the methods offered are on their way. *)
Open ==
  /\ field' = "method" /\ missing' = Size("method", heard)
  /\ UNCHANGED <<heard, read>>

(* _recv_exact that is content with what one recv returns. *)
Receive_Once ==
  /\ field \in Fields
  /\ \E n \in 1 .. missing : missing' = 0 /\ read' = read + n
  /\ UNCHANGED <<field, heard>>

(* _recv_exact: one recv returns a piece. *)
Receive ==
  /\ field \in Fields
  /\ \E n \in 1 .. missing : missing' = missing - n /\ read' = read + n
  /\ UNCHANGED <<field, heard>>

(* The stream ends, is reset or is silent for longer than the timeout. *)
Break ==
  /\ field \in Fields /\ missing > 0
  /\ field' = "failed" /\ missing' = 0
  /\ UNCHANGED <<heard, read>>

(* An answer to the password is as good as another. *)
NextField_AnyAuth(answer, credentials, target) ==
  LET next == IF field = "auth" THEN "reply" ELSE After[field][answer]
  IN IF next = "auth" /\ credentials = "long" THEN "failed"
     ELSE IF next = "reply" /\ target = "long" THEN "failed"
     ELSE IF next = "reply" /\ target = "unencodable" THEN "raised"
     ELSE next

(* Before it answers, the client sends its credentials (empty ones if it   *)
(* has none: the proxy may select a method that was not offered) or its    *)
(* target: some of either cannot be sent.                                  *)
NextField(answer, credentials, target) ==
  LET next == After[field][answer]
  IN IF next = "auth" /\ credentials = "long" THEN "failed"
     ELSE IF next = "reply" /\ target = "long" THEN "failed"
     ELSE IF next = "reply" /\ target = "unencodable" THEN "raised"
     ELSE next

(* The answer is complete.  An address that is a number needs no decoding. *)
Answer(credentials, target) ==
  /\ field \in Fields /\ missing = 0
  /\ \E answer \in DOMAIN After[field] :
       /\ answer = "garbled" => heard.reply = "domain" /\ heard.length = "short"
       /\ heard' = [heard EXCEPT ![field] = answer]
       /\ field' = NextField(answer, credentials, target)
       /\ missing' = Size(field', heard')
  /\ UNCHANGED read

(* The bytes of the answers given. *)
Given(f) == IF heard[f] = "nothing" THEN 0 ELSE Size(f, heard)

(* The proxy has opened the tunnel and the client has read all of its      *)
(* answers and no more.                                                    *)
TunnelIsOpen ==
  /\ \/ heard.method = "none"
     \/ heard.method = "userpass" /\ heard.auth = "success"
  /\ heard.reply \in {"ipv4", "ipv6", "domain"}
  /\ read = Given("method") + Given("auth") + Given("reply") + Given("length")
              + Given("address") + Given("port")

SockTypeOK ==
  /\ field \in Fields \cup Ends \cup {"off"}
  /\ missing \in 0 .. 16 /\ read \in 0 .. 26
  /\ \A f \in Fields : heard[f] \in {"nothing"} \cup DOMAIN After[f]

=============================================================================
