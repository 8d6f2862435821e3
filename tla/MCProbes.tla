------------------------------- MODULE MCProbes -------------------------------
(* Small instance of Probes: for each check a plain configuration, every   *)
(* one that differs from it in one cell of the main file, and each of them *)
(* with each of a few drop-ins of at most one cell.                        *)
EXTENDS Probes, TLC

MCIntOf == ("-1" :> -1) @@ ("0" :> 0) @@ ("1" :> 1) @@ ("5" :> 5) @@ ("50" :> 50)
           @@ ("70000" :> 70000)
MCFloatOf == [t \in DOMAIN MCIntOf |-> 10 * MCIntOf[t]] @@ ("1.5" :> 15) @@ ("1.0" :> 10)
MCCommands == {"send", "template"}
MCRendered == "template" :> {"", "send", "unbalanced"}
MCUrls == {"http", "port"}
MCOpenable == {"http"}

TextsOf(key) ==
  CASE key \in {"port", "proxy_port"}            -> {"", "junk", "0", "50", "70000"}
    [] key \in {"retries", "count"}              -> {"", "junk", "-1", "0", "1", "1.5"}
    [] key = "target_port"                       -> {"", "50"}
    [] key \in FloatKeys                         -> {"", "junk", "-1", "0", "1.5"}
    [] key \in BoolKeys                          -> {"", "junk", "0", "1"}
    [] key = "notify_cmd"                        -> {"", "send", "template", "unbalanced"}
    [] key \in {"kuma_push_url", "heartbeat_url"} -> {"", "http", "port", "ftp"}
    [] key = "target_host"                       -> {"", "name", "long", "unencodable"}
    [] key = "username"                          -> {"", "name", "long"}
    [] key = "repository"                        -> {"", "named", "unnamed"}
    [] key = "check"                             -> {"", "typo"}
    [] OTHER                                     -> {"", "name"}

(* The plain configurations. *)
Own == [kuma_heartbeat        |-> ("heartbeat_url" :> "http"),
        ping                  |-> ("host" :> "name"),
        tcp_port              |-> ("host" :> "name") @@ ("port" :> "50"),
        socks_proxy           |-> ("proxy_host" :> "name") @@ ("proxy_port" :> "50")
                                  @@ ("target_host" :> "name") @@ ("target_port" :> "50"),
        github_release_update |-> ("repository" :> "named")]

Plain(kind) ==
  (<<"default", "retries">> :> "1") @@ (<<"probe", "enabled">> :> "1")
  @@ (<<"probe", "check">> :> kind)
  @@ [c \in {"probe"} \X DOMAIN Own[kind] |-> Own[kind][c[2]]]

CellsOf(kind) ==
  ({"global"} \X GlobalKeys) \cup ({"default"} \X (DefaultKeys \cup {"retrys"}))
  \cup ({"probe"} \X (CommonCheckKeys \cup CheckKeys[kind] \cup {"retrys"}))

Variants(kind) ==
  {Plain(kind)}
  \cup UNION {{(c :> t) @@ Plain(kind) : t \in TextsOf(c[2])} : c \in CellsOf(kind)}
  \cup {[c \in DOMAIN Plain(kind) \ {d} |-> Plain(kind)[c]] : d \in DOMAIN Plain(kind)}

MCMainFiles == UNION {Variants(kind) : kind \in Kinds}

MCDropIns ==
  {<<>>,
   <<"default", "timeout_seconds">> :> "-1", <<"default", "timeout_seconds">> :> "junk",
   <<"probe", "timeout_seconds">> :> "", <<"probe", "timeout_seconds">> :> "1.5",
   <<"default", "notify_cmd">> :> "unbalanced", <<"probe", "notify_cmd">> :> "",
   <<"probe", "retries">> :> "0", <<"probe", "host">> :> "",
   <<"probe", "kuma_push_url">> :> "http"}

=============================================================================
