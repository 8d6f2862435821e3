------------------------------- MODULE Config -------------------------------
(***************************************************************************)
(* The configuration as config.py and models.py read it: what load_config  *)
(* makes of it, what --validate-config and the doctor find wrong with it,  *)
(* what --print-config writes and what a check sees of its options.        *)
(*                                                                         *)
(* A file is a function from cells <<section, key>> to texts.  There is    *)
(* one check section, "probe".  Of the options that every check has, those *)
(* that can end a run are here; interval_minutes, fail_after and the like  *)
(* are read the way retries and timeout_seconds are.                       *)
(***************************************************************************)
EXTENDS Integers

CONSTANTS IntOf,     \* the texts int() takes, with their values
          FloatOf,   \* the texts float() takes, with ten times their values
          Commands,  \* the texts that split, their first word an executable of this host
          Rendered,  \* the texts with placeholders, with what they may be rendered to
          Urls,      \* the texts of the shape of an http(s) URL
          Openable   \* those of them with nothing wrong, like a port that is no number

Absent == "(absent)"
Nothing == {Absent, ""}

(* float() takes whatever int() takes and neither takes an empty text,     *)
(* which has no placeholders either; the built-in defaults are numbers     *)
(* that can be written.                                                    *)
ASSUME ConfigConstants ==
  /\ DOMAIN IntOf \subseteq DOMAIN FloatOf
  /\ \A t \in DOMAIN IntOf : IntOf[t] \in Int /\ FloatOf[t] = 10 * IntOf[t]
  /\ Nothing \cap (DOMAIN FloatOf \cup DOMAIN Rendered) = {}
  /\ {0, 1, 5, 50} \subseteq {IntOf[t] : t \in DOMAIN IntOf}
  /\ Openable \subseteq Urls

Yes == {"1", "yes", "true", "on"}
No == {"0", "no", "false", "off"}

GlobalKeys == {"max_run_seconds"}
DefaultKeys == {"retries", "retry_delay_seconds", "timeout_seconds",
                "notify_on_recovery", "notify_cmd"}
CommonCheckKeys == DefaultKeys \cup {"enabled", "check", "kuma_push_url"}
CheckKeys == [kuma_heartbeat        |-> {"heartbeat_url"},
              ping                  |-> {"host", "count"},
              tcp_port              |-> {"host", "port"},
              socks_proxy           |-> {"host", "port", "proxy_host", "proxy_port",
                                         "target_host", "target_port", "username"},
              github_release_update |-> {"repository", "expected_version"}]
RequiredCheckKeys == [kuma_heartbeat        |-> {"heartbeat_url"},
                      ping                  |-> {"host"},
                      tcp_port              |-> {"host", "port"},
                      socks_proxy           |-> {"target_host", "target_port"},
                      github_release_update |-> {}]
Kinds == DOMAIN CheckKeys

ProxyKey == [host |-> "proxy_host", port |-> "proxy_port"]

BoolKeys == {"enabled", "notify_on_recovery"}
IntKeys == {"retries", "count", "port", "proxy_port", "target_port"}
FloatKeys == {"timeout_seconds", "retry_delay_seconds", "max_run_seconds"}

(* Later entries replace earlier ones: of a dictionary and of a file. *)
Overlay(later, earlier) ==
  [x \in DOMAIN later \cup DOMAIN earlier |->
     IF x \in DOMAIN later THEN later[x] ELSE earlier[x]]

(* discover_config_files, read_config_parser: a drop-in overlays the main  *)
(* file, option by option.                                                 *)
Merged(main, dropin) == Overlay(dropin, main)

(* What configparser makes of a file. *)
IsFile(file) ==
  \A c \in DOMAIN file :
    c \in {"global", "default", "probe"} \X STRING /\ file[c] # Absent

Text(cfg, section, key) ==
  IF <<section, key>> \in DOMAIN cfg THEN cfg[<<section, key>>] ELSE Absent

Option(cfg, key) == Text(cfg, "probe", key)
Kind(cfg) == Option(cfg, "check")
Enabled(cfg) == Option(cfg, "enabled") \in Yes

-----------------------------------------------------------------------------
(* load_config: numbers of [global] and [default], and the check's name.   *)
LoadRaises(cfg) ==
  \/ \E cell \in DOMAIN cfg \cap (({"global"} \X GlobalKeys) \cup ({"default"} \X DefaultKeys)) :
       /\ cfg[cell] # ""
       /\ \/ cell[2] \in IntKeys /\ cfg[cell] \notin DOMAIN IntOf
          \/ cell[2] \in FloatKeys /\ cfg[cell] \notin DOMAIN FloatOf
  \/ Enabled(cfg) /\ Kind(cfg) \in Nothing

BuiltIn == [retries |-> 0, retry_delay_seconds |-> 10, timeout_seconds |-> 50]

(* CheckDefaults *)
Default(cfg, numbers, key) ==
  LET t == Text(cfg, "default", key)
  IN IF t \in Nothing THEN BuiltIn[key] ELSE numbers[t]

(* GlobalConfig: max_run_seconds *)
Budget(cfg) ==
  LET t == Text(cfg, "global", "max_run_seconds")
  IN IF t \in Nothing THEN 500 ELSE FloatOf[t]

(* CheckConfig.get_int and get_float take the option. *)
Reads(cfg, numbers, key) == Option(cfg, key) \in Nothing \cup DOMAIN numbers

Number(cfg, numbers, key) ==
  LET t == Option(cfg, key)
  IN IF t \in Nothing THEN Default(cfg, numbers, key) ELSE numbers[t]

Retries(cfg) == Number(cfg, IntOf, "retries")
RetryDelay(cfg) == Number(cfg, FloatOf, "retry_delay_seconds")
PushTimeout(cfg) == Number(cfg, FloatOf, "timeout_seconds")

(* run_one_check fills in an absent timeout only: an empty one is the      *)
(* check's own default, not the one of [default].                          *)
CheckTimeout(cfg) ==
  IF Option(cfg, "timeout_seconds") # "" THEN PushTimeout(cfg)
  ELSE IF Kind(cfg) = "github_release_update" THEN 100 ELSE 50

DefaultRecovery(cfg) ==
  LET t == Text(cfg, "default", "notify_on_recovery") IN t \in Nothing \cup Yes

NotifyOnRecovery(cfg) ==
  LET t == Option(cfg, "notify_on_recovery")
  IN IF t = Absent THEN DefaultRecovery(cfg) ELSE t \in Yes

(* render_notify_cmd: the template; an empty option overrides the default. *)
NotifyCmd(cfg) ==
  LET t == Option(cfg, "notify_cmd")
  IN IF t = Absent THEN Text(cfg, "default", "notify_cmd") ELSE t

(* render_template: what a template becomes depends on the result's        *)
(* message and details as well, which may hold any text.                   *)
Renderings(template) ==
  IF template \in DOMAIN Rendered THEN Rendered[template] ELSE {template}

(* What an invocation makes of the configuration. *)
Effective(cfg) ==
  [budget    |-> Budget(cfg),
   own       |-> [k \in {c \in DOMAIN cfg : c[1] = "probe" /\ c[2] \notin DefaultKeys \cup {"enabled"}}
                    |-> cfg[k]],
   retries   |-> Retries(cfg),
   delay     |-> RetryDelay(cfg),
   timeouts  |-> <<CheckTimeout(cfg), PushTimeout(cfg)>>,
   recovery  |-> NotifyOnRecovery(cfg),
   command   |-> IF NotifyCmd(cfg) \in Nothing THEN "" ELSE NotifyCmd(cfg)]

-----------------------------------------------------------------------------
(* _typed_value_issues: unlike the getters, an empty text has no type.     *)
WellTyped(key, text) ==
  /\ key \in BoolKeys => text \in Yes \cup No
  /\ key \in IntKeys => text \in DOMAIN IntOf
  /\ key \in FloatKeys => text \in DOMAIN FloatOf

CellIssues(cfg, section, allowed) ==
  LET cells == {c \in DOMAIN cfg : c[1] = section}
  IN {<<"unknown key", c>> : c \in {d \in cells : d[2] \notin allowed}}
     \cup {<<"type", c>> : c \in {d \in cells : ~WellTyped(d[2], cfg[d])}}

(* _missing_key_issues without the alternatives of a SOCKS proxy. *)
MissingKeys_Plain(cfg) ==
  {k \in RequiredCheckKeys[Kind(cfg)] : Option(cfg, k) \in Nothing}

(* _missing_key_issues, _custom_missing_key_issues. *)
MissingKeys(cfg) ==
  {k \in RequiredCheckKeys[Kind(cfg)] : Option(cfg, k) \in Nothing}
  \cup {k \in {"host", "port"} :
          Kind(cfg) = "socks_proxy" /\ {Option(cfg, k), Option(cfg, ProxyKey[k])} \subseteq Nothing}

(* validate_config: a disabled section is looked at as well. *)
Issues(cfg) ==
  CellIssues(cfg, "global", GlobalKeys)
  \cup CellIssues(cfg, "default", DefaultKeys)
  \cup IF Kind(cfg) \in Nothing THEN {<<"missing", "check">>}
       ELSE IF Kind(cfg) \notin Kinds THEN {<<"unknown check module", Kind(cfg)>>}
       ELSE CellIssues(cfg, "probe", CommonCheckKeys \cup CheckKeys[Kind(cfg)])
            \cup {<<"missing", k>> : k \in MissingKeys(cfg)}

(* The default command alone, whatever the check's section says. *)
CommandsUsed_Default(cfg) == {Text(cfg, "default", "notify_cmd")} \ Nothing

(* _check_notify_commands: the default template and the enabled check's,   *)
(* as they are written.                                                    *)
CommandsUsed(cfg) ==
  ({Text(cfg, "default", "notify_cmd")}
   \cup (IF Enabled(cfg) THEN {Option(cfg, "notify_cmd")} ELSE {})) \ Nothing

(* _check_kuma_urls *)
UrlsUsed(cfg) ==
  {Option(cfg, k) : k \in IF ~Enabled(cfg) THEN {}
                          ELSE IF Kind(cfg) = "kuma_heartbeat" THEN {"kuma_push_url", "heartbeat_url"}
                          ELSE {"kuma_push_url"}} \ Nothing

(* run_doctor: every ERROR about the configuration.  A notify_cmd is split *)
(* and its first word looked for with its placeholders still in it.  The   *)
(* check's module is the one validate_config knows.                        *)
DoctorErrors(cfg) ==
  Issues(cfg)
  \cup (IF LoadRaises(cfg) THEN {<<"could not be loaded", "config">>}
        ELSE {<<"notify_cmd", t>> : t \in CommandsUsed(cfg) \ Commands}
             \cup {<<"url", t>> : t \in UrlsUsed(cfg) \ Urls})

-----------------------------------------------------------------------------
(* _format_number: a whole number as int() reads it, whatever it was given *)
(* as.                                                                     *)
Shown(number) ==
  LET whole == {t \in DOMAIN IntOf : FloatOf[t] = number}
  IN IF whole # {} THEN CHOOSE t \in whole : TRUE
     ELSE CHOOSE t \in DOMAIN FloatOf : FloatOf[t] = number

(* _defaults_as_options *)
DefaultOptions(cfg) ==
  LET command == Text(cfg, "default", "notify_cmd")
  IN Overlay([retries             |-> Shown(10 * Default(cfg, IntOf, "retries")),
              retry_delay_seconds |-> Shown(Default(cfg, FloatOf, "retry_delay_seconds")),
              timeout_seconds     |-> Shown(Default(cfg, FloatOf, "timeout_seconds")),
              notify_on_recovery  |-> IF DefaultRecovery(cfg) THEN "1" ELSE "0"],
             [k \in IF command \in Nothing THEN {} ELSE {"notify_cmd"} |-> command])

OwnOptions(cfg) ==
  [k \in {c[2] : c \in {d \in DOMAIN cfg : d[1] = "probe"}} |-> Option(cfg, k)]

(* The effective options of the printed section, the defaults on top. *)
PrintedOptions_DefaultsWin(cfg) ==
  Overlay([enabled |-> "1"], Overlay(DefaultOptions(cfg), OwnOptions(cfg)))

PrintedOptions(cfg) ==
  Overlay([enabled |-> "1"], Overlay(OwnOptions(cfg), DefaultOptions(cfg)))

(* render_effective_config, as a file. *)
Printed(cfg) ==
  LET printed == [global  |-> [max_run_seconds |-> Shown(Budget(cfg))],
                  default |-> DefaultOptions(cfg),
                  probe   |-> PrintedOptions(cfg)]
  IN [c \in UNION {{section} \X DOMAIN printed[section] : section \in DOMAIN printed}
        |-> printed[c[1]][c[2]]]

=============================================================================
