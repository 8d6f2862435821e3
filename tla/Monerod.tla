------------------------------- MODULE Monerod -------------------------------
(***************************************************************************)
(* The monerod check over many runs: what a run finds wrong with the       *)
(* daemon, and the check_state by which it tells a slow sync from a        *)
(* stalled one.                                                            *)
(*                                                                         *)
(* All attempts of a run start from the same check_state and the result of *)
(* the last one is recorded, so a run is one step.  The daemon's height    *)
(* only grows.                                                             *)
(***************************************************************************)
EXTENDS Integers

CONSTANTS Heights,         \* heights the daemon may reach
          Views,           \* what a run may find, see ViewType
          RequireRpc,      \* require_rpc
          StallSeconds,    \* sync_stall_seconds
          MaxClock         \* bound on time

Missing == -1

(* What systemctl, the configuration file, the ports and get_info show of  *)
(* the daemon at one moment.  Its height is read unless it is not there.   *)
ViewType == [service  : {"active", "inactive", "unknown"},
             readable : BOOLEAN,
             closed   : SUBSET {"p2p_port_closed", "rpc_port_closed",
                                "restricted_rpc_port_closed"},
             rpc      : {"off", "error", "empty", "info"},
             height   : BOOLEAN,
             target   : Nat \cup {Missing},
             synced   : BOOLEAN,
             busy     : BOOLEAN,
             offline  : BOOLEAN,
             outLow   : BOOLEAN,
             inLow    : BOOLEAN]

ASSUME MonerodConstants ==
  /\ Heights \subseteq Nat /\ 0 \in Heights
  /\ Views \subseteq ViewType
  /\ RequireRpc \in BOOLEAN
  /\ StallSeconds \in Nat \ {0} /\ MaxClock \in Nat

VARIABLES
  clock,    \* now
  real,     \* the daemon's height
  saved,    \* check_state: last_height, last_height_changed_at,
            \* sync_stalled_for_seconds
  report,   \* the last result, until time passes
  advanced, \* history: when the daemon reached its height
  since     \* history: when a recorded run first read that height

vars == <<clock, real, saved, report, advanced, since>>

NoState == [height |-> Missing, changed |-> Missing, stalled |-> Missing]
NoReport == [status |-> "none", codes |-> {}]

Init ==
  /\ clock = 0 /\ real = 0
  /\ saved = NoState
  /\ report = NoReport
  /\ advanced = 0 /\ since = Missing

-----------------------------------------------------------------------------
(* The height an answer gives (_int_payload). *)
HeightOf(view) == IF view.height THEN real ELSE Missing

HasHeights(view) == view.height /\ view.target > 0
Behind(view) == HasHeights(view) /\ real < view.target

(* An answer without a height restarts the count. *)
ChangedAt_Gap(view) ==
  IF HeightOf(view) # saved.height \/ saved.changed = Missing
  THEN clock ELSE saved.changed

(* The count starts with the first run of all. *)
ChangedAt_First(view) == IF saved.changed = Missing THEN clock ELSE saved.changed

(* The count is not started by a height that is the first one. *)
ChangedAt_Unset(view) ==
  IF view.height /\ saved.height # Missing /\ real # saved.height
  THEN clock ELSE saved.changed

(* last_height_changed_at: now when the height is a new one. *)
ChangedAt(view) ==
  IF (view.height /\ HeightOf(view) # saved.height) \/ saved.changed = Missing
  THEN clock ELSE saved.changed

StalledFor(view) == clock - ChangedAt(view)

(* The daemon says that it is behind, and nothing worse. *)
Lagging(view) == ~view.offline /\ ~view.synced /\ Behind(view)

(* _evaluate_sync *)
SyncFinding(view) ==
  CASE view.offline                    -> {<<"CRIT", "rpc_offline">>}
    [] Lagging(view) /\ ~view.busy     -> {<<"CRIT", "sync_not_syncing">>}
    [] Lagging(view) /\ view.busy      ->
         {IF StalledFor(view) >= StallSeconds
          THEN <<"CRIT", "sync_stalled">> ELSE <<"WARN", "sync_pending">>}
    [] ~view.offline /\ ~view.synced /\ ~HasHeights(view) -> {<<"WARN", "sync_unknown">>}
    [] OTHER                           -> {}

(* _evaluate_sync's state, laid over the previous one: the length of the   *)
(* stall is measured only while the daemon lags.                           *)
SyncState(view) ==
  [height  |-> IF view.height THEN HeightOf(view) ELSE saved.height,
   changed |-> ChangedAt(view),
   stalled |-> IF Lagging(view) THEN StalledFor(view) ELSE saved.stalled]

(* _evaluate_peers: few outgoing peers are worse while behind. *)
PeerFinding(view) ==
  (IF view.outLow THEN {<<IF Behind(view) THEN "CRIT" ELSE "WARN", "out_peers_low">>} ELSE {})
  \cup (IF view.inLow /\ ~view.outLow THEN {<<"WARN", "in_peers_low">>} ELSE {})

(* run: everything a complete evaluation finds.  An empty result object is *)
(* neither an error nor evaluated.                                         *)
Findings(view) ==
  (IF view.service = "inactive" THEN {<<"CRIT", "service_inactive">>} ELSE {})
  \cup {<<"CRIT", c>> : c \in view.closed}
  \cup CASE view.rpc = "info"  -> SyncFinding(view) \cup PeerFinding(view)
         [] view.rpc = "error" -> {<<"CRIT", "rpc_failed">>}
         [] view.rpc = "off"   -> IF RequireRpc THEN {<<"CRIT", "rpc_not_configured">>} ELSE {}
         [] view.rpc = "empty" -> {}

Worst(found) ==
  LET given == {f[1] : f \in found}
  IN IF "CRIT" \in given THEN "CRIT" ELSE IF "WARN" \in given THEN "WARN" ELSE "OK"

-----------------------------------------------------------------------------
(* systemctl or the configuration file could not be read. *)
Unevaluated ==
  \E view \in Views :
    /\ view.service = "unknown" \/ ~view.readable
    /\ report' = [status |-> "UNKNOWN",
                  codes |-> IF view.service = "unknown" THEN {"service_check_failed"}
                            ELSE {"config_unreadable"}]
    /\ UNCHANGED <<clock, real, saved, advanced, since>>

(* The findings of the most serious kind make the result. *)
Evaluate ==
  \E view \in Views :
    /\ view.service # "unknown" /\ view.readable
    /\ LET found == Findings(view)
       IN report' = [status |-> Worst(found),
                     codes  |-> {f[2] : f \in {g \in found : g[1] = Worst(found)}}]
    /\ saved' = IF view.rpc = "info" THEN SyncState(view) ELSE saved
    /\ since' = IF view.rpc = "info" /\ view.height /\ since = Missing THEN clock ELSE since
    /\ UNCHANGED <<clock, real, advanced>>

(* An exception nobody expected (an answer that is no object, a file that  *)
(* is not UTF-8): run_one_check makes a result without check_state.        *)
RunRaises ==
  /\ report' = [status |-> "UNKNOWN", codes |-> {}]
  /\ saved' = NoState
  /\ since' = Missing
  /\ UNCHANGED <<clock, real, advanced>>

(* The daemon takes over blocks. *)
Advance ==
  \E h \in Heights :
    /\ h > real
    /\ real' = h
    /\ advanced' = clock /\ since' = Missing
    /\ report' = NoReport
    /\ UNCHANGED <<clock, saved>>

Tick ==
  /\ clock < MaxClock
  /\ clock' = clock + 1
  /\ report' = NoReport
  /\ UNCHANGED <<real, saved, advanced, since>>

Next == Unevaluated \/ Evaluate \/ RunRaises \/ Advance \/ Tick

Spec == Init /\ [][Next]_vars

-----------------------------------------------------------------------------
Codes == {"service_inactive", "service_check_failed", "config_unreadable",
          "p2p_port_closed", "rpc_port_closed", "restricted_rpc_port_closed",
          "rpc_failed", "rpc_not_configured", "rpc_offline", "sync_unknown",
          "sync_not_syncing", "sync_stalled", "sync_pending",
          "out_peers_low", "in_peers_low"}

(* The variables have their types; a height on record has a time. *)
TypeOK ==
  /\ clock \in Nat /\ real \in Heights
  /\ saved \in [height : Heights \cup {Missing}, changed : Nat \cup {Missing},
                stalled : Nat \cup {Missing}]
  /\ saved.height # Missing => saved.changed # Missing
  /\ report \in [status : {"none", "OK", "WARN", "CRIT", "UNKNOWN"}, codes : SUBSET Codes]
  /\ advanced \in Nat /\ since \in Nat \cup {Missing}

(* The check's README, problem code sync_stalled: an alarm is never false. *)
(* When it is raised the daemon has not advanced for sync_stall_seconds,   *)
(* however many runs were missed, could not read the height or raised.     *)
NoFalseStall ==
  "sync_stalled" \in report.codes => clock - advanced >= StallSeconds

(* sync_stall_seconds in the check's README: a daemon that is busy without *)
(* getting anywhere is not pending for longer.  Once a recorded run has    *)
(* read the height, answers without a height, failed requests and runs     *)
(* that could not be evaluated do not restart the count; only a run that   *)
(* raises does.                                                            *)
StallIsSeen ==
  (since # Missing /\ clock - since >= StallSeconds)
  => "sync_pending" \notin report.codes

=============================================================================
