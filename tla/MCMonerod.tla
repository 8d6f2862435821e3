------------------------------ MODULE MCMonerod ------------------------------
(* Small instance of Monerod: a healthy answer, and every answer that      *)
(* differs from it in what is needed for one finding or one pair of them.  *)
EXTENDS Monerod

MCHeights == 0 .. 2

Info(height, target, synced, busy, offline, low) ==
  [service |-> "active", readable |-> TRUE, closed |-> {}, rpc |-> "info",
   height |-> height, target |-> target, synced |-> synced, busy |-> busy,
   offline |-> offline, outLow |-> "out" \in low, inLow |-> "in" \in low]

Healthy == Info(TRUE, 1, TRUE, FALSE, FALSE, {})

Answers ==
  {Info(h, t, s, b, o, low) :
     h \in BOOLEAN, t \in {Missing, 1, 3}, s \in BOOLEAN, b \in BOOLEAN,
     o \in BOOLEAN, low \in {{}, {"out"}, {"in"}}}

MCViews ==
  Answers
  \cup {[Healthy EXCEPT !.service = s, !.readable = r] :
          s \in {"active", "inactive", "unknown"}, r \in BOOLEAN}
  \cup {[Healthy EXCEPT !.rpc = r, !.closed = c] :
          r \in {"off", "error", "empty"},
          c \in SUBSET {"p2p_port_closed", "rpc_port_closed"}}

=============================================================================
