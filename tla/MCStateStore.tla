---------------------------- MODULE MCStateStore ----------------------------
(* Small instance of StateStore: two invocations, two sections, and a      *)
(* section's entry absent or one of two.                                   *)
EXTENDS StateStore

CONSTANTS p1, p2, k1, k2

MCProcs == {p1, p2}
MCKeys == {k1, k2}

=============================================================================
