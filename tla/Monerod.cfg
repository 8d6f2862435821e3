\* The monerod check: stalled or slow, over gaps, bad answers and lost state.
CONSTANTS
  Heights <- MCHeights
  Views <- MCViews
  RequireRpc = TRUE
  StallSeconds = 2
  MaxClock = 5

SPECIFICATION Spec
CHECK_DEADLOCK FALSE

INVARIANTS
  TypeOK
  NoFalseStall
  StallIsSeen
