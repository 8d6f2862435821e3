\* What a dry run pushes.
CONSTANTS
  IntOf <- MCIntOf
  FloatOf <- MCFloatOf
  Commands <- MCCommands
  Rendered <- MCRendered
  Urls <- MCUrls
  Openable <- MCOpenable
  MainFiles <- MCMainFiles
  DropIns <- MCDropIns

SPECIFICATION Spec
CHECK_DEADLOCK FALSE

INVARIANT
  DryRunPushesNothing
