\* One section from its configuration to the end of the invocation.
CONSTANTS
  IntOf <- MCIntOf
  FloatOf <- MCFloatOf
  Commands <- MCCommands
  Rendered <- MCRendered
  Urls <- MCUrls
  Openable <- MCOpenable
  MainFiles <- MCMainFiles
  DropIns <- MCDropIns

SPECIFICATION Spec
CHECK_DEADLOCK FALSE

INVARIANTS
  TypeOK
  OkMeansTunnel
  AcceptedIsComplete
  ClearedRuns
  PrintedIsEffective

PROPERTIES
  InvocationEnds
  EveryStepCounts
