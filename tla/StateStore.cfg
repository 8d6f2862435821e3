\* Two invocations that lock, load, edit and save, with crashes and readers.
SPECIFICATION Spec
CONSTANTS
  p1 = p1
  p2 = p2
  k1 = k1
  k2 = k2
  Procs <- MCProcs
  NoProc = NoProc
  Keys <- MCKeys
  Values = {v, w}
  Absent = Absent
  PollLimit = 2
INVARIANT Inv
INVARIANT MutualExclusion
INVARIANT NoLostUpdate
PROPERTY WaitEnds
PROPERTY Implements
