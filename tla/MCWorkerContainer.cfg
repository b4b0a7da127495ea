SPECIFICATION Spec
CONSTANTS
  Callers = {c1, c2, c3}
  NoCaller = NoCaller
  Watched = {a1, a2}
  Work = {w1, w2}
  NoWork = NoWork
INVARIANTS OneAtATime CheckpointRestartable AssignmentStored
PROPERTY StopEnds
