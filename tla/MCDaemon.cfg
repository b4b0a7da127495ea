SPECIFICATION Spec
CONSTANTS
  Daemons = {d1, d2}
  Conns = {c1}
  NoDaemon = NoDaemon
  MaxLines = 2
INVARIANTS Handshaken FilesCleaned
PROPERTY ShutdownEnds
CHECK_DEADLOCK FALSE
