SPECIFICATION Spec
CONSTANTS
  Procs = {p1, p2}
  Conns = {c1, c2}
  NoProc = NoProc
  NoConn = NoConn
  MaxIn = 1
  MaxOut = 1
  Traffic = {"message", "health-check"}
  Overlap = TRUE
INVARIANTS TypeOK RegistryPersisted HealthIsGrounded
SYMMETRY Symm
CHECK_DEADLOCK FALSE
