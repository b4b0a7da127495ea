SPECIFICATION WorkerSpec
CONSTANTS
  p1 = p1
  p2 = p2
  Procs = {p1, p2}
  Conns = {c1, c2}
  NoProc = NoProc
  NoConn = NoConn
  MaxIn = 1
  MaxOut = 1
INVARIANT ProxyIsLive
PROPERTY StoppedWorkerExits
CONSTRAINT OneClientOfTwo
CHECK_DEADLOCK FALSE
