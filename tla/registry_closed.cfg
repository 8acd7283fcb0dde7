SPECIFICATION Spec
CONSTANTS
  Conns = {c1, c2}
  Ids = {i1, i2}
  Objs = {o1, o2, o3}
  Workers = {w1, w2}
  ZmqWorkers = {}
  JobCap = 2
  BroadcastCap = 1
  MaxRequests = 2
  Nil = Nil
  NoConn = NoConn
SYMMETRY Symmetry
CHECK_DEADLOCK FALSE
INVARIANTS
  ClosedConnectionNotListed
