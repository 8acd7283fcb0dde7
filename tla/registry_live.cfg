SPECIFICATION LiveSpec
CONSTANTS
  Conns = {c1}
  Ids = {i1, i2}
  Objs = {o1, o2}
  Workers = {w1}
  ZmqWorkers = {z1}
  JobCap = 1
  BroadcastCap = 1
  MaxRequests = 2
  Nil = Nil
  NoConn = NoConn
CHECK_DEADLOCK FALSE
PROPERTIES
  LeaverIsReaped
  
