SPECIFICATION Spec
CONSTANTS
  Chans = {a, b}
  Workers = {w1, w2}
  Loader = Loader
  ReconnectCount = 2
  RecvCap = 2
  MaxMsgs = 4
  MaxSessions = 2
  MaxRestarts = 1
  NoChan = NoChan
SYMMETRY Symmetry
CHECK_DEADLOCK FALSE
INVARIANTS
  TypeOK
  Agreement
  
  JoinIsAsked

  
