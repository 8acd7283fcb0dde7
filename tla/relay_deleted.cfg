SPECIFICATION Spec
CONSTANTS
  Chans = {a}
  Workers = {w1}
  Loader = Loader
  ReconnectCount = 2
  RecvCap = 2
  MaxMsgs = 4
  MaxSessions = 1
  MaxRestarts = 0
  NoChan = NoChan
SYMMETRY Symmetry
CHECK_DEADLOCK FALSE
INVARIANTS
  DeletedChannelIsLeft
