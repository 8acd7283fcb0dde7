SPECIFICATION LiveSpec
CONSTANTS
  Chans = {a}
  Workers = {w1, w2}
  Loader = Loader
  ReconnectCount = 2
  RecvCap = 2
  MaxMsgs = 3
  MaxSessions = 2
  MaxRestarts = 0
  NoChan = NoChan
CHECK_DEADLOCK FALSE
PROPERTIES
  Reconnects
  StrangerIsLeft
