SPECIFICATION LiveSpec
CONSTANTS
  Command <- MCCommand
  Garbled = {}
  Broadcasts = {11}
  Workers = {w1, w2}
  JobCap = 1
  SendCap = 1
  NoPacket = NoPacket
CHECK_DEADLOCK FALSE
INVARIANTS
  TypeOK
  SignalNeverWaits
  EveryAnswerOnce
  
PROPERTIES
  StuckForGood
  ConnectionEnds
  WorkersComeFree
