SPECIFICATION LiveSpec
CONSTANTS
  Notes = {n1}
  Conns = {c1, c2}
  Tokens = {t1, t2}
  GcmTokens = {t1}
  Workers = {w1, w2}
  PushCap = 1
  NoToken = NoToken
  NoNote = NoNote
  Absent = Absent
CHECK_DEADLOCK FALSE
PROPERTIES
  PromiseKept
  LockIsReleased
