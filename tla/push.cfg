SPECIFICATION Spec
CONSTANTS
  Notes = {n1, n2}
  Conns = {c1, c2}
  Tokens = {t1, t2}
  GcmTokens = {t1}
  Workers = {w1, w2}
  PushCap = 1
  NoToken = NoToken
  NoNote = NoNote
  Absent = Absent
SYMMETRY Symmetry
CHECK_DEADLOCK FALSE
INVARIANTS
  TypeOK
  Accounted
  WaitingHasTimer
PROPERTIES
  PromiseSafe
