SPECIFICATION Spec
CONSTANTS
  Names = {chan, other}
  Procs = {p1, p2}
  MaxOps = 3
  NoName = NoName
  Workers = {w1, w2}
  SendCap = 1
  RecvCap = 1
  NoMsg = NoMsg
  Theirs = {t1, t2}
  Own = {o1}
  Chan = chan
  Page = 1
  None = None
SYMMETRY Symmetry
CHECK_DEADLOCK FALSE
INVARIANTS
  TypeOK
  ListIsWhole
  NoGap

  
