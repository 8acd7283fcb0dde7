SPECIFICATION Spec
CONSTANTS
  Me = me
  Others = {n1, n2}
  NoMsg = NoMsg
  MaxLines = 3
  MaxFaults = 2
  MaxLogins = 1
SYMMETRY Symmetry
CHECK_DEADLOCK FALSE
INVARIANTS
  TypeOK
  
  StoredIsCurrent
  ViewIsCurrent
