SPECIFICATION Spec
CONSTANTS
  Key = {k1}
  State = {master, backup}
  p1 = p1
  p2 = p2
  p3 = p3
  Proc = {p1, p2, p3, p4}
  None = None
  Broken = {1}
  Interruptible <- Anywhere
  MaxVersion = 2
  MaxLines = 2
  MaxApplies = 2
  MaxDepth = 3
SYMMETRY ProcSymmetry
CHECK_DEADLOCK FALSE
PROPERTIES Implements
INVARIANTS TypeOK NoLostUpdate SighupNeverKills
