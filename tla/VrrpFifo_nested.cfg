SPECIFICATION Spec
CONSTANTS
  Key = {k1}
  State = {master}
  p1 = p1
  p2 = p2
  p3 = p3
  Proc = {p1, p2, p3}
  None = None
  Broken = {}
  Interruptible <- Anywhere
  MaxVersion = 2
  MaxLines = 1
  MaxApplies = 2
  MaxDepth = 3

CHECK_DEADLOCK FALSE
PROPERTIES NoDowngrade
