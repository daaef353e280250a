SPECIFICATION FairSpec
CONSTANTS
  Key = {k1}
  State = {master}
  p1 = p1
  p2 = p2
  p3 = p3
  Proc = {p1, p2}
  None = None
  Broken = {}
  Interruptible <- Anywhere
  MaxVersion = 1
  MaxLines = 1
  MaxApplies = 1
  MaxDepth = 2

CHECK_DEADLOCK FALSE
PROPERTIES UpdateReturns
