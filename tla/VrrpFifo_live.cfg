SPECIFICATION FairSpec
CONSTANTS
  Key = {k1}
  State = {master, backup}
  p1 = p1
  p2 = p2
  p3 = p3
  Proc = {p1, p2, p3}
  None = None
  Broken = {2}
  Interruptible <- Calm
  MaxVersion = 2
  MaxLines = 2
  MaxApplies = 2
  MaxDepth = 2
CONSTRAINT InOrder
CHECK_DEADLOCK FALSE
INVARIANTS SupersededStop ReloadReachesWorkers
PROPERTIES LastStateTaken UpdateReturns NoDowngrade
