SPECIFICATION Spec
CONSTANTS
  static = static
  boot = boot
  kernel = kernel
  tblA = tblA
  tblB = tblB
  srcX = srcX
  src6 = src6
  g1 = g1
  master = master
  backup = backup
  fault = fault
  None = None
  Cli = Cli
  Priority <- MCPriority
  Selector = {srcX, src6}
  Inet6 = {src6}
  Target = {tblA, tblB}
  Proto = {static, boot, kernel}
  Group = {g1}
  VrrpState = {master, backup, fault}
  Config <- MCConfig
  IgnoredProto = {kernel}
  InitialRule <- MCInitialRule
  MaxRuns = 2
  MaxFailures = 1
CHECK_DEADLOCK FALSE
INVARIANTS TypeOK RunTakesEffect
PROPERTIES NoTheft RefusalIsTemporary
