SPECIFICATION Spec
CONSTANTS
  static = static
  boot = boot
  kernel = kernel
  gwA = gwA
  gwB = gwB
  eth0 = eth0
  ppp0 = ppp0
  g1 = g1
  master = master
  backup = backup
  fault = fault
  None = None
  Cli = Cli
  Dst <- MCDst
  Proto = {static, boot, kernel}
  Tos = {0, 8}
  Gateway = {gwA, gwB}
  Device = {eth0, ppp0}
  Links = {eth0}
  Group = {g1}
  VrrpState = {master, backup, fault}
  Config <- MCConfig
  IgnoredProto = {kernel}
  InitialRoute <- MCInitialRoute
  MaxRuns = 2
  MaxFailures = 1
CHECK_DEADLOCK FALSE
INVARIANTS TypeOK RunTakesEffect
PROPERTIES NoTheft OnlyNeededChanges
