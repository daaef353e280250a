SPECIFICATION PartsSpec
CONSTANTS
  a1 = a1
  a2 = a2
  a3 = a3
  host6 = host6
  link6 = link6
  n24 = n24
  n25 = n25
  n64 = n64
  n128 = n128
  zero = zero
  m1 = m1
  m2 = m2
  own = own
  d1 = d1
  d2 = d2
  permanent = permanent
  static = static
  accept_ra = accept_ra
  forwarding = forwarding
  off = off
  on = on
  k1 = k1
  k2 = k2
  k3 = k3
  s1 = s1
  s2 = s2
  o1 = o1
  NoOption = NoOption
  None = None
  Ip = {a1, a2, a3, host6, link6}
  V6 = {host6, link6}
  Net = {n24, n25, n64, n128}
  IgnoredIp = {link6}
  IgnoreDynamic = TRUE
  Mac = {zero, m1, m2, own}
  Several = {zero}
  LinkMac = own
  Dst = {d1, d2}
  FdbState = {permanent, static}
  DefaultState = static
  Learned = Learned
  Setting = {accept_ra, forwarding}
  Value = {off, on}
  WgKey = {k1, k2, k3}
  Subnet = {s1, s2}
  Option = {o1, NoOption}
  Scenario <- MCScenario
  MaxRuns = 2
  cake = cake
  fq = fq
  h1 = h1
  h2 = h2
  q1 = q1
  q2 = q2
  r1 = r1
  r2 = r2
  pA = pA
  pB = pB
  QKind = {cake, fq}
  Handle = {h1, h2}
  QOption = {q1, q2}
  Ingress = Ingress
  Rule = {r1, r2}
  NotSet = NotSet
  AutoPrio = 8
  Prog = {pA, pB}
  Setup <- MCSetup
CHECK_DEADLOCK FALSE
INVARIANTS PartsTypeOK RunTakesEffect PartsTakeEffect
PROPERTIES KeepsWhatIsRight PartsKeep
