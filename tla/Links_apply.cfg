SPECIFICATION Spec
CONSTANTS
  Root = Root
  ns1 = ns1
  None = None
  hwA = hwA
  hwB = hwB
  attrA = attrA
  attrB = attrB
  bond0 = bond0
  d0 = d0
  d1 = d1
  t0 = t0
  e0 = e0
  e1 = e1
  e2 = e2
  lo = lo
  veth0 = veth0
  veth1 = veth1
  Name = {bond0, d0, d1, t0, e0, e1, e2, lo, veth0, veth1}
  Ns = {Root, ns1}
  Hw = {hwA, hwB}
  Attr = {attrA, attrB}
  FixedAttrKinds = {"bond"}
  IgnoredName = {lo}
  ManagesNs = TRUE
  Scenario <- MCScenario
  MaxIdx = 12
  MaxRuns = 2
CHECK_DEADLOCK FALSE
INVARIANTS TypeOK RunTakesEffect OrphansGone
PROPERTIES Idempotent
