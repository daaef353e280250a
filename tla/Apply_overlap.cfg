SPECIFICATION ApplySpec
CONSTANTS
  Item = {eth0, br0, vlan7, tap3}
  Modes = {TRUE, FALSE}
  Cli = Cli
  Group = {g1, g2}
  State = {MASTER, BACKUP}
  Attr = {master, link, gre_link, vxlan_link}
  None = None
  Root = Root
  NsOf <- MCNsOf
  Scenario <- MCOneLink
  Overlapping = TRUE
  MaxNews = 2
  eth0 = eth0
  br0 = br0
  vlan7 = vlan7
  tap3 = tap3
  ns1 = ns1
  ns2 = ns2
  g1 = g1
  g2 = g2
  MASTER = MASTER
  BACKUP = BACKUP
  master = master
  link = link
  gre_link = gre_link
  vxlan_link = vxlan_link
CHECK_DEADLOCK FALSE
INVARIANTS GroupFollowsState
