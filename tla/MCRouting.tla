----------------------------- MODULE MCRouting -----------------------------
(* Instances of Routing for TLC.                                           *)
EXTENDS Routing, TLC

CONSTANTS static, boot, kernel, gwA, gwB, eth0, ppp0, g1, master, backup, fault

MCDst == 1 .. 4

On(g, s) == [group |-> g, states |-> {s}]
W(d, gw, dev, v) ==
  [dst |-> d, proto |-> static, gw |-> gw, dev |-> dev, vrrp |-> v]
K(d, p, t, gw) == [dst |-> d, proto |-> p, tos |-> t, gw |-> gw, dev |-> eth0]

\* a route over an interface that is missing, with a gateway and without, and a
\* route with another gateway for two states of a group and none for the third
MCConfig == <<W(1, gwA, ppp0, None), W(2, None, ppp0, None),
              W(3, gwA, eth0, On(g1, master)), W(3, gwB, eth0, On(g1, backup))>>

\* routes as wanted, with another gateway, another protocol in the slot of a
\* configured route, a route whose configured one is skipped, an ignored one
MCInitialRoute == {K(1, static, 0, gwB), K(1, boot, 0, gwA), K(2, static, 0, gwA),
                   K(3, static, 0, gwA), K(4, kernel, 8, None)}
=============================================================================
