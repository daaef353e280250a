---------------------------- MODULE MCInterface ----------------------------
(* Instances of Interface for TLC.                                         *)
EXTENDS Parts, TLC

CONSTANTS a1, a2, a3, link6, host6, n24, n25, n64, n128, zero, m1, m2, own,
          d1, d2, permanent, static, accept_ra, forwarding, off, on,
          k1, k2, k3, s1, s2, o1, cake, fq, h1, h2, q1, q2, r1, r2, pA, pB

Nothing == [sysctl |-> <<>>, addresses |-> <<>>, fdb |-> <<>>, neighbours |-> {},
            wg |-> None, withpeers |-> FALSE, peers |-> <<>>]
Empty   == [sysctl |-> [s \in Setting |-> off], promote |-> TRUE, addrs |-> {},
            fdb |-> {}, neigh |-> {}, wg |-> NoOption, peers |-> {}]

A(ip, net)     == [ip |-> ip, net |-> net]
K(a, sec, dyn, dad) == [ip |-> a.ip, net |-> a.net, sec |-> sec, dyn |-> dyn, dad |-> dad]

\* IPv4: any addresses in two networks, one in each is primary; any is dynamic
IPv4 == [Nothing EXCEPT !.addresses = <<A(a1, n24), A(a2, n25)>>]
InNet(net) ==
  LET Hosts == {a1, a2, a3}
  IN UNION {{{K(A(h, net), h # p, FALSE, FALSE) : h \in H} : p \in H} : H \in SUBSET Hosts}
     \cup {{}, {K(A(a1, net), FALSE, TRUE, FALSE)}, {K(A(a3, net), FALSE, TRUE, FALSE)}}
IPv4Kernels == {[Empty EXCEPT !.addrs = F \cup G] : F \in InNet(n24), G \in InNet(n25)}

\* without promotion of secondary addresses, none of which is configured
NoPromotion ==
  {[k EXCEPT !.promote = FALSE] :
     k \in {k \in IPv4Kernels : \A x \in k.addrs : x.sec => x.ip = a3}}

\* IPv6: both addresses in any of two networks, dynamic or not, with failed
\* duplicate detection or without; the first one is ignored if not configured
IPv6 == [Nothing EXCEPT !.addresses = <<A(link6, n64), A(host6, n64)>>]
Once(ip) == {{}} \cup {{K(A(ip, net), FALSE, dyn, dad)} :
                         net \in {n64, n128}, dyn \in BOOLEAN, dad \in BOOLEAN}
IPv6Kernels == {[Empty EXCEPT !.addrs = F \cup G] : F \in Once(link6), G \in Once(host6)}

\* VXLAN: of a unicast address the kernel has the configured destination, or none
E(mac, dst, st) == [mac |-> mac, dst |-> dst, st |-> st]
Entries(mac, D) == {{E(mac, d, st) : d \in S} : S \in SUBSET D,
                                                st \in {permanent, static, Learned}}
Vxlan == [Nothing EXCEPT
  !.fdb = <<E(zero, d1, None), E(zero, d2, None), E(m1, d1, permanent)>>]
VxlanKernels ==
  {[Empty EXCEPT !.fdb = {E(own, d1, permanent)} \cup F \cup G \cup H] :
     F \in Entries(zero, {d1, d2}), G \in Entries(m1, {d1}), H \in Entries(m2, {d2})}

Neighbour(ip) == {{}} \cup {{[ip |-> ip, mac |-> m, permanent |-> p]} :
                              m \in {m1, m2}, p \in BOOLEAN}
Neighbourhood == [Nothing EXCEPT
  !.neighbours = {[ip |-> a1, mac |-> m1], [ip |-> a2, mac |-> m2]}]
NeighbourKernels ==
  {[Empty EXCEPT !.neigh = F \cup G \cup H] :
     F \in Neighbour(a1), G \in Neighbour(a2), H \in Neighbour(a3)}

\* WireGuard: any of three peers, of which one is not configured; any of them, or
\* none, has each of the two configured subnets; peers are configured, or only the
\* interface
P(key, allowed, opt) == [key |-> key, allowed |-> allowed, opt |-> opt]
WireGuard == [Nothing EXCEPT
  !.wg = o1, !.withpeers = TRUE, !.peers = <<P(k1, {s1}, o1), P(k2, {s2}, None)>>]
NoPeers == [Nothing EXCEPT !.wg = o1]
WireGuardKernels ==
  LET Peers(S, f, o) ==
        {P(k, {s \in Subnet : f[s] = k}, IF k = k1 THEN o ELSE NoOption) : k \in S}
      Owners(S) == [Subnet -> S \cup {None}]
      Options   == {NoOption, o1}
  IN {[Empty EXCEPT !.wg = w, !.peers = F] : w \in Options,
       F \in UNION {{Peers(S, f, o) : f \in Owners(S), o \in Options} :
                      S \in SUBSET {k1, k2, k3}}}

\* a bit of everything, with and without the setting's file
Everything == [sysctl |-> <<<<forwarding, on>>, <<accept_ra, off>>>>,
               addresses |-> <<A(a1, n24)>>, fdb |-> <<E(zero, d1, None)>>,
               neighbours |-> {[ip |-> a1, mac |-> m1]},
               wg |-> o1, withpeers |-> TRUE, peers |-> <<P(k1, {s1}, o1)>>]
EveryKernels == {Empty, [Empty EXCEPT !.sysctl[forwarding] = None]}

MCScenario ==
  ({IPv4} \X IPv4Kernels \X {2}) \cup ({IPv4} \X NoPromotion \X {0})
  \cup ({IPv6} \X IPv6Kernels \X {2})
  \cup ({Vxlan} \X VxlanKernels \X {2}) \cup ({Neighbourhood} \X NeighbourKernels \X {2})
  \cup ({WireGuard, NoPeers} \X WireGuardKernels \X {2})
  \cup ({Everything} \X EveryKernels \X {2})

\* traffic control: qdiscs and filters set, in part, and cleared
Q(kind, handle, opt) == [kind |-> kind, handle |-> handle, opt |-> opt]
F(parent, prio, rule) == [parent |-> parent, prio |-> prio, rule |-> rule]
NoTc == [ingress |-> NotSet, qdisc |-> NotSet, filter |-> NotSet]
Filters == <<F(Ingress, NotSet, r1), F(NotSet, NotSet, r2), F(h1, 2, r1),
             F(Ingress, 8, r1), F(Ingress, 8, r2)>>
TcWishes ==
  {[NoTc EXCEPT !.ingress = TRUE, !.qdisc = Q(cake, h1, q1), !.filter = Filters],
   [NoTc EXCEPT !.ingress = TRUE, !.qdisc = Q(cake, h1, q1)],
   [NoTc EXCEPT !.qdisc = Q(cake, h1, q2)],
   [NoTc EXCEPT !.filter = <<>>],
   [NoTc EXCEPT !.ingress = FALSE, !.qdisc = None, !.filter = <<>>]}

At(h, p) == {{}} \cup {{F(h, p, r)} : r \in {r1, r2}}
TcKernels ==
  LET Root == {None, Q(cake, h1, q1), Q(cake, h2, q1), Q(fq, h1, q2)}
      In(b) == IF b THEN {G \cup H : G \in At(Ingress, 4), H \in At(Ingress, 3)} ELSE {{}}
      Of(q) == IF q = None THEN {{}}
               ELSE {G \cup H : G \in At(q.handle, 2), H \in {{}, {F(q.handle, 3, r2)}, {F(q.handle, 4, r1)}}}
  IN UNION {{[ingress |-> b, root |-> q, filters |-> G \cup H] : G \in In(b), H \in Of(q)} :
              b \in BOOLEAN, q \in Root}

\* XDP: a native program needs the driver; the modes may differ
NoXdp    == [object |-> NotSet, from |-> NotSet, mode |-> "auto", vrrp |-> FALSE]
Detached == [prog |-> None, mode |-> "skb", native |-> TRUE,
             pin |-> None, maps |-> None, pinned |-> None]
XdpWishes ==
  {[NoXdp EXCEPT !.object = o, !.from = "bpf", !.mode = m] :
     o \in {pA, None}, m \in {"auto", "drv", "skb"}}
  \cup {[NoXdp EXCEPT !.from = "pinned", !.mode = m, !.vrrp = v] :
          m \in {"auto", "drv", "skb"}, v \in BOOLEAN}
XdpKernels ==
  {x \in [prog : {None, pA, pB}, mode : {"drv", "skb"}, native : BOOLEAN,
          pin : {None, pA, pB}, maps : {None, pA}, pinned : {None, pA}] :
     x.mode = "drv" => x.native /\ x.prog # None}

Idle == <<Nothing, Empty, 2>>
S(iface, w, t, y, x) == [iface |-> iface, tcwish |-> w, tc |-> t, xdpwish |-> y, xdp |-> x]
NoQdisc == [ingress |-> FALSE, root |-> None, filters |-> {}]

MCSetup ==
  {S(s, NoTc, NoQdisc, NoXdp, Detached) : s \in MCScenario}
  \cup {S(Idle, w, t, NoXdp, Detached) : w \in TcWishes, t \in TcKernels}
  \cup {S(Idle, NoTc, NoQdisc, y, x) : y \in XdpWishes, x \in XdpKernels}
  \cup {S(Idle, NoTc, NoQdisc, [NoXdp EXCEPT !.from = "false"], [Detached EXCEPT !.prog = pA])}

\* two settings, both to be changed
TwoSettings == [Nothing EXCEPT !.sysctl = <<<<accept_ra, on>>, <<forwarding, on>>>>]
MCTwoSettings == {<<TwoSettings, Empty, 0>>}
MCTwoSetup == {S(s, NoTc, NoQdisc, NoXdp, Detached) : s \in MCTwoSettings}
=============================================================================
