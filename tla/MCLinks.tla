------------------------------ MODULE MCLinks ------------------------------
(* Instances of Links for TLC.                                             *)
EXTENDS Links, TLC

CONSTANTS ns1, hwA, hwB, attrA, attrB, bond0, d0, d1, t0, e0, e1, e2, lo, veth0, veth1

\* configured links
C(kind, n, ns) == [name |-> n, ns |-> ns, kind |-> kind, hw |-> None, bind |-> ns,
                   peer |-> None, attr |-> attrA, up |-> TRUE, master |-> None]
Port(c, m)     == [c EXCEPT !.master = m]
BoundTo(c, ns) == [c EXCEPT !.bind = ns]
OnHw(c, hw)    == [c EXCEPT !.hw = hw]
PeerOf(c, p, ns) == [c EXCEPT !.peer = p, !.bind = ns]

\* links of the kernel
K(i, kind, n, ns) == [idx |-> i, ns |-> ns, name |-> n, kind |-> kind, hw |-> None,
                      attr |-> attrA, up |-> TRUE, master |-> None, peer |-> None]
Ph(i, n, ns, hw)  == [K(i, "physical", n, ns) EXCEPT !.hw = hw]
Down(l)           == [l EXCEPT !.up = FALSE]
Other(l)          == [l EXCEPT !.attr = attrB]

\* a name once in a namespace, an index once
Sound(F) == \A l, m \in F : l.idx = m.idx \/ (l.ns = m.ns /\ l.name = m.name) => l = m

\* virtual links: a bond with a port, a tunnel bound to another namespace;
\* beforehand each is missing, right, different or in the way, and a link of
\* another name may be there
Virtual == {C("bond", bond0, Root), Port(C("dummy", d0, Root), bond0),
              BoundTo(C("tunnel", t0, Root), ns1)}
VirtualKernels ==
  LET bond == K(1, "bond", bond0, Root)
      port == K(2, "dummy", d0, Root)
  IN {F \in {U \cup V \cup Y \cup X :
        U \in {{}, {K(1, "tunnel", bond0, Root)}, {Other(bond)},
              {Down(bond), [port EXCEPT !.master = 1]}},
        V \in {{}, {Other(port)}, {[Down(port) EXCEPT !.ns = ns1]}},
        Y \in {{}, {K(3, "tunnel", t0, Root)}, {K(3, "dummy", t0, Root)}},
        X \in {{}, {K(4, "dummy", d1, Root)}}} : Sound(F)}

\* physical links: two are known by their hardware, one by its name; beforehand
\* they are under any names in any namespaces, the one known by its name is
\* missing, a dummy may be in the way or a link that is not configured be there
Physical == {OnHw(C("physical", e0, Root), hwB), OnHw(C("physical", e1, ns1), hwA),
               C("physical", e2, ns1), C("physical", lo, Root)}
PhysicalKernels ==
  LET Places == {e0, e1} \X {Root, ns1}
  IN {F \in {{Ph(1, p[1], p[2], hwA), Ph(2, q[1], q[2], hwB), Down(Ph(4, lo, Root, None))}
               \cup E \cup D :
        p \in Places, q \in Places,
        E \in {{Ph(3, e2, Root, None)}, {Ph(3, e2, ns1, None)}, {}},
        D \in {{}, {K(5, "dummy", e0, Root)}, {K(5, "dummy", e2, ns1)},
              {Ph(5, d1, Root, None)}}} : Sound(F)}

\* both ends of a veth link; beforehand there is none, and a dummy may be in the way
BothEnds == {PeerOf(C("veth", veth0, Root), veth1, ns1),
             PeerOf(C("veth", veth1, ns1), veth0, Root)}
NoVeth   == {{}, {K(1, "dummy", veth0, Root)}}

MCScenario == ({Virtual} \X VirtualKernels \X {2})
              \cup ({Physical} \X PhysicalKernels \X {1})
              \cup ({BothEnds} \X NoVeth \X {0})
=============================================================================
