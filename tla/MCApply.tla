------------------------------ MODULE MCApply ------------------------------
(* Instances of Apply for TLC.                                             *)
EXTENDS Apply, TLC

CONSTANTS eth0, br0, vlan7, tap3, ns1, ns2, g1, g2, MASTER, BACKUP, master, link, gre_link, vxlan_link

\* tap3 is in a namespace of its own
MCNsOf == [x \in Item |-> IF x = tap3 THEN ns1 ELSE Root]

\* a link is the `master' of another one, and so on: links, told apart by attribute
AttrOf == eth0 :> link @@ br0 :> master @@ vlan7 :> gre_link @@ tap3 :> vxlan_link
To(L)  == [a \in {AttrOf[x] : x \in L} |-> CHOOSE x \in L : AttrOf[x] = a]

Plain(uses)           == [uses |-> To(uses), group |-> None, states |-> {}]
Vrrp(g, states_, uses) == [uses |-> To(uses), group |-> g, states |-> states_]
KUp(over)  == [up |-> TRUE, over |-> To(over)]
KDown      == [up |-> FALSE, over |-> [a \in {} |-> a]]
NoLinks    == [x \in {} |-> KDown]

\* every dictionary of dependencies, and nobody who applies it: the resolver
OnlyResolved ==
  {[links |-> [x \in DOMAIN f |-> Plain(f[x])], spaces |-> {}, manages |-> FALSE,
    kernel |-> [spaces |-> {}, links |-> NoLinks], who |-> {}] : f \in Dictionary}

Kernels(L) == {[spaces |-> {ns1, ns2}, links |-> l] : l \in L}

\* a bridge and its ports: one of `ifstate apply', one of each group
Bridge ==
  {[links |-> (br0 :> Plain({}) @@ eth0 :> Plain({br0})
               @@ vlan7 :> Vrrp(g1, {MASTER}, {br0}) @@ tap3 :> Vrrp(g2, s, {u})),
    spaces |-> {ns1}, manages |-> TRUE, kernel |-> k, who |-> {Cli, g1, g2}]
   : s \in {{MASTER}, {BACKUP}}, u \in {br0, vlan7},
     k \in Kernels({NoLinks, br0 :> KDown @@ vlan7 :> KUp({br0})})}

\* the same without `ifstate apply'; one group with a link for either state
Failover ==
  {[links |-> (br0 :> Plain({}) @@ eth0 :> Vrrp(g1, {BACKUP}, {})
               @@ vlan7 :> Vrrp(g1, {MASTER}, {br0, eth0})),
    spaces |-> {}, manages |-> FALSE, kernel |-> [spaces |-> {}, links |-> l],
    who |-> w] : l \in {NoLinks, br0 :> KUp({}), br0 :> KDown @@ eth0 :> KUp({}) @@ vlan7 :> [KUp({}) EXCEPT !.over = master :> eth0]},
                 w \in {{g1}, {Cli, g1}}}

\* links that `ifstate apply' has to remove, is not to see, or cannot order;
\* a link that depends on one of a worker, or of an unknown namespace
Leftovers ==
  {[links |-> c, spaces |-> s, manages |-> m, kernel |-> k, who |-> w]
   : c \in {br0 :> Plain({}) @@ eth0 :> Plain({br0}),
            br0 :> Plain({eth0}) @@ eth0 :> Plain({br0}) @@ vlan7 :> Plain({}),
            br0 :> Plain({}) @@ eth0 :> Plain({vlan7}) @@ vlan7 :> Vrrp(g1, {MASTER}, {br0}),
            eth0 :> Plain({}) @@ br0 :> Plain({eth0, tap3}) @@ vlan7 :> Vrrp(g1, {MASTER}, {})},
     s \in {{}, {ns2}}, m \in {TRUE},
     k \in Kernels({NoLinks, tap3 :> KUp({}) @@ vlan7 :> KUp({}) @@ eth0 :> KUp({vlan7})}),
     w \in {{Cli}, {Cli, g1}}}

MCScenario == OnlyResolved \cup Bridge \cup Failover \cup Leftovers
              \cup {[c EXCEPT !.spaces = {}, !.manages = FALSE] : c \in Leftovers}

\* a group with one link, for the master
MCOneLink ==
  {[links |-> (vlan7 :> Vrrp(g1, {MASTER}, {})), spaces |-> {}, manages |-> FALSE,
    kernel |-> [spaces |-> {}, links |-> NoLinks], who |-> {Cli, g1}]}
=============================================================================
