----------------------------- MODULE Interface -----------------------------
(***************************************************************************)
(* What an apply does to one interface besides the link itself: the sysctl *)
(* settings, which Link.apply makes, and then, as in IfState._apply_iface, *)
(* addresses, forwarding database, permanent neighbours and WireGuard      *)
(* peers.  Each part dumps what the kernel has, compares, and then deletes *)
(* and adds entry by entry; a call that fails is logged and the next one   *)
(* is made.                                                                *)
(***************************************************************************)
EXTENDS Naturals, Sequences, FiniteSets, SequencesExt

CONSTANTS
  Ip, V6,           \* IP addresses, those of IPv6 among them
  Net,              \* networks with their prefix length
  IgnoredIp,        \* in a network of the `ipaddr' ignore list
  IgnoreDynamic,    \* setting `ipaddr_dynamic'
  Mac, Several,     \* link layer addresses; those that may have several entries
  LinkMac,          \* the interface's own
  Dst, FdbState,    \* destinations, and states the code looks at, of FDB entries
  DefaultState, Learned,
  Setting, Value,   \* sysctl settings and their values
  WgKey, Subnet,    \* public keys and allowed IPs of WireGuard peers
  Option, NoOption, \* the endpoint of a peer, the settings of an interface
  None,
  Scenario,         \* <<configuration, the kernel's state beforehand, failures>>
  MaxRuns

Address == [ip : Ip, net : Net]
\* sec: a secondary address; dyn: not permanent; dad: duplicate detection failed
KernelAddress == [ip : Ip, net : Net, sec : BOOLEAN, dyn : BOOLEAN, dad : BOOLEAN]

FdbEntry == [mac : Mac, dst : Dst, st : FdbState \cup {Learned}]
FdbWish  == [mac : Mac, dst : Dst, st : FdbState \cup {None}]

Peer     == [key : WgKey, allowed : SUBSET Subnet, opt : Option]
PeerWish == [key : WgKey, allowed : (SUBSET Subnet) \cup {None}, opt : Option \cup {None}]

\* promote is the sysctl promote_secondaries; a missing file has value None
KernelState == [sysctl : [Setting -> Value \cup {None}], promote : BOOLEAN,
                addrs : SUBSET KernelAddress, fdb : SUBSET FdbEntry,
                neigh : SUBSET [ip : Ip, mac : Mac, permanent : BOOLEAN],
                wg : Option, peers : SUBSET Peer]

\* withpeers: the WireGuard settings have a list of peers
Configuration == [sysctl : Seq(Setting \X Value), addresses : Seq(Address),
                  fdb : Seq(FdbWish), neighbours : SUBSET [ip : Ip, mac : Mac],
                  wg : Option \cup {None}, withpeers : BOOLEAN, peers : Seq(PeerWish)]

ASSUME ConstantsAssumption ==
  /\ V6 \subseteq Ip /\ IgnoredIp \subseteq Ip /\ Several \subseteq Mac
  /\ LinkMac \in Mac /\ DefaultState \in FdbState /\ Learned \notin FdbState
  /\ NoOption \in Option /\ None \notin Option /\ None \notin FdbState
  /\ \A A \in SUBSET Subnet : None # A
  /\ IgnoreDynamic \in BOOLEAN /\ MaxRuns \in Nat

VARIABLES
  config,
  kernel,
  pc,
  i,        \* the position in the configured list the run is at
  dump,     \* what is left of the dump of the current part
  renew,    \* addr_renew
  add,      \* addr_add, neigh_add
  changes,  \* a setting was changed
  left, failed, runs

vars == <<config, kernel, pc, i, dump, renew, add, changes, left, failed, runs>>
world == <<config, runs>>

PC == {"idle", "sysctl", "addr", "deladdr", "addaddr", "fdb", "delfdb", "delneigh",
       "addneigh", "wg", "peers", "delpeers", "done"}

Init ==
  /\ \E s \in Scenario : config = s[1] /\ kernel = s[2] /\ left = s[3]
  /\ pc = "idle" /\ i = 1 /\ dump = {} /\ renew = {} /\ add = <<>>
  /\ changes = FALSE /\ failed = FALSE /\ runs = 0

Failure   == left > 0 /\ left' = left - 1 /\ failed' = TRUE
NoFailure == UNCHANGED <<left, failed>>

\* an exception nobody catches, or a kill
Abort ==
  /\ pc \notin {"idle", "done"}
  /\ Failure
  /\ pc' = "idle"
  /\ UNCHANGED <<world, kernel, i, dump, renew, add, changes>>

StartRun ==
  /\ pc \in {"idle", "done"}
  /\ runs < MaxRuns
  /\ runs' = runs + 1
  /\ pc' = "sysctl" /\ i' = 1 /\ changes' = FALSE /\ failed' = FALSE
  /\ UNCHANGED <<config, kernel, dump, renew, add, left>>

-----------------------------------------------------------------------------
(* Sysctl.apply                                                            *)

\* `changes = changes or self.set_sysctl(...)'
Examined == ~ changes

SkipSetting ==
  /\ pc = "sysctl" /\ i <= Len(config.sysctl)
  /\ ~ Examined
  /\ i' = i + 1
  /\ UNCHANGED <<world, kernel, pc, dump, renew, add, changes, left, failed>>

\* set_sysctl: a file that cannot be read is no change, one that cannot be
\* written is
SetSysctl ==
  LET key == config.sysctl[i][1]
      val == config.sysctl[i][2]
      old == kernel.sysctl[key]
  IN
  /\ pc = "sysctl" /\ i <= Len(config.sysctl)
  /\ Examined
  /\ changes' = (old \notin {val, None})
  /\ \/ kernel' = [kernel EXCEPT !.sysctl[key] = IF old = None THEN None ELSE val]
        /\ NoFailure
     \/ old \notin {val, None} /\ kernel' = kernel /\ Failure
  /\ i' = i + 1
  /\ UNCHANGED <<world, pc, dump, renew, add>>

-----------------------------------------------------------------------------
(* Addresses.apply                                                         *)

Addr(k) == [ip |-> k.ip, net |-> k.net]

\* an IPv6 address is there once, an IPv4 address once for each prefix length
Clashes(k, a)   == k.ip = a.ip /\ (a.ip \in V6 \/ k.net = a.net)
AddressTaken(a) == \E k \in kernel.addrs : Clashes(k, a)

\* `ip addr add': an IPv4 address in the network of another one is secondary
Added(a) ==
  kernel.addrs \cup
    {[ip |-> a.ip, net |-> a.net, dyn |-> FALSE, dad |-> FALSE,
      sec |-> a.ip \notin V6 /\ \E k \in kernel.addrs : k.net = a.net /\ ~ k.sec]}

\* `ip addr del': with a primary address go its secondary ones, or one of them
\* becomes primary
Removed(a) ==
  LET gone == {k \in kernel.addrs : Addr(k) = a}
      rest == kernel.addrs \ gone
      sec  == {k \in rest : k.sec /\ k.net = a.net /\ \E g \in gone : ~ g.sec}
  IN IF sec = {} THEN {rest}
     ELSE IF kernel.promote
       THEN {(rest \ {s}) \cup {[s EXCEPT !.sec = FALSE]} : s \in sec}
       ELSE {rest \ sec}

\* the dump of the addresses; those whose duplicate detection failed are renewed
BeginAddresses ==
  /\ pc = "sysctl" /\ i > Len(config.sysctl)
  /\ pc' = "addr" /\ i' = 1 /\ add' = <<>>
  /\ dump' = kernel.addrs
  /\ renew' = {Addr(k) : k \in {k \in kernel.addrs : k.dad}}
  /\ UNCHANGED <<world, kernel, changes, left, failed>>

\* a configured address that is missing, or is there with another prefix length,
\* will be added; the entry of the dump that has its IP is renewed
ExamineAddress ==
  LET a    == config.addresses[i]
      same == {k \in dump : k.ip = a.ip}
  IN
  /\ pc = "addr" /\ i <= Len(config.addresses)
  /\ IF a \notin renew /\ \E k \in dump : Addr(k) = a
       THEN /\ dump' = {k \in dump : Addr(k) # a}
            /\ UNCHANGED <<renew, add>>
       ELSE /\ add' = Append(add, a)
            /\ IF same = {} THEN UNCHANGED renew
               ELSE \E k \in same : renew' = renew \cup {Addr(k)}
            /\ UNCHANGED dump
  /\ i' = i + 1
  /\ UNCHANGED <<world, kernel, pc, changes, left, failed>>

\* (mutant of Superfluous: what is renewed is not deleted if it is ignored)
SuperfluousUnlessIgnored(k) ==
  k.ip \notin IgnoredIp /\ (~ IgnoreDynamic \/ ~ k.dyn)

\* what is left of the dump and is deleted
Superfluous(k) ==
  /\ Addr(k) \in renew \/ k.ip \notin IgnoredIp
  /\ ~ IgnoreDynamic \/ ~ k.dyn

DeleteAddresses ==
  /\ pc = "addr" /\ i > Len(config.addresses)
  /\ pc' = "deladdr"
  /\ dump' = {k \in dump : Superfluous(k)}
  /\ UNCHANGED <<world, kernel, i, renew, add, changes, left, failed>>

\* in the order of the dump; that an address is gone already is no failure
DeleteAddress ==
  /\ pc = "deladdr"
  /\ \E k \in dump :
       /\ dump' = dump \ {k}
       /\ \/ \E A \in Removed(Addr(k)) : kernel' = [kernel EXCEPT !.addrs = A]
             /\ NoFailure
          \/ kernel' = kernel /\ Failure
  /\ UNCHANGED <<world, pc, i, renew, add, changes>>

AddAddresses ==
  /\ pc = "deladdr" /\ dump = {}
  /\ pc' = "addaddr"
  /\ UNCHANGED <<world, kernel, i, dump, renew, add, changes, left, failed>>

AddAddress ==
  /\ pc = "addaddr" /\ add # <<>>
  /\ add' = Tail(add)
  /\ IF AddressTaken(Head(add))
       THEN kernel' = kernel /\ NoFailure
       ELSE \/ kernel' = [kernel EXCEPT !.addrs = Added(Head(add))] /\ NoFailure
            \/ kernel' = kernel /\ Failure
  /\ UNCHANGED <<world, pc, i, dump, renew, changes>>

-----------------------------------------------------------------------------
(* FDB.apply, for a VXLAN interface                                        *)

\* (mutant of WithDefault: an entry without a state gets none)
WithoutDefault(w) == w

\* an entry without a state gets the one of its kind of link
WithDefault(w) == [w EXCEPT !.st = IF @ = None THEN DefaultState ELSE @]

\* get_kernel_fdb: permanent and static entries
StaticFdb == {e \in kernel.fdb : e.st # Learned}

\* `bridge fdb append': the state belongs to the link layer address, and only a
\* multicast or the zero address takes a further destination
Appended(w) ==
  LET same == {e \in kernel.fdb : e.mac = w.mac}
      old  == {[e EXCEPT !.st = w.st] : e \in same}
  IN (kernel.fdb \ same) \cup old \cup (IF same = {} \/ w.mac \in Several THEN {w} ELSE {})

BeginFdb ==
  /\ pc = "addaddr" /\ add = <<>>
  /\ pc' = "fdb" /\ i' = 1
  /\ dump' = StaticFdb
  /\ UNCHANGED <<world, kernel, renew, add, changes, left, failed>>

AppendFdb ==
  LET w == WithDefault(config.fdb[i]) IN
  /\ pc = "fdb" /\ i <= Len(config.fdb)
  /\ i' = i + 1
  /\ \/ w \in dump /\ kernel' = kernel /\ NoFailure
     \/ w \notin dump /\ kernel' = [kernel EXCEPT !.fdb = Appended(w)] /\ NoFailure
     \/ w \notin dump /\ kernel' = kernel /\ Failure
  /\ UNCHANGED <<world, pc, dump, renew, add, changes>>

WantedFdb == {WithDefault(w) : w \in ToSet(config.fdb)}

\* (mutant of DeleteFdb: it deletes what the first dump had)
DeleteFdbOfFirstDump ==
  /\ pc = "fdb" /\ i > Len(config.fdb)
  /\ pc' = "delfdb"
  /\ dump' = {e \in dump : e.mac # LinkMac /\ e \notin WantedFdb}
  /\ UNCHANGED <<world, kernel, i, renew, add, changes, left, failed>>

\* the kernel is dumped again, and entries that are not configured are deleted,
\* but for those of the interface's own address
DeleteFdb ==
  /\ pc = "fdb" /\ i > Len(config.fdb)
  /\ pc' = "delfdb"
  /\ dump' = {e \in StaticFdb : e.mac # LinkMac /\ e \notin WantedFdb}
  /\ UNCHANGED <<world, kernel, i, renew, add, changes, left, failed>>

DeleteFdbEntry ==
  /\ pc = "delfdb"
  /\ \E e \in dump :
       /\ dump' = dump \ {e}
       /\ \/ kernel' = [kernel EXCEPT !.fdb = {f \in @ : f.mac # e.mac \/ f.dst # e.dst}]
             /\ NoFailure
          \/ kernel' = kernel /\ Failure
  /\ UNCHANGED <<world, pc, i, renew, add, changes>>

-----------------------------------------------------------------------------
(* Neighbours.apply                                                        *)

Neigh(n) == [ip |-> n.ip, mac |-> n.mac]

\* permanent entries that are not configured will be deleted, configured ones
\* that are not there will be set
BeginNeighbours ==
  LET found == {Neigh(n) : n \in {n \in kernel.neigh : n.permanent}} IN
  /\ pc = "delfdb" /\ dump = {}
  /\ pc' = "delneigh"
  /\ dump' = found \ config.neighbours
  /\ add' \in SetToSeqs(config.neighbours \ found)
  /\ UNCHANGED <<world, kernel, i, renew, changes, left, failed>>

DeleteNeighbour ==
  /\ pc = "delneigh"
  /\ \E n \in dump :
       /\ dump' = dump \ {n}
       /\ \/ kernel' = [kernel EXCEPT !.neigh = {m \in @ : m.ip # n.ip}] /\ NoFailure
          \/ kernel' = kernel /\ Failure
  /\ UNCHANGED <<world, pc, i, renew, add, changes>>

AddNeighbours ==
  /\ pc = "delneigh" /\ dump = {}
  /\ pc' = "addneigh"
  /\ UNCHANGED <<world, kernel, i, dump, renew, add, changes, left, failed>>

\* `ip neigh replace'
SetNeighbour ==
  LET n == Head(add) IN
  /\ pc = "addneigh" /\ add # <<>>
  /\ add' = Tail(add)
  /\ \/ kernel' = [kernel EXCEPT !.neigh = {m \in @ : m.ip # n.ip} \cup
                     {[ip |-> n.ip, mac |-> n.mac, permanent |-> TRUE]}]
        /\ NoFailure
     \/ kernel' = kernel /\ Failure
  /\ UNCHANGED <<world, pc, i, dump, renew, changes>>

-----------------------------------------------------------------------------
(* WireGuard.apply                                                         *)

\* a state that cannot be read ends it
BeginWireGuard ==
  /\ pc = "addneigh" /\ add = <<>>
  /\ \/ pc' = "wg" /\ dump' = kernel.peers /\ NoFailure
     \/ pc' = "done" /\ dump' = dump /\ Failure
  /\ UNCHANGED <<world, kernel, i, renew, add, changes>>

SetInterface ==
  /\ pc = "wg"
  /\ pc' = "peers" /\ i' = 1
  /\ \/ kernel' = [kernel EXCEPT !.wg = IF config.wg = None THEN @ ELSE config.wg]
        /\ NoFailure
     \/ config.wg \notin {None, kernel.wg} /\ kernel' = kernel /\ Failure
  /\ UNCHANGED <<world, dump, renew, add, changes>>

\* peer p is as wish w says
AsWished(p, w) ==
  p.key = w.key /\ w.allowed \in {None, p.allowed} /\ w.opt \in {None, p.opt}

\* the peer of wish w, as it is or new
PeerOf(w) ==
  LET old == {p \in kernel.peers : p.key = w.key}
  IN IF old # {} THEN CHOOSE p \in old : TRUE
     ELSE [key |-> w.key, allowed |-> {}, opt |-> NoOption]

\* `wg set peer': an allowed IP belongs to one peer
PeersWith(w) ==
  LET p   == PeerOf(w)
      new == [key     |-> w.key,
              allowed |-> IF w.allowed = None THEN p.allowed ELSE w.allowed,
              opt     |-> IF w.opt = None THEN p.opt ELSE w.opt]
  IN {new} \cup {[q EXCEPT !.allowed = @ \ new.allowed] : q \in {q \in kernel.peers : q.key # w.key}}

\* safe_set_peer: with an endpoint that cannot be resolved, the rest is set
SetPeer ==
  LET w == config.peers[i] IN
  /\ pc = "peers" /\ i <= Len(config.peers)
  /\ i' = i + 1
  /\ IF \E p \in dump : AsWished(p, w)
       THEN kernel' = kernel /\ NoFailure
       ELSE \/ kernel' = [kernel EXCEPT !.peers = PeersWith(w)] /\ NoFailure
            \/ kernel' = kernel /\ Failure
            \/ /\ w.opt # None
               /\ kernel' = [kernel EXCEPT !.peers = PeersWith([w EXCEPT !.opt = None])]
               /\ Failure
  /\ UNCHANGED <<world, pc, dump, renew, add, changes>>

\* without a list of peers in the configuration the kernel's are left alone
RemovePeers ==
  /\ pc = "peers" /\ i > Len(config.peers)
  /\ pc' = "delpeers"
  /\ dump' = {p \in dump : config.withpeers /\ \A w \in ToSet(config.peers) : w.key # p.key}
  /\ UNCHANGED <<world, kernel, i, renew, add, changes, left, failed>>

RemovePeer ==
  /\ pc = "delpeers"
  /\ \E p \in dump :
       /\ dump' = dump \ {p}
       /\ \/ kernel' = [kernel EXCEPT !.peers = {q \in @ : q.key # p.key}] /\ NoFailure
          \/ kernel' = kernel /\ Failure
  /\ UNCHANGED <<world, pc, i, renew, add, changes>>

Finish ==
  /\ pc = "delpeers" /\ dump = {}
  /\ pc' = "done"
  /\ UNCHANGED <<world, kernel, i, dump, renew, add, changes, left, failed>>

-----------------------------------------------------------------------------
Next ==
  \/ StartRun \/ SkipSetting \/ SetSysctl
  \/ BeginAddresses \/ ExamineAddress \/ DeleteAddresses \/ DeleteAddress
  \/ AddAddresses \/ AddAddress
  \/ BeginFdb \/ AppendFdb \/ DeleteFdb \/ DeleteFdbEntry
  \/ BeginNeighbours \/ DeleteNeighbour \/ AddNeighbours \/ SetNeighbour
  \/ BeginWireGuard \/ SetInterface \/ SetPeer \/ RemovePeers \/ RemovePeer
  \/ Finish \/ Abort

Spec == Init /\ [][Next]_vars

-----------------------------------------------------------------------------
(* Configurations and kernels                                              *)

\* what there is once in every kernel
Coherent(K) ==
  /\ \A k, l \in K.addrs : Clashes(k, l) => k = l
  /\ \A e, f \in K.fdb : e.mac = f.mac => e.st = f.st
  /\ \A n, m \in K.neigh : n.ip = m.ip => n = m
  /\ \A p, q \in K.peers : p.key = q.key \/ p.allowed \cap q.allowed # {} => p = q

\* The entries of a configuration can be told apart and do not contradict each other,
\* and the interface's own forwarding entry is none of them.
Distinct(C) ==
  /\ \A m, n \in DOMAIN C.addresses : C.addresses[m].ip = C.addresses[n].ip => m = n
  /\ \A m, n \in DOMAIN C.fdb :
       C.fdb[m].mac = C.fdb[n].mac =>
         /\ WithDefault(C.fdb[m]).st = WithDefault(C.fdb[n]).st
         /\ C.fdb[m].mac \in Several \/ C.fdb[m].dst = C.fdb[n].dst
  /\ \A m \in DOMAIN C.fdb : C.fdb[m].mac # LinkMac
  /\ IsFiniteSet(C.neighbours) /\ \A n, m \in C.neighbours : n.ip = m.ip => n = m
  /\ C.withpeers \/ C.peers = <<>>
  /\ \A m, n \in DOMAIN C.peers : m # n =>
       /\ C.peers[m].key # C.peers[n].key
       /\ None \in {C.peers[m].allowed, C.peers[n].allowed}
            \/ C.peers[m].allowed \cap C.peers[n].allowed = {}

\* what is as the addresses W say, or not for a run to touch
KeptBy(W, k) ==
  \/ Addr(k) \in W /\ ~ k.dad
  \/ IgnoreDynamic /\ k.dyn
  \/ k.ip \in IgnoredIp /\ \A a \in W : a.ip # k.ip

\* no secondary address that is right would go with a primary one that is not
Separate(C, K) ==
  LET W == ToSet(C.addresses) IN
    /\ \A k \in K.addrs : k.ip \in IgnoredIp => KeptBy(W, k)
    /\ \A k, g \in K.addrs : k.sec /\ ~ g.sec /\ k.net = g.net /\ KeptBy(W, k) => KeptBy(W, g)

\* What a configuration asks of the kernel beforehand: duplicate detection did not fail
\* for an address that is ignored and not configured, the configured destination of a
\* unicast forwarding entry does not change, and a peer configured without allowed IPs
\* has none that is configured for another one.
Regular(C, K) ==
  /\ \A k \in K.addrs : k.ip \in IgnoredIp /\ k.dad => \E a \in ToSet(C.addresses) : a.ip = k.ip
  /\ K.promote \/ Separate(C, K)
  /\ \A w \in ToSet(C.fdb), e \in K.fdb : e.mac = w.mac => w.mac \in Several \/ e.dst = w.dst
  /\ \A v, w \in ToSet(C.peers), p \in K.peers :
       v # w /\ v.allowed = None /\ p.key = v.key /\ w.allowed # None =>
         p.allowed \cap w.allowed = {}

\* secondary addresses may only go with their primary where no call fails
ScenarioOK(s) ==
  /\ s[1] \in Configuration /\ s[2] \in KernelState /\ s[3] \in Nat
  /\ Distinct(s[1]) /\ Coherent(s[2]) /\ Regular(s[1], s[2])
  /\ s[2].promote \/ s[3] = 0

ASSUME ScenarioAssumption == \A s \in Scenario : ScenarioOK(s)

-----------------------------------------------------------------------------
(* Properties                                                              *)

\* The types; an IPv6 address is there once, the entries of a link layer address in
\* the forwarding database share their state, an IP has one neighbour, and an allowed
\* IP belongs to one peer.
TypeOK ==
  /\ kernel \in KernelState /\ Coherent(kernel)
  /\ pc \in PC /\ i \in Nat

WantedAddress == ToSet(config.addresses)

\* the host got the address, or an IPv6 address with its IP, by other means
ByOtherMeans(a) ==
  /\ IgnoreDynamic
  /\ \E k \in kernel.addrs : k.dyn /\ Clashes(k, a)

AddressesRight ==
  /\ \A a \in WantedAddress :
       ByOtherMeans(a) \/ \E k \in kernel.addrs : Addr(k) = a /\ ~ k.dad
  /\ \A k \in kernel.addrs :
       Addr(k) \in WantedAddress \/ k.ip \in IgnoredIp \/ (IgnoreDynamic /\ k.dyn)

FdbRight == {e \in StaticFdb : e.mac # LinkMac} = {w \in WantedFdb : w.mac # LinkMac}

NeighboursRight == {Neigh(n) : n \in {n \in kernel.neigh : n.permanent}} = config.neighbours

WireGuardRight ==
  /\ config.wg \in {None, kernel.wg}
  /\ \A w \in ToSet(config.peers) : \E p \in kernel.peers : AsWished(p, w)
  /\ config.withpeers =>
       \A p \in kernel.peers : \E w \in ToSet(config.peers) : AsWished(p, w)

\* A run in which no call fails leaves the addresses, the forwarding entries, the
\* neighbours and the peers of the interface as configured, but for what is ignored,
\* whatever the kernel had before and an earlier run that failed left behind.
RunTakesEffect ==
  pc = "done" /\ ~ failed => AddressesRight /\ FdbRight /\ NeighboursRight /\ WireGuardRight

\* A run in which no call fails leaves every setting as configured whose
\* file there is.
SettingsTakeEffect ==
  pc = "done" /\ ~ failed =>
    \A s \in ToSet(config.sysctl) : kernel.sysctl[s[1]] \in {s[2], None}

\* what is as configured, or not for the run to touch
KeptAddress(k) == KeptBy(WantedAddress, k)

KeptFdb(e) ==
  \/ e \in WantedFdb \/ e.mac = LinkMac
  \/ e.st = Learned /\ \A w \in WantedFdb : w.mac # e.mac

KeptNeighbour(n) ==
  IF n.permanent THEN Neigh(n) \in config.neighbours
                 ELSE \A m \in config.neighbours : m.ip # n.ip

KeptPeer(p) == config.withpeers => \E w \in ToSet(config.peers) : AsWished(p, w)

\* No step, failing or not, takes away an address, a forwarding entry, a neighbour or
\* a peer and its allowed IPs that is as configured, or that is none of the run's
\* business: traffic that is right is not interrupted, not even for a moment.
KeepsWhatIsRight ==
  [][/\ \A k \in kernel.addrs : KeptAddress(k) => \E l \in kernel'.addrs : Addr(l) = Addr(k)
     /\ \A e \in kernel.fdb : KeptFdb(e) => e \in kernel'.fdb
     /\ \A n \in kernel.neigh : KeptNeighbour(n) => n \in kernel'.neigh
     /\ \A p \in kernel.peers : KeptPeer(p) => p \in kernel'.peers]_vars
=============================================================================
