--------------------------- MODULE Interface_proofs ---------------------------
(* Theorems about Interface: what an apply does to addresses, forwarding       *)
(* entries, neighbours and peers, for every configuration whose entries can    *)
(* be told apart and every kernel it is regular with.  Parts_proofs has the    *)
(* theorems about the composition.                                            *)
EXTENDS Interface, FiniteSetTheorems, TLAPS

-----------------------------------------------------------------------------
(* The inductive invariant                                                 *)

AddrPC  == {"addr", "deladdr", "addaddr"}
LaterPC == {"fdb", "delfdb", "delneigh", "addneigh", "wg", "peers", "delpeers", "done"}

\* where deletions do not fail: without promotion no call fails at all
Sure == ~ failed \/ ~ kernel.promote

\* a is in the kernel, or will not get there because of a dynamic address
RightAddress(a) == ByOtherMeans(a) \/ \E k \in kernel.addrs : Addr(k) = a /\ ~ k.dad

\* k is not deleted, as far as is known
Stays(k) ==
  \/ Addr(k) \in WantedAddress
  \/ k.ip \in IgnoredIp
  \/ IgnoreDynamic /\ k.dyn

\* the kernel's address with that of some entry of the dump
OnDump(k) == \E x \in dump : Addr(x) = Addr(k)

\* The comparison: what left the dump is configured; what will be added is not in the
\* kernel, or only as something that will be deleted.
Comparing ==
  pc = "addr" =>
    /\ i \in 1 .. Len(config.addresses) + 1
    /\ dump \subseteq kernel.addrs
    /\ add \in Seq(WantedAddress)
    /\ \A k \in kernel.addrs \ dump :
         ~ k.dad /\ \E m \in 1 .. i - 1 : Addr(k) = config.addresses[m]
    /\ \A k \in dump :
         /\ k.dad => Addr(k) \in renew
         /\ Addr(k) \in renew => k.dad \/ \E a \in WantedAddress : a.ip = k.ip /\ a # Addr(k)
         /\ Addr(k) \in WantedAddress => Addr(k) \in renew \/ \E m \in i .. Len(config.addresses) : Addr(k) = config.addresses[m]
    /\ \A a \in ToSet(add) :
         /\ \E m \in 1 .. i - 1 : a = config.addresses[m]
         /\ \A k \in kernel.addrs : Clashes(k, a) => k \in dump /\ Addr(k) \in renew
    /\ \A m \in 1 .. i - 1 :
         \/ config.addresses[m] \in ToSet(add)
         \/ \E k \in kernel.addrs \ dump : Addr(k) = config.addresses[m]

\* Deletions and additions: nothing right is on the list of deletions; what is not
\* right is on one of the lists.
Changing ==
  pc \in {"deladdr", "addaddr"} =>
    /\ add \in Seq(WantedAddress)
    /\ pc = "addaddr" => dump = {}
    /\ \A k \in kernel.addrs : OnDump(k) => ~ KeptAddress(k)
    /\ Sure =>
         /\ \A k \in kernel.addrs : Stays(k) \/ OnDump(k)
         /\ \A a \in WantedAddress : a \in ToSet(add) \/ RightAddress(a)
         /\ \A a \in ToSet(add), k \in kernel.addrs :
              Clashes(k, a) => RightAddress(a) \/ OnDump(k)

AddrInv == Comparing /\ Changing /\ (pc \in LaterPC /\ ~ failed => AddressesRight)

Appending ==
  pc = "fdb" =>
    /\ i \in 1 .. Len(config.fdb) + 1
    /\ \A e \in dump : e \in WantedFdb => e \in kernel.fdb
    /\ ~ failed => \A m \in 1 .. i - 1 : WithDefault(config.fdb[m]) \in kernel.fdb

Clearing ==
  pc = "delfdb" =>
    /\ \A e \in dump :
         /\ e \notin WantedFdb /\ e.mac # LinkMac /\ e.st # Learned
         /\ \A f \in kernel.fdb : f.mac = e.mac /\ f.dst = e.dst => f = e
    /\ ~ failed =>
         /\ WantedFdb \subseteq kernel.fdb
         /\ \A f \in StaticFdb : f \in dump \/ f \in WantedFdb \/ f.mac = LinkMac

FdbInv ==
  /\ Appending /\ Clearing
  /\ pc \in LaterPC \ {"fdb", "delfdb"} /\ ~ failed => FdbRight

NeighSet(n) == \E m \in kernel.neigh : m.permanent /\ Neigh(m) = n

Neighbouring ==
  pc \in {"delneigh", "addneigh"} =>
    /\ add \in Seq(config.neighbours)
    /\ pc = "addneigh" => dump = {}
    /\ \A n \in dump :
         /\ n \notin config.neighbours
         /\ \A m \in kernel.neigh : m.ip = n.ip => m.permanent /\ Neigh(m) = n
    /\ ~ failed =>
         /\ \A m \in kernel.neigh : m.permanent => Neigh(m) \in dump \cup config.neighbours
         /\ \A n \in config.neighbours : n \in ToSet(add) \/ NeighSet(n)

NeighInv ==
  /\ Neighbouring
  /\ pc \in {"wg", "peers", "delpeers", "done"} /\ ~ failed => NeighboursRight

\* a peer of this key is not removed
WishKey(key) == config.withpeers => \E w \in ToSet(config.peers) : w.key = key

Served(m) == \E p \in kernel.peers : AsWished(p, config.peers[m])

Peering ==
  pc \in {"wg", "peers"} =>
    /\ \A p \in dump : KeptPeer(p) => p \in kernel.peers
    /\ \A p \in kernel.peers : WishKey(p.key) \/ \E q \in dump : q.key = p.key
    /\ pc = "peers" =>
         /\ i \in 1 .. Len(config.peers) + 1
         /\ ~ failed => config.wg \in {None, kernel.wg} /\ \A m \in 1 .. i - 1 : Served(m)

Removing ==
  pc = "delpeers" =>
    /\ \A p \in dump : ~ WishKey(p.key)
    /\ ~ failed =>
         /\ config.wg \in {None, kernel.wg}
         /\ \A m \in DOMAIN config.peers : Served(m)
         /\ \A p \in kernel.peers : WishKey(p.key) \/ \E q \in dump : q.key = p.key

PeerInv == Peering /\ Removing /\ (pc = "done" /\ ~ failed => WireGuardRight)

\* what never changes, whatever part the run is at
Base ==
  /\ TypeOK /\ left \in Nat
  /\ config \in Configuration /\ Distinct(config)
  /\ Regular(config, kernel) /\ (kernel.promote \/ left = 0)

\* the position in the list of settings
AtSetting == pc = "sysctl" => i >= 1

IInv == Base /\ AtSetting /\ AddrInv /\ FdbInv /\ NeighInv /\ PeerInv

-----------------------------------------------------------------------------
(* Lists                                                                   *)

LEMMA ToSetOf == \A s : ToSet(s) = {s[n] : n \in DOMAIN s}
BY DEF ToSet

LEMMA AppendSet ==
  ASSUME NEW S, NEW s \in Seq(S), NEW e \in S
  PROVE  Append(s, e) \in Seq(S) /\ ToSet(Append(s, e)) = ToSet(s) \cup {e}
<1>1. /\ Append(s, e) \in Seq(S) /\ Len(s) \in Nat /\ Len(Append(s, e)) = Len(s) + 1
      /\ DOMAIN Append(s, e) = 1 .. Len(s) + 1 /\ DOMAIN s = 1 .. Len(s)
      /\ \A n \in 1 .. Len(s) : Append(s, e)[n] = s[n]
      /\ Append(s, e)[Len(s) + 1] = e
  OBVIOUS
<1>2. \A x : x \in ToSet(Append(s, e)) <=> x \in ToSet(s) \cup {e}
  BY <1>1 DEF ToSet
<1> QED BY <1>1, <1>2

LEMMA TailSet ==
  ASSUME NEW S, NEW s \in Seq(S), s # <<>>
  PROVE  /\ Tail(s) \in Seq(S) /\ Head(s) \in S
         /\ ToSet(s) = ToSet(Tail(s)) \cup {Head(s)}
<1>1. PICK t : t = Tail(s)
  OBVIOUS
<1>2. /\ t \in Seq(S) /\ Len(s) \in Nat /\ Len(s) >= 1 /\ Len(t) = Len(s) - 1
      /\ DOMAIN t = 1 .. Len(s) - 1 /\ DOMAIN s = 1 .. Len(s)
      /\ \A n \in 1 .. Len(s) - 1 : t[n] = s[n + 1]
      /\ Head(s) = s[1]
  BY <1>1
<1>3. \A x : x \in ToSet(s) => x \in ToSet(t) \cup {Head(s)}
  <2> SUFFICES ASSUME NEW n \in DOMAIN s PROVE s[n] \in ToSet(t) \cup {Head(s)}
    BY DEF ToSet
  <2>1. CASE n = 1
    BY <2>1, <1>2
  <2>2. CASE n # 1
    <3>1. n - 1 \in DOMAIN t /\ t[n - 1] = s[n]
      BY <2>2, <1>2
    <3> QED BY <3>1 DEF ToSet
  <2> QED BY <2>1, <2>2
<1>4. \A x : x \in ToSet(t) => x \in ToSet(s)
  BY <1>2 DEF ToSet
<1>5. Head(s) \in ToSet(s)
  BY <1>2 DEF ToSet
<1>6. ToSet(s) = ToSet(t) \cup {Head(s)}
  BY <1>3, <1>4, <1>5
<1>7. Head(s) \in S
  BY <1>2
<1> QED BY <1>1, <1>2, <1>6, <1>7

LEMMA EmptySet == ToSet(<<>>) = {}
BY DEF ToSet

\* Any order of a finite set has all its elements.
LEMMA OrderSet ==
  ASSUME NEW S, IsFiniteSet(S), NEW s \in SetToSeqs(S)
  PROVE  s \in Seq(S) /\ ToSet(s) = S
<1>1. Cardinality(S) \in Nat
  BY FS_CardinalityType
<1>2. s \in [1 .. Cardinality(S) -> S] /\ \A m, n \in 1 .. Cardinality(S) : m # n => s[m] # s[n]
  BY DEF SetToSeqs
<1>3. s \in Seq(S)
  BY <1>1, <1>2
<1>4. s \in Injection(1 .. Cardinality(S), S)
  BY <1>2 DEF Injection, IsInjective
<1>5. Cardinality(1 .. Cardinality(S)) = Cardinality(S)
  BY <1>1, FS_Interval
<1>6. s \in Surjection(1 .. Cardinality(S), S)
  BY <1>4, <1>5, FS_Injection
<1>7. ToSet(s) = S
  BY <1>2, <1>6 DEF Surjection, ToSet
<1> QED BY <1>3, <1>7

-----------------------------------------------------------------------------
(* What a step leaves alone                                                *)

\* one part of the kernel's state is replaced
LEMMA SetAddrs ==
  ASSUME kernel \in KernelState, NEW A \in SUBSET KernelAddress,
         kernel' = [kernel EXCEPT !.addrs = A]
  PROVE  /\ kernel' \in KernelState /\ kernel'.addrs = A
         /\ kernel'.promote = kernel.promote /\ kernel'.fdb = kernel.fdb
         /\ kernel'.neigh = kernel.neigh /\ kernel'.wg = kernel.wg /\ kernel'.peers = kernel.peers
BY DEF KernelState

LEMMA SetFdb ==
  ASSUME kernel \in KernelState, NEW A \in SUBSET FdbEntry,
         kernel' = [kernel EXCEPT !.fdb = A]
  PROVE  /\ kernel' \in KernelState /\ kernel'.fdb = A
         /\ kernel'.promote = kernel.promote /\ kernel'.addrs = kernel.addrs
         /\ kernel'.neigh = kernel.neigh /\ kernel'.wg = kernel.wg /\ kernel'.peers = kernel.peers
BY DEF KernelState

LEMMA SetNeigh ==
  ASSUME kernel \in KernelState, NEW A \in SUBSET [ip : Ip, mac : Mac, permanent : BOOLEAN],
         kernel' = [kernel EXCEPT !.neigh = A]
  PROVE  /\ kernel' \in KernelState /\ kernel'.neigh = A
         /\ kernel'.promote = kernel.promote /\ kernel'.addrs = kernel.addrs
         /\ kernel'.fdb = kernel.fdb /\ kernel'.wg = kernel.wg /\ kernel'.peers = kernel.peers
BY DEF KernelState

LEMMA SetPeers ==
  ASSUME kernel \in KernelState, NEW A \in SUBSET Peer, kernel' = [kernel EXCEPT !.peers = A]
  PROVE  /\ kernel' \in KernelState /\ kernel'.peers = A
         /\ kernel'.promote = kernel.promote /\ kernel'.addrs = kernel.addrs
         /\ kernel'.fdb = kernel.fdb /\ kernel'.neigh = kernel.neigh /\ kernel'.wg = kernel.wg
BY DEF KernelState

LEMMA SetWg ==
  ASSUME kernel \in KernelState, NEW A \in Option, kernel' = [kernel EXCEPT !.wg = A]
  PROVE  /\ kernel' \in KernelState /\ kernel'.wg = A
         /\ kernel'.promote = kernel.promote /\ kernel'.addrs = kernel.addrs
         /\ kernel'.fdb = kernel.fdb /\ kernel'.neigh = kernel.neigh /\ kernel'.peers = kernel.peers
BY DEF KernelState

LEMMA SetSetting ==
  ASSUME kernel \in KernelState, NEW s \in Setting, NEW v \in Value \cup {None},
         kernel' = [kernel EXCEPT !.sysctl[s] = v]
  PROVE  /\ kernel' \in KernelState
         /\ kernel'.promote = kernel.promote /\ kernel'.addrs = kernel.addrs
         /\ kernel'.fdb = kernel.fdb /\ kernel'.neigh = kernel.neigh
         /\ kernel'.wg = kernel.wg /\ kernel'.peers = kernel.peers
BY DEF KernelState

SameAddrs == kernel'.addrs = kernel.addrs /\ kernel'.promote = kernel.promote
SameFdb   == kernel'.fdb = kernel.fdb
SameNeigh == kernel'.neigh = kernel.neigh
SamePeers == kernel'.peers = kernel.peers /\ kernel'.wg = kernel.wg

\* A call fails or not: without promotion it never does.
LEMMA Calls ==
  ASSUME Base, NoFailure \/ Failure
  PROVE  /\ left' \in Nat /\ (left = 0 => left' = 0)
         /\ ~ failed' => ~ failed /\ NoFailure
         /\ Failure => failed' /\ kernel.promote
         /\ kernel'.promote = kernel.promote => (Sure' => Sure /\ NoFailure)
<1>1. left \in Nat /\ (kernel.promote \/ left = 0)
  BY DEF Base
<1>2. CASE NoFailure
  <2>1. left' = left /\ failed' = failed
    BY <1>2 DEF NoFailure
  <2> QED BY <1>1, <1>2, <2>1 DEF Failure, Sure
<1>3. CASE Failure
  <2>1. left > 0 /\ left' = left - 1 /\ failed' = TRUE
    BY <1>3 DEF Failure
  <2> QED BY <1>1, <1>3, <2>1 DEF Failure, Sure
<1> QED BY <1>2, <1>3

\* the parts of Base that speak of the kernel
KernelBase(C, K) == K \in KernelState /\ Coherent(K) /\ Regular(C, K)

LEMMA BaseKept ==
  ASSUME Base, config' = config, pc' \in PC, i' \in Nat,
         left' \in Nat, left = 0 => left' = 0,
         KernelBase(config, kernel'), kernel'.promote = kernel.promote
  PROVE  Base'
BY DEF Base, KernelBase, TypeOK

LEMMA KernelBaseNow == ASSUME Base PROVE KernelBase(config, kernel)
BY DEF Base, KernelBase, TypeOK

LEMMA CoherentParts ==
  ASSUME NEW C, NEW K, NEW L, KernelBase(C, K), L \in KernelState, L.promote = K.promote,
         L.addrs = K.addrs \/ /\ \A k, l \in L.addrs : Clashes(k, l) => k = l
                              /\ \A k \in L.addrs : k.ip \in IgnoredIp /\ k.dad =>
                                                      \E a \in ToSet(C.addresses) : a.ip = k.ip
                              /\ L.promote \/ Separate(C, L),
         L.fdb = K.fdb \/ /\ \A e, f \in L.fdb : e.mac = f.mac => e.st = f.st
                          /\ \A w \in ToSet(C.fdb), e \in L.fdb :
                               e.mac = w.mac => w.mac \in Several \/ e.dst = w.dst,
         L.neigh = K.neigh \/ \A n, m \in L.neigh : n.ip = m.ip => n = m,
         L.peers = K.peers \/
           /\ \A p, q \in L.peers : p.key = q.key \/ p.allowed \cap q.allowed # {} => p = q
           /\ \A v, w \in ToSet(C.peers), p \in L.peers :
                v # w /\ v.allowed = None /\ p.key = v.key /\ w.allowed # None =>
                  p.allowed \cap w.allowed = {}
  PROVE  KernelBase(C, L)
<1>1. Coherent(L)
  BY DEF KernelBase, Coherent
<1>2. L.addrs = K.addrs => (Separate(C, K) => Separate(C, L))
  BY DEF Separate
<1>3. Regular(C, L)
  BY <1>2 DEF KernelBase, Regular
<1> QED BY <1>1, <1>3 DEF KernelBase

\* The address of an entry of the kernel, and of another one.
LEMMA AddrFacts ==
  ASSUME Base
  PROVE  /\ \A k \in kernel.addrs : Addr(k) \in Address /\ Addr(k).ip = k.ip /\ Addr(k).net = k.net
         /\ \A k, l \in kernel.addrs : Addr(k) = Addr(l) => k = l
         /\ \A k, l \in kernel.addrs : Clashes(k, l) => k = l
         /\ kernel.addrs \subseteq KernelAddress
         /\ WantedAddress = {config.addresses[m] : m \in 1 .. Len(config.addresses)}
         /\ WantedAddress \subseteq Address
         /\ \A a, b \in WantedAddress : a.ip = b.ip => a = b
         /\ config.addresses \in Seq(Address) /\ Len(config.addresses) \in Nat
<1>1. kernel.addrs \subseteq KernelAddress /\ config.addresses \in Seq(Address)
  BY DEF Base, TypeOK, KernelState, Configuration
<1>2. \A k \in kernel.addrs : Addr(k) \in Address /\ Addr(k).ip = k.ip /\ Addr(k).net = k.net
  BY <1>1 DEF Addr, Address, KernelAddress
<1>3. \A k, l \in kernel.addrs : Clashes(k, l) => k = l
  BY DEF Base, TypeOK, Coherent
<1>4. \A k, l \in kernel.addrs : Addr(k) = Addr(l) => k = l
  BY <1>2, <1>3 DEF Clashes
<1>5. DOMAIN config.addresses = 1 .. Len(config.addresses) /\ Len(config.addresses) \in Nat
  BY <1>1
<1>6. WantedAddress = {config.addresses[m] : m \in 1 .. Len(config.addresses)}
  BY <1>5 DEF WantedAddress, ToSet
<1>7. \A a, b \in WantedAddress : a.ip = b.ip => a = b
  BY <1>5, <1>6 DEF Base, Distinct
<1>8. WantedAddress \subseteq Address
  BY <1>1, <1>6
<1> QED BY <1>1, <1>2, <1>3, <1>4, <1>5, <1>6, <1>7, <1>8

\* what follows the addresses leaves them alone
LEMMA AddrLater ==
  ASSUME AddrInv, pc \in LaterPC, pc' \in LaterPC, SameAddrs, config' = config,
         ~ failed' => ~ failed
  PROVE  AddrInv'
<1>1. AddressesRight => AddressesRight'
  BY DEF AddressesRight, WantedAddress, ByOtherMeans, SameAddrs
<1>2. pc' \notin AddrPC
  BY DEF AddrPC, LaterPC
<1> QED BY <1>1, <1>2 DEF AddrInv, Comparing, Changing, AddrPC

LEMMA FdbLater ==
  ASSUME FdbInv, pc \in LaterPC \ {"fdb", "delfdb"}, pc' \in LaterPC \ {"fdb", "delfdb"},
         SameFdb, config' = config, ~ failed' => ~ failed
  PROVE  FdbInv'
<1>1. FdbRight => FdbRight'
  BY DEF FdbRight, StaticFdb, WantedFdb, SameFdb
<1> QED BY <1>1 DEF FdbInv, Appending, Clearing

LEMMA NeighLater ==
  ASSUME NeighInv, pc \in {"wg", "peers", "delpeers", "done"},
         pc' \in {"wg", "peers", "delpeers", "done"},
         SameNeigh, config' = config, ~ failed' => ~ failed
  PROVE  NeighInv'
<1>1. NeighboursRight => NeighboursRight'
  BY DEF NeighboursRight, SameNeigh
<1> QED BY <1>1 DEF NeighInv, Neighbouring

\* a part that was not begun yet
LEMMA NotBegun ==
  /\ pc' # "sysctl" => AtSetting'
  /\ pc' \notin AddrPC \cup LaterPC => AddrInv'
  /\ pc' \notin LaterPC => FdbInv'
  /\ pc' \notin LaterPC \ {"fdb", "delfdb"} => NeighInv'
  /\ pc' \notin {"wg", "peers", "delpeers", "done"} => PeerInv'
BY DEF AtSetting, AddrInv, Comparing, Changing, AddrPC, LaterPC, FdbInv, Appending, Clearing,
       NeighInv, Neighbouring, PeerInv, Peering, Removing

-----------------------------------------------------------------------------
(* Addresses                                                               *)

LEMMA BeginAddressesKeeps ==
  ASSUME IInv, BeginAddresses
  PROVE  IInv'
<1>0. /\ pc' = "addr" /\ i' = 1 /\ add' = <<>> /\ kernel' = kernel /\ config' = config
      /\ dump' = kernel.addrs /\ renew' = {Addr(k) : k \in {k \in kernel.addrs : k.dad}}
      /\ left' = left /\ failed' = failed
  BY DEF BeginAddresses, world
<1>1. Base'
  BY <1>0, BaseKept, KernelBaseNow DEF IInv, PC, Base
<1>2. \A k \in kernel.addrs : Addr(k) \in renew' => k.dad
  BY <1>0, AddrFacts DEF IInv
<1>3. \A k \in kernel.addrs : k.dad => Addr(k) \in renew'
  BY <1>0
<1>4. \A k \in kernel.addrs : Addr(k) \in WantedAddress =>
        \E m \in 1 .. Len(config.addresses) : Addr(k) = config.addresses[m]
  BY AddrFacts DEF IInv
<1>5. 1 \in 1 .. Len(config.addresses) + 1 /\ 1 .. 1 - 1 = {}
  BY AddrFacts DEF IInv
<1>6. Comparing'
  BY <1>0, <1>2, <1>3, <1>4, <1>5, EmptySet DEF Comparing, WantedAddress
<1>7. AddrInv'
  BY <1>0, <1>6 DEF AddrInv, Changing, LaterPC
<1> QED BY <1>0, <1>1, <1>7, NotBegun DEF IInv, LaterPC

\* the position n of a list of length len, and the ones before and after it
LEMMA Position ==
  ASSUME NEW len \in Nat, NEW n \in 1 .. len + 1, n <= len
  PROVE  /\ n \in 1 .. len /\ n + 1 \in 1 .. len + 1
         /\ n \in 1 .. (n + 1) - 1 /\ 1 .. n - 1 \subseteq 1 .. (n + 1) - 1 /\ n \notin 1 .. n - 1
         /\ \A m \in 1 .. (n + 1) - 1 : m \in 1 .. n - 1 \/ m = n
         /\ \A m \in n .. len : m = n \/ m \in n + 1 .. len
         /\ 1 .. n - 1 \subseteq 1 .. len
OBVIOUS

\* a configured address is found in the dump, and is not to be renewed
LEMMA ExamineFound ==
  ASSUME Base, Comparing, pc = "addr", i <= Len(config.addresses),
         NEW a, a = config.addresses[i], a \notin renew, NEW k \in dump, Addr(k) = a,
         pc' = "addr", i' = i + 1, dump' = {l \in dump : Addr(l) # a},
         renew' = renew, add' = add, kernel' = kernel, config' = config
  PROVE  Comparing'
<1>0. /\ i \in 1 .. Len(config.addresses) /\ Len(config.addresses) \in Nat
      /\ dump \subseteq kernel.addrs /\ i + 1 \in 1 .. Len(config.addresses) + 1
      /\ i \in 1 .. (i + 1) - 1 /\ 1 .. i - 1 \subseteq 1 .. (i + 1) - 1
      /\ \A m \in 1 .. (i + 1) - 1 : m \in 1 .. i - 1 \/ m = i
      /\ \A m \in i .. Len(config.addresses) : m = i \/ m \in i + 1 .. Len(config.addresses)
  BY AddrFacts, Position DEF Comparing
<1>1. a \in WantedAddress
  BY <1>0, AddrFacts
<1>2. dump' = dump \ {k} /\ kernel.addrs \ dump' = (kernel.addrs \ dump) \cup {k}
  BY <1>0, AddrFacts
<1>3. ~ k.dad
  BY DEF Comparing
<1>4. \A l \in kernel.addrs \ dump' :
        ~ l.dad /\ \E m \in 1 .. (i + 1) - 1 : Addr(l) = config.addresses[m]
  BY <1>0, <1>2, <1>3 DEF Comparing
<1>5. \A l \in dump' :
        /\ l.dad => Addr(l) \in renew
        /\ Addr(l) \in renew => l.dad \/ \E b \in WantedAddress : b.ip = l.ip /\ b # Addr(l)
        /\ Addr(l) \in WantedAddress =>
             Addr(l) \in renew \/ \E m \in i + 1 .. Len(config.addresses) : Addr(l) = config.addresses[m]
  BY <1>0 DEF Comparing
<1>6. \A b \in ToSet(add) :
        /\ \E m \in 1 .. (i + 1) - 1 : b = config.addresses[m]
        /\ \A l \in kernel.addrs : Clashes(l, b) => l \in dump' /\ Addr(l) \in renew
  <2> SUFFICES ASSUME NEW b \in ToSet(add)
               PROVE  /\ \E m \in 1 .. (i + 1) - 1 : b = config.addresses[m]
                      /\ \A l \in kernel.addrs : Clashes(l, b) => l \in dump' /\ Addr(l) \in renew
    OBVIOUS
  <2>1. \A l \in kernel.addrs : Clashes(l, b) => l \in dump /\ Addr(l) \in renew
    BY DEF Comparing
  <2>2. Addr(k) \notin renew
    OBVIOUS
  <2>3. \A l \in kernel.addrs : Clashes(l, b) => l # k
    BY <2>1, <2>2
  <2>4. \E m \in 1 .. i - 1 : b = config.addresses[m]
    BY DEF Comparing
  <2> QED BY <2>1, <2>3, <2>4, <1>0, <1>2
<1>7. \A m \in 1 .. (i + 1) - 1 :
        \/ config.addresses[m] \in ToSet(add)
        \/ \E l \in kernel.addrs \ dump' : Addr(l) = config.addresses[m]
  BY <1>0, <1>2 DEF Comparing
<1>8. add \in Seq(WantedAddress) /\ dump' \subseteq kernel.addrs
  BY <1>0, <1>2 DEF Comparing
<1> QED BY <1>0, <1>4, <1>5, <1>6, <1>7, <1>8 DEF Comparing, WantedAddress

\* it will be added, and an entry of the dump with its IP renewed
LEMMA ExamineMissing ==
  ASSUME Base, Comparing, pc = "addr", i <= Len(config.addresses),
         NEW a, a = config.addresses[i], a \in renew \/ \A k \in dump : Addr(k) # a,
         pc' = "addr", i' = i + 1, dump' = dump, add' = Append(add, a),
         \/ renew' = renew /\ \A k \in dump : k.ip # a.ip
         \/ \E k \in dump : k.ip = a.ip /\ renew' = renew \cup {Addr(k)},
         kernel' = kernel, config' = config
  PROVE  Comparing'
<1>0. /\ i \in 1 .. Len(config.addresses) /\ Len(config.addresses) \in Nat
      /\ dump \subseteq kernel.addrs /\ i + 1 \in 1 .. Len(config.addresses) + 1
      /\ i \in 1 .. (i + 1) - 1 /\ 1 .. i - 1 \subseteq 1 .. (i + 1) - 1 /\ i \notin 1 .. i - 1
      /\ \A m \in 1 .. (i + 1) - 1 : m \in 1 .. i - 1 \/ m = i
      /\ \A m \in i .. Len(config.addresses) : m = i \/ m \in i + 1 .. Len(config.addresses)
      /\ 1 .. i - 1 \subseteq 1 .. Len(config.addresses)
  <2>1. Len(config.addresses) \in Nat
    BY AddrFacts
  <2>2. i \in 1 .. Len(config.addresses) + 1 /\ dump \subseteq kernel.addrs
    BY DEF Comparing
  <2> QED BY <2>1, <2>2, Position
<1>1. a \in WantedAddress /\ a \in Address
  BY <1>0, AddrFacts
<1>2. add' \in Seq(WantedAddress) /\ ToSet(add') = ToSet(add) \cup {a}
  BY <1>1, AppendSet DEF Comparing
<1>3. renew \subseteq renew'
  OBVIOUS
<1>4. \A m \in 1 .. Len(config.addresses) : config.addresses[m].ip = a.ip => m = i
  BY <1>0 DEF Base, Distinct
<1>5. \A k \in kernel.addrs : Clashes(k, a) => k \in dump /\ Addr(k) \in renew'
  <2> SUFFICES ASSUME NEW k \in kernel.addrs, Clashes(k, a)
               PROVE  k \in dump /\ Addr(k) \in renew'
    OBVIOUS
  <2>1. k.ip = a.ip
    BY DEF Clashes
  <2>2. k \in dump
    <3>1. SUFFICES ASSUME k \notin dump PROVE FALSE
      OBVIOUS
    <3>2. PICK m \in 1 .. i - 1 : Addr(k) = config.addresses[m]
      BY <3>1 DEF Comparing
    <3>3. config.addresses[m].ip = a.ip
      BY <2>1, <3>2, AddrFacts
    <3> QED BY <1>0, <1>4, <3>2, <3>3
  <2>3. PICK l \in dump : l.ip = a.ip /\ renew' = renew \cup {Addr(l)}
    BY <2>1, <2>2
  <2>4. CASE a.ip \in V6
    <3>1. Clashes(k, l)
      BY <2>1, <2>3, <2>4 DEF Clashes
    <3> QED BY <1>0, <2>2, <2>3, <3>1, AddrFacts
  <2>5. CASE a.ip \notin V6
    <3>1. k.ip = a.ip /\ k.net = a.net
      BY <2>5 DEF Clashes
    <3>2. Addr(k) = a
      BY <1>1, <3>1, AddrFacts DEF Address
    <3> QED BY <1>3, <2>2, <3>2
  <2> QED BY <2>4, <2>5
<1>6. \A k \in kernel.addrs \ dump :
        ~ k.dad /\ \E m \in 1 .. (i + 1) - 1 : Addr(k) = config.addresses[m]
  BY <1>0 DEF Comparing
<1>7. ASSUME NEW k \in dump
      PROVE  /\ k.dad => Addr(k) \in renew'
             /\ Addr(k) \in renew' => k.dad \/ \E b \in WantedAddress : b.ip = k.ip /\ b # Addr(k)
             /\ Addr(k) \in WantedAddress =>
                  Addr(k) \in renew' \/ \E m \in i + 1 .. Len(config.addresses) : Addr(k) = config.addresses[m]
  <2>1. k.dad => Addr(k) \in renew'
    BY <1>3 DEF Comparing
  <2>2. Addr(k) \in renew => k.dad \/ \E b \in WantedAddress : b.ip = k.ip /\ b # Addr(k)
    BY DEF Comparing
  <2>3. ASSUME Addr(k) \in renew', Addr(k) \notin renew
        PROVE  \E b \in WantedAddress : b.ip = k.ip /\ b # Addr(k)
    <3>1. k.ip = a.ip
      BY <1>0, <2>3, AddrFacts
    <3>2. Addr(k) # a
      BY <2>3
    <3> QED BY <1>1, <3>1, <3>2
  <2>4. Addr(k) = a => a \in renew'
    BY <1>3
  <2>5. Addr(k) \in WantedAddress =>
          Addr(k) \in renew' \/ \E m \in i + 1 .. Len(config.addresses) : Addr(k) = config.addresses[m]
    BY <1>0, <1>3, <2>4 DEF Comparing
  <2> QED BY <2>1, <2>2, <2>3, <2>5
<1>8. \A b \in ToSet(add') :
        /\ \E m \in 1 .. (i + 1) - 1 : b = config.addresses[m]
        /\ \A k \in kernel.addrs : Clashes(k, b) => k \in dump /\ Addr(k) \in renew'
  BY <1>0, <1>2, <1>3, <1>5 DEF Comparing
<1>9. \A m \in 1 .. (i + 1) - 1 :
        \/ config.addresses[m] \in ToSet(add')
        \/ \E k \in kernel.addrs \ dump : Addr(k) = config.addresses[m]
  BY <1>0, <1>2 DEF Comparing
<1> QED BY <1>0, <1>2, <1>6, <1>7, <1>8, <1>9 DEF Comparing, WantedAddress

LEMMA ExamineAddressKeeps ==
  ASSUME IInv, ExamineAddress
  PROVE  IInv'
<1>0. /\ pc = "addr" /\ i <= Len(config.addresses) /\ i' = i + 1 /\ pc' = "addr"
      /\ kernel' = kernel /\ config' = config /\ left' = left /\ failed' = failed
      /\ i \in Nat
  BY DEF ExamineAddress, world, IInv, Base, TypeOK
<1>1. Base'
  BY <1>0, BaseKept, KernelBaseNow DEF IInv, PC, Base
<1>2. PICK a : a = config.addresses[i]
  OBVIOUS
<1>3. Base /\ Comparing
  BY DEF IInv, AddrInv
<1>4. Comparing'
  <2>1. CASE a \notin renew /\ \E k \in dump : Addr(k) = a
    <3>1. dump' = {l \in dump : Addr(l) # a} /\ renew' = renew /\ add' = add
      BY <1>2, <2>1 DEF ExamineAddress
    <3>2. PICK k \in dump : Addr(k) = a
      BY <2>1
    <3> QED BY <1>0, <1>2, <1>3, <2>1, <3>1, <3>2, ExamineFound
  <2>2. CASE ~ (a \notin renew /\ \E k \in dump : Addr(k) = a)
    <3>1. /\ dump' = dump /\ add' = Append(add, a)
          /\ IF {k \in dump : k.ip = a.ip} = {} THEN renew' = renew
             ELSE \E k \in {k \in dump : k.ip = a.ip} : renew' = renew \cup {Addr(k)}
      BY <1>2, <2>2 DEF ExamineAddress
    <3>2. \/ renew' = renew /\ \A k \in dump : k.ip # a.ip
          \/ \E k \in dump : k.ip = a.ip /\ renew' = renew \cup {Addr(k)}
      BY <3>1
    <3>3. a \in renew \/ \A k \in dump : Addr(k) # a
      BY <2>2
    <3> QED BY <1>0, <1>2, <1>3, <3>1, <3>2, <3>3, ExamineMissing
  <2> QED BY <2>1, <2>2
<1>5. AddrInv'
  BY <1>0, <1>4 DEF AddrInv, Changing, LaterPC
<1> QED BY <1>0, <1>1, <1>5, NotBegun DEF IInv, LaterPC

\* nothing but the comparison changes with the kernel and the configuration as they are
LEMMA SameWorld ==
  ASSUME SameAddrs, config' = config
  PROVE  /\ WantedAddress' = WantedAddress
         /\ \A k : Stays(k)' <=> Stays(k)
         /\ \A k : KeptAddress(k)' <=> KeptAddress(k)
         /\ \A a : RightAddress(a)' <=> RightAddress(a)
         /\ Sure' <=> (~ failed' \/ ~ kernel.promote)
BY DEF WantedAddress, Stays, KeptAddress, RightAddress, ByOtherMeans, SameAddrs, Sure

\* A run that deletes: it leaves alone what is right.
LEMMA DeleteAddressesKeeps ==
  ASSUME IInv, DeleteAddresses
  PROVE  IInv'
<1>0. /\ pc = "addr" /\ i > Len(config.addresses) /\ pc' = "deladdr"
      /\ dump' = {k \in dump : Superfluous(k)}
      /\ kernel' = kernel /\ config' = config /\ i' = i /\ add' = add
      /\ left' = left /\ failed' = failed
  BY DEF DeleteAddresses, world
<1>1. Base'
  BY <1>0, BaseKept, KernelBaseNow DEF IInv, PC, Base, TypeOK
<1>2. Base /\ Comparing
  BY DEF IInv, AddrInv
<1>3. /\ i .. Len(config.addresses) = {} /\ 1 .. Len(config.addresses) \subseteq 1 .. i - 1
      /\ dump \subseteq kernel.addrs /\ add \in Seq(WantedAddress)
      /\ 1 .. i - 1 \subseteq 1 .. Len(config.addresses)
  <2>1. Len(config.addresses) \in Nat
    BY <1>2, AddrFacts
  <2>2. i \in 1 .. Len(config.addresses) + 1 /\ dump \subseteq kernel.addrs /\ add \in Seq(WantedAddress)
    BY <1>0, <1>2 DEF Comparing
  <2> QED BY <1>0, <2>1, <2>2
<1>4. SameAddrs
  BY <1>0 DEF SameAddrs
<1>5. \A k \in kernel.addrs : OnDump(k)' => k \in dump /\ Superfluous(k)
  BY <1>0, <1>2, <1>3, AddrFacts DEF OnDump
<1>6. \A k \in dump : Superfluous(k) => OnDump(k)'
  BY <1>0 DEF OnDump
<1>7. \A k \in kernel.addrs : OnDump(k)' => ~ KeptAddress(k)
  <2> SUFFICES ASSUME NEW k \in kernel.addrs, k \in dump, Superfluous(k), KeptAddress(k)
               PROVE  FALSE
    BY <1>5
  <2>1. /\ k.dad => Addr(k) \in renew
        /\ Addr(k) \in renew => k.dad \/ \E a \in WantedAddress : a.ip = k.ip /\ a # Addr(k)
        /\ Addr(k) \in WantedAddress => Addr(k) \in renew
    BY <1>0, <1>2, <1>3 DEF Comparing
  <2>2. CASE Addr(k) \in WantedAddress /\ ~ k.dad
    BY <1>2, <2>1, <2>2, AddrFacts
  <2>3. CASE IgnoreDynamic /\ k.dyn
    BY <2>3 DEF Superfluous
  <2>4. CASE k.ip \in IgnoredIp /\ \A a \in WantedAddress : a.ip # k.ip
    <3>1. Addr(k) \in renew
      BY <2>4 DEF Superfluous
    <3>2. k.dad
      BY <2>1, <2>4, <3>1
    <3> QED BY <1>2, <2>4, <3>2 DEF Base, Regular, WantedAddress
  <2> QED BY <2>2, <2>3, <2>4 DEF KeptAddress, KeptBy
<1>8. \A k \in kernel.addrs : Stays(k) \/ OnDump(k)'
  <2> SUFFICES ASSUME NEW k \in kernel.addrs, ~ Stays(k)
               PROVE  k \in dump /\ Superfluous(k)
    BY <1>6
  <2>1. k \in dump
    <3>1. SUFFICES ASSUME k \notin dump PROVE FALSE
      OBVIOUS
    <3>2. PICK m \in 1 .. i - 1 : Addr(k) = config.addresses[m]
      BY <1>0, <1>2, <3>1 DEF Comparing
    <3>3. Addr(k) \in WantedAddress
      BY <1>2, <1>3, <3>2, AddrFacts
    <3> QED BY <3>3 DEF Stays
  <2> QED BY <2>1 DEF Stays, Superfluous
<1>9. \A a \in WantedAddress : a \in ToSet(add) \/ RightAddress(a)
  <2> SUFFICES ASSUME NEW a \in WantedAddress, a \notin ToSet(add)
               PROVE  \E k \in kernel.addrs : Addr(k) = a /\ ~ k.dad
    BY DEF RightAddress
  <2>1. PICK m \in 1 .. Len(config.addresses) : a = config.addresses[m]
    BY <1>2, AddrFacts
  <2>2. PICK k \in kernel.addrs \ dump : Addr(k) = a
    BY <1>0, <1>2, <1>3, <2>1 DEF Comparing
  <2>3. ~ k.dad
    BY <1>0, <1>2, <2>2 DEF Comparing
  <2> QED BY <2>2, <2>3
<1>10. \A a \in ToSet(add), k \in kernel.addrs : Clashes(k, a) => RightAddress(a) \/ OnDump(k)'
  <2> SUFFICES ASSUME NEW a \in ToSet(add), NEW k \in kernel.addrs, Clashes(k, a)
               PROVE  RightAddress(a) \/ OnDump(k)'
    OBVIOUS
  <2>1. k \in dump /\ Addr(k) \in renew
    BY <1>0, <1>2 DEF Comparing
  <2>2. CASE IgnoreDynamic /\ k.dyn
    BY <2>2 DEF RightAddress, ByOtherMeans
  <2>3. CASE ~ (IgnoreDynamic /\ k.dyn)
    <3>1. IgnoreDynamic \in BOOLEAN
      BY ConstantsAssumption
    <3> QED BY <1>6, <2>1, <2>3, <3>1 DEF Superfluous
  <2> QED BY <2>2, <2>3
<1>11. Changing'
  BY <1>0, <1>3, <1>4, <1>7, <1>8, <1>9, <1>10, SameWorld DEF Changing
<1>12. AddrInv'
  BY <1>0, <1>11 DEF AddrInv, Comparing, LaterPC
<1> QED BY <1>0, <1>1, <1>12, NotBegun DEF IInv, LaterPC

\* What `ip addr del' leaves: an entry has the address of an entry of before, and its
\* flags but for being secondary; others are gone only where there is no promotion.
LEMMA RemovedFacts ==
  ASSUME Base, NEW x, NEW A \in Removed(x)
  PROVE  /\ A \in SUBSET KernelAddress
         /\ \A l \in A : \E k \in kernel.addrs :
              /\ Addr(k) = Addr(l) /\ Addr(k) # x /\ k.ip = l.ip /\ k.net = l.net
              /\ k.dyn = l.dyn /\ k.dad = l.dad
              /\ k = l \/ kernel.promote
         /\ \A l, m \in A : Addr(l) = Addr(m) => l = m
         /\ \A k \in kernel.addrs :
              \/ Addr(k) = x
              \/ \E l \in A : Addr(l) = Addr(k) /\ l.dad = k.dad /\ l.dyn = k.dyn /\ l.ip = k.ip /\ l.net = k.net
              \/ ~ kernel.promote /\ k.sec /\ \E g \in kernel.addrs : Addr(g) = x /\ ~ g.sec /\ k.net = g.net
<1> DEFINE gone == {k \in kernel.addrs : Addr(k) = x}
           rest == kernel.addrs \ gone
           sec  == {k \in rest : k.sec /\ k.net = x.net /\ \E g \in gone : ~ g.sec}
<1>1. kernel.addrs \subseteq KernelAddress /\ \A k, l \in kernel.addrs : Addr(k) = Addr(l) => k = l
  BY AddrFacts
<1>2. \A k : k \in rest <=> k \in kernel.addrs /\ Addr(k) # x
  OBVIOUS
<1>3. \A k \in sec : k.sec /\ k \in rest /\ \E g \in kernel.addrs : Addr(g) = x /\ ~ g.sec /\ k.net = g.net
  BY DEF Addr
<1>4. CASE sec = {}
  <2>1. A = rest
    BY <1>4 DEF Removed
  <2> HIDE DEF rest, sec, gone
  <2> QED BY <1>1, <1>2, <2>1
<1>5. CASE sec # {} /\ ~ kernel.promote
  <2>1. A = rest \ sec
    BY <1>5 DEF Removed
  <2> HIDE DEF rest, sec, gone
  <2> QED BY <1>1, <1>2, <1>3, <1>5, <2>1
<1>6. CASE sec # {} /\ kernel.promote
  <2>1. PICK s \in sec : A = (rest \ {s}) \cup {[s EXCEPT !.sec = FALSE]}
    BY <1>6 DEF Removed
  <2>2. s \in rest /\ s \in kernel.addrs /\ s \in KernelAddress /\ Addr(s) # x
    BY <1>1, <1>2, <1>3
  <2>3. PICK t : t = [s EXCEPT !.sec = FALSE]
    OBVIOUS
  <2>4. /\ t \in KernelAddress /\ t.ip = s.ip /\ t.net = s.net /\ t.dyn = s.dyn /\ t.dad = s.dad
        /\ Addr(t) = Addr(s)
    BY <2>2, <2>3 DEF KernelAddress, Addr
  <2>5. A = (rest \ {s}) \cup {t}
    BY <2>1, <2>3
  <2> HIDE DEF rest, sec, gone
  <2>6. A \in SUBSET KernelAddress
    BY <1>1, <1>2, <2>4, <2>5
  <2>7. \A l \in A : \E k \in kernel.addrs :
          /\ Addr(k) = Addr(l) /\ Addr(k) # x /\ k.ip = l.ip /\ k.net = l.net
          /\ k.dyn = l.dyn /\ k.dad = l.dad
          /\ k = l \/ kernel.promote
    BY <1>2, <1>6, <2>2, <2>4, <2>5
  <2>8. \A l, m \in A : Addr(l) = Addr(m) => l = m
    BY <1>1, <1>2, <2>2, <2>4, <2>5
  <2>9. ASSUME NEW k \in kernel.addrs, Addr(k) # x
        PROVE  \E l \in A : Addr(l) = Addr(k) /\ l.dad = k.dad /\ l.dyn = k.dyn /\ l.ip = k.ip /\ l.net = k.net
    BY <1>2, <2>4, <2>5, <2>9
  <2> QED BY <2>6, <2>7, <2>8, <2>9
<1> QED BY <1>4, <1>5, <1>6

\* What is right is still there when an address is deleted that is not.
LEMMA Survives ==
  ASSUME Base, NEW x, NEW A \in Removed(x), \A g \in kernel.addrs : Addr(g) = x => ~ KeptAddress(g),
         NEW k \in kernel.addrs, KeptAddress(k)
  PROVE  \E l \in A : Addr(l) = Addr(k) /\ l.dad = k.dad /\ l.dyn = k.dyn /\ l.ip = k.ip /\ l.net = k.net
<1>1. SUFFICES ASSUME ~ kernel.promote, k.sec,
                      NEW g \in kernel.addrs, Addr(g) = x, ~ g.sec, k.net = g.net
               PROVE  FALSE
  BY RemovedFacts
<1>2. Separate(config, kernel)
  BY <1>1 DEF Base, Regular
<1>3. KeptAddress(g)
  BY <1>1, <1>2 DEF Separate, KeptAddress, WantedAddress
<1> QED BY <1>1, <1>3

\* the kernel after an address was deleted is one a run can meet
LEMMA RemovedBase ==
  ASSUME Base, NEW x, NEW A \in Removed(x), kernel' = [kernel EXCEPT !.addrs = A]
  PROVE  KernelBase(config, kernel') /\ kernel'.addrs = A /\ kernel'.promote = kernel.promote
<1>1. kernel \in KernelState /\ A \in SUBSET KernelAddress
  BY RemovedFacts DEF Base, TypeOK
<1>2. /\ kernel' \in KernelState /\ kernel'.addrs = A
      /\ kernel'.promote = kernel.promote /\ kernel'.fdb = kernel.fdb
      /\ kernel'.neigh = kernel.neigh /\ kernel'.peers = kernel.peers
  BY <1>1, SetAddrs
<1>3. \A l, m \in A : Clashes(l, m) => l = m
  <2> SUFFICES ASSUME NEW l \in A, NEW m \in A, Clashes(l, m) PROVE l = m
    OBVIOUS
  <2>1. PICK k \in kernel.addrs : Addr(k) = Addr(l) /\ k.ip = l.ip /\ k.net = l.net
    BY RemovedFacts
  <2>2. PICK j \in kernel.addrs : Addr(j) = Addr(m) /\ j.ip = m.ip /\ j.net = m.net
    BY RemovedFacts
  <2>3. Clashes(k, j)
    BY <2>1, <2>2 DEF Clashes
  <2>4. k = j
    BY <2>3, AddrFacts
  <2>5. \A u, v \in A : Addr(u) = Addr(v) => u = v
    BY RemovedFacts
  <2> QED BY <2>1, <2>2, <2>4, <2>5
<1>4. \A l \in A : l.ip \in IgnoredIp /\ l.dad => \E a \in ToSet(config.addresses) : a.ip = l.ip
  BY RemovedFacts DEF Base, Regular
<1>5. kernel.promote \/ Separate(config, kernel')
  <2> SUFFICES ASSUME ~ kernel.promote PROVE Separate(config, kernel')
    OBVIOUS
  <2>1. A \subseteq kernel.addrs
    BY RemovedFacts
  <2>2. Separate(config, kernel)
    BY DEF Base, Regular
  <2> QED BY <1>2, <2>1, <2>2 DEF Separate
<1> QED BY <1>2, <1>3, <1>4, <1>5, KernelBaseNow, CoherentParts

LEMMA DeleteAddressKeeps ==
  ASSUME IInv, DeleteAddress
  PROVE  IInv'
<1>0. /\ pc = "deladdr" /\ pc' = pc /\ i' = i /\ add' = add /\ config' = config
      /\ NoFailure \/ Failure
  BY DEF DeleteAddress, world
<1>1. PICK k \in dump :
        /\ dump' = dump \ {k}
        /\ \/ \E A \in Removed(Addr(k)) : kernel' = [kernel EXCEPT !.addrs = A]
              /\ NoFailure
           \/ kernel' = kernel /\ Failure
  BY DEF DeleteAddress
<1>2. Base /\ Changing
  BY DEF IInv, AddrInv
<1>3. /\ left' \in Nat /\ (left = 0 => left' = 0)
      /\ ~ failed' => ~ failed /\ NoFailure
      /\ Failure => failed' /\ kernel.promote
      /\ kernel'.promote = kernel.promote => (Sure' => Sure /\ NoFailure)
  BY <1>0, <1>2, Calls
<1>4. /\ add \in Seq(WantedAddress)
      /\ \A l \in kernel.addrs : OnDump(l) => ~ KeptAddress(l)
  BY <1>0, <1>2 DEF Changing
<1>5. /\ WantedAddress' = WantedAddress
      /\ ToSet(add) \subseteq WantedAddress
  BY <1>0, <1>4 DEF WantedAddress, ToSet
<1>6. CASE kernel' = kernel /\ Failure
  <2>1. Base'
    BY <1>0, <1>2, <1>3, <1>6, BaseKept, KernelBaseNow DEF Base, PC, TypeOK
  <2>2. SameAddrs /\ ~ Sure'
    BY <1>3, <1>6 DEF SameAddrs, Sure
  <2>3. \A l : OnDump(l)' => OnDump(l)
    BY <1>1 DEF OnDump
  <2>4. Changing'
    BY <1>0, <1>4, <1>5, <1>6, <2>2, <2>3, SameWorld DEF Changing
  <2>5. AddrInv'
    BY <1>0, <2>4 DEF AddrInv, Comparing, LaterPC
  <2> QED BY <1>0, <2>1, <2>5, NotBegun DEF IInv, LaterPC
<1>7. ASSUME NEW A \in Removed(Addr(k)), kernel' = [kernel EXCEPT !.addrs = A], NoFailure
      PROVE  IInv'
  <2>1. KernelBase(config, kernel') /\ kernel'.addrs = A /\ kernel'.promote = kernel.promote
    BY <1>2, <1>7, RemovedBase
  <2>2. Base'
    BY <1>0, <1>2, <1>3, <2>1, BaseKept DEF Base, PC, TypeOK
  <2>3. \A g \in kernel.addrs : Addr(g) = Addr(k) => ~ KeptAddress(g)
    BY <1>1, <1>4 DEF OnDump
  <2>4. \A j \in kernel.addrs : KeptAddress(j) =>
          \E l \in A : Addr(l) = Addr(j) /\ l.dad = j.dad /\ l.dyn = j.dyn /\ l.ip = j.ip /\ l.net = j.net
    BY <1>2, <2>3, Survives
  <2>5. ASSUME NEW l \in A
        PROVE  \E j \in kernel.addrs :
                 /\ Addr(j) = Addr(l) /\ Addr(j) # Addr(k) /\ j.ip = l.ip /\ j.net = l.net
                 /\ j.dyn = l.dyn /\ j.dad = l.dad
                 /\ OnDump(j) <=> OnDump(l)'
                 /\ KeptAddress(j) <=> KeptAddress(l)'
                 /\ Stays(j) <=> Stays(l)'
                 /\ \A a : Clashes(j, a) <=> Clashes(l, a)
    <3>1. PICK j \in kernel.addrs :
            /\ Addr(j) = Addr(l) /\ Addr(j) # Addr(k) /\ j.ip = l.ip /\ j.net = l.net
            /\ j.dyn = l.dyn /\ j.dad = l.dad
      BY <1>2, RemovedFacts
    <3>2. OnDump(j) <=> OnDump(l)'
      BY <1>1, <3>1 DEF OnDump
    <3>3. KeptAddress(j) <=> KeptAddress(l)'
      BY <1>5, <3>1 DEF KeptAddress, KeptBy
    <3>4. Stays(j) <=> Stays(l)'
      BY <1>5, <3>1 DEF Stays
    <3>5. \A a : Clashes(j, a) <=> Clashes(l, a)
      BY <3>1 DEF Clashes
    <3> QED BY <3>1, <3>2, <3>3, <3>4, <3>5
  <2>6. \A l \in A : OnDump(l)' => ~ KeptAddress(l)'
    BY <1>4, <2>5
  <2>7. ASSUME NEW a \in WantedAddress, RightAddress(a)
        PROVE  RightAddress(a)'
    <3>1. CASE ByOtherMeans(a)
      <4>1. PICK j \in kernel.addrs : IgnoreDynamic /\ j.dyn /\ Clashes(j, a)
        BY <3>1 DEF ByOtherMeans
      <4>2. KeptAddress(j)
        BY <4>1 DEF KeptAddress, KeptBy
      <4>3. PICK l \in A : l.dyn = j.dyn /\ l.ip = j.ip /\ l.net = j.net
        BY <2>4, <4>2
      <4>4. l.dyn /\ Clashes(l, a)
        BY <4>1, <4>3 DEF Clashes
      <4> QED BY <2>1, <4>1, <4>4 DEF RightAddress, ByOtherMeans
    <3>2. CASE \E j \in kernel.addrs : Addr(j) = a /\ ~ j.dad
      <4>1. PICK j \in kernel.addrs : Addr(j) = a /\ ~ j.dad
        BY <3>2
      <4>2. KeptAddress(j)
        BY <4>1, <2>7 DEF KeptAddress, KeptBy
      <4> QED BY <2>1, <2>4, <4>1, <4>2 DEF RightAddress
    <3> QED BY <2>7, <3>1, <3>2 DEF RightAddress
  <2>8. ASSUME Sure'
        PROVE  /\ \A l \in A : Stays(l)' \/ OnDump(l)'
               /\ \A a \in WantedAddress : a \in ToSet(add) \/ RightAddress(a)'
               /\ \A a \in ToSet(add), l \in A : Clashes(l, a) => RightAddress(a)' \/ OnDump(l)'
    <3>1. Sure
      BY <1>3, <2>1, <2>8
    <3>2. /\ \A j \in kernel.addrs : Stays(j) \/ OnDump(j)
          /\ \A a \in WantedAddress : a \in ToSet(add) \/ RightAddress(a)
          /\ \A a \in ToSet(add), j \in kernel.addrs : Clashes(j, a) => RightAddress(a) \/ OnDump(j)
      BY <1>0, <1>2, <3>1 DEF Changing
    <3>3. \A l \in A : Stays(l)' \/ OnDump(l)'
      BY <2>5, <3>2
    <3>4. \A a \in WantedAddress : a \in ToSet(add) \/ RightAddress(a)'
      BY <2>7, <3>2
    <3>5. \A a \in ToSet(add), l \in A : Clashes(l, a) => RightAddress(a)' \/ OnDump(l)'
      BY <1>5, <2>5, <2>7, <3>2
    <3> QED BY <3>3, <3>4, <3>5
  <2>9. Changing'
    BY <1>0, <1>4, <1>5, <2>1, <2>6, <2>8 DEF Changing
  <2>10. AddrInv'
    BY <1>0, <2>9 DEF AddrInv, Comparing, LaterPC
  <2> QED BY <1>0, <2>2, <2>10, NotBegun DEF IInv, LaterPC
<1> QED BY <1>1, <1>6, <1>7

LEMMA AddAddressesKeeps ==
  ASSUME IInv, AddAddresses
  PROVE  IInv'
<1>0. /\ pc = "deladdr" /\ dump = {} /\ pc' = "addaddr"
      /\ kernel' = kernel /\ config' = config /\ i' = i /\ dump' = dump /\ add' = add
      /\ left' = left /\ failed' = failed
  BY DEF AddAddresses, world
<1>1. Base'
  BY <1>0, BaseKept, KernelBaseNow DEF IInv, PC, Base, TypeOK
<1>2. SameAddrs /\ Changing /\ (Sure' <=> Sure) /\ \A k : OnDump(k)' <=> OnDump(k)
  BY <1>0 DEF SameAddrs, IInv, AddrInv, Sure, OnDump
<1>3. Changing'
  BY <1>0, <1>2, SameWorld DEF Changing
<1>4. AddrInv'
  BY <1>0, <1>3 DEF AddrInv, Comparing, LaterPC
<1> QED BY <1>0, <1>1, <1>4, NotBegun DEF IInv, LaterPC

\* When all deletions are made, what the kernel has is right, or another address has
\* its place.
LEMMA AllDeleted ==
  ASSUME Base, Changing, pc = "addaddr", Sure, NEW k \in kernel.addrs
  PROVE  KeptAddress(k) \/ k.ip \in IgnoredIp
<1>1. \A x : ~ OnDump(x)
  BY DEF Changing, OnDump
<1>2. Stays(k)
  BY <1>1 DEF Changing
<1>3. CASE Addr(k) \in WantedAddress
  <2>1. RightAddress(Addr(k))
    <3>1. CASE Addr(k) \in ToSet(add)
      <4>1. Clashes(k, Addr(k))
        BY AddrFacts DEF Clashes
      <4> QED BY <1>1, <3>1, <4>1 DEF Changing
    <3> QED BY <1>3, <3>1 DEF Changing
  <2>2. CASE ByOtherMeans(Addr(k))
    <3>1. PICK j \in kernel.addrs : IgnoreDynamic /\ j.dyn /\ Clashes(j, Addr(k))
      BY <2>2 DEF ByOtherMeans
    <3>2. Clashes(j, k)
      BY <3>1, AddrFacts DEF Clashes
    <3>3. j = k
      BY <3>2, AddrFacts
    <3> QED BY <3>1, <3>3 DEF KeptAddress, KeptBy
  <2>3. CASE \E j \in kernel.addrs : Addr(j) = Addr(k) /\ ~ j.dad
    BY <1>3, <2>3, AddrFacts DEF KeptAddress, KeptBy
  <2> QED BY <2>1, <2>2, <2>3 DEF RightAddress
<1>4. CASE IgnoreDynamic /\ k.dyn
  BY <1>4 DEF KeptAddress, KeptBy
<1> QED BY <1>2, <1>3, <1>4 DEF Stays

\* the kernel after an address was added is one a run can meet
LEMMA AddedBase ==
  ASSUME Base, Changing, pc = "addaddr", NEW a \in WantedAddress, ~ AddressTaken(a),
         kernel' = [kernel EXCEPT !.addrs = Added(a)]
  PROVE  /\ KernelBase(config, kernel') /\ kernel'.promote = kernel.promote
         /\ \E n \in KernelAddress : /\ kernel'.addrs = kernel.addrs \cup {n} /\ n.ip = a.ip /\ n.net = a.net
                                     /\ Addr(n) = a /\ ~ n.dad /\ ~ n.dyn
<1>1. PICK n : n = [ip |-> a.ip, net |-> a.net, dyn |-> FALSE, dad |-> FALSE,
                    sec |-> a.ip \notin V6 /\ \E k \in kernel.addrs : k.net = a.net /\ ~ k.sec]
  OBVIOUS
<1>2. a \in Address /\ a.ip \in Ip /\ a.net \in Net
  BY AddrFacts DEF Address
<1>3. (a.ip \notin V6 /\ \E k \in kernel.addrs : k.net = a.net /\ ~ k.sec) \in BOOLEAN
  OBVIOUS
<1>4. n \in KernelAddress /\ n.ip = a.ip /\ n.net = a.net /\ ~ n.dad /\ ~ n.dyn
  BY <1>1, <1>2, <1>3 DEF KernelAddress
<1>5. Addr(n) = a
  BY <1>2, <1>4 DEF Addr, Address
<1>6. Added(a) = kernel.addrs \cup {n}
  BY <1>1 DEF Added
<1>7. kernel.addrs \cup {n} \in SUBSET KernelAddress
  BY <1>4, AddrFacts
<1>8. /\ kernel' \in KernelState /\ kernel'.addrs = kernel.addrs \cup {n}
      /\ kernel'.promote = kernel.promote /\ kernel'.fdb = kernel.fdb
      /\ kernel'.neigh = kernel.neigh /\ kernel'.peers = kernel.peers
  <2>1. kernel' = [kernel EXCEPT !.addrs = kernel.addrs \cup {n}] /\ kernel \in KernelState
    BY <1>6 DEF Base, TypeOK
  <2> QED BY <1>7, <2>1, SetAddrs
<1>9. \A k \in kernel.addrs : ~ Clashes(k, n) /\ ~ Clashes(n, k)
  BY <1>4 DEF AddressTaken, Clashes
<1>10. \A k, l \in kernel'.addrs : Clashes(k, l) => k = l
  BY <1>8, <1>9, AddrFacts
<1>11. \A k \in kernel'.addrs : k.ip \in IgnoredIp /\ k.dad => \E b \in ToSet(config.addresses) : b.ip = k.ip
  BY <1>4, <1>8 DEF Base, Regular
<1>12. kernel.promote \/ Separate(config, kernel')
  <2> SUFFICES ASSUME ~ kernel.promote PROVE Separate(config, kernel')
    OBVIOUS
  <2>1. Separate(config, kernel) /\ Sure
    BY DEF Base, Regular, Sure
  <2>2. \A k \in kernel.addrs : KeptBy(WantedAddress, k)
    <3> SUFFICES ASSUME NEW k \in kernel.addrs PROVE KeptBy(WantedAddress, k)
      OBVIOUS
    <3>1. KeptAddress(k) \/ k.ip \in IgnoredIp
      BY <2>1, AllDeleted
    <3> QED BY <2>1, <3>1 DEF Separate, WantedAddress, KeptAddress
  <2>3. KeptBy(WantedAddress, n)
    BY <1>4, <1>5 DEF KeptBy
  <2> QED BY <1>8, <2>2, <2>3 DEF Separate, WantedAddress
<1>13. KernelBase(config, kernel')
  BY <1>8, <1>10, <1>11, <1>12, KernelBaseNow, CoherentParts
<1> QED BY <1>4, <1>5, <1>8, <1>13

LEMMA AddAddressKeeps ==
  ASSUME IInv, AddAddress
  PROVE  IInv'
<1>0. /\ pc = "addaddr" /\ pc' = pc /\ i' = i /\ add # <<>> /\ add' = Tail(add)
      /\ dump' = dump /\ config' = config
      /\ NoFailure \/ Failure
  BY DEF AddAddress, world
<1>1. PICK a : a = Head(add)
  OBVIOUS
<1>2. Base /\ Changing
  BY DEF IInv, AddrInv
<1>3. /\ left' \in Nat /\ (left = 0 => left' = 0)
      /\ ~ failed' => ~ failed /\ NoFailure
      /\ Failure => failed' /\ kernel.promote
      /\ kernel'.promote = kernel.promote => (Sure' => Sure /\ NoFailure)
  BY <1>0, <1>2, Calls
<1>4. PICK rest : rest = Tail(add)
  OBVIOUS
<1>5. /\ add \in Seq(WantedAddress) /\ rest \in Seq(WantedAddress) /\ a \in WantedAddress
      /\ ToSet(add) = ToSet(rest) \cup {a} /\ add' = rest
  BY <1>0, <1>1, <1>2, <1>4, TailSet DEF Changing
<1>6. /\ WantedAddress' = WantedAddress /\ ToSet(rest) \subseteq WantedAddress
      /\ dump = {} /\ \A k : ~ OnDump(k) /\ ~ OnDump(k)'
  <2>1. dump = {} /\ dump' = {}
    BY <1>0, <1>2 DEF Changing
  <2> QED BY <1>0, <1>5, <2>1 DEF WantedAddress, ToSet, OnDump
<1>7. CASE kernel' = kernel /\ (Failure \/ AddressTaken(a))
  <2>1. Base'
    BY <1>0, <1>2, <1>3, <1>7, BaseKept, KernelBaseNow DEF Base, PC, TypeOK
  <2>2. SameAddrs
    BY <1>7 DEF SameAddrs
  <2>3. Sure' => Sure /\ AddressTaken(a)
    <3>1. Failure => ~ Sure'
      BY <1>3, <1>7 DEF Sure
    <3> QED BY <1>3, <1>7, <3>1
  <2>4. ASSUME Sure'
        PROVE  /\ \A k \in kernel.addrs : Stays(k)
               /\ \A b \in WantedAddress : b \in ToSet(rest) \/ RightAddress(b)
               /\ \A b \in ToSet(rest), k \in kernel.addrs : Clashes(k, b) => RightAddress(b)
    <3>1. /\ \A k \in kernel.addrs : Stays(k)
          /\ \A b \in WantedAddress : b \in ToSet(add) \/ RightAddress(b)
          /\ \A b \in ToSet(add), k \in kernel.addrs : Clashes(k, b) => RightAddress(b)
      BY <1>0, <1>2, <1>6, <2>3, <2>4 DEF Changing
    <3>2. RightAddress(a)
      BY <1>5, <2>3, <2>4, <3>1 DEF AddressTaken
    <3> QED BY <1>5, <3>1, <3>2
  <2>5. Changing'
    BY <1>0, <1>5, <1>6, <1>7, <2>2, <2>4, SameWorld DEF Changing
  <2>6. AddrInv'
    BY <1>0, <2>5 DEF AddrInv, Comparing, LaterPC
  <2> QED BY <1>0, <2>1, <2>6, NotBegun DEF IInv, LaterPC
<1>8. CASE ~ AddressTaken(a) /\ kernel' = [kernel EXCEPT !.addrs = Added(a)]
  <2>1. KernelBase(config, kernel') /\ kernel'.promote = kernel.promote
    BY <1>0, <1>2, <1>5, <1>8, AddedBase
  <2>2. PICK n \in KernelAddress : /\ kernel'.addrs = kernel.addrs \cup {n} /\ n.ip = a.ip /\ n.net = a.net
                                   /\ Addr(n) = a /\ ~ n.dad /\ ~ n.dyn
    BY <1>0, <1>2, <1>5, <1>8, AddedBase
  <2>3. Base'
    BY <1>0, <1>2, <1>3, <2>1, BaseKept DEF Base, PC, TypeOK
  <2>4. \A b \in WantedAddress : RightAddress(b) \/ b = a => RightAddress(b)'
    BY <1>5, <2>2 DEF RightAddress, ByOtherMeans
  <2>5. \A k : Stays(k)' <=> Stays(k)
    BY <1>6 DEF Stays
  <2>6. Stays(n)
    BY <1>5, <2>2 DEF Stays
  <2>7. \A b \in WantedAddress : Clashes(n, b) => b = a
    BY <1>2, <1>5, <2>2, AddrFacts DEF Clashes
  <2>8. ASSUME Sure'
        PROVE  /\ \A k \in kernel'.addrs : Stays(k)'
               /\ \A b \in WantedAddress : b \in ToSet(rest) \/ RightAddress(b)'
               /\ \A b \in ToSet(rest), k \in kernel'.addrs : Clashes(k, b) => RightAddress(b)'
    <3>1. Sure
      BY <1>3, <2>1, <2>8
    <3>2. /\ \A k \in kernel.addrs : Stays(k)
          /\ \A b \in WantedAddress : b \in ToSet(add) \/ RightAddress(b)
          /\ \A b \in ToSet(add), k \in kernel.addrs : Clashes(k, b) => RightAddress(b)
      BY <1>0, <1>2, <1>6, <3>1 DEF Changing
    <3> QED BY <1>5, <1>6, <2>2, <2>4, <2>5, <2>6, <2>7, <3>2
  <2>9. Changing'
    BY <1>0, <1>5, <1>6, <2>8 DEF Changing
  <2>10. AddrInv'
    BY <1>0, <2>9 DEF AddrInv, Comparing, LaterPC
  <2> QED BY <1>0, <2>3, <2>10, NotBegun DEF IInv, LaterPC
<1> QED BY <1>1, <1>7, <1>8 DEF AddAddress

-----------------------------------------------------------------------------
(* The forwarding database                                                 *)

\* The entries that are configured, with their states.
LEMMA FdbFacts ==
  ASSUME Base
  PROVE  /\ config.fdb \in Seq(FdbWish) /\ Len(config.fdb) \in Nat
         /\ WantedFdb = {WithDefault(config.fdb[m]) : m \in 1 .. Len(config.fdb)}
         /\ WantedFdb \subseteq [mac : Mac, dst : Dst, st : FdbState]
         /\ kernel.fdb \subseteq FdbEntry
         /\ \A w \in WantedFdb : w \in FdbEntry /\ w.st # Learned /\ w.mac # LinkMac
         /\ \A v, w \in WantedFdb : v.mac = w.mac => v.st = w.st /\ (v.mac \in Several \/ v.dst = w.dst)
         /\ \A w \in WantedFdb, e \in kernel.fdb : e.mac = w.mac => w.mac \in Several \/ e.dst = w.dst
         /\ \A e, f \in kernel.fdb : e.mac = f.mac => e.st = f.st
         /\ \A w \in WantedFdb : \E v \in ToSet(config.fdb) : v.mac = w.mac /\ v.dst = w.dst
         /\ \A v \in ToSet(config.fdb) : \E w \in WantedFdb : v.mac = w.mac /\ v.dst = w.dst
<1>1. config.fdb \in Seq(FdbWish) /\ kernel.fdb \subseteq FdbEntry
  BY DEF Base, TypeOK, KernelState, Configuration
<1>2. DOMAIN config.fdb = 1 .. Len(config.fdb) /\ Len(config.fdb) \in Nat
  BY <1>1
<1>3. WantedFdb = {WithDefault(config.fdb[m]) : m \in 1 .. Len(config.fdb)}
  BY <1>2 DEF WantedFdb, ToSet
<1>4. \A v \in FdbWish : /\ WithDefault(v) \in [mac : Mac, dst : Dst, st : FdbState]
                         /\ WithDefault(v).mac = v.mac /\ WithDefault(v).dst = v.dst
  <2> SUFFICES ASSUME NEW v \in FdbWish
               PROVE  /\ WithDefault(v) \in [mac : Mac, dst : Dst, st : FdbState]
                      /\ WithDefault(v).mac = v.mac /\ WithDefault(v).dst = v.dst
    OBVIOUS
  <2>1. v.mac \in Mac /\ v.dst \in Dst /\ v.st \in FdbState \cup {None}
    BY DEF FdbWish
  <2>2. PICK st : st = IF v.st = None THEN DefaultState ELSE v.st
    OBVIOUS
  <2>3. st \in FdbState
    BY <2>1, <2>2, ConstantsAssumption
  <2>4. WithDefault(v) = [mac |-> v.mac, dst |-> v.dst, st |-> st]
    BY <2>2 DEF WithDefault, FdbWish
  <2> QED BY <2>1, <2>3, <2>4
<1>5. \A m \in 1 .. Len(config.fdb) : config.fdb[m] \in FdbWish
  BY <1>1
<1>6. WantedFdb \subseteq [mac : Mac, dst : Dst, st : FdbState]
  BY <1>3, <1>4, <1>5
<1>7. \A w \in WantedFdb : w \in FdbEntry /\ w.st # Learned
  BY <1>6, ConstantsAssumption DEF FdbEntry
<1>8. \A w \in WantedFdb : w.mac # LinkMac
  BY <1>2, <1>3, <1>4, <1>5 DEF Base, Distinct
<1>9. \A v, w \in WantedFdb : v.mac = w.mac => v.st = w.st /\ (v.mac \in Several \/ v.dst = w.dst)
  BY <1>2, <1>3, <1>4, <1>5 DEF Base, Distinct
<1>10. \A v \in ToSet(config.fdb) : v \in FdbWish /\ \E w \in WantedFdb : v.mac = w.mac /\ v.dst = w.dst
  BY <1>2, <1>3, <1>4, <1>5 DEF ToSet
<1>11. \A w \in WantedFdb : \E v \in ToSet(config.fdb) : v.mac = w.mac /\ v.dst = w.dst
  BY <1>4, <1>10 DEF WantedFdb
<1>12. \A w \in WantedFdb, e \in kernel.fdb : e.mac = w.mac => w.mac \in Several \/ e.dst = w.dst
  <2>1. \A v \in ToSet(config.fdb), e \in kernel.fdb : e.mac = v.mac => v.mac \in Several \/ e.dst = v.dst
    BY DEF Base, Regular
  <2> QED BY <1>11, <2>1
<1>13. \A e, f \in kernel.fdb : e.mac = f.mac => e.st = f.st
  BY DEF Base, TypeOK, Coherent
<1> QED BY <1>1, <1>2, <1>3, <1>6, <1>7, <1>8, <1>9, <1>10, <1>11, <1>12, <1>13

\* What `bridge fdb append' makes of the entries: the new one is there, and what is as
\* configured, or of another address, still is.
LEMMA AppendedFacts ==
  ASSUME Base, NEW w \in WantedFdb
  PROVE  /\ Appended(w) \in SUBSET FdbEntry /\ w \in Appended(w)
         /\ \A e, f \in Appended(w) : e.mac = f.mac => e.st = f.st
         /\ \A v \in WantedFdb, e \in Appended(w) : e.mac = v.mac => v.mac \in Several \/ e.dst = v.dst
         /\ \A e \in kernel.fdb : KeptFdb(e) => e \in Appended(w)
<1>1. w \in FdbEntry /\ w.mac # LinkMac /\ kernel.fdb \subseteq FdbEntry
  BY FdbFacts
<1> DEFINE same == {e \in kernel.fdb : e.mac = w.mac}
           old  == {[e EXCEPT !.st = w.st] : e \in same}
<1>2. \A e \in same : LET o == [e EXCEPT !.st = w.st] IN
        o \in FdbEntry /\ o.mac = w.mac /\ o.dst = e.dst /\ o.st = w.st /\ (e.st = w.st => o = e)
  BY <1>1 DEF FdbEntry
<1>3. \A e : e \in Appended(w) <=> \/ e \in kernel.fdb /\ e.mac # w.mac
                                   \/ e \in old
                                   \/ e = w /\ (same = {} \/ w.mac \in Several)
  BY DEF Appended
<1>4. \A o \in old : o \in FdbEntry /\ o.mac = w.mac /\ o.st = w.st /\ \E e \in same : o.dst = e.dst
  BY <1>2
<1>5. \A e \in same : e.st = w.st => e \in old
  BY <1>2
<1>6. w \in Appended(w)
  <2>1. SUFFICES ASSUME same # {}, w.mac \notin Several PROVE w \in old
    BY <1>3
  <2>2. PICK e \in kernel.fdb : e.mac = w.mac
    BY <2>1
  <2>3. e.dst = w.dst
    BY <2>1, <2>2, FdbFacts
  <2>4. [e EXCEPT !.st = w.st] = w
    BY <1>1, <2>2, <2>3 DEF FdbEntry
  <2> QED BY <2>2, <2>4
<1>7. same \subseteq kernel.fdb /\ \A e \in same : e.mac = w.mac
  OBVIOUS
<1>8. \A e \in kernel.fdb : e.mac = w.mac => e \in same
  OBVIOUS
<1> HIDE DEF same, old
<1>9. Appended(w) \in SUBSET FdbEntry
  BY <1>1, <1>3, <1>4
<1>10. \A e, f \in Appended(w) : e.mac = f.mac => e.st = f.st
  BY <1>3, <1>4, FdbFacts
<1>11. \A v \in WantedFdb, e \in Appended(w) : e.mac = v.mac => v.mac \in Several \/ e.dst = v.dst
  BY <1>3, <1>4, <1>7, FdbFacts
<1>12. ASSUME NEW e \in kernel.fdb, KeptFdb(e)
       PROVE  e \in Appended(w)
  <2>1. CASE e.mac # w.mac
    BY <1>3, <2>1
  <2>2. CASE e.mac = w.mac
    <3>1. e \in WantedFdb
      BY <1>1, <1>12, <2>2 DEF KeptFdb
    <3>2. e.st = w.st
      BY <2>2, <3>1, FdbFacts
    <3> QED BY <1>3, <1>5, <1>8, <2>2, <3>2
  <2> QED BY <2>1, <2>2
<1> QED BY <1>6, <1>9, <1>10, <1>11, <1>12

LEMMA BeginFdbKeeps ==
  ASSUME IInv, BeginFdb
  PROVE  IInv'
<1>0. /\ pc = "addaddr" /\ add = <<>> /\ pc' = "fdb" /\ i' = 1 /\ dump' = StaticFdb
      /\ kernel' = kernel /\ config' = config /\ left' = left /\ failed' = failed
  BY DEF BeginFdb, world
<1>1. Base'
  BY <1>0, BaseKept, KernelBaseNow DEF IInv, PC, Base, TypeOK
<1>2. Base /\ Changing
  BY DEF IInv, AddrInv
<1>3. ~ failed => AddressesRight
  <2> SUFFICES ASSUME ~ failed PROVE AddressesRight
    OBVIOUS
  <2>1. Sure /\ ToSet(add) = {} /\ \A k : ~ OnDump(k)
    BY <1>0, <1>2, EmptySet DEF Sure, Changing, OnDump
  <2>2. (\A k \in kernel.addrs : Stays(k)) /\ \A a \in WantedAddress : RightAddress(a)
    BY <1>0, <1>2, <2>1 DEF Changing
  <2> QED BY <2>2 DEF Stays, RightAddress, AddressesRight
<1>4. AddressesRight => AddressesRight'
  BY <1>0 DEF AddressesRight, WantedAddress, ByOtherMeans
<1>5. AddrInv'
  BY <1>0, <1>3, <1>4 DEF AddrInv, Comparing, Changing
<1>6. Appending'
  <2>1. Len(config.fdb) \in Nat
    BY <1>2, FdbFacts
  <2>2. 1 \in 1 .. Len(config.fdb) + 1 /\ 1 .. 1 - 1 = {}
    BY <2>1
  <2> QED BY <1>0, <2>2 DEF Appending, StaticFdb
<1>7. FdbInv'
  BY <1>0, <1>6 DEF FdbInv, Clearing
<1> QED BY <1>0, <1>1, <1>5, <1>7, NotBegun DEF IInv, LaterPC

LEMMA AppendFdbKeeps ==
  ASSUME IInv, AppendFdb
  PROVE  IInv'
<1>0. /\ pc = "fdb" /\ i <= Len(config.fdb) /\ i' = i + 1 /\ pc' = pc /\ dump' = dump
      /\ config' = config
      /\ NoFailure \/ Failure
  BY DEF AppendFdb, world
<1>1. PICK w : w = WithDefault(config.fdb[i])
  OBVIOUS
<1>2. Base /\ Appending
  BY DEF IInv, FdbInv
<1>3. /\ left' \in Nat /\ (left = 0 => left' = 0)
      /\ ~ failed' => ~ failed /\ NoFailure
      /\ Failure => failed'
  BY <1>0, <1>2, Calls
<1>4. /\ i \in 1 .. Len(config.fdb) /\ i + 1 \in 1 .. Len(config.fdb) + 1
      /\ \A m \in 1 .. (i + 1) - 1 : m \in 1 .. i - 1 \/ m = i
      /\ 1 .. i - 1 \subseteq 1 .. Len(config.fdb) /\ i + 1 \in Nat
  <2>1. Len(config.fdb) \in Nat /\ i \in 1 .. Len(config.fdb) + 1
    BY <1>0, <1>2, FdbFacts DEF Appending
  <2> QED BY <1>0, <2>1, Position
<1>5. w \in WantedFdb /\ \A m \in 1 .. i - 1 : WithDefault(config.fdb[m]) \in WantedFdb
  BY <1>1, <1>2, <1>4, FdbFacts
<1>6. \/ w \in dump /\ kernel' = kernel
      \/ w \notin dump /\ kernel' = [kernel EXCEPT !.fdb = Appended(w)]
      \/ kernel' = kernel /\ Failure
  BY <1>1 DEF AppendFdb
<1>7. CASE kernel' = kernel
  <2>1. Base'
    BY <1>0, <1>2, <1>3, <1>4, <1>7, BaseKept, KernelBaseNow DEF Base, PC, TypeOK
  <2>2. ~ failed' => w \in kernel.fdb
    <3>1. CASE kernel' = [kernel EXCEPT !.fdb = Appended(w)]
      <4>1. kernel.fdb = Appended(w)
        BY <1>2, <1>7, <3>1 DEF Base, TypeOK, KernelState
      <4> QED BY <1>2, <1>5, <4>1, AppendedFacts
    <3> QED BY <1>0, <1>2, <1>3, <1>5, <1>6, <3>1 DEF Appending
  <2>3. SameAddrs /\ WantedFdb' = WantedFdb
    BY <1>0, <1>7 DEF SameAddrs, WantedFdb
  <2>4. Appending'
    BY <1>0, <1>1, <1>2, <1>3, <1>4, <1>7, <2>2, <2>3 DEF Appending
  <2>5. AddrInv'
    BY <1>0, <1>3, <2>3, AddrLater DEF LaterPC, IInv
  <2>6. FdbInv'
    BY <1>0, <2>4 DEF FdbInv, Clearing
  <2> QED BY <1>0, <2>1, <2>5, <2>6, NotBegun DEF IInv, LaterPC
<1>8. CASE kernel' = [kernel EXCEPT !.fdb = Appended(w)]
  <2>1. /\ Appended(w) \in SUBSET FdbEntry /\ w \in Appended(w)
        /\ \A e, f \in Appended(w) : e.mac = f.mac => e.st = f.st
        /\ \A v \in WantedFdb, e \in Appended(w) : e.mac = v.mac => v.mac \in Several \/ e.dst = v.dst
        /\ \A e \in kernel.fdb : KeptFdb(e) => e \in Appended(w)
    BY <1>2, <1>5, AppendedFacts
  <2>2. /\ kernel' \in KernelState /\ kernel'.fdb = Appended(w)
        /\ kernel'.promote = kernel.promote /\ kernel'.addrs = kernel.addrs
        /\ kernel'.neigh = kernel.neigh /\ kernel'.peers = kernel.peers
    BY <1>2, <1>8, <2>1, SetFdb DEF Base, TypeOK
  <2>3. \A v \in ToSet(config.fdb), e \in kernel'.fdb : e.mac = v.mac => v.mac \in Several \/ e.dst = v.dst
    <3>1. \A v \in ToSet(config.fdb) : \E u \in WantedFdb : v.mac = u.mac /\ v.dst = u.dst
      BY <1>2, FdbFacts
    <3> QED BY <2>1, <2>2, <3>1
  <2>4. KernelBase(config, kernel')
    BY <1>2, <2>1, <2>2, <2>3, KernelBaseNow, CoherentParts
  <2>5. Base'
    BY <1>0, <1>2, <1>3, <1>4, <2>2, <2>4, BaseKept DEF Base, PC, TypeOK
  <2>6. SameAddrs /\ WantedFdb' = WantedFdb
    BY <1>0, <2>2 DEF SameAddrs, WantedFdb
  <2>7. \A e \in kernel.fdb : e \in WantedFdb => e \in kernel'.fdb
    BY <2>1, <2>2 DEF KeptFdb
  <2>8. Appending'
    BY <1>0, <1>1, <1>2, <1>3, <1>4, <1>5, <2>1, <2>2, <2>6, <2>7 DEF Appending
  <2>9. AddrInv'
    BY <1>0, <1>3, <2>6, AddrLater DEF LaterPC, IInv
  <2>10. FdbInv'
    BY <1>0, <2>8 DEF FdbInv, Clearing
  <2> QED BY <1>0, <2>5, <2>9, <2>10, NotBegun DEF IInv, LaterPC
<1> QED BY <1>6, <1>7, <1>8

LEMMA DeleteFdbKeeps ==
  ASSUME IInv, DeleteFdb
  PROVE  IInv'
<1>0. /\ pc = "fdb" /\ i > Len(config.fdb) /\ pc' = "delfdb"
      /\ dump' = {e \in StaticFdb : e.mac # LinkMac /\ e \notin WantedFdb}
      /\ kernel' = kernel /\ config' = config /\ i' = i /\ left' = left /\ failed' = failed
  BY DEF DeleteFdb, world
<1>1. Base'
  BY <1>0, BaseKept, KernelBaseNow DEF IInv, PC, Base, TypeOK
<1>2. Base /\ Appending
  BY DEF IInv, FdbInv
<1>3. SameAddrs /\ WantedFdb' = WantedFdb /\ StaticFdb' = StaticFdb
  BY <1>0 DEF SameAddrs, WantedFdb, StaticFdb
<1>4. ~ failed => WantedFdb \subseteq kernel.fdb
  <2>1. Len(config.fdb) \in Nat /\ i \in 1 .. Len(config.fdb) + 1
    BY <1>0, <1>2, FdbFacts DEF Appending
  <2>2. 1 .. Len(config.fdb) \subseteq 1 .. i - 1
    BY <1>0, <2>1
  <2> QED BY <1>0, <1>2, <2>2, FdbFacts DEF Appending
<1>5. \A e \in dump', f \in kernel.fdb : f.mac = e.mac /\ f.dst = e.dst => f = e
  <2>1. \A e \in dump' : e \in kernel.fdb
    BY <1>0 DEF StaticFdb
  <2> QED BY <1>2, <2>1, FdbFacts DEF FdbEntry
<1>6. Clearing'
  BY <1>0, <1>3, <1>4, <1>5 DEF Clearing, StaticFdb
<1>7. AddrInv'
  BY <1>0, <1>3, AddrLater DEF LaterPC, IInv
<1>8. FdbInv'
  BY <1>0, <1>6 DEF FdbInv, Appending
<1> QED BY <1>0, <1>1, <1>7, <1>8, NotBegun DEF IInv, LaterPC

\* a forwarding database that is part of the one before is one a run can meet
LEMMA FewerFdb ==
  ASSUME Base, NEW F \in SUBSET kernel.fdb, kernel' = [kernel EXCEPT !.fdb = F]
  PROVE  KernelBase(config, kernel') /\ kernel'.fdb = F /\ SameAddrs
<1>1. /\ kernel' \in KernelState /\ kernel'.fdb = F
      /\ kernel'.promote = kernel.promote /\ kernel'.addrs = kernel.addrs
      /\ kernel'.neigh = kernel.neigh /\ kernel'.peers = kernel.peers
  <2>1. F \in SUBSET FdbEntry /\ kernel \in KernelState
    BY FdbFacts DEF Base, TypeOK
  <2> QED BY <2>1, SetFdb
<1>2. \A w \in ToSet(config.fdb), e \in kernel'.fdb : e.mac = w.mac => w.mac \in Several \/ e.dst = w.dst
  BY <1>1 DEF Base, Regular
<1>3. \A e, f \in kernel'.fdb : e.mac = f.mac => e.st = f.st
  BY <1>1, FdbFacts
<1>4. KernelBase(config, kernel')
  BY <1>1, <1>2, <1>3, KernelBaseNow, CoherentParts
<1> QED BY <1>1, <1>4 DEF SameAddrs

LEMMA DeleteFdbEntryKeeps ==
  ASSUME IInv, DeleteFdbEntry
  PROVE  IInv'
<1>0. /\ pc = "delfdb" /\ pc' = pc /\ i' = i /\ config' = config
      /\ NoFailure \/ Failure
  BY DEF DeleteFdbEntry, world
<1>1. PICK e \in dump :
        /\ dump' = dump \ {e}
        /\ \/ kernel' = [kernel EXCEPT !.fdb = {f \in kernel.fdb : f.mac # e.mac \/ f.dst # e.dst}]
              /\ NoFailure
           \/ kernel' = kernel /\ Failure
  BY DEF DeleteFdbEntry
<1>2. Base /\ Clearing
  BY DEF IInv, FdbInv
<1>3. /\ left' \in Nat /\ (left = 0 => left' = 0)
      /\ ~ failed' => ~ failed /\ NoFailure
      /\ Failure => failed'
  BY <1>0, <1>2, Calls
<1>4. WantedFdb' = WantedFdb
  BY <1>0 DEF WantedFdb
<1>5. CASE kernel' = kernel /\ Failure
  <2>1. Base'
    BY <1>0, <1>2, <1>3, <1>5, BaseKept, KernelBaseNow DEF Base, PC, TypeOK
  <2>2. SameAddrs
    BY <1>5 DEF SameAddrs
  <2>3. Clearing'
    BY <1>0, <1>1, <1>2, <1>3, <1>4, <1>5 DEF Clearing
  <2>4. AddrInv'
    BY <1>0, <1>3, <2>2, AddrLater DEF LaterPC, IInv
  <2>5. FdbInv'
    BY <1>0, <2>3 DEF FdbInv, Appending
  <2> QED BY <1>0, <2>1, <2>4, <2>5, NotBegun DEF IInv, LaterPC
<1>6. CASE kernel' = [kernel EXCEPT !.fdb = {f \in kernel.fdb : f.mac # e.mac \/ f.dst # e.dst}]
           /\ NoFailure
  <2>1. PICK F \in SUBSET kernel.fdb : F = {f \in kernel.fdb : f.mac # e.mac \/ f.dst # e.dst}
    OBVIOUS
  <2>2. KernelBase(config, kernel') /\ kernel'.fdb = F /\ SameAddrs
    BY <1>2, <1>6, <2>1, FewerFdb
  <2>3. Base'
    BY <1>0, <1>2, <1>3, <2>2, BaseKept DEF Base, PC, TypeOK, SameAddrs
  <2>4. \A f \in kernel.fdb : f \in F \/ f = e
    BY <1>0, <1>1, <1>2, <2>1 DEF Clearing
  <2>5. e \notin F
    BY <2>1
  <2>6. ~ failed' => /\ WantedFdb \subseteq F
                     /\ \A f \in F : f.st # Learned => f \in dump' \/ f \in WantedFdb \/ f.mac = LinkMac
    <3> SUFFICES ASSUME ~ failed'
                 PROVE  /\ WantedFdb \subseteq F
                        /\ \A f \in F : f.st # Learned => f \in dump' \/ f \in WantedFdb \/ f.mac = LinkMac
      OBVIOUS
    <3>1. /\ WantedFdb \subseteq kernel.fdb /\ e \notin WantedFdb
          /\ \A f \in StaticFdb : f \in dump \/ f \in WantedFdb \/ f.mac = LinkMac
      BY <1>0, <1>2, <1>3 DEF Clearing
    <3> QED BY <1>1, <2>4, <2>5, <3>1 DEF StaticFdb
  <2>7. Clearing'
    BY <1>0, <1>1, <1>2, <1>4, <2>2, <2>6 DEF Clearing, StaticFdb
  <2>8. AddrInv'
    BY <1>0, <1>3, <2>2, AddrLater DEF LaterPC, IInv
  <2>9. FdbInv'
    BY <1>0, <2>7 DEF FdbInv, Appending
  <2> QED BY <1>0, <2>3, <2>8, <2>9, NotBegun DEF IInv, LaterPC
<1> QED BY <1>1, <1>5, <1>6

-----------------------------------------------------------------------------
(* Neighbours                                                              *)

LEMMA NeighFacts ==
  ASSUME Base
  PROVE  /\ kernel.neigh \subseteq [ip : Ip, mac : Mac, permanent : BOOLEAN]
         /\ config.neighbours \subseteq [ip : Ip, mac : Mac] /\ IsFiniteSet(config.neighbours)
         /\ \A n, m \in config.neighbours : n.ip = m.ip => n = m
         /\ \A n, m \in kernel.neigh : n.ip = m.ip => n = m
         /\ \A n : Neigh(n).ip = n.ip /\ Neigh(n).mac = n.mac
BY DEF Base, TypeOK, KernelState, Configuration, Distinct, Coherent, Neigh

LEMMA BeginNeighboursKeeps ==
  ASSUME IInv, BeginNeighbours
  PROVE  IInv'
<1> DEFINE perm == {n \in kernel.neigh : n.permanent}
           found == {Neigh(n) : n \in perm}
<1>0. /\ pc = "delfdb" /\ dump = {} /\ pc' = "delneigh"
      /\ dump' = found \ config.neighbours /\ add' \in SetToSeqs(config.neighbours \ found)
      /\ kernel' = kernel /\ config' = config /\ i' = i /\ left' = left /\ failed' = failed
  BY DEF BeginNeighbours, world
<1>1. Base'
  BY <1>0, BaseKept, KernelBaseNow DEF IInv, PC, Base, TypeOK
<1>2. Base /\ Clearing
  BY DEF IInv, FdbInv
<1>3. ~ failed => FdbRight
  <2> SUFFICES ASSUME ~ failed PROVE FdbRight
    OBVIOUS
  <2>1. WantedFdb \subseteq kernel.fdb /\ \A f \in StaticFdb : f \in WantedFdb \/ f.mac = LinkMac
    BY <1>0, <1>2 DEF Clearing
  <2>2. \A w \in WantedFdb : w.st # Learned
    BY <1>2, FdbFacts
  <2> QED BY <2>1, <2>2 DEF FdbRight, StaticFdb
<1>4. FdbRight => FdbRight'
  BY <1>0 DEF FdbRight, StaticFdb, WantedFdb
<1>5. FdbInv'
  BY <1>0, <1>3, <1>4 DEF FdbInv, Appending, Clearing
<1>6. add' \in Seq(config.neighbours) /\ ToSet(add') = config.neighbours \ found
  <2>1. PICK rest : rest = config.neighbours \ found
    OBVIOUS
  <2>2. IsFiniteSet(rest) /\ rest \subseteq config.neighbours
    BY <1>2, <2>1, NeighFacts, FS_Subset
  <2>3. PICK s \in SetToSeqs(rest) : add' = s
    BY <1>0, <2>1
  <2>4. s \in Seq(rest) /\ ToSet(s) = rest
    BY <2>2, <2>3, OrderSet
  <2>5. s \in Seq(config.neighbours)
    BY <2>2, <2>4
  <2> QED BY <2>1, <2>3, <2>4, <2>5
<1>7. \A n \in found : \E p \in kernel.neigh : p.permanent /\ Neigh(p) = n
  OBVIOUS
<1>8. \A p \in kernel.neigh : p.permanent => Neigh(p) \in found
  OBVIOUS
<1> HIDE DEF perm, found
<1>9. \A n \in dump' : /\ n \notin config.neighbours
                       /\ \A m \in kernel.neigh : m.ip = n.ip => m.permanent /\ Neigh(m) = n
  BY <1>0, <1>2, <1>7, NeighFacts
<1>10. /\ \A m \in kernel.neigh : m.permanent => Neigh(m) \in dump' \cup config.neighbours
       /\ \A n \in config.neighbours : n \in ToSet(add') \/ NeighSet(n)
  BY <1>0, <1>6, <1>7, <1>8 DEF NeighSet
<1>11. Neighbouring'
  BY <1>0, <1>6, <1>9, <1>10 DEF Neighbouring, NeighSet
<1>12. SameAddrs /\ AddrInv
  BY <1>0 DEF SameAddrs, IInv
<1>13. AddrInv'
  BY <1>0, <1>12, AddrLater DEF LaterPC
<1>14. NeighInv'
  BY <1>0, <1>11 DEF NeighInv
<1> QED BY <1>0, <1>1, <1>5, <1>13, <1>14, NotBegun DEF IInv, LaterPC

\* the neighbours change, and only they
LEMMA NeighStep ==
  ASSUME Base, NEW N \in SUBSET [ip : Ip, mac : Mac, permanent : BOOLEAN],
         \A n, m \in N : n.ip = m.ip => n = m,
         kernel' = [kernel EXCEPT !.neigh = N]
  PROVE  KernelBase(config, kernel') /\ kernel'.neigh = N /\ SameAddrs /\ SameFdb
<1>1. /\ kernel' \in KernelState /\ kernel'.neigh = N
      /\ kernel'.promote = kernel.promote /\ kernel'.addrs = kernel.addrs
      /\ kernel'.fdb = kernel.fdb /\ kernel'.peers = kernel.peers
  BY SetNeigh DEF Base, TypeOK
<1>2. KernelBase(config, kernel')
  BY <1>1, KernelBaseNow, CoherentParts
<1> QED BY <1>1, <1>2 DEF SameAddrs, SameFdb

LEMMA DeleteNeighbourKeeps ==
  ASSUME IInv, DeleteNeighbour
  PROVE  IInv'
<1>0. /\ pc = "delneigh" /\ pc' = pc /\ i' = i /\ config' = config /\ add' = add
      /\ NoFailure \/ Failure
  BY DEF DeleteNeighbour, world
<1>1. PICK n \in dump :
        /\ dump' = dump \ {n}
        /\ \/ kernel' = [kernel EXCEPT !.neigh = {m \in kernel.neigh : m.ip # n.ip}] /\ NoFailure
           \/ kernel' = kernel /\ Failure
  BY DEF DeleteNeighbour
<1>2. Base /\ Neighbouring /\ AddrInv /\ FdbInv
  BY DEF IInv, NeighInv
<1>3. /\ left' \in Nat /\ (left = 0 => left' = 0)
      /\ ~ failed' => ~ failed /\ NoFailure
      /\ Failure => failed'
  BY <1>0, <1>2, Calls
<1>4. /\ n \notin config.neighbours
      /\ \A m \in kernel.neigh : m.ip = n.ip => m.permanent /\ Neigh(m) = n
  BY <1>0, <1>1, <1>2 DEF Neighbouring
<1>5. KernelBase(config, kernel') /\ SameAddrs /\ SameFdb /\ Neighbouring'
  <2>1. CASE kernel' = kernel /\ Failure
    <3>1. SameAddrs /\ SameFdb /\ KernelBase(config, kernel')
      BY <1>2, <2>1, KernelBaseNow DEF SameAddrs, SameFdb
    <3>2. Neighbouring'
      BY <1>0, <1>1, <1>2, <1>3, <2>1 DEF Neighbouring
    <3> QED BY <3>1, <3>2
  <2>2. CASE kernel' = [kernel EXCEPT !.neigh = {m \in kernel.neigh : m.ip # n.ip}]
    <3>1. PICK N \in SUBSET kernel.neigh : N = {m \in kernel.neigh : m.ip # n.ip}
      OBVIOUS
    <3>2. KernelBase(config, kernel') /\ kernel'.neigh = N /\ SameAddrs /\ SameFdb
      BY <1>2, <2>2, <3>1, NeighFacts, NeighStep
    <3>3. \A m \in kernel.neigh : m \in N \/ m.ip = n.ip
      BY <3>1
    <3>4. \A m \in N : Neigh(m) # n
      BY <1>2, <3>1, NeighFacts
    <3>5. \A c \in config.neighbours : NeighSet(c) => NeighSet(c)'
      BY <1>0, <1>4, <3>2, <3>3 DEF NeighSet
    <3>6. Neighbouring'
      BY <1>0, <1>1, <1>2, <1>3, <3>2, <3>4, <3>5 DEF Neighbouring
    <3> QED BY <3>2, <3>6
  <2> QED BY <1>1, <2>1, <2>2
<1>6. Base'
  BY <1>0, <1>2, <1>3, <1>5, BaseKept DEF Base, PC, TypeOK, SameAddrs
<1>7. AddrInv' /\ FdbInv'
  BY <1>0, <1>2, <1>3, <1>5, AddrLater, FdbLater DEF LaterPC
<1>8. NeighInv'
  BY <1>0, <1>5 DEF NeighInv
<1> QED BY <1>0, <1>6, <1>7, <1>8, NotBegun DEF IInv

LEMMA AddNeighboursKeeps ==
  ASSUME IInv, AddNeighbours
  PROVE  IInv'
<1>0. /\ pc = "delneigh" /\ dump = {} /\ pc' = "addneigh"
      /\ kernel' = kernel /\ config' = config /\ i' = i /\ dump' = dump /\ add' = add
      /\ left' = left /\ failed' = failed
  BY DEF AddNeighbours, world
<1>1. Base'
  BY <1>0, BaseKept, KernelBaseNow DEF IInv, PC, Base, TypeOK
<1>2. Neighbouring'
  BY <1>0 DEF IInv, NeighInv, Neighbouring, NeighSet
<1>3. NeighInv'
  BY <1>0, <1>2 DEF NeighInv
<1>4. AddrInv /\ FdbInv /\ SameAddrs /\ SameFdb
  BY <1>0 DEF IInv, SameAddrs, SameFdb
<1>5. AddrInv' /\ FdbInv'
  BY <1>0, <1>4, AddrLater, FdbLater DEF LaterPC
<1> QED BY <1>0, <1>1, <1>3, <1>5, NotBegun DEF IInv

\* the neighbours after one was set
NeighboursWith(n) ==
  {m \in kernel.neigh : m.ip # n.ip} \cup {[ip |-> n.ip, mac |-> n.mac, permanent |-> TRUE]}

LEMMA SetNeighFacts ==
  ASSUME Base, NEW n \in config.neighbours, NEW N, N = NeighboursWith(n)
  PROVE  /\ N \in SUBSET [ip : Ip, mac : Mac, permanent : BOOLEAN]
         /\ \A m, o \in N : m.ip = o.ip => m = o
         /\ \A m \in kernel.neigh : m \in N \/ m.ip = n.ip
         /\ \A m \in N : m \in kernel.neigh \/ Neigh(m) = n
         /\ \E m \in N : m.permanent /\ Neigh(m) = n
         /\ \A m \in kernel.neigh : KeptNeighbour(m) => m \in N
<1>1. PICK new : new = [ip |-> n.ip, mac |-> n.mac, permanent |-> TRUE]
  OBVIOUS
<1>2. n \in [ip : Ip, mac : Mac]
  BY NeighFacts
<1>3. /\ new \in [ip : Ip, mac : Mac, permanent : BOOLEAN]
      /\ new.ip = n.ip /\ new.permanent /\ new.mac = n.mac
  BY <1>1, <1>2
<1>4. Neigh(new) = n
  BY <1>2, <1>3 DEF Neigh
<1>5. \A m : m \in N <=> (m \in kernel.neigh /\ m.ip # n.ip) \/ m = new
  BY <1>1 DEF NeighboursWith
<1>6. ASSUME NEW m \in kernel.neigh, KeptNeighbour(m), m.ip = n.ip
      PROVE  m = new
  <2>1. m.permanent /\ Neigh(m) \in config.neighbours
    BY <1>6 DEF KeptNeighbour
  <2>2. Neigh(m) = n
    BY <1>6, <2>1, NeighFacts
  <2>3. m.mac = n.mac
    BY <2>2, NeighFacts
  <2>4. m \in [ip : Ip, mac : Mac, permanent : BOOLEAN]
    BY NeighFacts
  <2> QED BY <1>3, <1>6, <2>1, <2>3, <2>4
<1> QED BY <1>3, <1>4, <1>5, <1>6, NeighFacts

LEMMA SetNeighbourKeeps ==
  ASSUME IInv, SetNeighbour
  PROVE  IInv'
<1>0. /\ pc = "addneigh" /\ pc' = pc /\ i' = i /\ config' = config /\ dump' = dump
      /\ add # <<>> /\ add' = Tail(add)
      /\ NoFailure \/ Failure
  BY DEF SetNeighbour, world
<1>1. PICK n, rest : n = Head(add) /\ rest = Tail(add)
  OBVIOUS
<1>2. Base /\ Neighbouring /\ AddrInv /\ FdbInv
  BY DEF IInv, NeighInv
<1>3. /\ left' \in Nat /\ (left = 0 => left' = 0)
      /\ ~ failed' => ~ failed /\ NoFailure
      /\ Failure => failed'
  BY <1>0, <1>2, Calls
<1>4. /\ add' = rest /\ rest \in Seq(config.neighbours) /\ n \in config.neighbours
      /\ ToSet(add) = ToSet(rest) \cup {n} /\ dump = {}
  BY <1>0, <1>1, <1>2, TailSet DEF Neighbouring
<1>5. PICK N : N = NeighboursWith(n)
  OBVIOUS
<1>6. \/ kernel' = [kernel EXCEPT !.neigh = N]
      \/ kernel' = kernel /\ Failure
  BY <1>1, <1>5 DEF SetNeighbour, NeighboursWith
<1>7. KernelBase(config, kernel') /\ SameAddrs /\ SameFdb /\ Neighbouring'
  <2>1. CASE kernel' = kernel /\ Failure
    <3>1. SameAddrs /\ SameFdb /\ KernelBase(config, kernel')
      BY <1>2, <2>1, KernelBaseNow DEF SameAddrs, SameFdb
    <3>2. Neighbouring'
      BY <1>0, <1>2, <1>3, <1>4, <2>1 DEF Neighbouring
    <3> QED BY <3>1, <3>2
  <2>2. CASE kernel' = [kernel EXCEPT !.neigh = N]
    <3>1. /\ N \in SUBSET [ip : Ip, mac : Mac, permanent : BOOLEAN]
          /\ \A m, o \in N : m.ip = o.ip => m = o
          /\ \A m \in kernel.neigh : m \in N \/ m.ip = n.ip
          /\ \A m \in N : m \in kernel.neigh \/ Neigh(m) = n
          /\ \E m \in N : m.permanent /\ Neigh(m) = n
      BY <1>2, <1>4, <1>5, SetNeighFacts
    <3>2. KernelBase(config, kernel') /\ kernel'.neigh = N /\ SameAddrs /\ SameFdb
      BY <1>2, <2>2, <3>1, NeighStep
    <3>3. ASSUME NEW c \in config.neighbours, NeighSet(c) \/ c = n
          PROVE  NeighSet(c)'
      <4>1. CASE c = n
        BY <3>1, <3>2, <4>1 DEF NeighSet
      <4>2. CASE c # n
        <5>1. PICK m \in kernel.neigh : m.permanent /\ Neigh(m) = c
          BY <3>3, <4>2 DEF NeighSet
        <5>2. m.ip # n.ip
          BY <1>2, <1>4, <4>2, <5>1, NeighFacts
        <5> QED BY <3>1, <3>2, <5>1, <5>2 DEF NeighSet
      <4> QED BY <4>1, <4>2
    <3>4. ~ failed' => /\ \A m \in N : m.permanent => Neigh(m) \in dump \cup config.neighbours
                       /\ \A c \in config.neighbours : c \in ToSet(rest) \/ NeighSet(c)'
      BY <1>0, <1>2, <1>3, <1>4, <3>1, <3>3 DEF Neighbouring
    <3>5. Neighbouring'
      BY <1>0, <1>4, <3>2, <3>4 DEF Neighbouring
    <3> QED BY <3>2, <3>5
  <2> QED BY <1>6, <2>1, <2>2
<1>8. Base'
  BY <1>0, <1>2, <1>3, <1>7, BaseKept DEF Base, PC, TypeOK, SameAddrs
<1>9. AddrInv' /\ FdbInv'
  BY <1>0, <1>2, <1>3, <1>7, AddrLater, FdbLater DEF LaterPC
<1>10. NeighInv'
  BY <1>0, <1>7 DEF NeighInv
<1> QED BY <1>0, <1>8, <1>9, <1>10, NotBegun DEF IInv

-----------------------------------------------------------------------------
(* WireGuard                                                               *)

\* The wishes for peers, and the peers there are.
LEMMA PeerFacts ==
  ASSUME Base
  PROVE  /\ config.peers \in Seq(PeerWish) /\ Len(config.peers) \in Nat
         /\ DOMAIN config.peers = 1 .. Len(config.peers)
         /\ ToSet(config.peers) = {config.peers[m] : m \in 1 .. Len(config.peers)}
         /\ ToSet(config.peers) \subseteq PeerWish
         /\ \A v, w \in ToSet(config.peers) : v # w =>
              /\ v.key # w.key
              /\ v.allowed = None \/ w.allowed = None \/ v.allowed \cap w.allowed = {}
         /\ kernel.peers \subseteq Peer
         /\ \A p, q \in kernel.peers : p.key = q.key \/ p.allowed \cap q.allowed # {} => p = q
         /\ \A v, w \in ToSet(config.peers), p \in kernel.peers :
              v # w /\ v.allowed = None /\ p.key = v.key /\ w.allowed # None =>
                p.allowed \cap w.allowed = {}
<1>1. config.peers \in Seq(PeerWish) /\ kernel.peers \subseteq Peer
  BY DEF Base, TypeOK, KernelState, Configuration
<1>2. DOMAIN config.peers = 1 .. Len(config.peers) /\ Len(config.peers) \in Nat
  BY <1>1
<1>3. ToSet(config.peers) = {config.peers[m] : m \in 1 .. Len(config.peers)}
  BY <1>2 DEF ToSet
<1>4. ToSet(config.peers) \subseteq PeerWish
  BY <1>1, <1>3
<1>5. \A v, w \in ToSet(config.peers) : v # w =>
        /\ v.key # w.key
        /\ v.allowed = None \/ w.allowed = None \/ v.allowed \cap w.allowed = {}
  BY <1>2, <1>3 DEF Base, Distinct
<1>6. /\ \A p, q \in kernel.peers : p.key = q.key \/ p.allowed \cap q.allowed # {} => p = q
      /\ \A v, w \in ToSet(config.peers), p \in kernel.peers :
           v # w /\ v.allowed = None /\ p.key = v.key /\ w.allowed # None =>
             p.allowed \cap w.allowed = {}
  BY DEF Base, TypeOK, Coherent, Regular
<1> QED BY <1>1, <1>2, <1>3, <1>4, <1>5, <1>6

LEMMA BeginWireGuardKeeps ==
  ASSUME IInv, BeginWireGuard
  PROVE  IInv'
<1>0. /\ pc = "addneigh" /\ add = <<>>
      /\ \/ pc' = "wg" /\ dump' = kernel.peers /\ NoFailure
         \/ pc' = "done" /\ Failure
      /\ kernel' = kernel /\ config' = config /\ i' = i
  BY DEF BeginWireGuard, world
<1>1. Base /\ Neighbouring /\ AddrInv /\ FdbInv
  BY DEF IInv, NeighInv
<1>2. /\ left' \in Nat /\ (left = 0 => left' = 0)
      /\ ~ failed' => ~ failed /\ NoFailure
      /\ Failure => failed'
  BY <1>0, <1>1, Calls
<1>3. Base'
  BY <1>0, <1>1, <1>2, BaseKept, KernelBaseNow DEF PC, Base, TypeOK
<1>4. ~ failed => NeighboursRight
  <2> SUFFICES ASSUME ~ failed PROVE NeighboursRight
    OBVIOUS
  <2>1. dump = {} /\ ToSet(add) = {}
    BY <1>0, <1>1, EmptySet DEF Neighbouring
  <2>2. /\ \A m \in kernel.neigh : m.permanent => Neigh(m) \in config.neighbours
        /\ \A n \in config.neighbours : NeighSet(n)
    BY <1>0, <1>1, <2>1 DEF Neighbouring
  <2> QED BY <2>2 DEF NeighboursRight, NeighSet
<1>5. NeighboursRight => NeighboursRight'
  BY <1>0 DEF NeighboursRight
<1>6. NeighInv'
  BY <1>0, <1>2, <1>4, <1>5 DEF NeighInv, Neighbouring
<1>7. SameAddrs /\ SameFdb
  BY <1>0 DEF SameAddrs, SameFdb
<1>8. AddrInv' /\ FdbInv'
  BY <1>0, <1>1, <1>2, <1>7, AddrLater, FdbLater DEF LaterPC
<1>9. PeerInv'
  BY <1>0, <1>2 DEF PeerInv, Peering, Removing, KeptPeer, AsWished
<1> QED BY <1>0, <1>3, <1>6, <1>8, <1>9, NotBegun DEF IInv

LEMMA SetInterfaceKeeps ==
  ASSUME IInv, SetInterface
  PROVE  IInv'
<1>0. /\ pc = "wg" /\ pc' = "peers" /\ i' = 1 /\ config' = config /\ dump' = dump
      /\ NoFailure \/ Failure
  BY DEF SetInterface, world
<1>1. Base /\ Peering /\ AddrInv /\ FdbInv /\ NeighInv
  BY DEF IInv, PeerInv
<1>2. /\ left' \in Nat /\ (left = 0 => left' = 0)
      /\ ~ failed' => ~ failed /\ NoFailure
      /\ Failure => failed'
  BY <1>0, <1>1, Calls
<1>3. kernel \in KernelState /\ config.wg \in Option \cup {None} /\ kernel.wg \in Option
  BY <1>1 DEF Base, TypeOK, Configuration, KernelState
<1>4. /\ KernelBase(config, kernel') /\ SameAddrs /\ SameFdb /\ SameNeigh
      /\ kernel'.peers = kernel.peers
      /\ ~ failed' => config.wg \in {None, kernel'.wg}
  <2>1. CASE kernel' = kernel /\ Failure
    BY <1>1, <1>2, <2>1, KernelBaseNow DEF SameAddrs, SameFdb, SameNeigh
  <2>2. CASE kernel' = [kernel EXCEPT !.wg = IF config.wg = None THEN kernel.wg ELSE config.wg]
    <3>1. PICK o \in Option : o = IF config.wg = None THEN kernel.wg ELSE config.wg
      BY <1>3
    <3>2. kernel' = [kernel EXCEPT !.wg = o]
      BY <2>2, <3>1
    <3>3. /\ kernel' \in KernelState /\ kernel'.wg = o
          /\ kernel'.promote = kernel.promote /\ kernel'.addrs = kernel.addrs
          /\ kernel'.fdb = kernel.fdb /\ kernel'.neigh = kernel.neigh /\ kernel'.peers = kernel.peers
      BY <1>3, <3>2, SetWg
    <3>4. KernelBase(config, kernel')
      BY <1>1, <3>3, KernelBaseNow, CoherentParts
    <3> QED BY <1>3, <3>1, <3>3, <3>4 DEF SameAddrs, SameFdb, SameNeigh
  <2> QED BY <2>1, <2>2 DEF SetInterface
<1>5. Base'
  BY <1>0, <1>1, <1>2, <1>4, BaseKept DEF Base, PC, TypeOK, SameAddrs
<1>6. AddrInv' /\ FdbInv' /\ NeighInv'
  BY <1>0, <1>1, <1>2, <1>4, AddrLater, FdbLater, NeighLater DEF LaterPC
<1>7. 1 \in 1 .. Len(config.peers) + 1 /\ 1 .. 1 - 1 = {}
  BY <1>1, PeerFacts
<1>8. Peering'
  BY <1>0, <1>1, <1>4, <1>7 DEF Peering, WishKey, KeptPeer, AsWished
<1>9. PeerInv'
  BY <1>0, <1>8 DEF PeerInv, Removing
<1> QED BY <1>0, <1>5, <1>6, <1>9, NotBegun DEF IInv

\* What `wg set peer' makes of the peers, for a configured peer or one whose endpoint
\* cannot be resolved: what is as configured is still there.
LEMMA PeersWithFacts ==
  ASSUME Base, NEW w \in ToSet(config.peers), NEW x \in PeerWish,
         x = w \/ x = [w EXCEPT !.opt = None]
  PROVE  /\ PeersWith(x) \in SUBSET Peer
         /\ \A p, q \in PeersWith(x) : p.key = q.key \/ p.allowed \cap q.allowed # {} => p = q
         /\ \A v, u \in ToSet(config.peers), p \in PeersWith(x) :
              v # u /\ v.allowed = None /\ p.key = v.key /\ u.allowed # None =>
                p.allowed \cap u.allowed = {}
         /\ \A p \in kernel.peers : KeptPeer(p) => p \in PeersWith(x)
         /\ \E p \in PeersWith(x) : AsWished(p, x)
         /\ \A p \in PeersWith(x) : p.key = w.key \/ \E q \in kernel.peers : q.key = p.key
<1>1. w \in PeerWish /\ x.key = w.key /\ x.allowed = w.allowed /\ x.opt \in {None, w.opt}
  BY PeerFacts DEF PeerWish
<1>2. PICK old : old = {p \in kernel.peers : p.key = x.key}
  OBVIOUS
<1>3. PICK base : /\ base = PeerOf(x) /\ base \in Peer /\ base.key = x.key
                  /\ base \in old \/ (old = {} /\ base.allowed = {})
                  /\ \A p \in old : p = base
  <2>1. CASE old # {}
    <3>1. PeerOf(x) = CHOOSE p \in old : TRUE
      BY <1>2, <2>1 DEF PeerOf
    <3>2. PICK base : base = PeerOf(x)
      OBVIOUS
    <3>3. base \in old
      BY <2>1, <3>1, <3>2
    <3>4. \A p, q \in old : p.key = x.key /\ p \in Peer /\ p = q
      BY <1>2, PeerFacts
    <3> QED BY <3>2, <3>3, <3>4
  <2>2. CASE old = {}
    <3>1. PeerOf(x) = [key |-> x.key, allowed |-> {}, opt |-> NoOption]
      BY <1>2, <2>2 DEF PeerOf
    <3>2. x.key \in WgKey /\ {} \in SUBSET Subnet /\ NoOption \in Option
      BY ConstantsAssumption DEF PeerWish
    <3> QED BY <2>2, <3>1, <3>2 DEF Peer
  <2> QED BY <2>1, <2>2
<1>4. PICK al : al = IF x.allowed = None THEN base.allowed ELSE x.allowed
  OBVIOUS
<1>5. PICK op : op = IF x.opt = None THEN base.opt ELSE x.opt
  OBVIOUS
<1>6. al \in SUBSET Subnet /\ op \in Option
  BY <1>3, <1>4, <1>5 DEF Peer, PeerWish
<1>7. PICK new : new = [key |-> x.key, allowed |-> al, opt |-> op]
  OBVIOUS
<1>8. new \in Peer /\ new.key = w.key /\ new.allowed = al /\ new.opt = op
  BY <1>1, <1>6, <1>7 DEF Peer, PeerWish
<1>9. \A p : p \in kernel.peers \ old <=> p \in kernel.peers /\ p.key # x.key
  BY <1>2
<1>10. PeersWith(x) = {new} \cup {[p EXCEPT !.allowed = @ \ al] : p \in kernel.peers \ old}
  <2>1. kernel.peers \ old = {q \in kernel.peers : q.key # x.key}
    BY <1>9
  <2>2. PeersWith(x) = {new} \cup {[q EXCEPT !.allowed = @ \ new.allowed] : q \in {q \in kernel.peers : q.key # x.key}}
    BY <1>3, <1>4, <1>5, <1>7 DEF PeersWith
  <2>3. PeersWith(x) = {new} \cup {[q EXCEPT !.allowed = @ \ al] : q \in {q \in kernel.peers : q.key # x.key}}
    BY <1>8, <2>2
  <2> QED BY <2>1, <2>3
<1>11. ASSUME NEW q \in PeersWith(x), q # new
       PROVE  /\ q \in Peer /\ q.key # w.key /\ q.allowed \cap al = {}
              /\ \E p \in kernel.peers : q.key = p.key /\ q.allowed \subseteq p.allowed /\ p.key # w.key
  <2>1. PICK p \in kernel.peers \ old : q = [p EXCEPT !.allowed = @ \ al]
    BY <1>10, <1>11
  <2>2. p \in Peer /\ p.key # w.key
    BY <1>1, <1>9, <2>1, PeerFacts
  <2>3. q.key = p.key /\ q.allowed = p.allowed \ al /\ q.opt = p.opt /\ q \in Peer
    BY <2>1, <2>2 DEF Peer
  <2> QED BY <2>1, <2>2, <2>3
<1>12. \A p, q \in PeersWith(x) : p.key = q.key \/ p.allowed \cap q.allowed # {} => p = q
  <2> SUFFICES ASSUME NEW p \in PeersWith(x), NEW q \in PeersWith(x), p # q
               PROVE  p.key # q.key /\ p.allowed \cap q.allowed = {}
    OBVIOUS
  <2>1. CASE p = new
    BY <1>8, <1>11, <2>1
  <2>2. CASE q = new
    BY <1>8, <1>11, <2>2
  <2>3. CASE p # new /\ q # new
    <3>1. PICK p0, q0 : /\ p0 \in kernel.peers \ old /\ q0 \in kernel.peers \ old
                        /\ p = [p0 EXCEPT !.allowed = @ \ al] /\ q = [q0 EXCEPT !.allowed = @ \ al]
      BY <1>10, <2>3
    <3>2. p0 # q0 /\ p0 \in Peer /\ q0 \in Peer
      BY <3>1, PeerFacts
    <3>3. p.key = p0.key /\ q.key = q0.key /\ p.allowed \subseteq p0.allowed /\ q.allowed \subseteq q0.allowed
      BY <3>1, <3>2 DEF Peer
    <3>4. p0.key # q0.key /\ p0.allowed \cap q0.allowed = {}
      BY <3>1, <3>2, PeerFacts
    <3> QED BY <3>3, <3>4
  <2> QED BY <2>1, <2>2, <2>3
<1>13. ASSUME NEW v \in ToSet(config.peers), NEW u \in ToSet(config.peers), NEW p \in PeersWith(x),
              v # u, v.allowed = None, p.key = v.key, u.allowed # None
       PROVE  p.allowed \cap u.allowed = {}
  <2>1. CASE p = new
    <3>1. v = w
      BY <1>8, <1>13, <2>1, PeerFacts
    <3>2. al = base.allowed
      BY <1>1, <1>4, <1>13, <3>1
    <3>3. CASE base \in old
      <4>1. base \in kernel.peers /\ base.key = v.key
        BY <1>1, <1>2, <1>3, <3>1, <3>3
      <4>2. base.allowed \cap u.allowed = {}
        BY <1>13, <4>1, PeerFacts
      <4> QED BY <1>8, <2>1, <3>2, <4>2
    <3> QED BY <1>3, <1>8, <2>1, <3>2, <3>3
  <2>2. CASE p # new
    <3>1. PICK q \in kernel.peers : p.key = q.key /\ p.allowed \subseteq q.allowed
      BY <1>11, <2>2
    <3>2. q.allowed \cap u.allowed = {}
      BY <1>13, <3>1, PeerFacts
    <3> QED BY <3>1, <3>2
  <2> QED BY <2>1, <2>2
<1>14. ASSUME NEW p \in kernel.peers, KeptPeer(p)
       PROVE  p \in PeersWith(x)
  <2>1. PICK v \in ToSet(config.peers) : AsWished(p, v)
    <3>1. config.peers # <<>>
      BY PeerFacts DEF ToSet
    <3>2. config.withpeers
      BY <3>1 DEF Base, Distinct
    <3> QED BY <1>14, <3>2 DEF KeptPeer
  <2>2. p \in Peer /\ p.key = v.key /\ v.allowed \in {None, p.allowed} /\ v.opt \in {None, p.opt}
    BY <2>1, PeerFacts DEF AsWished
  <2>3. CASE v = w
    <3>1. p = base
      BY <1>1, <1>2, <1>3, <2>2, <2>3
    <3>2. al = p.allowed /\ op = p.opt
      BY <1>1, <1>4, <1>5, <2>2, <2>3, <3>1
    <3>3. p = new
      BY <1>1, <1>7, <2>2, <2>3, <3>2 DEF Peer
    <3> QED BY <1>10, <3>3
  <2>4. CASE v # w
    <3>1. p.key # w.key /\ p \notin old
      BY <1>1, <1>2, <2>2, <2>4, PeerFacts
    <3>2. p.allowed \cap al = {}
      <4>1. CASE x.allowed = None
        <5>1. base \in old => p.allowed \cap base.allowed = {}
          BY <1>2, <3>1, PeerFacts
        <5> QED BY <1>3, <1>4, <4>1, <5>1
      <4>2. CASE x.allowed # None /\ v.allowed = None
        <5>1. p.allowed \cap w.allowed = {}
          BY <1>1, <2>2, <2>4, <4>2, PeerFacts
        <5> QED BY <1>1, <1>4, <4>2, <5>1
      <4>3. CASE x.allowed # None /\ v.allowed # None
        <5>1. v.allowed \cap w.allowed = {}
          BY <1>1, <2>4, <4>3, PeerFacts
        <5> QED BY <1>1, <1>4, <2>2, <4>3, <5>1
      <4> QED BY <4>1, <4>2, <4>3
    <3>3. p.allowed \ al = p.allowed
      BY <3>2
    <3>4. [p EXCEPT !.allowed = @ \ al] = p
      BY <2>2, <3>3 DEF Peer
    <3> QED BY <1>10, <3>1, <3>4
  <2> QED BY <2>3, <2>4
<1>15. AsWished(new, x) /\ new \in PeersWith(x)
  BY <1>1, <1>4, <1>5, <1>8, <1>10 DEF AsWished
<1>16. PeersWith(x) \in SUBSET Peer
  BY <1>8, <1>11
<1>17. \A p \in PeersWith(x) : p.key = w.key \/ \E q \in kernel.peers : q.key = p.key
  BY <1>8, <1>11
<1> QED BY <1>12, <1>13, <1>14, <1>15, <1>16, <1>17

\* the peers change, and only they
LEMMA PeerStep ==
  ASSUME Base, NEW P \in SUBSET Peer,
         \A p, q \in P : p.key = q.key \/ p.allowed \cap q.allowed # {} => p = q,
         \A v, w \in ToSet(config.peers), p \in P :
           v # w /\ v.allowed = None /\ p.key = v.key /\ w.allowed # None =>
             p.allowed \cap w.allowed = {},
         kernel' = [kernel EXCEPT !.peers = P]
  PROVE  /\ KernelBase(config, kernel') /\ kernel'.peers = P /\ kernel'.wg = kernel.wg
         /\ SameAddrs /\ SameFdb /\ SameNeigh
<1>1. /\ kernel' \in KernelState /\ kernel'.peers = P /\ kernel'.wg = kernel.wg
      /\ kernel'.promote = kernel.promote /\ kernel'.addrs = kernel.addrs
      /\ kernel'.fdb = kernel.fdb /\ kernel'.neigh = kernel.neigh
  BY SetPeers DEF Base, TypeOK
<1>2. Coherent(kernel')
  BY <1>1 DEF Base, TypeOK, Coherent
<1>3. Separate(config, kernel) => Separate(config, kernel')
  BY <1>1 DEF Separate
<1>4. Regular(config, kernel')
  BY <1>1, <1>3 DEF Base, Regular
<1> QED BY <1>1, <1>2, <1>4 DEF SameAddrs, SameFdb, SameNeigh, KernelBase

LEMMA SetPeerKeeps ==
  ASSUME IInv, SetPeer
  PROVE  IInv'
<1>0. /\ pc = "peers" /\ pc' = pc /\ i <= Len(config.peers) /\ i' = i + 1
      /\ config' = config /\ dump' = dump
      /\ NoFailure \/ Failure
  BY DEF SetPeer, world
<1>1. PICK w, j : j = i /\ w = config.peers[j]
  OBVIOUS
<1>2. Base /\ Peering /\ AddrInv /\ FdbInv /\ NeighInv
  BY DEF IInv, PeerInv
<1>3. /\ left' \in Nat /\ (left = 0 => left' = 0)
      /\ ~ failed' => ~ failed /\ NoFailure
      /\ Failure => failed'
  BY <1>0, <1>2, Calls
<1>4. /\ i \in 1 .. Len(config.peers) /\ i + 1 \in 1 .. Len(config.peers) + 1
      /\ \A m \in 1 .. (i + 1) - 1 : m \in 1 .. i - 1 \/ m = i
      /\ 1 .. i - 1 \subseteq 1 .. Len(config.peers) /\ i + 1 \in Nat
  <2>1. Len(config.peers) \in Nat /\ i \in 1 .. Len(config.peers) + 1
    BY <1>0, <1>2, PeerFacts DEF Peering
  <2> QED BY <1>0, <2>1, Position
<1>5. /\ w \in ToSet(config.peers) /\ w \in PeerWish /\ WishKey(w.key)
      /\ \A m \in 1 .. i - 1 : config.peers[m] \in ToSet(config.peers)
  BY <1>1, <1>2, <1>4, PeerFacts DEF WishKey
<1>6. \/ (\E p \in dump : AsWished(p, w)) /\ kernel' = kernel
      \/ kernel' = [kernel EXCEPT !.peers = PeersWith(w)]
      \/ kernel' = kernel /\ Failure
      \/ kernel' = [kernel EXCEPT !.peers = PeersWith([w EXCEPT !.opt = None])] /\ Failure
  BY <1>1 DEF SetPeer
<1>7. ASSUME NEW x \in PeerWish, x = w \/ (x = [w EXCEPT !.opt = None] /\ Failure),
             kernel' = [kernel EXCEPT !.peers = PeersWith(x)]
      PROVE  IInv'
  <2>1. PICK P : P = PeersWith(x)
    OBVIOUS
  <2>2. /\ P \in SUBSET Peer
        /\ \A p, q \in P : p.key = q.key \/ p.allowed \cap q.allowed # {} => p = q
        /\ \A v, u \in ToSet(config.peers), p \in P :
             v # u /\ v.allowed = None /\ p.key = v.key /\ u.allowed # None =>
               p.allowed \cap u.allowed = {}
        /\ \A p \in kernel.peers : KeptPeer(p) => p \in P
        /\ \E p \in P : AsWished(p, x)
        /\ \A p \in P : p.key = w.key \/ \E q \in kernel.peers : q.key = p.key
    BY <1>2, <1>5, <1>7, <2>1, PeersWithFacts
  <2>3. /\ KernelBase(config, kernel') /\ kernel'.peers = P /\ kernel'.wg = kernel.wg
        /\ SameAddrs /\ SameFdb /\ SameNeigh
    <3>1. kernel' = [kernel EXCEPT !.peers = P]
      BY <1>7, <2>1
    <3> QED BY <1>2, <2>2, <3>1, PeerStep
  <2>4. Base'
    BY <1>0, <1>2, <1>3, <1>4, <2>3, BaseKept DEF Base, PC, TypeOK, SameAddrs
  <2>5. AddrInv' /\ FdbInv' /\ NeighInv'
    BY <1>0, <1>2, <1>3, <2>3, AddrLater, FdbLater, NeighLater DEF LaterPC
  <2>6. \A p : KeptPeer(p)' <=> KeptPeer(p)
    BY <1>0 DEF KeptPeer, AsWished
  <2>7. \A m \in 1 .. i - 1 : Served(m) => Served(m)'
    BY <1>0, <1>5, <2>2, <2>3 DEF Served, KeptPeer, AsWished
  <2>8. ~ failed' => Served(j)'
    BY <1>0, <1>1, <1>3, <1>7, <2>2, <2>3 DEF Served, AsWished
  <2>9. \A p \in P : WishKey(p.key) \/ \E q \in dump : q.key = p.key
    BY <1>0, <1>2, <1>5, <2>2 DEF Peering
  <2>10. Peering'
    <3>1. \A p \in dump' : KeptPeer(p)' => p \in kernel'.peers
      BY <1>0, <1>2, <2>2, <2>3, <2>6 DEF Peering
    <3>2. \A p \in kernel'.peers : WishKey(p.key)' \/ \E q \in dump' : q.key = p.key
      BY <1>0, <2>3, <2>9 DEF WishKey
    <3>3. i' \in 1 .. Len(config'.peers) + 1 /\ \A m \in 1 .. i' - 1 : m \in 1 .. j - 1 \/ m = j
      BY <1>0, <1>1, <1>4
    <3>4. ~ failed' => config'.wg \in {None, kernel'.wg} /\ \A m \in 1 .. i' - 1 : Served(m)'
      <4> SUFFICES ASSUME ~ failed'
                   PROVE  config'.wg \in {None, kernel'.wg} /\ \A m \in 1 .. i' - 1 : Served(m)'
        OBVIOUS
      <4>1. config.wg \in {None, kernel.wg} /\ \A m \in 1 .. j - 1 : Served(m)
        BY <1>0, <1>1, <1>2, <1>3 DEF Peering
      <4> QED BY <1>0, <1>1, <2>3, <2>7, <2>8, <3>3, <4>1
    <3> QED BY <3>1, <3>2, <3>3, <3>4 DEF Peering
  <2>11. PeerInv'
    BY <1>0, <2>10 DEF PeerInv, Removing
  <2> QED BY <1>0, <2>4, <2>5, <2>11, NotBegun DEF IInv
<1>8. CASE kernel' = kernel /\ (Failure \/ \E p \in dump : AsWished(p, w))
  <2>1. SameAddrs /\ SameFdb /\ SameNeigh /\ KernelBase(config, kernel')
    BY <1>2, <1>8, KernelBaseNow DEF SameAddrs, SameFdb, SameNeigh
  <2>2. Base'
    BY <1>0, <1>2, <1>3, <1>4, <2>1, BaseKept DEF Base, PC, TypeOK, SameAddrs
  <2>3. AddrInv' /\ FdbInv' /\ NeighInv'
    BY <1>0, <1>2, <1>3, <2>1, AddrLater, FdbLater, NeighLater DEF LaterPC
  <2>4. \A m \in 1 .. i - 1 : Served(m) => Served(m)'
    BY <1>0, <1>8 DEF Served, AsWished
  <2>5. ~ failed' => Served(j)'
    <3> SUFFICES ASSUME ~ failed' PROVE \E p \in kernel.peers : AsWished(p, w)
      BY <1>0, <1>1, <1>8 DEF Served, AsWished
    <3>1. PICK p \in dump : AsWished(p, w)
      BY <1>3, <1>8
    <3>2. KeptPeer(p)
      BY <1>5, <3>1 DEF KeptPeer
    <3> QED BY <1>0, <1>2, <3>1, <3>2 DEF Peering
  <2>6. \A p : KeptPeer(p)' <=> KeptPeer(p)
    BY <1>0 DEF KeptPeer, AsWished
  <2>7. Peering'
    <3>1. \A p \in dump' : KeptPeer(p)' => p \in kernel'.peers
      BY <1>0, <1>2, <1>8, <2>6 DEF Peering
    <3>2. \A p \in kernel'.peers : WishKey(p.key)' \/ \E q \in dump' : q.key = p.key
      BY <1>0, <1>2, <1>8 DEF Peering, WishKey
    <3>3. i' \in 1 .. Len(config'.peers) + 1 /\ \A m \in 1 .. i' - 1 : m \in 1 .. j - 1 \/ m = j
      BY <1>0, <1>1, <1>4
    <3>4. ~ failed' => config'.wg \in {None, kernel'.wg} /\ \A m \in 1 .. i' - 1 : Served(m)'
      <4> SUFFICES ASSUME ~ failed'
                   PROVE  config'.wg \in {None, kernel'.wg} /\ \A m \in 1 .. i' - 1 : Served(m)'
        OBVIOUS
      <4>1. config.wg \in {None, kernel.wg} /\ \A m \in 1 .. j - 1 : Served(m)
        BY <1>0, <1>1, <1>2, <1>3 DEF Peering
      <4> QED BY <1>0, <1>1, <1>8, <2>4, <2>5, <3>3, <4>1
    <3> QED BY <3>1, <3>2, <3>3, <3>4 DEF Peering
  <2>8. PeerInv'
    BY <1>0, <2>7 DEF PeerInv, Removing
  <2> QED BY <1>0, <2>2, <2>3, <2>8, NotBegun DEF IInv
<1>9. [w EXCEPT !.opt = None] \in PeerWish
  BY <1>5 DEF PeerWish
<1> QED BY <1>5, <1>6, <1>7, <1>8, <1>9

LEMMA RemovePeersKeeps ==
  ASSUME IInv, RemovePeers
  PROVE  IInv'
<1>0. /\ pc = "peers" /\ i > Len(config.peers) /\ pc' = "delpeers"
      /\ dump' = {p \in dump : config.withpeers /\ \A w \in ToSet(config.peers) : w.key # p.key}
      /\ kernel' = kernel /\ config' = config /\ i' = i /\ left' = left /\ failed' = failed
  BY DEF RemovePeers, world
<1>1. Base'
  BY <1>0, BaseKept, KernelBaseNow DEF IInv, PC, Base, TypeOK
<1>2. Base /\ Peering /\ AddrInv /\ FdbInv /\ NeighInv
  BY DEF IInv, PeerInv
<1>3. SameAddrs /\ SameFdb /\ SameNeigh
  BY <1>0 DEF SameAddrs, SameFdb, SameNeigh
<1>4. AddrInv' /\ FdbInv' /\ NeighInv'
  BY <1>0, <1>2, <1>3, AddrLater, FdbLater, NeighLater DEF LaterPC
<1>5. DOMAIN config.peers \subseteq 1 .. i - 1
  <2>1. /\ DOMAIN config.peers = 1 .. Len(config.peers)
        /\ Len(config.peers) \in Nat /\ i \in 1 .. Len(config.peers) + 1
    BY <1>0, <1>2, PeerFacts DEF Peering
  <2> QED BY <1>0, <2>1
<1>6. /\ \A p \in dump' : ~ WishKey(p.key)
      /\ \A p \in kernel.peers : WishKey(p.key) \/ \E q \in dump' : q.key = p.key
  BY <1>0, <1>2 DEF Peering, WishKey
<1>7. Removing'
  BY <1>0, <1>2, <1>5, <1>6 DEF Removing, Peering, WishKey, Served, AsWished
<1>8. PeerInv'
  BY <1>0, <1>7 DEF PeerInv, Peering
<1> QED BY <1>0, <1>1, <1>4, <1>8, NotBegun DEF IInv

LEMMA RemovePeerKeeps ==
  ASSUME IInv, RemovePeer
  PROVE  IInv'
<1>0. /\ pc = "delpeers" /\ pc' = pc /\ i' = i /\ config' = config
      /\ NoFailure \/ Failure
  BY DEF RemovePeer, world
<1>1. PICK p \in dump :
        /\ dump' = dump \ {p}
        /\ \/ kernel' = [kernel EXCEPT !.peers = {q \in kernel.peers : q.key # p.key}] /\ NoFailure
           \/ kernel' = kernel /\ Failure
  BY DEF RemovePeer
<1>2. Base /\ Removing /\ AddrInv /\ FdbInv /\ NeighInv
  BY DEF IInv, PeerInv
<1>3. /\ left' \in Nat /\ (left = 0 => left' = 0)
      /\ ~ failed' => ~ failed /\ NoFailure
      /\ Failure => failed'
  BY <1>0, <1>2, Calls
<1>4. ~ WishKey(p.key)
  BY <1>0, <1>1, <1>2 DEF Removing
<1>5. /\ KernelBase(config, kernel') /\ SameAddrs /\ SameFdb /\ SameNeigh
      /\ Removing'
  <2>1. CASE kernel' = kernel /\ Failure
    <3>1. SameAddrs /\ SameFdb /\ SameNeigh /\ KernelBase(config, kernel')
      BY <1>2, <2>1, KernelBaseNow DEF SameAddrs, SameFdb, SameNeigh
    <3>2. Removing'
      BY <1>0, <1>1, <1>2, <1>3, <2>1 DEF Removing, WishKey
    <3> QED BY <3>1, <3>2
  <2>2. CASE kernel' = [kernel EXCEPT !.peers = {q \in kernel.peers : q.key # p.key}]
    <3>1. PICK P \in SUBSET kernel.peers : P = {q \in kernel.peers : q.key # p.key}
      OBVIOUS
    <3>2. /\ KernelBase(config, kernel') /\ kernel'.peers = P /\ kernel'.wg = kernel.wg
          /\ SameAddrs /\ SameFdb /\ SameNeigh
      BY <1>2, <2>2, <3>1, PeerFacts, PeerStep
    <3>3. \A m \in DOMAIN config.peers : Served(m) => Served(m)'
      <4> SUFFICES ASSUME NEW m \in DOMAIN config.peers, Served(m) PROVE Served(m)'
        OBVIOUS
      <4>1. PICK q \in kernel.peers : AsWished(q, config.peers[m])
        BY DEF Served
      <4>2. q.key # p.key
        BY <1>4, <4>1 DEF AsWished, WishKey, ToSet
      <4> QED BY <1>0, <3>1, <3>2, <4>1, <4>2 DEF Served, AsWished
    <3>4. \A q \in P : q.key # p.key
      BY <3>1
    <3>5. Removing'
      BY <1>0, <1>1, <1>2, <1>3, <3>2, <3>3, <3>4 DEF Removing, WishKey
    <3> QED BY <3>2, <3>5
  <2> QED BY <1>1, <2>1, <2>2
<1>6. Base'
  BY <1>0, <1>2, <1>3, <1>5, BaseKept DEF Base, PC, TypeOK, SameAddrs
<1>7. AddrInv' /\ FdbInv' /\ NeighInv'
  BY <1>0, <1>2, <1>3, <1>5, AddrLater, FdbLater, NeighLater DEF LaterPC
<1>8. PeerInv'
  BY <1>0, <1>5 DEF PeerInv, Peering
<1> QED BY <1>0, <1>6, <1>7, <1>8, NotBegun DEF IInv

LEMMA FinishKeeps ==
  ASSUME IInv, Finish
  PROVE  IInv'
<1>0. /\ pc = "delpeers" /\ dump = {} /\ pc' = "done"
      /\ kernel' = kernel /\ config' = config /\ i' = i /\ left' = left /\ failed' = failed
  BY DEF Finish, world
<1>1. Base'
  BY <1>0, BaseKept, KernelBaseNow DEF IInv, PC, Base, TypeOK
<1>2. Base /\ Removing /\ AddrInv /\ FdbInv /\ NeighInv
  BY DEF IInv, PeerInv
<1>3. SameAddrs /\ SameFdb /\ SameNeigh
  BY <1>0 DEF SameAddrs, SameFdb, SameNeigh
<1>4. AddrInv' /\ FdbInv' /\ NeighInv'
  BY <1>0, <1>2, <1>3, AddrLater, FdbLater, NeighLater DEF LaterPC
<1>5. ~ failed => WireGuardRight
  <2> SUFFICES ASSUME ~ failed PROVE WireGuardRight
    OBVIOUS
  <2>1. /\ config.wg \in {None, kernel.wg}
        /\ \A m \in 1 .. Len(config.peers) : Served(m)
        /\ \A p \in kernel.peers : WishKey(p.key)
    BY <1>0, <1>2, PeerFacts DEF Removing
  <2>2. \A w \in ToSet(config.peers) : \E p \in kernel.peers : AsWished(p, w)
    BY <1>2, <2>1, PeerFacts DEF Served
  <2>3. ASSUME config.withpeers, NEW p \in kernel.peers
        PROVE  \E w \in ToSet(config.peers) : AsWished(p, w)
    <3>1. PICK w \in ToSet(config.peers) : w.key = p.key
      BY <2>1, <2>3 DEF WishKey
    <3>2. PICK q \in kernel.peers : AsWished(q, w)
      BY <2>2
    <3>3. q.key = p.key
      BY <3>1, <3>2 DEF AsWished
    <3>4. q = p
      BY <1>2, <3>3, PeerFacts
    <3> QED BY <3>2, <3>4
  <2> QED BY <2>1, <2>2, <2>3 DEF WireGuardRight
<1>6. WireGuardRight => WireGuardRight'
  BY <1>0 DEF WireGuardRight, AsWished
<1>7. PeerInv'
  BY <1>0, <1>5, <1>6 DEF PeerInv, Peering, Removing
<1> QED BY <1>0, <1>1, <1>4, <1>7, NotBegun DEF IInv

-----------------------------------------------------------------------------
(* The run, and the settings                                               *)

LEMMA OtherStepsKeep ==
  ASSUME IInv, StartRun \/ SkipSetting \/ Abort
  PROVE  IInv'
<1>0. /\ kernel' = kernel /\ config' = config /\ pc' \in {"idle", "sysctl"}
      /\ i' = 1 \/ i' = i \/ (pc = "sysctl" /\ i' = i + 1)
  BY DEF StartRun, SkipSetting, Abort, world
<1>1. i' \in Nat /\ AtSetting'
  <2>1. i \in Nat /\ (pc = "sysctl" => i >= 1)
    BY DEF IInv, Base, TypeOK, AtSetting
  <2>2. pc' = "sysctl" => i' = 1 \/ pc = "sysctl"
    BY DEF StartRun, SkipSetting, Abort
  <2> QED BY <1>0, <2>1, <2>2 DEF AtSetting
<1>2. left' \in Nat /\ (left = 0 => left' = 0)
  BY DEF StartRun, SkipSetting, Abort, Failure, IInv, Base
<1>3. Base'
  BY <1>0, <1>1, <1>2, BaseKept, KernelBaseNow DEF IInv, PC
<1> QED BY <1>0, <1>1, <1>3, NotBegun DEF IInv, AddrPC, LaterPC

LEMMA SetSysctlKeeps ==
  ASSUME IInv, SetSysctl
  PROVE  IInv'
<1>0. /\ pc = "sysctl" /\ pc' = pc /\ i <= Len(config.sysctl) /\ i' = i + 1 /\ config' = config
      /\ NoFailure \/ Failure
  BY DEF SetSysctl, world
<1>1. Base /\ i \in Nat /\ i >= 1 /\ kernel \in KernelState
  BY <1>0 DEF IInv, Base, TypeOK, AtSetting
<1>2. PICK key, val : key = config.sysctl[i][1] /\ val = config.sysctl[i][2]
  OBVIOUS
<1>3. key \in Setting /\ val \in Value
  <2>1. config.sysctl \in Seq(Setting \X Value)
    BY <1>1 DEF Base, Configuration
  <2>2. config.sysctl[i] \in Setting \X Value
    BY <1>0, <1>1, <2>1
  <2> QED BY <1>2, <2>2
<1>4. \/ kernel' = [kernel EXCEPT !.sysctl[key] = IF kernel.sysctl[key] = None THEN None ELSE val]
      \/ kernel' = kernel
  BY <1>2 DEF SetSysctl
<1>5. KernelBase(config, kernel') /\ kernel'.promote = kernel.promote
  <2>1. CASE kernel' = kernel
    BY <1>1, <2>1, KernelBaseNow
  <2>2. CASE kernel' = [kernel EXCEPT !.sysctl[key] = IF kernel.sysctl[key] = None THEN None ELSE val]
    <3>1. PICK v \in Value \cup {None} : v = IF kernel.sysctl[key] = None THEN None ELSE val
      BY <1>3
    <3>2. kernel' = [kernel EXCEPT !.sysctl[key] = v]
      BY <2>2, <3>1
    <3>3. /\ kernel' \in KernelState
          /\ kernel'.promote = kernel.promote /\ kernel'.addrs = kernel.addrs
          /\ kernel'.fdb = kernel.fdb /\ kernel'.neigh = kernel.neigh /\ kernel'.peers = kernel.peers
      BY <1>1, <1>3, <3>2, SetSetting
    <3> QED BY <1>1, <3>3, KernelBaseNow, CoherentParts
  <2> QED BY <1>4, <2>1, <2>2
<1>6. left' \in Nat /\ (left = 0 => left' = 0)
  BY <1>0, <1>1, Calls
<1>7. i' \in Nat /\ i' >= 1
  BY <1>0, <1>1
<1>8. Base' /\ AtSetting'
  BY <1>0, <1>1, <1>5, <1>6, <1>7, BaseKept DEF PC, AtSetting
<1> QED BY <1>0, <1>8, NotBegun DEF IInv, AddrPC, LaterPC

-----------------------------------------------------------------------------
(* The specification                                                       *)

LEMMA InitInv == Init => IInv
<1> SUFFICES ASSUME Init PROVE IInv
  OBVIOUS
<1>1. PICK s \in Scenario : config = s[1] /\ kernel = s[2] /\ left = s[3]
  BY DEF Init
<1>2. ScenarioOK(s)
  BY ScenarioAssumption
<1>3. /\ config \in Configuration /\ kernel \in KernelState /\ left \in Nat
      /\ Distinct(config) /\ Coherent(kernel) /\ Regular(config, kernel)
      /\ kernel.promote \/ left = 0
  BY <1>1, <1>2 DEF ScenarioOK
<1>4. pc = "idle" /\ i = 1
  BY DEF Init
<1>5. Base /\ AtSetting
  BY <1>3, <1>4 DEF Base, TypeOK, PC, AtSetting
<1> QED BY <1>4, <1>5 DEF IInv, AddrInv, Comparing, Changing, LaterPC, FdbInv, Appending, Clearing,
             NeighInv, Neighbouring, PeerInv, Peering, Removing

LEMMA NextInv == IInv /\ [Next]_vars => IInv'
<1> SUFFICES ASSUME IInv, [Next]_vars PROVE IInv'
  OBVIOUS
<1>1. CASE StartRun \/ SkipSetting \/ Abort
  BY <1>1, OtherStepsKeep
<1>2. CASE SetSysctl
  BY <1>2, SetSysctlKeeps
<1>3. CASE BeginAddresses \/ ExamineAddress \/ DeleteAddresses \/ DeleteAddress
  BY <1>3, BeginAddressesKeeps, ExamineAddressKeeps, DeleteAddressesKeeps, DeleteAddressKeeps
<1>4. CASE AddAddresses \/ AddAddress
  BY <1>4, AddAddressesKeeps, AddAddressKeeps
<1>5. CASE BeginFdb \/ AppendFdb \/ DeleteFdb \/ DeleteFdbEntry
  BY <1>5, BeginFdbKeeps, AppendFdbKeeps, DeleteFdbKeeps, DeleteFdbEntryKeeps
<1>6. CASE BeginNeighbours \/ DeleteNeighbour \/ AddNeighbours \/ SetNeighbour
  BY <1>6, BeginNeighboursKeeps, DeleteNeighbourKeeps, AddNeighboursKeeps, SetNeighbourKeeps
<1>7. CASE BeginWireGuard \/ SetInterface \/ SetPeer \/ RemovePeers \/ RemovePeer \/ Finish
  BY <1>7, BeginWireGuardKeeps, SetInterfaceKeeps, SetPeerKeeps, RemovePeersKeeps,
     RemovePeerKeeps, FinishKeeps
<1>8. CASE UNCHANGED vars
  <2>1. /\ config' = config /\ kernel' = kernel /\ pc' = pc /\ i' = i /\ dump' = dump
        /\ renew' = renew /\ add' = add /\ left' = left /\ failed' = failed
    BY <1>8 DEF vars
  <2>2. Base' /\ AtSetting'
    BY <2>1 DEF IInv, Base, TypeOK, AtSetting
  <2>4. AddrInv'
    <3>1. Comparing'
      BY <2>1 DEF IInv, AddrInv, Comparing, WantedAddress
    <3>2. Changing'
      BY <2>1 DEF IInv, AddrInv, Changing, WantedAddress, OnDump, Stays, RightAddress,
                  ByOtherMeans, KeptAddress, Sure
    <3>3. AddressesRight' <=> AddressesRight
      BY <2>1 DEF AddressesRight, WantedAddress, ByOtherMeans
    <3> QED BY <2>1, <3>1, <3>2, <3>3 DEF IInv, AddrInv
  <2>5. FdbInv'
    BY <2>1 DEF IInv, FdbInv, Appending, Clearing, FdbRight, WantedFdb, StaticFdb
  <2>6. NeighInv'
    BY <2>1 DEF IInv, NeighInv, Neighbouring, NeighSet, NeighboursRight
  <2>7. PeerInv'
    BY <2>1 DEF IInv, PeerInv, Peering, Removing, WishKey, Served, KeptPeer, AsWished, WireGuardRight
  <2> QED BY <2>2, <2>4, <2>5, <2>6, <2>7 DEF IInv
<1> QED BY <1>1, <1>2, <1>3, <1>4, <1>5, <1>6, <1>7, <1>8 DEF Next

\* The invariant holds of every run.
THEOREM Invariance == Spec => []IInv
BY InitInv, NextInv, PTL DEF Spec

\* The types, and what there is once in the kernel: whatever apply deletes and adds, no
\* IPv6 address is there twice, the entries of a link layer address share their state,
\* an IP has one neighbour and an allowed IP one peer.
THEOREM TypeCorrect == Spec => []TypeOK
<1>1. IInv => TypeOK
  BY DEF IInv, Base
<1> QED BY <1>1, Invariance, PTL

LEMMA InvRight == IInv => RunTakesEffect
BY DEF IInv, AddrInv, FdbInv, NeighInv, PeerInv, LaterPC, RunTakesEffect

\* A run in which no call fails leaves addresses, forwarding entries, neighbours and
\* peers as configured.
THEOREM RunTakesEffectHolds == Spec => []RunTakesEffect
BY InvRight, Invariance, PTL

-----------------------------------------------------------------------------
(* What is right stays                                                     *)

KeepsAddrs == \A k \in kernel.addrs : KeptAddress(k) => \E l \in kernel'.addrs : Addr(l) = Addr(k)
KeepsFdb   == \A e \in kernel.fdb : KeptFdb(e) => e \in kernel'.fdb
KeepsNeigh == \A n \in kernel.neigh : KeptNeighbour(n) => n \in kernel'.neigh
KeepsPeers == \A p \in kernel.peers : KeptPeer(p) => p \in kernel'.peers

LEMMA SameKeeps ==
  /\ kernel'.addrs = kernel.addrs => KeepsAddrs
  /\ kernel'.fdb = kernel.fdb => KeepsFdb
  /\ kernel'.neigh = kernel.neigh => KeepsNeigh
  /\ kernel'.peers = kernel.peers => KeepsPeers
BY DEF KeepsAddrs, KeepsFdb, KeepsNeigh, KeepsPeers

\* each call, in its part of the kernel's state
LEMMA SysctlKeepsRight ==
  ASSUME IInv, SetSysctl
  PROVE  KeepsAddrs /\ KeepsFdb /\ KeepsNeigh /\ KeepsPeers
<1>1. kernel \in KernelState
  BY DEF IInv, Base, TypeOK
<1>2. PICK s, v : kernel' = kernel \/ kernel' = [kernel EXCEPT !.sysctl[s] = v]
  BY DEF SetSysctl
<1>3. kernel'.addrs = kernel.addrs /\ kernel'.fdb = kernel.fdb
      /\ kernel'.neigh = kernel.neigh /\ kernel'.peers = kernel.peers
  BY <1>1, <1>2 DEF KernelState
<1> QED BY <1>3, SameKeeps

LEMMA AddressesKeepRight ==
  ASSUME IInv, DeleteAddress \/ AddAddress
  PROVE  KeepsAddrs /\ KeepsFdb /\ KeepsNeigh /\ KeepsPeers
<1>1. PICK A : kernel' = kernel \/ kernel' = [kernel EXCEPT !.addrs = A]
  BY DEF DeleteAddress, AddAddress
<1>2. kernel \in KernelState /\ Base
  BY DEF IInv, Base, TypeOK
<1>3. kernel'.fdb = kernel.fdb /\ kernel'.neigh = kernel.neigh /\ kernel'.peers = kernel.peers
  BY <1>1, <1>2 DEF KernelState
<1>4. CASE kernel' = kernel
  BY <1>4, SameKeeps
<1>5. ASSUME NEW k \in dump, NEW R \in Removed(Addr(k)), kernel' = [kernel EXCEPT !.addrs = R], pc = "deladdr"
      PROVE  KeepsAddrs
  <2>1. kernel'.addrs = R
    BY <1>2, <1>5 DEF KernelState
  <2>2. \A g \in kernel.addrs : Addr(g) = Addr(k) => ~ KeptAddress(g)
    BY <1>5 DEF IInv, AddrInv, Changing, OnDump
  <2>3. \A j \in kernel.addrs : KeptAddress(j) => \E l \in R : Addr(l) = Addr(j)
    BY <1>2, <2>2, Survives
  <2> QED BY <2>1, <2>3 DEF KeepsAddrs
<1>6. CASE kernel' = [kernel EXCEPT !.addrs = Added(Head(add))]
  <2>1. kernel'.addrs = Added(Head(add))
    BY <1>2, <1>6 DEF KernelState
  <2> QED BY <2>1, <1>3, SameKeeps DEF Added, KeepsAddrs
<1> QED BY <1>3, <1>4, <1>5, <1>6, SameKeeps DEF DeleteAddress, AddAddress

LEMMA FdbKeepsRight ==
  ASSUME IInv, AppendFdb \/ DeleteFdbEntry
  PROVE  KeepsAddrs /\ KeepsFdb /\ KeepsNeigh /\ KeepsPeers
<1>1. PICK F : kernel' = kernel \/ kernel' = [kernel EXCEPT !.fdb = F]
  BY DEF AppendFdb, DeleteFdbEntry
<1>2. kernel \in KernelState /\ Base
  BY DEF IInv, Base, TypeOK
<1>3. kernel'.addrs = kernel.addrs /\ kernel'.neigh = kernel.neigh /\ kernel'.peers = kernel.peers
  BY <1>1, <1>2 DEF KernelState
<1>4. CASE kernel' = kernel
  BY <1>4, SameKeeps
<1>5. CASE AppendFdb /\ kernel' # kernel
  <2>1. PICK w : w = WithDefault(config.fdb[i])
    OBVIOUS
  <2>2. kernel' = [kernel EXCEPT !.fdb = Appended(w)] /\ pc = "fdb" /\ i <= Len(config.fdb)
    BY <1>5, <2>1 DEF AppendFdb
  <2>3. kernel'.fdb = Appended(w)
    BY <1>2, <2>2 DEF KernelState
  <2>4. i \in 1 .. Len(config.fdb)
    BY <1>2, <2>2, FdbFacts DEF IInv, FdbInv, Appending
  <2>5. w \in WantedFdb
    BY <1>2, <2>1, <2>4, FdbFacts
  <2>6. KeepsFdb
    BY <1>2, <2>3, <2>5, AppendedFacts DEF KeepsFdb
  <2> QED BY <1>3, <2>6, SameKeeps
<1>6. CASE DeleteFdbEntry /\ kernel' # kernel
  <2>1. PICK e \in dump : kernel' = [kernel EXCEPT !.fdb = {f \in kernel.fdb : f.mac # e.mac \/ f.dst # e.dst}]
    BY <1>6 DEF DeleteFdbEntry
  <2>2. kernel'.fdb = {f \in kernel.fdb : f.mac # e.mac \/ f.dst # e.dst}
    BY <1>2, <2>1 DEF KernelState
  <2>3. /\ e \notin WantedFdb /\ e.mac # LinkMac /\ e.st # Learned
        /\ \A f \in kernel.fdb : f.mac = e.mac /\ f.dst = e.dst => f = e
    BY <1>6 DEF DeleteFdbEntry, IInv, FdbInv, Clearing
  <2>4. ~ KeptFdb(e)
    BY <2>3 DEF KeptFdb
  <2>5. KeepsFdb
    BY <2>2, <2>3, <2>4 DEF KeepsFdb
  <2> QED BY <1>3, <2>5, SameKeeps
<1> QED BY <1>4, <1>5, <1>6

LEMMA NeighboursKeepRight ==
  ASSUME IInv, DeleteNeighbour \/ SetNeighbour
  PROVE  KeepsAddrs /\ KeepsFdb /\ KeepsNeigh /\ KeepsPeers
<1>1. PICK N : kernel' = kernel \/ kernel' = [kernel EXCEPT !.neigh = N]
  BY DEF DeleteNeighbour, SetNeighbour
<1>2. kernel \in KernelState /\ Base
  BY DEF IInv, Base, TypeOK
<1>3. kernel'.addrs = kernel.addrs /\ kernel'.fdb = kernel.fdb /\ kernel'.peers = kernel.peers
  BY <1>1, <1>2 DEF KernelState
<1>4. CASE kernel' = kernel
  BY <1>4, SameKeeps
<1>5. CASE DeleteNeighbour /\ kernel' # kernel
  <2>1. PICK n \in dump : kernel' = [kernel EXCEPT !.neigh = {m \in kernel.neigh : m.ip # n.ip}]
    BY <1>5 DEF DeleteNeighbour
  <2>2. kernel'.neigh = {m \in kernel.neigh : m.ip # n.ip}
    BY <1>2, <2>1 DEF KernelState
  <2>3. n \notin config.neighbours /\ \A m \in kernel.neigh : m.ip = n.ip => m.permanent /\ Neigh(m) = n
    BY <1>5 DEF DeleteNeighbour, IInv, NeighInv, Neighbouring
  <2>4. KeepsNeigh
    BY <2>2, <2>3 DEF KeepsNeigh, KeptNeighbour
  <2> QED BY <1>3, <2>4, SameKeeps
<1>6. CASE SetNeighbour /\ kernel' # kernel
  <2>1. PICK n, new : n = Head(add) /\ new = NeighboursWith(n)
    OBVIOUS
  <2>2. kernel' = [kernel EXCEPT !.neigh = new] /\ pc = "addneigh" /\ add # <<>>
    BY <1>6, <2>1 DEF SetNeighbour, NeighboursWith
  <2>3. kernel'.neigh = new
    BY <1>2, <2>2 DEF KernelState
  <2>4. n \in config.neighbours
    BY <2>1, <2>2, TailSet DEF IInv, NeighInv, Neighbouring
  <2>5. KeepsNeigh
    BY <1>2, <2>1, <2>3, <2>4, SetNeighFacts DEF KeepsNeigh
  <2> QED BY <1>3, <2>5, SameKeeps
<1> QED BY <1>4, <1>5, <1>6

LEMMA PeersKeepRight ==
  ASSUME IInv, SetInterface \/ SetPeer \/ RemovePeer
  PROVE  KeepsAddrs /\ KeepsFdb /\ KeepsNeigh /\ KeepsPeers
<1>1. PICK v : \/ kernel' = kernel
               \/ kernel' = [kernel EXCEPT !.wg = v]
               \/ kernel' = [kernel EXCEPT !.peers = v]
  BY DEF SetInterface, SetPeer, RemovePeer
<1>2. kernel \in KernelState /\ Base
  BY DEF IInv, Base, TypeOK
<1>3. kernel'.addrs = kernel.addrs /\ kernel'.fdb = kernel.fdb /\ kernel'.neigh = kernel.neigh
  BY <1>1, <1>2 DEF KernelState
<1>4. CASE SetInterface
  <2>1. PICK o : kernel' = kernel \/ kernel' = [kernel EXCEPT !.wg = o]
    BY <1>4 DEF SetInterface
  <2>2. kernel'.peers = kernel.peers
    BY <1>2, <2>1 DEF KernelState
  <2> QED BY <1>3, <2>2, SameKeeps
<1>5. CASE kernel' = kernel
  BY <1>5, SameKeeps
<1>6. CASE SetPeer /\ kernel' # kernel
  <2>1. PICK w : w = config.peers[i]
    OBVIOUS
  <2>2. pc = "peers" /\ i <= Len(config.peers)
    BY <1>6 DEF SetPeer
  <2>3. i \in 1 .. Len(config.peers)
    BY <1>2, <2>2, PeerFacts DEF IInv, PeerInv, Peering
  <2>4. w \in ToSet(config.peers) /\ w \in PeerWish
    BY <1>2, <2>1, <2>3, PeerFacts
  <2>5. [w EXCEPT !.opt = None] \in PeerWish
    BY <2>4 DEF PeerWish
  <2>6. PICK x \in PeerWish : /\ x = w \/ x = [w EXCEPT !.opt = None]
                              /\ kernel' = [kernel EXCEPT !.peers = PeersWith(x)]
    BY <1>6, <2>1, <2>4, <2>5 DEF SetPeer
  <2>7. kernel'.peers = PeersWith(x)
    BY <1>2, <2>6 DEF KernelState
  <2>8. KeepsPeers
    BY <1>2, <2>4, <2>6, <2>7, PeersWithFacts DEF KeepsPeers
  <2> QED BY <1>3, <2>8, SameKeeps
<1>7. CASE RemovePeer /\ kernel' # kernel
  <2>1. PICK p \in dump : kernel' = [kernel EXCEPT !.peers = {q \in kernel.peers : q.key # p.key}]
    BY <1>7 DEF RemovePeer
  <2>2. kernel'.peers = {q \in kernel.peers : q.key # p.key}
    BY <1>2, <2>1 DEF KernelState
  <2>3. ~ WishKey(p.key)
    BY <1>7 DEF RemovePeer, IInv, PeerInv, Removing
  <2>4. KeepsPeers
    BY <2>2, <2>3 DEF KeepsPeers, KeptPeer, AsWished, WishKey
  <2> QED BY <1>3, <2>4, SameKeeps
<1> QED BY <1>4, <1>5, <1>6, <1>7

LEMMA NextKeepsRight ==
  IInv /\ [Next]_vars => KeepsAddrs /\ KeepsFdb /\ KeepsNeigh /\ KeepsPeers
<1> SUFFICES ASSUME IInv, [Next]_vars PROVE KeepsAddrs /\ KeepsFdb /\ KeepsNeigh /\ KeepsPeers
  OBVIOUS
<1>1. CASE SetSysctl
  BY <1>1, SysctlKeepsRight
<1>2. CASE DeleteAddress \/ AddAddress
  BY <1>2, AddressesKeepRight
<1>3. CASE AppendFdb \/ DeleteFdbEntry
  BY <1>3, FdbKeepsRight
<1>4. CASE DeleteNeighbour \/ SetNeighbour
  BY <1>4, NeighboursKeepRight
<1>5. CASE SetInterface \/ SetPeer \/ RemovePeer
  BY <1>5, PeersKeepRight
<1>6. CASE \/ StartRun \/ SkipSetting \/ BeginAddresses \/ ExamineAddress \/ DeleteAddresses \/ AddAddresses
           \/ BeginFdb \/ DeleteFdb \/ BeginNeighbours \/ AddNeighbours \/ BeginWireGuard
           \/ RemovePeers \/ Finish \/ Abort \/ UNCHANGED vars
  <2>1. kernel' = kernel
    BY <1>6 DEF StartRun, SkipSetting, BeginAddresses, ExamineAddress, DeleteAddresses, AddAddresses,
                BeginFdb, DeleteFdb, BeginNeighbours, AddNeighbours, BeginWireGuard,
                RemovePeers, Finish, Abort, vars
  <2> QED BY <2>1, SameKeeps
<1> QED BY <1>1, <1>2, <1>3, <1>4, <1>5, <1>6 DEF Next

\* No step of a run, failing or not, takes away an address, a forwarding entry, a
\* neighbour or a peer that is as configured or none of the run's business.
THEOREM KeepsWhatIsRightHolds == Spec => KeepsWhatIsRight
<1>1. IInv /\ [Next]_vars =>
        [/\ \A k \in kernel.addrs : KeptAddress(k) => \E l \in kernel'.addrs : Addr(l) = Addr(k)
         /\ \A e \in kernel.fdb : KeptFdb(e) => e \in kernel'.fdb
         /\ \A n \in kernel.neigh : KeptNeighbour(n) => n \in kernel'.neigh
         /\ \A p \in kernel.peers : KeptPeer(p) => p \in kernel'.peers]_vars
  BY NextKeepsRight DEF KeepsAddrs, KeepsFdb, KeepsNeigh, KeepsPeers
<1> QED BY <1>1, Invariance, PTL DEF Spec, KeepsWhatIsRight
=============================================================================
