---------------------------- MODULE Links_proofs ----------------------------
(* Theorems about Links, for every scenario that can be told apart, any    *)
(* number of links, runs and failures.                                     *)
EXTENDS Links, FiniteSetTheorems, TLAPS

\* at a call on a link that is there
Calling == {"move", "rename", "compare", "down", "set", "state", "movein", "renamein",
            "bind", "master", "newstate"}
Between == {"idle", "cleanup", "next", "done"}

ConfigOK == config \subseteq ConfigRecord /\ IsFiniteSet(config) /\ Regular(config)

\* what is asked of a set of links
LinksOK(K, F, n) ==
  /\ K \subseteq KernelLink /\ IsFiniteSet(K) /\ Coherent(K) /\ Recognisable(F, K)
  /\ \A l \in K : l.idx < n

KernelOK ==
  /\ LinksOK(kernel, config, nextidx)
  /\ nextidx \in Nat \ {0}
  /\ bindfile \in [Ns \X Idx -> Ns \cup {None}]

\* c is looked for and x is found, as the hardware or by its name
Finds(c, x, K) ==
  /\ c.kind = "physical"
  /\ \/ c.hw # None /\ x.hw = c.hw
     \/ ByName(c, K) /\ x.name = c.name

\* x was created for c in another namespace
CreatedFor(c, x) ==
  /\ c.kind = x.kind /\ c.bind = x.oldns /\ c.bind # c.ns
  /\ x.name = c.name \/ x.name \notin Name

\* x is what is known of a link of K, or of one that is gone; a physical link is never
\* gone, it may only not be found again after it was moved.
ItemOK(x, F, K, n, T) ==
  /\ x.idx \in Idx => x.idx < n
  /\ \A l \in K : l.idx = x.idx => l.kind = x.kind /\ l.hw = x.hw
  /\ x.kind = "physical" /\ x.idx # None => \E l \in K : l.idx = x.idx
  /\ x.idx = None => x.kind = "physical" /\ \E c \in F \ T : Finds(c, x, K)
  /\ x.kind # "physical" /\ x.ns # x.oldns => \E c \in F : CreatedFor(c, x)
  /\ (x.removed => x.kind # "physical") /\ (x.hw # None => x.kind = "physical")
  /\ \A c, d \in F :
       ByName(c, K) /\ d.kind = "physical" /\ c # d /\ d.hw # None /\ x.hw = d.hw =>
         x.name # c.name

\* links the run has not come to
Waiting == {todo[i] : i \in 1 .. Len(todo)}

RegistryOK ==
  /\ registry \in Seq(RegistryItem)
  /\ \A p \in 1 .. Len(registry) : ItemOK(registry[p], config, kernel, nextidx, Waiting)
  /\ pc # "idle" => \A l \in kernel : l.kind = "physical" =>
       \E p \in 1 .. Len(registry) : registry[p].kind = "physical" /\ registry[p].hw = l.hw

TodoOK ==
  /\ todo \in Seq(config)
  /\ \A i, j \in 1 .. Len(todo) : i # j => todo[i] # todo[j]
  /\ pos \in Nat /\ (pc = "cleanup" => pos > 0)
  /\ pc \in PC

\* the link that is applied, and what of it is in the kernel and in the registry
CurOK ==
  LET c == cur.link
      x == registry[cur.item]
  IN
  pc \notin Between =>
    /\ cur \in [link : config, item : Nat, idx : Idx \cup {None}, master : Idx \cup {None},
                up : BOOLEAN \cup {None}, errs : BOOLEAN]
    /\ c \notin Waiting
    /\ pc \in Calling => Exists(cur.idx)
    /\ pc \in Calling \cup {"updated", "del"} =>
         \A l \in kernel : l.idx = cur.idx =>
           /\ l.kind = c.kind
           /\ \A d \in config : d.kind = "physical" /\ d # c /\ d.hw # None => l.hw # d.hw
    /\ pc \in {"rename", "compare", "down", "set", "renamein"} =>
         \A l \in kernel : l.idx = cur.idx => l.ns = c.ns
    /\ pc \in {"move", "movein", "renamein"} =>
         cur.item \in 1 .. Len(registry) /\ x.kind = c.kind
    /\ pc = "move" => c.kind = "physical" /\ x.idx = cur.idx /\ Finds(c, x, kernel)
    /\ pc \in {"movein", "renamein"} =>
         /\ x.oldns = c.bind /\ c.bind # c.ns /\ x.name \notin Name
         /\ \A l \in kernel : l.idx = cur.idx => l.name = <<c.name, l.idx>>
    /\ pc \in {"del", "movein", "renamein", "bind", "master", "newstate", "peer"} => c.kind # "physical"
    /\ pc = "state" => cur.up # None

IInv == ConfigOK /\ KernelOK /\ RegistryOK /\ TodoOK /\ CurOK

-----------------------------------------------------------------------------
(* The kernel                                                              *)

\* What a step leaves of the links that were there: kind and hardware of a link stay,
\* and no physical link goes or comes.
Kept(K, L, n) ==
  /\ \A l \in L : l.idx < n => \E k \in K : k.idx = l.idx /\ k.kind = l.kind /\ k.hw = l.hw
  /\ \A l \in L : l.kind = "physical" => \E k \in K : k.idx = l.idx /\ k.kind = l.kind /\ k.hw = l.hw
  /\ \A k \in K : k.kind = "physical" => \E l \in L : k.idx = l.idx /\ k.kind = l.kind /\ k.hw = l.hw

\* A link that is there is the one of its index.
LEMMA AtFacts ==
  ASSUME Coherent(kernel), NEW i, Exists(i)
  PROVE  /\ At(i) \in kernel /\ At(i).idx = i
         /\ \A l \in kernel : l.idx = i <=> l = At(i)
<1>1. PICK l \in kernel : l.idx = i
  BY DEF Exists
<1>2. At(i) \in kernel /\ At(i).idx = i
  BY <1>1 DEF At
<1> QED BY <1>2 DEF Coherent

\* What is known by its name does not change.
LEMMA ByNameKept ==
  ASSUME NEW K, NEW L, NEW n, Kept(K, L, n)
  PROVE  \A c : ByName(c, L) <=> ByName(c, K)
BY DEF ByName, Kept

\* What an item is, it stays.
LEMMA ItemKept ==
  ASSUME NEW F, NEW K, NEW L, NEW n \in Nat, NEW m \in Nat, n <= m, NEW T, NEW U, U \subseteq T,
         Kept(K, L, n), None \notin Idx, L \subseteq KernelLink,
         NEW x \in RegistryItem, ItemOK(x, F, K, n, T)
  PROVE  ItemOK(x, F, L, m, U)
<1>1. \A c : ByName(c, L) <=> ByName(c, K)
  BY ByNameKept
<1>2. \A c : Finds(c, x, K) <=> Finds(c, x, L)
  BY <1>1 DEF Finds
<1>3. x.idx \in Idx \cup {None}
  BY DEF RegistryItem
<1>4. x.idx \in Idx => x.idx < n /\ x.idx < m
  BY DEF ItemOK, Idx
<1>5. \A l \in L : l.idx = x.idx => l.kind = x.kind /\ l.hw = x.hw
  <2> SUFFICES ASSUME NEW l \in L, l.idx = x.idx
               PROVE  l.kind = x.kind /\ l.hw = x.hw
    OBVIOUS
  <2>1. x.idx \in Idx
    BY DEF KernelLink
  <2>2. PICK k \in K : k.idx = l.idx /\ k.kind = l.kind /\ k.hw = l.hw
    BY <2>1, <1>4 DEF Kept
  <2> QED BY <2>2 DEF ItemOK
<1>6. x.kind = "physical" /\ x.idx # None => \E l \in L : l.idx = x.idx
  BY DEF ItemOK, Kept
<1>7. x.idx = None => x.kind = "physical" /\ \E c \in F \ U : Finds(c, x, L)
  BY <1>2 DEF ItemOK
<1> QED BY <1>1, <1>4, <1>5, <1>6, <1>7 DEF ItemOK

\* One link is changed, and not in what it is.
LEMMA ChangedOK ==
  ASSUME NEW F, LinksOK(kernel, F, nextidx), F \subseteq ConfigRecord,
         NEW i, Exists(i), NEW m \in KernelLink,
         m.idx = i, m.kind = At(i).kind, m.hw = At(i).hw, m.peer = At(i).peer,
         m.name \in Name \/ m.name[2] \in {0, m.idx},
         \A l \in kernel : l.ns = m.ns /\ l.name = m.name => l.idx = m.idx,
         \/ m.name = At(i).name \/ m.name \notin Name
         \/ \A c, d \in F : ByName(c, kernel) /\ d.kind = "physical" /\ c # d
                            /\ d.hw # None /\ m.hw = d.hw => m.name # c.name
  PROVE  /\ LinksOK(Changed(i, m), F, nextidx)
         /\ Kept(kernel, Changed(i, m), nextidx)
         /\ Changed(i, m) = (kernel \ {At(i)}) \cup {m}
<1> DEFINE L == Changed(i, m)
           o == At(i)
<1>1. o \in kernel /\ o.idx = i /\ \A l \in kernel : l.idx = i <=> l = o
  BY AtFacts DEF LinksOK
<1>2. L = (kernel \ {o}) \cup {m}
  BY <1>1 DEF Changed
<1>3. IsFiniteSet(L) /\ L \subseteq KernelLink
  <2>1. IsFiniteSet(kernel \ {o})
    BY FS_RemoveElement DEF LinksOK
  <2>2. IsFiniteSet((kernel \ {o}) \cup {m})
    BY <2>1, FS_AddElement
  <2> QED BY <1>2, <2>2 DEF LinksOK
<1>4. Kept(kernel, L, nextidx)
  BY <1>1, <1>2 DEF Kept
<1>5. Coherent(L)
  BY <1>1, <1>2 DEF Coherent, LinksOK
<1>6. Recognisable(F, L)
  <2>1. \A c : ByName(c, L) <=> ByName(c, kernel)
    BY <1>4, ByNameKept
  <2> SUFFICES ASSUME NEW c \in F, NEW d \in F, ByName(c, kernel), d.kind = "physical", c # d,
                      NEW l \in L, d.hw # None, l.hw = d.hw
               PROVE  c.name # d.name /\ l.name # c.name
    BY <2>1 DEF Recognisable, LinksOK
  <2>2. c.name \in Name
    BY DEF ConfigRecord
  <2>3. c.name # d.name /\ \A k \in kernel : k.hw = d.hw => k.name # c.name
    BY DEF Recognisable, LinksOK
  <2> QED BY <1>1, <1>2, <2>2, <2>3
<1>7. \A l \in L : l.idx < nextidx
  BY <1>1, <1>2 DEF LinksOK
<1> QED BY <1>2, <1>3, <1>4, <1>5, <1>6, <1>7 DEF LinksOK

\* what a link is
Same(k, l) == /\ k.idx = l.idx /\ k.ns = l.ns /\ k.name = l.name /\ k.kind = l.kind
              /\ k.hw = l.hw /\ k.peer = l.peer

\* Some links go, the others stay what they are.
LEMMA RemainingOK ==
  ASSUME NEW F, LinksOK(kernel, F, nextidx), NEW S \in SUBSET kernel, NEW f \in [S -> KernelLink],
         \A l \in S : Same(f[l], l), \A l \in kernel : l.kind = "physical" => l \in S,
         NEW L, L = {f[l] : l \in S}
  PROVE  LinksOK(L, F, nextidx) /\ Kept(kernel, L, nextidx)
<1>1. L \subseteq KernelLink /\ \A k \in L : \E l \in S : k = f[l] /\ Same(k, l)
  OBVIOUS
<1>2. IsFiniteSet(L)
  <2>1. IsFiniteSet(S)
    BY FS_Subset DEF LinksOK
  <2>2. f \in Surjection(S, L)
    BY DEF Surjection
  <2> QED BY <2>1, <2>2, FS_Surjection
<1>3. Kept(kernel, L, nextidx)
  BY <1>1 DEF Kept, Same
<1>4. Coherent(L)
  <2> SUFFICES ASSUME NEW k \in L, NEW m \in L
               PROVE  /\ k.idx = m.idx \/ (k.ns = m.ns /\ k.name = m.name) => k = m
                      /\ k.name \in Name \/ k.name[2] \in {0, k.idx}
                      /\ (k.peer # None => k.kind = "veth") /\ (k.hw # None => k.kind = "physical")
                      /\ k.hw # None /\ k.hw = m.hw => k = m
    BY DEF Coherent
  <2>1. PICK x \in S : k = f[x] /\ Same(k, x)
    BY <1>1
  <2>2. PICK y \in S : m = f[y] /\ Same(m, y)
    BY <1>1
  <2> QED BY <2>1, <2>2 DEF Same, Coherent, LinksOK
<1>5. Recognisable(F, L)
  <2>1. \A c : ByName(c, L) <=> ByName(c, kernel)
    BY <1>3, ByNameKept
  <2> QED BY <1>1, <2>1 DEF Recognisable, Same, LinksOK
<1>6. \A l \in L : l.idx < nextidx
  BY <1>1 DEF Same, LinksOK
<1> QED BY <1>1, <1>2, <1>3, <1>4, <1>5, <1>6 DEF LinksOK

\* A link goes up or down.
LEMMA SetUpOK ==
  ASSUME NEW F, LinksOK(kernel, F, nextidx), NEW i, NEW up \in BOOLEAN
  PROVE  /\ LinksOK(SetUp(i, up), F, nextidx) /\ Kept(kernel, SetUp(i, up), nextidx)
         /\ \A k \in SetUp(i, up) : \E l \in kernel : Same(k, l)
         /\ \A l \in kernel : \E k \in SetUp(i, up) : Same(k, l)
<1> DEFINE f == [l \in kernel |-> IF l.idx = i THEN [l EXCEPT !.up = up] ELSE l]
<1>1. SetUp(i, up) = {f[l] : l \in kernel}
  BY DEF SetUp
<1>2. f \in [kernel -> KernelLink] /\ \A l \in kernel : Same(f[l], l)
  BY DEF KernelLink, Same, LinksOK
<1> HIDE DEF f
<1>3. LinksOK(SetUp(i, up), F, nextidx) /\ Kept(kernel, SetUp(i, up), nextidx)
  BY <1>1, <1>2, RemainingOK
<1> QED BY <1>1, <1>2, <1>3

\* A virtual link goes, with its peer.
LEMMA WithoutOK ==
  ASSUME NEW F, LinksOK(kernel, F, nextidx), NEW i \in Idx, None \notin Idx,
         \A l \in kernel : l.idx = i => l.kind # "physical"
  PROVE  /\ LinksOK(Without(i), F, nextidx) /\ Kept(kernel, Without(i), nextidx)
         /\ \A k \in Without(i) : \E l \in kernel : Same(k, l) /\ l.idx # i
<1> DEFINE gone == {l \in kernel : l.idx = i \/ l.peer = i}
           S == kernel \ gone
           f == [l \in S |-> IF \E g \in gone : g.idx = l.master THEN [l EXCEPT !.master = None] ELSE l]
<1>1. Without(i) = {f[l] : l \in S}
  BY DEF Without
<1>2. f \in [S -> KernelLink] /\ \A l \in S : Same(f[l], l)
  BY DEF KernelLink, Same, LinksOK
<1>3. \A l \in kernel : l.kind = "physical" => l \in S
  BY DEF LinksOK, Coherent
<1>4. \A l \in S : l \in kernel /\ l.idx # i
  OBVIOUS
<1> HIDE DEF f, S
<1>5. S \in SUBSET kernel
  BY <1>4
<1>6. LinksOK(Without(i), F, nextidx) /\ Kept(kernel, Without(i), nextidx)
  BY <1>1, <1>2, <1>3, <1>5, RemainingOK
<1> QED BY <1>1, <1>2, <1>4, <1>6

\* A virtual link is added, with its peer.
LEMMA AddedOK ==
  ASSUME NEW F, LinksOK(kernel, F, nextidx), F \subseteq ConfigRecord, Regular(F),
         ConstantsAssumption,
         NEW c \in F, c.kind # "physical", NEW ns \in Ns, NEW n,
         n = c.name \/ n = <<c.name, nextidx>>,
         c.kind = "veth" => n # c.peer /\ c.peer \in Name,
         nextidx \in Nat \ {0}, nextidx < MaxIdx, ~ Taken(ns, n, c)
  PROVE  LET m == IF c.kind = "veth" THEN nextidx + 2 ELSE nextidx + 1 IN
         /\ LinksOK(Added(ns, n, c), F, m)
         /\ Kept(kernel, Added(ns, n, c), nextidx)
         /\ NewLink(nextidx, ns, n, c) \in KernelLink
         /\ \A l \in Added(ns, n, c) : l.idx < nextidx => l \in kernel
         /\ \E l \in Added(ns, n, c) : l.idx = nextidx
         /\ \A l \in Added(ns, n, c) : l.idx = nextidx => l.kind = c.kind /\ l.hw = None /\ l.name = n
<1> DEFINE a == IF c.kind = "veth" THEN [NewLink(nextidx, ns, n, c) EXCEPT !.peer = nextidx + 1]
                ELSE NewLink(nextidx, ns, n, c)
           b == [NewLink(nextidx + 1, ns, c.peer, c) EXCEPT !.peer = nextidx]
           L == Added(ns, n, c)
           m == IF c.kind = "veth" THEN nextidx + 2 ELSE nextidx + 1
<1>1. L = IF c.kind = "veth" THEN (kernel \cup {a}) \cup {b} ELSE kernel \cup {a}
  BY DEF Added
<1>2. nextidx \in Idx /\ nextidx + 1 \in Idx /\ None \notin Idx /\ MaxIdx \in Nat
  BY DEF ConstantsAssumption, Idx
<1>3. n \in AnyName /\ (n \in Name \/ n[2] = nextidx)
  BY <1>2 DEF ConfigRecord, AnyName
<1>4. a \in KernelLink /\ (c.kind = "veth" => b \in KernelLink) /\ NewLink(nextidx, ns, n, c) \in KernelLink
  <2>1. c.attr \in Attr /\ c.kind \in Kinds /\ Name \subseteq AnyName
    BY DEF ConfigRecord, AnyName
  <2> QED BY <1>2, <1>3, <2>1 DEF NewLink, KernelLink
<1>5. /\ a.idx = nextidx /\ a.ns = ns /\ a.name = n /\ a.kind = c.kind /\ a.hw = None
      /\ a.peer # None => c.kind = "veth"
      /\ b.idx = nextidx + 1 /\ b.ns = ns /\ b.name = c.peer /\ b.kind = c.kind /\ b.hw = None
  BY DEF NewLink
<1> HIDE DEF a, b
<1>6. IsFiniteSet(L) /\ L \subseteq KernelLink
  <2>1. IsFiniteSet(kernel \cup {a})
    BY FS_AddElement DEF LinksOK
  <2>2. IsFiniteSet((kernel \cup {a}) \cup {b})
    BY <2>1, FS_AddElement
  <2> QED BY <1>1, <1>4, <2>1, <2>2 DEF LinksOK
<1>7. \A l \in kernel : l.idx < nextidx /\ l.idx \in Nat
  BY DEF LinksOK, KernelLink, Idx
<1>8. Coherent(L)
  <2>1. \A l \in kernel : ~ (l.ns = ns /\ l.name = n) /\ (c.kind = "veth" => ~ (l.ns = ns /\ l.name = c.peer))
    BY DEF Taken, Named
  <2>2. \A l \in L : l \in kernel \/ l = a \/ (l = b /\ c.kind = "veth")
    BY <1>1
  <2>3. a.idx # b.idx /\ (c.kind = "veth" => a.name # b.name)
    BY <1>5
  <2>4. \A l, k \in L : l.idx = k.idx \/ (l.ns = k.ns /\ l.name = k.name) => l = k
    BY <1>5, <1>7, <2>1, <2>2, <2>3 DEF LinksOK, Coherent
  <2>5. \A l \in L : l.name \in Name \/ l.name[2] \in {0, l.idx}
    BY <1>3, <1>5, <2>2 DEF LinksOK, Coherent
  <2>6. \A l \in L : (l.peer # None => l.kind = "veth") /\ (l.hw # None => l.kind = "physical")
    BY <1>5, <2>2 DEF LinksOK, Coherent
  <2>7. \A l, k \in L : l.hw # None /\ l.hw = k.hw => l = k
    BY <1>5, <2>2 DEF LinksOK, Coherent
  <2> QED BY <2>4, <2>5, <2>6, <2>7 DEF Coherent
<1>9. Kept(kernel, L, nextidx)
  BY <1>1, <1>2, <1>5 DEF Kept
<1>10. Recognisable(F, L)
  <2>1. \A k : ByName(k, L) <=> ByName(k, kernel)
    BY <1>9, ByNameKept
  <2> QED BY <1>1, <1>5, <2>1 DEF Recognisable, LinksOK
<1>11. \A l \in L : l.idx < m
  BY <1>1, <1>5, <1>7
<1>12. LinksOK(L, F, m)
  BY <1>6, <1>8, <1>10, <1>11 DEF LinksOK
<1>13. \A l \in L : l.idx < nextidx => l \in kernel
  BY <1>1, <1>5
<1>14. a \in L /\ \A l \in L : l.idx = nextidx => l = a
  BY <1>1, <1>5, <1>7
<1> QED BY <1>4, <1>5, <1>9, <1>12, <1>13, <1>14

-----------------------------------------------------------------------------
(* The registry                                                            *)

\* A set of positions that is not empty has a first one.
LEMMA MinFacts ==
  ASSUME NEW S \in SUBSET Nat, S # {}
  PROVE  Min(S) \in S /\ \A y \in S : Min(S) <= y
<1> DEFINE R == {ss \in Nat \X Nat : ss[1] < ss[2]}
<1>1. IsWellFoundedOn(R, Nat)
  BY NatLessThanWellFounded DEF OpToRel
<1>2. PICK x \in S : \A y \in S : ~ (<<y, x>> \in R)
  BY <1>1, WFMin
<1>3. \A y \in S : x <= y
  <2> SUFFICES ASSUME NEW y \in S PROVE x <= y
    OBVIOUS
  <2>1. <<y, x>> \in Nat \X Nat /\ <<y, x>> \notin R
    BY <1>2
  <2> QED BY <2>1
<1> QED BY <1>3 DEF Min

\* What Search finds: the hardware if it is there, or a link by its name.
LEMMA SearchFacts ==
  ASSUME NEW reg \in Seq(RegistryItem), NEW c
  PROVE  LET p == Search(reg, c)
             x == reg[p]
         IN  /\ p \in 0 .. Len(reg)
             /\ p # 0 => /\ x.kind = c.kind /\ ~ x.removed
                         /\ \/ c.hw # None /\ x.hw = c.hw
                            \/ /\ c.hw # None => \A q \in 1 .. Len(reg) :
                                    reg[q].kind = c.kind /\ ~ reg[q].removed => reg[q].hw # c.hw
                               /\ x.name = c.name
                               /\ x.oldns = c.ns \/ c.kind = "physical"
<1> DEFINE First(S) == IF S = {} THEN 0 ELSE Min(S)
           Items  == {p \in 1 .. Len(reg) : reg[p].kind = c.kind /\ ~ reg[p].removed}
           H      == {p \in Items : c.hw # None /\ reg[p].hw = c.hw}
           N      == {p \in Items : reg[p].name = c.name /\ reg[p].oldns = c.ns}
           O      == {p \in Items : reg[p].kind = "physical" /\ reg[p].name = c.name
                                      /\ reg[p].orphan}
<1>1. Len(reg) \in Nat
  OBVIOUS
<1>2. \A S \in SUBSET (1 .. Len(reg)) : (First(S) = 0 /\ S = {}) \/ First(S) \in S
  BY <1>1, MinFacts
<1>3. /\ (First(H) = 0 /\ H = {}) \/ First(H) \in H
      /\ (First(N) = 0 /\ N = {}) \/ First(N) \in N
      /\ (First(O) = 0 /\ O = {}) \/ First(O) \in O
  BY <1>2
<1>4. Search(reg, c) = IF First(H) # 0 THEN First(H) ELSE IF First(N) # 0 THEN First(N) ELSE First(O)
  BY DEF Search
<1>40. 0 \notin H /\ 0 \notin N /\ 0 \notin O /\ O \subseteq 1 .. Len(reg)
  OBVIOUS
<1> HIDE DEF First, H, N, O
<1>5. CASE First(H) # 0
  <2>1. Search(reg, c) \in H
    BY <1>3, <1>4, <1>5
  <2> QED BY <2>1 DEF H
<1>6. CASE First(H) = 0 /\ First(N) # 0
  <2>1. Search(reg, c) \in N /\ H = {}
    BY <1>3, <1>4, <1>40, <1>6
  <2> QED BY <2>1 DEF H, N
<1>7. CASE First(H) = 0 /\ First(N) = 0 /\ First(O) # 0
  <2>1. Search(reg, c) \in O /\ H = {}
    BY <1>3, <1>4, <1>40, <1>7
  <2> QED BY <2>1 DEF H, O
<1>8. CASE First(H) = 0 /\ First(N) = 0 /\ First(O) = 0
  BY <1>1, <1>4, <1>8
<1> QED BY <1>5, <1>6, <1>7, <1>8

\* The inventory is a list of all links.
LEMMA InventoryFacts ==
  ASSUME LinksOK(kernel, config, nextidx)
  PROVE  /\ Cardinality(kernel) \in Nat
         /\ Inventory \in Seq(RegistryItem)
         /\ Len(Inventory) = Cardinality(kernel)
         /\ \A p \in 1 .. Len(Inventory) : \E l \in kernel : Inventory[p] = Item(l)
         /\ \A l \in kernel : \E p \in 1 .. Len(Inventory) : Inventory[p] = Item(l)
<1> DEFINE n == Cardinality(kernel)
           Below(l) == {m \in kernel : Before(m, l)}
           f == [l \in kernel |-> Cardinality(Below(l))]
           At0(p) == CHOOSE l \in kernel : Cardinality({m \in kernel : Before(m, l)}) = p
<1>1. n \in Nat /\ IsFiniteSet(kernel) /\ kernel \subseteq KernelLink /\ Coherent(kernel)
  BY FS_CardinalityType DEF LinksOK
<1>2. \A l \in kernel : l.idx \in Nat
  BY <1>1 DEF KernelLink, Idx
<1>3. \A l, m, k \in kernel : /\ ~ Before(l, l)
                              /\ Before(l, m) /\ Before(m, k) => Before(l, k)
                              /\ l # m => Before(l, m) \/ Before(m, l)
  BY <1>1, <1>2 DEF Before, Coherent
<1>4. \A l \in kernel : /\ Below(l) \subseteq kernel \ {l} /\ IsFiniteSet(Below(l))
                        /\ Cardinality(Below(l)) \in 0 .. n - 1
  <2> SUFFICES ASSUME NEW l \in kernel
               PROVE  /\ Below(l) \subseteq kernel \ {l} /\ IsFiniteSet(Below(l))
                      /\ Cardinality(Below(l)) \in 0 .. n - 1
    OBVIOUS
  <2>1. Below(l) \subseteq kernel \ {l}
    BY <1>3
  <2>2. IsFiniteSet(kernel \ {l}) /\ Cardinality(kernel \ {l}) = n - 1
    BY <1>1, FS_RemoveElement
  <2>3. IsFiniteSet(Below(l)) /\ Cardinality(Below(l)) <= n - 1
    BY <2>1, <2>2, FS_Subset
  <2>4. Cardinality(Below(l)) \in Nat
    BY <2>3, FS_CardinalityType
  <2> QED BY <1>1, <2>1, <2>3, <2>4
<1>5. \A l, m \in kernel : Before(l, m) => f[l] < f[m]
  <2> SUFFICES ASSUME NEW l \in kernel, NEW m \in kernel, Before(l, m)
               PROVE  Cardinality(Below(l)) < Cardinality(Below(m))
    OBVIOUS
  <2>1. Below(l) \subseteq Below(m) \ {l} /\ l \in Below(m)
    BY <1>3
  <2>2. IsFiniteSet(Below(m) \ {l}) /\ Cardinality(Below(m) \ {l}) = Cardinality(Below(m)) - 1
    BY <1>4, <2>1, FS_RemoveElement
  <2>3. Cardinality(Below(l)) <= Cardinality(Below(m) \ {l})
    BY <2>1, <2>2, FS_Subset
  <2> HIDE DEF Below
  <2>4. Cardinality(Below(l)) \in Nat /\ Cardinality(Below(m)) \in Nat
    BY <1>1, <1>4
  <2> QED BY <2>2, <2>3, <2>4
<1>6. f \in Injection(kernel, 0 .. n - 1)
  <2>1. f \in [kernel -> 0 .. n - 1]
    BY <1>4
  <2> HIDE DEF f
  <2>2. \A l, m \in kernel : f[l] = f[m] => l = m
    <3> SUFFICES ASSUME NEW l \in kernel, NEW m \in kernel, f[l] = f[m], l # m PROVE FALSE
      OBVIOUS
    <3>1. f[l] \in 0 .. n - 1 /\ f[m] \in 0 .. n - 1
      BY <2>1
    <3>2. f[l] < f[m] \/ f[m] < f[l]
      BY <1>3, <1>5
    <3> QED BY <1>1, <3>1, <3>2
  <2> QED BY <2>1, <2>2 DEF Injection, IsInjective
<1>7. IsFiniteSet(0 .. n - 1) /\ Cardinality(0 .. n - 1) = n
  BY <1>1, FS_Interval
<1>8. f \in Surjection(kernel, 0 .. n - 1)
  BY <1>6, <1>7, FS_Injection
<1>9. \A p \in 0 .. n - 1 : \E l \in kernel : Cardinality({m \in kernel : Before(m, l)}) = p
  BY <1>8 DEF Surjection
<1>10. \A p \in 0 .. n - 1 : At0(p) \in kernel /\ f[At0(p)] = p
  BY <1>9
<1>11. \A l \in kernel : f[l] \in 0 .. n - 1 /\ At0(f[l]) = l
  BY <1>6, <1>10 DEF Injection
<1>12. \A l \in kernel : Item(l) \in RegistryItem
  BY <1>1 DEF Item, RegistryItem, KernelLink
<1>13. Inventory = [p \in 1 .. n |-> Item(At0(p - 1))]
  BY DEF Inventory
<1> HIDE DEF f, At0, n
<1>14. \A p \in 1 .. n : p - 1 \in 0 .. n - 1
  BY <1>1 DEF n
<1>15. Len(Inventory) = n /\ Inventory \in Seq(RegistryItem)
  BY <1>1, <1>10, <1>12, <1>13, <1>14 DEF n
<1>16. \A l \in kernel : f[l] + 1 \in 1 .. n /\ Inventory[f[l] + 1] = Item(l)
  <2> SUFFICES ASSUME NEW l \in kernel
               PROVE  f[l] + 1 \in 1 .. n /\ Inventory[f[l] + 1] = Item(l)
    OBVIOUS
  <2>1. f[l] \in 0 .. n - 1 /\ At0(f[l]) = l /\ n \in Nat
    BY <1>1, <1>11 DEF n
  <2>2. f[l] + 1 \in 1 .. n /\ (f[l] + 1) - 1 = f[l]
    BY <2>1
  <2> QED BY <1>13, <2>1, <2>2
<1> QED BY <1>1, <1>10, <1>13, <1>14, <1>15, <1>16 DEF n

-----------------------------------------------------------------------------
(* The inductive invariant                                                 *)

\* It holds at first.
LEMMA InitIInv == Init => IInv
<1> SUFFICES ASSUME Init PROVE IInv
  OBVIOUS
<1>1. PICK s \in Scenario : config = s[1] /\ kernel = s[2]
  BY DEF Init
<1>2. /\ s[1] \subseteq ConfigRecord /\ s[2] \subseteq KernelLink
      /\ IsFiniteSet(s[1]) /\ Regular(s[1])
      /\ IsFiniteSet(s[2]) /\ Coherent(s[2]) /\ \A l \in s[2] : l.idx < MaxIdx
      /\ Recognisable(s[1], s[2])
  BY ConstantsAssumption, ScenarioAssumption
<1>3. nextidx \in Idx /\ \A l \in kernel : l.idx < nextidx
  <2>1. MaxIdx \in Idx
    BY ConstantsAssumption DEF Idx
  <2>2. \E i \in Idx : \A l \in kernel : l.idx < i
    BY <1>1, <1>2, <2>1
  <2> QED BY <2>2 DEF Init
<1>4. registry = <<>> /\ todo = <<>> /\ pos = 0 /\ pc = "idle"
  BY DEF Init
<1>5. bindfile \in [Ns \X Idx -> Ns \cup {None}]
  BY DEF Init
<1>6. ConfigOK
  BY <1>1, <1>2 DEF ConfigOK
<1>7. KernelOK
  BY <1>1, <1>2, <1>3, <1>5 DEF KernelOK, LinksOK, Idx
<1>8. RegistryOK
  BY <1>4 DEF RegistryOK
<1>9. TodoOK
  BY <1>4 DEF TodoOK, PC
<1>10. CurOK
  BY <1>4 DEF CurOK, Between
<1> QED BY <1>6, <1>7, <1>8, <1>9, <1>10 DEF IInv

\* How the registry and the kernel may change together.
LEMMA RegistryStep ==
  ASSUME IInv, config' = config, Kept(kernel, kernel', nextidx), kernel' \subseteq KernelLink,
         nextidx' \in Nat, nextidx <= nextidx', Waiting' \subseteq Waiting,
         registry' \in Seq(RegistryItem), Len(registry) <= Len(registry'),
         \A p \in 1 .. Len(registry) : /\ registry'[p].kind = registry[p].kind
                                       /\ registry'[p].hw = registry[p].hw,
         \A p \in 1 .. Len(registry') :
           \/ p \in 1 .. Len(registry) /\ registry'[p] = registry[p]
           \/ ItemOK(registry'[p], config, kernel', nextidx', Waiting'),
         pc # "idle" \/ pc' = "idle"
  PROVE  RegistryOK'
<1>1. RegistryOK /\ nextidx \in Nat
  BY DEF IInv, KernelOK
<1>2. \A p \in 1 .. Len(registry') : ItemOK(registry'[p], config, kernel', nextidx', Waiting')
  <2> SUFFICES ASSUME NEW p \in 1 .. Len(registry), registry'[p] = registry[p]
               PROVE  ItemOK(registry'[p], config, kernel', nextidx', Waiting')
    OBVIOUS
  <2>1. registry[p] \in RegistryItem /\ ItemOK(registry[p], config, kernel, nextidx, Waiting)
    BY <1>1 DEF RegistryOK
  <2>2. ItemOK(registry[p], config, kernel', nextidx', Waiting')
    BY <1>1, <2>1, ItemKept, ConstantsAssumption
  <2> QED BY <2>2
<1>3. pc' # "idle" => \A l \in kernel' : l.kind = "physical" =>
        \E p \in 1 .. Len(registry') : registry'[p].kind = "physical" /\ registry'[p].hw = l.hw
  <2> SUFFICES ASSUME pc' # "idle", NEW l \in kernel', l.kind = "physical"
               PROVE  \E p \in 1 .. Len(registry') :
                        registry'[p].kind = "physical" /\ registry'[p].hw = l.hw
    OBVIOUS
  <2>1. PICK k \in kernel : k.kind = "physical" /\ k.hw = l.hw
    BY DEF Kept
  <2>2. PICK p \in 1 .. Len(registry) : registry[p].kind = "physical" /\ registry[p].hw = l.hw
    BY <1>1, <2>1 DEF RegistryOK
  <2>3. p \in 1 .. Len(registry')
    BY <1>1 DEF RegistryOK
  <2> QED BY <2>2, <2>3
<1> QED BY <1>2, <1>3 DEF RegistryOK

\* Nothing happens to the kernel.
LEMMA SameKept == \A K, n : Kept(K, K, n)
BY DEF Kept

LEMMA SameLinks ==
  ASSUME IInv, config' = config, kernel' = kernel, nextidx' = nextidx
  PROVE  Kept(kernel, kernel', nextidx) /\ LinksOK(kernel', config', nextidx')
         /\ kernel' \subseteq KernelLink /\ nextidx' \in Nat /\ nextidx <= nextidx'
BY SameKept DEF IInv, KernelOK, LinksOK

\* The registry stays, whatever happens to the kernel.
LEMMA RegistryStays ==
  ASSUME IInv, config' = config, registry' = registry, Kept(kernel, kernel', nextidx),
         kernel' \subseteq KernelLink, nextidx' \in Nat, nextidx <= nextidx',
         Waiting' \subseteq Waiting, pc # "idle"
  PROVE  RegistryOK'
<1>1. registry' \in Seq(RegistryItem) /\ Len(registry) <= Len(registry')
  BY DEF IInv, RegistryOK
<1>2. \A p \in 1 .. Len(registry') : p \in 1 .. Len(registry) /\ registry'[p] = registry[p]
  OBVIOUS
<1> QED BY <1>1, <1>2, RegistryStep

\* A run starts.
LEMMA StartRunIInv == ASSUME IInv, StartRun PROVE IInv'
<1>1. /\ config' = config /\ kernel' = kernel /\ nextidx' = nextidx /\ bindfile' = bindfile
      /\ registry' = Claimed(Inventory) /\ todo' \in Orders /\ pc' = "cleanup" /\ pos' = 1
  BY DEF StartRun
<1>2. ConfigOK' /\ KernelOK' /\ CurOK'
  BY <1>1 DEF IInv, ConfigOK, KernelOK, CurOK, Between
<1>3. TodoOK'
  <2>1. Cardinality(config) \in Nat
    BY FS_CardinalityType DEF IInv, ConfigOK
  <2>2. todo' \in [1 .. Cardinality(config) -> config] /\ \A i, j \in DOMAIN todo' : i # j => todo'[i] # todo'[j]
    BY <1>1 DEF Orders
  <2> QED BY <1>1, <2>1, <2>2 DEF TodoOK, PC
<1>4. RegistryOK'
  <2>1. LinksOK(kernel, config, nextidx)
    BY DEF IInv, KernelOK
  <2>2. /\ Inventory \in Seq(RegistryItem)
        /\ \A p \in 1 .. Len(Inventory) : \E l \in kernel : Inventory[p] = Item(l)
        /\ \A l \in kernel : \E p \in 1 .. Len(Inventory) : Inventory[p] = Item(l)
    BY <2>1, InventoryFacts
  <2>3. /\ registry' \in Seq(RegistryItem) /\ Len(registry') = Len(Inventory)
        /\ \A p \in 1 .. Len(Inventory) :
             \E b \in BOOLEAN : registry'[p] = [Inventory[p] EXCEPT !.claimed = b]
    <3> DEFINE B(p) == \E c \in config : Search(Inventory, c) = p
    <3>1. registry' = [p \in 1 .. Len(Inventory) |-> [Inventory[p] EXCEPT !.claimed = B(p)]]
      BY <1>1 DEF Claimed
    <3>2. \A p : B(p) \in BOOLEAN
      OBVIOUS
    <3> HIDE DEF B
    <3>3. \A p \in 1 .. Len(Inventory) : [Inventory[p] EXCEPT !.claimed = B(p)] \in RegistryItem
      <4> SUFFICES ASSUME NEW p \in 1 .. Len(Inventory)
                   PROVE  [Inventory[p] EXCEPT !.claimed = B(p)] \in RegistryItem
        OBVIOUS
      <4>1. Inventory[p] \in RegistryItem
        BY <2>2
      <4> QED BY <3>2, <4>1 DEF RegistryItem
    <3>4. Len(Inventory) \in Nat
      BY <2>2
    <3>5. registry' \in Seq(RegistryItem) /\ Len(registry') = Len(Inventory)
      <4>1. registry' \in [1 .. Len(Inventory) -> RegistryItem]
        BY <3>1, <3>3, Zenon
      <4>2. DOMAIN registry' = 1 .. Len(Inventory)
        BY <3>1, Zenon
      <4> QED BY <3>4, <4>1, <4>2
    <3>6. ASSUME NEW p \in 1 .. Len(Inventory)
          PROVE  \E b \in BOOLEAN : registry'[p] = [Inventory[p] EXCEPT !.claimed = b]
      <4>1. registry'[p] = [Inventory[p] EXCEPT !.claimed = B(p)]
        BY <3>1
      <4>2. B(p) = TRUE \/ B(p) = FALSE
        BY <3>2
      <4> QED BY <4>1, <4>2
    <3> QED BY <3>5, <3>6
  <2>4. \A p \in 1 .. Len(registry') :
          /\ \A l \in kernel : Inventory[p] = Item(l) =>
               /\ registry'[p].idx = l.idx /\ registry'[p].ns = l.ns /\ registry'[p].oldns = l.ns
               /\ registry'[p].name = l.name /\ registry'[p].kind = l.kind /\ registry'[p].hw = l.hw
               /\ ~ registry'[p].removed
          /\ \E l \in kernel : Inventory[p] = Item(l)
    <3> SUFFICES ASSUME NEW p \in 1 .. Len(registry'), NEW l \in kernel, Inventory[p] = Item(l)
                 PROVE  /\ registry'[p].idx = l.idx /\ registry'[p].ns = l.ns
                        /\ registry'[p].oldns = l.ns /\ registry'[p].name = l.name
                        /\ registry'[p].kind = l.kind /\ registry'[p].hw = l.hw
                        /\ ~ registry'[p].removed
      BY <2>2, <2>3
    <3>1. PICK b \in BOOLEAN : registry'[p] = [Inventory[p] EXCEPT !.claimed = b]
      BY <2>3
    <3> QED BY <3>1 DEF Item
  <2>5. \A p \in 1 .. Len(registry') : ItemOK(registry'[p], config', kernel', nextidx', Waiting')
    <3> SUFFICES ASSUME NEW p \in 1 .. Len(registry')
                 PROVE  ItemOK(registry'[p], config, kernel, nextidx, Waiting')
      BY <1>1
    <3>1. PICK l \in kernel :
            /\ registry'[p].idx = l.idx /\ registry'[p].ns = l.ns /\ registry'[p].oldns = l.ns
            /\ registry'[p].name = l.name /\ registry'[p].kind = l.kind /\ registry'[p].hw = l.hw
            /\ ~ registry'[p].removed
      BY <2>4
    <3>2. l.idx # None /\ l.idx < nextidx
      BY <2>1, ConstantsAssumption DEF LinksOK, KernelLink
    <3>3. \A k \in kernel : k.idx = l.idx => k = l
      BY <2>1 DEF LinksOK, Coherent
    <3>4. \A c, d \in config :
            ByName(c, kernel) /\ d.kind = "physical" /\ c # d /\ d.hw # None /\ l.hw = d.hw => l.name # c.name
      BY <2>1 DEF LinksOK, Recognisable
    <3>5. l.hw # None => l.kind = "physical"
      BY <2>1 DEF LinksOK, Coherent
    <3> QED BY <3>1, <3>2, <3>3, <3>4, <3>5 DEF ItemOK
  <2>6. \A l \in kernel : \E p \in 1 .. Len(registry') :
          registry'[p].kind = l.kind /\ registry'[p].hw = l.hw
    <3> SUFFICES ASSUME NEW l \in kernel
                 PROVE  \E p \in 1 .. Len(registry') : registry'[p].kind = l.kind /\ registry'[p].hw = l.hw
      OBVIOUS
    <3>1. PICK p \in 1 .. Len(Inventory) : Inventory[p] = Item(l)
      BY <2>2
    <3> QED BY <2>3, <2>4, <3>1
  <2> QED BY <1>1, <2>3, <2>5, <2>6 DEF RegistryOK
<1> QED BY <1>2, <1>3, <1>4 DEF IInv

\* The position in the clean-up moves, a run ends or is killed.
LEMMA QuietIInv ==
  ASSUME IInv, UNCHANGED <<config, kernel, bindfile, nextidx, registry, todo>>,
         pos' \in Nat, pos <= pos', pc' \in Between,
         pc' = "idle" \/ (pc # "idle" /\ (pc' = "cleanup" => pc = "cleanup"))
  PROVE  IInv'
<1>1. ConfigOK' /\ KernelOK' /\ CurOK'
  BY DEF IInv, ConfigOK, KernelOK, CurOK
<1>2. RegistryOK'
  BY DEF IInv, RegistryOK, Waiting
<1>3. TodoOK'
  BY DEF IInv, TodoOK, Between, PC
<1> QED BY <1>1, <1>2, <1>3 DEF IInv

\* An orphan is taken care of: of its item only marks change.
LEMMA CleanUpIInv ==
  ASSUME IInv, pc = "cleanup", pos <= Len(registry), IsOrphan(registry[pos]),
         LinksOK(kernel', config, nextidx), Kept(kernel, kernel', nextidx),
         NEW y \in RegistryItem, registry' = [registry EXCEPT ![pos] = y],
         LET x == registry[pos] IN
           /\ y.idx = x.idx /\ y.ns = x.ns /\ y.oldns = x.oldns /\ y.name = x.name
           /\ y.kind = x.kind /\ y.hw = x.hw /\ (y.removed => y.kind # "physical"),
         pos' = pos + 1,
         UNCHANGED <<config, bindfile, nextidx, todo, cur, pc>>
  PROVE  IInv'
<1>1. ConfigOK' /\ KernelOK' /\ TodoOK' /\ CurOK'
  BY DEF IInv, ConfigOK, KernelOK, TodoOK, CurOK, Between
<1>2. registry \in Seq(RegistryItem) /\ pos \in 1 .. Len(registry)
  BY DEF IInv, RegistryOK, TodoOK
<1>3. /\ registry' \in Seq(RegistryItem) /\ Len(registry') = Len(registry)
      /\ \A p \in 1 .. Len(registry) : registry'[p] = IF p = pos THEN y ELSE registry[p]
  BY <1>2
<1>4. ItemOK(registry[pos], config, kernel, nextidx, Waiting)
  BY <1>2 DEF IInv, RegistryOK
<1>5. nextidx \in Nat /\ Waiting' = Waiting /\ kernel' \subseteq KernelLink
  BY DEF IInv, KernelOK, Waiting, LinksOK
<1>6. ItemOK(registry[pos], config, kernel', nextidx', Waiting')
  BY <1>2, <1>4, <1>5, ItemKept, ConstantsAssumption
<1>7. ItemOK(y, config, kernel', nextidx', Waiting')
  BY <1>6 DEF ItemOK, Finds, CreatedFor
<1>8. RegistryOK'
  BY <1>2, <1>3, <1>5, <1>7, RegistryStep
<1> QED BY <1>1, <1>8 DEF IInv

\* A virtual orphan is removed.
LEMMA RemoveOrphanIInv ==
  ASSUME IInv, NEW p \in 1 .. Len(registry), RemoveOrphan(registry[p]) PROVE IInv'
<1> DEFINE x == registry[pos]
           y == [x EXCEPT !.removed = TRUE]
<1>1. /\ pc = "cleanup" /\ pos <= Len(registry) /\ x = registry[p]
      /\ IsOrphan(x) /\ x.kind # "physical" /\ pos' = pos + 1
      /\ registry' = [registry EXCEPT ![pos].removed = TRUE]
      /\ UNCHANGED <<config, bindfile, nextidx, todo, cur, pc>>
      /\ kernel' = Without(x.idx) \/ kernel' \in {kernel, SetUp(x.idx, FALSE)}
  <2>1. pc = "cleanup" /\ pos <= Len(registry) /\ x = registry[p]
    BY DEF RemoveOrphan, InCleanUp
  <2>2. RemoveOrphan(x)
    BY <2>1
  <2> QED BY <2>1, <2>2 DEF RemoveOrphan
<1>2. pos \in 1 .. Len(registry) /\ x \in RegistryItem /\ ItemOK(x, config, kernel, nextidx, Waiting)
  BY <1>1 DEF IInv, RegistryOK, TodoOK
<1>3. /\ y \in RegistryItem /\ registry' = [registry EXCEPT ![pos] = y]
      /\ y.idx = x.idx /\ y.ns = x.ns /\ y.oldns = x.oldns /\ y.name = x.name
      /\ y.kind = x.kind /\ y.hw = x.hw
  BY <1>1, <1>2 DEF RegistryItem
<1>4. x.idx \in Idx /\ \A l \in kernel : l.idx = x.idx => l.kind # "physical"
  BY <1>1, <1>2 DEF ItemOK, RegistryItem
<1>5. LinksOK(kernel, config, nextidx)
  BY DEF IInv, KernelOK
<1>6. LinksOK(kernel', config, nextidx) /\ Kept(kernel, kernel', nextidx)
  <2>1. CASE kernel' = Without(x.idx)
    BY <1>4, <1>5, <2>1, WithoutOK, ConstantsAssumption
  <2>2. CASE kernel' = SetUp(x.idx, FALSE)
    BY <1>5, <2>2, SetUpOK
  <2>3. CASE kernel' = kernel
    BY <1>5, <2>3, SameKept
  <2> QED BY <1>1, <2>1, <2>2, <2>3
<1> HIDE DEF y
<1> QED BY <1>1, <1>3, <1>6, CleanUpIInv

\* A physical orphan is shut down.
LEMMA ShutdownOrphanIInv ==
  ASSUME IInv, NEW p \in 1 .. Len(registry), ShutdownOrphan(registry[p]) PROVE IInv'
<1> DEFINE x == registry[pos]
           y == [x EXCEPT !.orphan = TRUE]
<1>1. /\ pc = "cleanup" /\ pos <= Len(registry) /\ x = registry[p]
      /\ IsOrphan(x) /\ x.kind = "physical" /\ pos' = pos + 1
      /\ registry' = [registry EXCEPT ![pos].orphan = TRUE]
      /\ UNCHANGED <<config, bindfile, nextidx, todo, cur, pc>>
      /\ kernel' \in {kernel, SetUp(x.idx, FALSE)}
  BY DEF ShutdownOrphan, InCleanUp
<1>2. pos \in 1 .. Len(registry) /\ x \in RegistryItem /\ ItemOK(x, config, kernel, nextidx, Waiting)
  BY <1>1 DEF IInv, RegistryOK, TodoOK
<1>3. /\ y \in RegistryItem /\ registry' = [registry EXCEPT ![pos] = y]
      /\ y.idx = x.idx /\ y.ns = x.ns /\ y.oldns = x.oldns /\ y.name = x.name
      /\ y.kind = x.kind /\ y.hw = x.hw /\ (y.removed => y.kind # "physical")
  BY <1>1, <1>2 DEF RegistryItem, ItemOK
<1>4. LinksOK(kernel, config, nextidx)
  BY DEF IInv, KernelOK
<1>5. LinksOK(kernel', config, nextidx) /\ Kept(kernel, kernel', nextidx)
  BY <1>1, <1>4, SetUpOK, SameKept
<1> HIDE DEF y
<1> QED BY <1>1, <1>3, <1>5, CleanUpIInv

\* The steps before and after the links.
LEMMA RunIInv ==
  ASSUME IInv, \/ StartRun \/ CleanUpStep \/ Finished \/ Abort PROVE IInv'
<1>1. CASE StartRun
  BY <1>1, StartRunIInv
<1>2. ASSUME NEW p \in 1 .. Len(registry), KeepItem(registry[p]) PROVE IInv'
  <2>1. /\ pc = "cleanup" /\ pos' = pos + 1 /\ pos \in Nat
        /\ UNCHANGED <<config, kernel, bindfile, nextidx, registry, todo, pc>>
    BY <1>2 DEF KeepItem, InCleanUp, IInv, TodoOK
  <2> QED BY <2>1, QuietIInv DEF Between
<1>3. CASE CleanUpDone \/ Finished \/ Abort
  <2>1. /\ UNCHANGED <<config, kernel, bindfile, nextidx, registry, todo, pos>> /\ pos \in Nat
        /\ \/ pc = "cleanup" /\ pc' = "next"
           \/ pc = "next" /\ pc' = "done"
           \/ pc' = "idle"
    BY <1>3 DEF CleanUpDone, Finished, Abort, IInv, TodoOK
  <2> QED BY <2>1, QuietIInv DEF Between
<1> QED BY <1>1, <1>2, <1>3, RemoveOrphanIInv, ShutdownOrphanIInv DEF CleanUpStep

-----------------------------------------------------------------------------
(* Link.apply                                                              *)

\* Two configured links do not find the same physical one, and what is found is
\* the hardware of no other.
LEMMA FoundByOne ==
  ASSUME Regular(config), Recognisable(config, kernel), NEW x, NEW T,
         ItemOK(x, config, kernel, nextidx, T), NEW c \in config, Finds(c, x, kernel)
  PROVE  /\ \A d \in config : Finds(d, x, kernel) => d = c
         /\ \A d \in config : d.kind = "physical" /\ d # c /\ d.hw # None => x.hw # d.hw
<1>1. \A d \in config : d.kind = "physical" /\ d # c /\ d.hw # None => x.hw # d.hw
  BY DEF Regular, ItemOK, Finds
<1>2. \A d \in config : Finds(d, x, kernel) => d = c
  BY <1>1 DEF Regular, Recognisable, ItemOK, Finds
<1> QED BY <1>1, <1>2

\* The next link is looked up.
LEMMA BeginLinkIInv == ASSUME IInv, BeginLink PROVE IInv'
<1> DEFINE c == Head(todo)
           p == Search(registry, c)
           x == registry[p]
           m == IF c.master = None THEN None ELSE IndexOf(c.ns, c.master)
           up == IF c.master # None /\ m = None THEN FALSE ELSE c.up
<1>1. /\ pc = "next" /\ todo # <<>> /\ todo' = Tail(todo)
      /\ cur' = [link |-> c, item |-> p, idx |-> IF p = 0 THEN None ELSE x.idx,
                 master |-> m, up |-> up, errs |-> FALSE]
      /\ registry' = IF p = 0 THEN registry ELSE [registry EXCEPT ![p].claimed = TRUE]
      /\ pc' = AfterLookUp(c, p)
      /\ UNCHANGED <<config, kernel, bindfile, nextidx, pos>>
  BY DEF BeginLink
<1>2. /\ config \subseteq ConfigRecord /\ Regular(config) /\ LinksOK(kernel, config, nextidx)
      /\ registry \in Seq(RegistryItem) /\ todo \in Seq(config)
  BY DEF IInv, ConfigOK, KernelOK, RegistryOK, TodoOK
<1>3. c \in config /\ c \in Waiting /\ Waiting' \subseteq Waiting \ {c} /\ TodoOK'
  <2>1. /\ todo' \in Seq(config) /\ Len(todo') = Len(todo) - 1 /\ Len(todo) \in Nat \ {0}
        /\ \A i \in 1 .. Len(todo') : todo'[i] = todo[i + 1] /\ i + 1 \in 1 .. Len(todo)
        /\ c = todo[1] /\ 1 \in 1 .. Len(todo)
    BY <1>1, <1>2
  <2>2. \A i, j \in 1 .. Len(todo) : i # j => todo[i] # todo[j]
    BY DEF IInv, TodoOK
  <2>3. \A i \in 1 .. Len(todo') : i + 1 # 1
    BY <2>1
  <2>4. Waiting' \subseteq Waiting \ {c}
    BY <2>1, <2>2, <2>3 DEF Waiting
  <2>5. pc' \in PC /\ pc' # "cleanup"
    BY <1>1 DEF AfterLookUp, PC
  <2>6. \A i, j \in 1 .. Len(todo') : i # j => todo'[i] # todo'[j]
    BY <2>1, <2>2
  <2> QED BY <1>1, <2>1, <2>4, <2>5, <2>6 DEF Waiting, TodoOK, IInv
<1>4. /\ p \in 0 .. Len(registry)
      /\ p # 0 => /\ x.kind = c.kind /\ ~ x.removed
                  /\ \/ c.hw # None /\ x.hw = c.hw
                     \/ /\ c.hw # None => \A q \in 1 .. Len(registry) :
                             registry[q].kind = c.kind /\ ~ registry[q].removed => registry[q].hw # c.hw
                        /\ x.name = c.name
                        /\ x.oldns = c.ns \/ c.kind = "physical"
  BY <1>2, SearchFacts
<1> HIDE DEF c, p, m, up
<1>5. m \in Idx \cup {None}
  <2>1. \A ns, n : Named(ns, n) # {} => IndexOf(ns, n) \in Idx
    BY <1>2 DEF Named, IndexOf, LinksOK, KernelLink
  <2>2. \A ns, n : Named(ns, n) = {} => IndexOf(ns, n) = None
    BY DEF IndexOf
  <2> QED BY <2>1, <2>2 DEF m
<1>6. up \in BOOLEAN \cup {None}
  BY <1>2, <1>3 DEF up, ConfigRecord
<1>7. ConfigOK' /\ KernelOK'
  BY <1>1 DEF IInv, ConfigOK, KernelOK
<1>8. CASE p = 0
  <2>1. pc' = "add" /\ registry' = registry
    BY <1>1, <1>8 DEF AfterLookUp
  <2>2. CurOK'
    BY <1>1, <1>3, <1>5, <1>6, <1>8, <2>1 DEF CurOK, Calling, Between
  <2>3. RegistryOK'
    <3>1. Waiting' \subseteq Waiting
      BY <1>3
    <3> QED BY <1>1, <2>1, <3>1, SameLinks, RegistryStays
  <2> QED BY <1>3, <1>7, <2>2, <2>3 DEF IInv
<1>9. CASE p # 0
  <2>1. p \in 1 .. Len(registry) /\ x \in RegistryItem /\ ItemOK(x, config, kernel, nextidx, Waiting)
    BY <1>2, <1>4, <1>9 DEF IInv, RegistryOK
  <2>2. RegistryOK'
    <3> DEFINE y == [x EXCEPT !.claimed = TRUE]
    <3>1. /\ y \in RegistryItem /\ registry' = [registry EXCEPT ![p] = y]
          /\ y.idx = x.idx /\ y.ns = x.ns /\ y.oldns = x.oldns /\ y.name = x.name
          /\ y.kind = x.kind /\ y.hw = x.hw /\ y.removed = x.removed
      BY <1>1, <1>9, <2>1 DEF RegistryItem
    <3> HIDE DEF y
    <3>2. Kept(kernel, kernel, nextidx) /\ nextidx \in Nat /\ kernel \subseteq KernelLink
      BY SameKept DEF IInv, KernelOK, LinksOK
    <3>3. Waiting' \subseteq Waiting
      BY <1>3
    <3>4. ItemOK(x, config, kernel, nextidx, Waiting')
      BY <2>1, <3>2, <3>3, ItemKept, ConstantsAssumption
    <3>5. ItemOK(y, config, kernel', nextidx', Waiting')
      BY <1>1, <3>1, <3>4 DEF ItemOK, Finds, CreatedFor
    <3>6. /\ registry' \in Seq(RegistryItem) /\ Len(registry') = Len(registry)
          /\ \A q \in 1 .. Len(registry) : registry'[q] = IF q = p THEN y ELSE registry[q]
      BY <1>2, <2>1, <3>1
    <3>7. \A q \in 1 .. Len(registry) : registry'[q].kind = registry[q].kind /\ registry'[q].hw = registry[q].hw
      BY <3>1, <3>6
    <3>8. Len(registry) <= Len(registry')
      BY <1>2, <3>6
    <3> QED BY <1>1, <3>3, <3>5, <3>6, <3>7, <3>8, SameLinks, RegistryStep
  <2>3. c.kind # "physical" => x.ns = c.ns
    <3> SUFFICES ASSUME c.kind # "physical", x.ns # c.ns PROVE FALSE
      OBVIOUS
    <3>1. x.oldns = c.ns /\ x.name = c.name /\ x.kind = c.kind
      BY <1>2, <1>3, <1>4, <1>9 DEF Regular
    <3>2. PICK d \in config : CreatedFor(d, x)
      BY <2>1, <3>1 DEF ItemOK
    <3>3. c.name \in Name
      BY <1>2, <1>3 DEF ConfigRecord
    <3> QED BY <1>2, <1>3, <3>1, <3>2, <3>3 DEF Regular, CreatedFor
  <2>4. c.kind = "physical" => Finds(c, x, kernel)
    <3>1. \A l \in kernel : l.kind = "physical" =>
            \E q \in 1 .. Len(registry) : /\ registry[q].kind = "physical" /\ registry[q].hw = l.hw
                                          /\ ~ registry[q].removed
      BY <1>1 DEF IInv, RegistryOK, ItemOK
    <3> QED BY <1>4, <1>9, <3>1 DEF Finds, ByName
  <2>5. c.kind = "physical" => x.idx \in Idx /\ Exists(x.idx)
    <3> SUFFICES ASSUME c.kind = "physical" PROVE x.idx \in Idx /\ Exists(x.idx)
      OBVIOUS
    <3>1. x.idx # None
      BY <1>2, <1>3, <2>1, <2>4, FoundByOne DEF ItemOK, LinksOK
    <3> QED BY <1>4, <1>9, <2>1, <3>1 DEF RegistryItem, ItemOK, Exists
  <2>6. \A l \in kernel : l.idx = x.idx =>
          /\ l.kind = c.kind
          /\ \A d \in config : d.kind = "physical" /\ d # c /\ d.hw # None => l.hw # d.hw
    <3>1. \A l \in kernel : l.idx = x.idx => l.kind = c.kind /\ l.hw = x.hw
      BY <1>4, <1>9, <2>1 DEF ItemOK
    <3>2. CASE c.kind = "physical"
      BY <1>2, <1>3, <2>1, <2>4, <3>1, <3>2, FoundByOne DEF LinksOK
    <3>3. CASE c.kind # "physical"
      BY <1>2, <3>1, <3>3 DEF LinksOK, Coherent
    <3> QED BY <3>2, <3>3
  <2>7. /\ pc' \in {"del", "move", "rename", "add", "idle"}
        /\ pc' = "del" => c.kind # "physical"
        /\ pc' = "move" => c.kind = "physical"
        /\ pc' = "rename" => \E l \in kernel : l.idx = x.idx /\ l.ns = c.ns
    BY <1>1, <1>9, <2>3 DEF AfterLookUp, BindKinds
  <2>8. x.idx \in Idx \cup {None}
    BY <2>1 DEF RegistryItem
  <2>9. /\ cur'.link = c /\ cur'.item = p /\ cur'.idx = x.idx /\ c \notin Waiting'
        /\ cur' \in [link : config, item : Nat, idx : Idx \cup {None}, master : Idx \cup {None},
                     up : BOOLEAN \cup {None}, errs : BOOLEAN]
    BY <1>1, <1>2, <1>3, <1>5, <1>6, <1>9, <2>1, <2>8
  <2>10. /\ Len(registry') = Len(registry) /\ registry'[p].kind = x.kind
         /\ registry'[p].idx = x.idx /\ registry'[p].hw = x.hw /\ registry'[p].name = x.name
    BY <1>1, <1>2, <1>9, <2>1 DEF RegistryItem
  <2>11. pc' = "move" => cur'.item \in 1 .. Len(registry') /\ registry'[cur'.item].kind = c.kind
                         /\ Finds(c, registry'[cur'.item], kernel')
    BY <1>1, <1>4, <1>9, <2>1, <2>4, <2>7, <2>9, <2>10 DEF Finds
  <2>12. pc' \in {"move", "rename"} => Exists(cur.idx)'
    BY <1>1, <2>5, <2>7, <2>9 DEF Exists
  <2>13. CurOK'
    <3>1. \A l \in kernel' : l.idx = cur'.idx =>
            /\ l.kind = cur'.link.kind
            /\ \A d \in config' : d.kind = "physical" /\ d # cur'.link /\ d.hw # None => l.hw # d.hw
      BY <1>1, <2>6, <2>9
    <3>2. pc' \in Calling => pc' \in {"move", "rename"}
      BY <2>7 DEF Calling
    <3>3. pc' = "rename" => \A l \in kernel' : l.idx = cur'.idx => l.ns = cur'.link.ns
      BY <1>1, <1>2, <2>7, <2>9 DEF LinksOK, Coherent
    <3>4. pc' = "move" => registry'[cur'.item].idx = cur'.idx
      BY <2>9, <2>10
    <3> HIDE DEF x
    <3> QED BY <1>1, <2>7, <2>9, <2>11, <2>12, <3>1, <3>2, <3>3, <3>4 DEF CurOK
  <2> QED BY <1>3, <1>7, <2>2, <2>13 DEF IInv
<1> QED BY <1>8, <1>9

\* The link that is applied, at a call.
LEMMA CurFacts ==
  ASSUME IInv, pc \in Calling
  PROVE  LET c == cur.link
             o == At(cur.idx)
         IN  /\ o \in kernel /\ o \in KernelLink /\ o.idx = cur.idx /\ cur.idx \in Idx
             /\ \A l \in kernel : l.idx = cur.idx <=> l = o
             /\ o.kind = c.kind
             /\ \A d \in config : d.kind = "physical" /\ d # c /\ d.hw # None => o.hw # d.hw
             /\ o.name \in Name \/ o.name[2] \in {0, o.idx}
             /\ c.kind # "physical" => o.hw = None
<1>1. LinksOK(kernel, config, nextidx) /\ Exists(cur.idx) /\ pc \notin Between
  BY DEF IInv, KernelOK, CurOK, Calling, Between
<1>2. LET o == At(cur.idx) IN
        o \in kernel /\ o.idx = cur.idx /\ \A l \in kernel : l.idx = cur.idx <=> l = o
  BY <1>1, AtFacts DEF LinksOK
<1>3. LET o == At(cur.idx) IN
        /\ o.kind = cur.link.kind
        /\ \A d \in config : d.kind = "physical" /\ d # cur.link /\ d.hw # None => o.hw # d.hw
  BY <1>1, <1>2 DEF IInv, CurOK
<1>4. LET o == At(cur.idx) IN
        /\ o \in KernelLink /\ o.idx \in Idx
        /\ o.name \in Name \/ o.name[2] \in {0, o.idx}
        /\ o.kind # "physical" => o.hw = None
  BY <1>1, <1>2 DEF LinksOK, Coherent, KernelLink
<1> QED BY <1>2, <1>3, <1>4

\* what cur is
CurType == [link : config, item : Nat, idx : Idx \cup {None}, master : Idx \cup {None},
            up : BOOLEAN \cup {None}, errs : BOOLEAN]
LEMMA CurTyped ==
  ASSUME IInv, pc \notin Between
  PROVE  /\ cur \in CurType /\ cur.link \in config /\ cur.link \in ConfigRecord
         /\ cur.link.name \in Name /\ cur.link.ns \in Ns /\ Regular(config)
         /\ LinksOK(kernel, config, nextidx) /\ nextidx \in Nat \ {0}
         /\ registry \in Seq(RegistryItem) /\ Len(registry) \in Nat
         /\ pc # "idle"
<1>1. cur \in CurType /\ pc # "idle"
  BY DEF IInv, CurOK, CurType, Between
<1>2. cur.link \in config
  BY <1>1 DEF CurType
<1>3. cur.link \in ConfigRecord
  BY <1>2 DEF IInv, ConfigOK
<1>4. registry \in Seq(RegistryItem)
  BY DEF IInv, RegistryOK
<1> QED BY <1>1, <1>2, <1>3, <1>4 DEF ConfigRecord, IInv, ConfigOK, KernelOK

\* A call changes the link that is applied: it may get the configured name.
LEMMA SelfChange ==
  ASSUME IInv, pc \in Calling, NEW m \in KernelLink,
         m.idx = cur.idx, m.kind = At(cur.idx).kind, m.hw = At(cur.idx).hw, m.peer = At(cur.idx).peer,
         \/ m.name = At(cur.idx).name
         \/ m.name = cur.link.name
         \/ m.name = <<cur.link.name, cur.idx>>,
         \A l \in kernel : l.ns = m.ns /\ l.name = m.name => l.idx = m.idx
  PROVE  /\ LinksOK(Changed(cur.idx, m), config, nextidx)
         /\ Kept(kernel, Changed(cur.idx, m), nextidx)
         /\ \A l \in Changed(cur.idx, m) : l.idx = cur.idx => l = m
         /\ m \in Changed(cur.idx, m)
<1> DEFINE c == cur.link
           o == At(cur.idx)
<1>1. /\ o \in kernel /\ o \in KernelLink /\ o.idx = cur.idx /\ cur.idx \in Idx
      /\ \A l \in kernel : l.idx = cur.idx <=> l = o
      /\ o.kind = c.kind
      /\ \A d \in config : d.kind = "physical" /\ d # c /\ d.hw # None => o.hw # d.hw
      /\ o.name \in Name \/ o.name[2] \in {0, o.idx}
      /\ c.kind # "physical" => o.hw = None
  BY CurFacts
<1>2. c \in config /\ c.name \in Name /\ LinksOK(kernel, config, nextidx) /\ config \subseteq ConfigRecord
  BY CurTyped DEF Calling, Between, IInv, ConfigOK
<1>3. m.name \in Name \/ m.name[2] \in {0, m.idx}
  BY <1>1, <1>2
<1>4. \/ m.name = o.name \/ m.name \notin Name
      \/ \A k, d \in config : ByName(k, kernel) /\ d.kind = "physical" /\ k # d
                              /\ d.hw # None /\ m.hw = d.hw => m.name # k.name
  <2>1. CASE m.name = o.name
    BY <2>1
  <2>2. CASE m.name = <<c.name, cur.idx>>
    <3>1. m.name \in Name \X (Idx \cup {0})
      BY <1>1, <1>2, <2>2
    <3> QED BY <3>1, ConstantsAssumption
  <2>3. CASE m.name = c.name
    <3> SUFFICES ASSUME NEW k \in config, NEW d \in config, ByName(k, kernel), d.kind = "physical", k # d,
                        d.hw # None, m.hw = d.hw
                 PROVE  c.name # k.name
      BY <2>3
    <3>1. o.hw = d.hw /\ c.kind = "physical"
      BY <1>1
    <3>2. d = c
      BY <1>1, <3>1
    <3> QED BY <1>2, <3>1, <3>2 DEF LinksOK, Recognisable
  <2> QED BY <2>1, <2>2, <2>3
<1>5. Exists(cur.idx)
  BY <1>1 DEF Exists
<1>6. /\ LinksOK(Changed(cur.idx, m), config, nextidx)
      /\ Kept(kernel, Changed(cur.idx, m), nextidx)
      /\ Changed(cur.idx, m) = (kernel \ {o}) \cup {m}
  BY <1>2, <1>3, <1>4, <1>5, ChangedOK
<1> QED BY <1>1, <1>6

\* A step of Link.apply that stays with its link and is not about to move it.
LEMMA CallIInv ==
  ASSUME IInv, pc \notin Between,
         UNCHANGED <<config, nextidx, todo, pos>>, RegistryOK',
         bindfile' \in [Ns \X Idx -> Ns \cup {None}],
         LinksOK(kernel', config, nextidx), Kept(kernel, kernel', nextidx),
         cur' \in CurType, cur'.link = cur.link, cur'.idx = cur.idx \/ pc' \in Between \cup {"add"},
         pc' \in PC \ {"cleanup", "move", "movein", "renamein"},
         pc' \in Calling => \E l \in kernel' : l.idx = cur.idx,
         pc' \in Calling \cup {"updated", "del"} => pc \in Calling \cup {"updated", "del"},
         pc' \in {"rename", "compare", "down", "set"} =>
           \A l \in kernel' : l.idx = cur.idx => l.ns = cur.link.ns,
         pc' \in {"del", "bind", "master", "newstate", "peer"} => cur.link.kind # "physical",
         pc' = "state" => cur'.up # None
  PROVE  IInv'
<1>1. ConfigOK' /\ KernelOK'
  BY DEF IInv, ConfigOK, KernelOK
<1>2. TodoOK'
  BY DEF IInv, TodoOK
<1>3. CurOK'
  <2>1. cur'.link \notin Waiting' /\ CurType' = CurType
    BY DEF IInv, CurOK, Waiting, CurType
  <2>0. pc' \in Calling \cup {"updated", "del"} => cur'.idx = cur.idx
    BY DEF Calling, Between
  <2>2. pc' \in Calling => Exists(cur.idx)'
    BY <2>0 DEF Exists
  <2>3. pc' \in Calling \cup {"updated", "del"} =>
          \A l \in kernel' : l.idx = cur'.idx =>
            /\ l.kind = cur'.link.kind
            /\ \A d \in config' : d.kind = "physical" /\ d # cur'.link /\ d.hw # None => l.hw # d.hw
    <3> SUFFICES ASSUME pc \in Calling \cup {"updated", "del"}, NEW l \in kernel', l.idx = cur.idx
                 PROVE  /\ l.kind = cur.link.kind
                        /\ \A d \in config : d.kind = "physical" /\ d # cur.link /\ d.hw # None => l.hw # d.hw
      BY <2>0
    <3>1. PICK k \in kernel : k.idx = l.idx /\ k.kind = l.kind /\ k.hw = l.hw
      BY DEF Kept, LinksOK
    <3> QED BY <3>1 DEF IInv, CurOK
  <2>4. pc' \in {"rename", "compare", "down", "set"} =>
          \A l \in kernel' : l.idx = cur'.idx => l.ns = cur'.link.ns
    BY <2>0 DEF Calling
  <2> QED BY <2>1, <2>2, <2>3, <2>4 DEF CurOK, CurType
<1> QED BY <1>1, <1>2, <1>3 DEF IInv

\* A step that leaves the kernel and the registry alone.
LEMMA StillIInv ==
  ASSUME IInv, pc \notin Between,
         UNCHANGED <<config, kernel, nextidx, registry, todo, pos>>,
         bindfile' \in [Ns \X Idx -> Ns \cup {None}],
         cur' \in CurType, cur'.link = cur.link, cur'.idx = cur.idx,
         pc' \in PC \ {"cleanup", "move", "movein", "renamein"},
         pc' \in Calling => pc \in Calling,
         pc' \in {"updated", "del"} => pc \in Calling \cup {"updated", "del"},
         pc' \in {"rename", "compare", "down", "set"} => pc \in {"rename", "compare", "down", "set"},
         pc' \in {"del", "bind", "master", "newstate", "peer"} => cur.link.kind # "physical",
         pc' = "state" => cur'.up # None
  PROVE  IInv'
<1>1. LinksOK(kernel', config, nextidx) /\ Kept(kernel, kernel', nextidx) /\ kernel' \subseteq KernelLink
      /\ nextidx' \in Nat /\ nextidx <= nextidx'
  BY SameLinks
<1>2. RegistryOK'
  <2>1. Waiting' \subseteq Waiting /\ pc # "idle"
    BY DEF Waiting, Between
  <2> QED BY <1>1, <2>1, RegistryStays
<1>3. pc' \in Calling => \E l \in kernel' : l.idx = cur.idx
  BY CurFacts
<1>4. pc' \in {"rename", "compare", "down", "set"} =>
        \A l \in kernel' : l.idx = cur.idx => l.ns = cur.link.ns
  BY DEF IInv, CurOK
<1> QED BY <1>1, <1>2, <1>3, <1>4, CallIInv

\* A call changes the kernel and leaves the registry alone; the link that is applied
\* stays where it is.
LEMMA KernelCallIInv ==
  ASSUME IInv, pc \in Calling,
         UNCHANGED <<config, bindfile, nextidx, registry, todo, pos>>,
         LinksOK(kernel', config, nextidx), Kept(kernel, kernel', nextidx),
         \E l \in kernel' : l.idx = cur.idx,
         \A l \in kernel' : l.idx = cur.idx => \E k \in kernel : k.idx = cur.idx /\ l.ns = k.ns,
         cur' \in CurType, cur'.link = cur.link, cur'.idx = cur.idx,
         pc' \in PC \ {"cleanup", "move", "movein", "renamein"},
         pc' \in {"rename", "compare", "down", "set"} => pc \in {"rename", "compare", "down", "set"},
         pc' \in {"del", "bind", "master", "newstate", "peer"} => cur.link.kind # "physical",
         pc' = "state" => cur'.up # None
  PROVE  IInv'
<1>1. pc \notin Between /\ pc # "idle"
  BY DEF Calling, Between
<1>2. RegistryOK'
  <2>1. Waiting' \subseteq Waiting /\ kernel' \subseteq KernelLink /\ nextidx' \in Nat /\ nextidx <= nextidx'
    BY DEF Waiting, LinksOK, IInv, KernelOK
  <2> QED BY <1>1, <2>1, RegistryStays
<1>3. pc' \in {"rename", "compare", "down", "set"} =>
        \A l \in kernel' : l.idx = cur.idx => l.ns = cur.link.ns
  BY <1>1 DEF IInv, CurOK
<1>4. bindfile' \in [Ns \X Idx -> Ns \cup {None}]
  BY DEF IInv, KernelOK
<1> QED BY <1>1, <1>2, <1>3, <1>4, CallIInv

\* What cur may become at a step.
LEMMA CurMay ==
  ASSUME cur \in CurType, NEW b \in BOOLEAN, NEW u \in BOOLEAN \cup {None}
  PROVE  /\ [cur EXCEPT !.errs = b] \in CurType /\ [cur EXCEPT !.up = u] \in CurType
         /\ \A x \in {[cur EXCEPT !.errs = b], [cur EXCEPT !.up = u]} :
              x.link = cur.link /\ x.idx = cur.idx
         /\ [cur EXCEPT !.errs = b].up = cur.up
BY DEF CurType

LEMMA CompareIInv == ASSUME IInv, Compare PROVE IInv'
<1>1. /\ pc = "compare" /\ UNCHANGED <<config, kernel, bindfile, nextidx, registry, todo, pos>>
      /\ pc' \in {"idle", "down", "set", "state", "updated"}
      /\ cur' = cur \/ (cur.up = None /\ cur' = [cur EXCEPT !.up = TRUE])
      /\ pc' = "state" => cur' = cur /\ cur.up # None
  BY DEF Compare
<1>2. cur \in CurType /\ bindfile \in [Ns \X Idx -> Ns \cup {None}]
  BY <1>1, CurTyped DEF Between, IInv, KernelOK
<1>3. cur' \in CurType /\ cur'.link = cur.link /\ cur'.idx = cur.idx
  <2>1. TRUE \in BOOLEAN \cup {None}
    OBVIOUS
  <2> QED BY <1>1, <1>2, <2>1, CurMay
<1> QED BY <1>1, <1>2, <1>3, StillIInv DEF Calling, Between, PC

LEMMA UpdatedIInv == ASSUME IInv, Updated \/ CannotCreate \/ AddFails PROVE IInv'
<1>1. /\ UNCHANGED <<config, kernel, bindfile, nextidx, registry, todo, cur, pos>>
      /\ \/ pc = "updated" /\ pc' \in {"del", "next"} /\ (pc' = "del" => cur.link.kind # "physical")
         \/ pc = "add" /\ pc' \in {"next", "peer"} /\ (pc' = "peer" => cur.link.kind # "physical")
  BY DEF Updated, CannotCreate, AddFails, NotAdded
<1>2. cur \in CurType /\ bindfile \in [Ns \X Idx -> Ns \cup {None}]
  BY <1>1, CurTyped DEF Between, IInv, KernelOK
<1> QED BY <1>1, <1>2, StillIInv DEF Calling, Between, PC

LEMMA SetBindStateIInv == ASSUME IInv, SetBindState PROVE IInv'
<1>1. /\ pc = "bind" /\ pc' = "master"
      /\ UNCHANGED <<config, kernel, nextidx, registry, todo, cur, pos>>
  BY DEF SetBindState
<1>2. cur \in CurType /\ bindfile \in [Ns \X Idx -> Ns \cup {None}] /\ cur.link \in ConfigRecord
      /\ cur.link.kind # "physical"
  BY <1>1, CurTyped DEF Between, IInv, KernelOK, CurOK
<1>3. cur.link.ns \in Ns /\ cur.link.bind \in Ns
  BY <1>2 DEF ConfigRecord
<1>4. bindfile' \in [Ns \X Idx -> Ns \cup {None}]
  BY <1>2, <1>3 DEF SetBindState
<1> QED BY <1>1, <1>2, <1>4, StillIInv DEF Calling, Between, PC

\* The link goes up or down, or keeps its state as the call fails.
LEMMA StateIInv == ASSUME IInv, ShutDown \/ SetState \/ NewState PROVE IInv'
<1>1. /\ UNCHANGED <<config, bindfile, nextidx, registry, todo, pos>>
      /\ \/ pc = "down" /\ pc' = "set"
         \/ pc = "state" /\ pc' = "updated"
         \/ pc = "newstate" /\ pc' \in {"peer", "next"} /\ (pc' = "peer" => cur.link.kind = "veth")
      /\ cur' = cur \/ cur' = [cur EXCEPT !.errs = TRUE]
  BY DEF ShutDown, SetState, NewState
<1>2. cur \in CurType /\ LinksOK(kernel, config, nextidx) /\ pc \in Calling /\ nextidx \in Nat
  BY <1>1, CurTyped DEF Calling, Between
<1>3. kernel' = kernel \/ \E up \in BOOLEAN : kernel' = SetUp(cur.idx, up)
  <2>1. CASE ShutDown
    BY <2>1 DEF ShutDown
  <2>2. CASE SetState
    <3>1. cur.up \in BOOLEAN
      BY <1>2, <2>2 DEF SetState, IInv, CurOK, Between, CurType
    <3> QED BY <2>2, <3>1 DEF SetState
  <2>3. CASE NewState
    <3>1. cur.up = None \/ cur.up \in BOOLEAN
      BY <1>2 DEF CurType
    <3> QED BY <2>3, <3>1 DEF NewState
  <2> QED BY <2>1, <2>2, <2>3
<1>4. /\ LinksOK(kernel', config, nextidx) /\ Kept(kernel, kernel', nextidx)
      /\ \A k \in kernel' : \E l \in kernel : Same(k, l)
      /\ \A l \in kernel : \E k \in kernel' : Same(k, l)
  <2>1. CASE kernel' = kernel
    BY <1>2, <2>1, SameKept DEF Same
  <2>2. ASSUME NEW up \in BOOLEAN, kernel' = SetUp(cur.idx, up)
        PROVE  /\ LinksOK(kernel', config, nextidx) /\ Kept(kernel, kernel', nextidx)
               /\ \A k \in kernel' : \E l \in kernel : Same(k, l)
               /\ \A l \in kernel : \E k \in kernel' : Same(k, l)
    BY <1>2, <2>2, SetUpOK
  <2> QED BY <1>3, <2>1, <2>2
<1>5. cur' \in CurType /\ cur'.link = cur.link /\ cur'.idx = cur.idx
  BY <1>1, <1>2, CurMay
<1>6. \E l \in kernel' : l.idx = cur.idx
  BY <1>2, <1>4, CurFacts DEF Same
<1>7. \A l \in kernel' : l.idx = cur.idx => \E k \in kernel : k.idx = cur.idx /\ l.ns = k.ns
  BY <1>4 DEF Same
<1> QED BY <1>1, <1>2, <1>4, <1>5, <1>6, <1>7, KernelCallIInv DEF PC

\* the links in the way of the one that is applied, and what becomes of them
InTheWay   == {l \in Named(cur.link.ns, cur.link.name) : l.idx # cur.idx}
Down(l)    == [l EXCEPT !.up = FALSE]
Renamed(l) == [l EXCEPT !.up = FALSE, !.name = <<cur.link.name, 0>>]

\* Another link that has the name is put out of the way.
LEMMA ClearNameIInv == ASSUME IInv, ClearName PROVE IInv'
<1> DEFINE c == cur.link
<1>1. /\ pc = "rename" /\ pc' = "compare"
      /\ UNCHANGED <<config, bindfile, nextidx, registry, todo, pos>>
      /\ cur' = cur \/ cur' = [cur EXCEPT !.errs = TRUE]
      /\ \/ kernel' = kernel
         \/ kernel' = (kernel \ InTheWay) \cup {Down(l) : l \in InTheWay}
         \/ /\ InTheWay = {} \/ Named(c.ns, <<c.name, 0>>) = {}
            /\ kernel' = (kernel \ InTheWay) \cup {Renamed(l) : l \in InTheWay}
  BY Zenon DEF ClearName, InTheWay, Down, Renamed
<1>2. /\ cur \in CurType /\ LinksOK(kernel, config, nextidx) /\ pc \in Calling
      /\ c \in ConfigRecord /\ c.name \in Name
  BY <1>1, CurTyped DEF Calling, Between
<1>3. cur' \in CurType /\ cur'.link = cur.link /\ cur'.idx = cur.idx
  BY <1>1, <1>2, CurMay
<1>4. /\ LinksOK(kernel', config, nextidx) /\ Kept(kernel, kernel', nextidx)
      /\ \A l : l.idx = cur.idx => (l \in kernel' <=> l \in kernel)
  <2>1. CASE kernel' = kernel
    BY <1>2, <2>1, SameKept
  <2>2. CASE InTheWay = {}
    BY <1>1, <1>2, <2>2, SameKept
  <2>3. ASSUME NEW o \in InTheWay
        PROVE  /\ LinksOK(kernel', config, nextidx) /\ Kept(kernel, kernel', nextidx)
               /\ \A l : l.idx = cur.idx => (l \in kernel' <=> l \in kernel)
    <3> DEFINE m == Down(o)
               n == Renamed(o)
    <3>1. o \in kernel /\ o \in KernelLink /\ o.ns = c.ns /\ o.name = c.name /\ o.idx # cur.idx
      BY <1>2 DEF InTheWay, Named, LinksOK
    <3>2. InTheWay = {o}
      BY <1>2 DEF InTheWay, Named, LinksOK, Coherent
    <3>3. Exists(o.idx) /\ At(o.idx) = o
      <4>1. Exists(o.idx)
        BY <3>1 DEF Exists
      <4> QED BY <1>2, <3>1, <4>1, AtFacts DEF LinksOK
    <3>4. /\ m \in KernelLink /\ m.idx = o.idx /\ m.kind = o.kind /\ m.hw = o.hw /\ m.peer = o.peer
          /\ m.ns = o.ns /\ m.name = o.name
      BY <3>1 DEF KernelLink, Down
    <3>5. /\ n \in KernelLink /\ n.idx = o.idx /\ n.kind = o.kind /\ n.hw = o.hw /\ n.peer = o.peer
          /\ n.ns = o.ns /\ n.name = <<c.name, 0>>
      <4>1. <<c.name, 0>> \in AnyName
        BY <1>2 DEF AnyName
      <4> QED BY <3>1, <4>1 DEF KernelLink, Renamed
    <3>6. <<c.name, 0>> \notin Name /\ <<c.name, 0>>[2] = 0
      <4>1. <<c.name, 0>> \in Name \X (Idx \cup {0})
        BY <1>2
      <4> QED BY <4>1, ConstantsAssumption
    <3> HIDE DEF m, n
    <3>7. /\ LinksOK(Changed(o.idx, m), config, nextidx) /\ Kept(kernel, Changed(o.idx, m), nextidx)
          /\ Changed(o.idx, m) = (kernel \ {o}) \cup {m}
      <4>1. config \subseteq ConfigRecord
        BY DEF IInv, ConfigOK
      <4>2. m.name \in Name \/ m.name[2] \in {0, m.idx}
        BY <1>2, <3>1, <3>4
      <4>3. \A l \in kernel : l.ns = m.ns /\ l.name = m.name => l.idx = m.idx
        BY <1>2, <3>1, <3>4 DEF LinksOK, Coherent
      <4> QED BY <1>2, <3>3, <3>4, <4>1, <4>2, <4>3, ChangedOK
    <3>8. ASSUME Named(c.ns, <<c.name, 0>>) = {}
          PROVE  /\ LinksOK(Changed(o.idx, n), config, nextidx) /\ Kept(kernel, Changed(o.idx, n), nextidx)
                 /\ Changed(o.idx, n) = (kernel \ {o}) \cup {n}
      <4>1. config \subseteq ConfigRecord
        BY DEF IInv, ConfigOK
      <4>2. n.name[2] \in {0, n.idx} /\ n.name \notin Name
        BY <3>5, <3>6
      <4>3. \A l \in kernel : l.ns = n.ns /\ l.name = n.name => l.idx = n.idx
        BY <3>1, <3>5, <3>8 DEF Named
      <4> QED BY <1>2, <3>3, <3>5, <4>1, <4>2, <4>3, ChangedOK
    <3>9. \/ kernel' = kernel
          \/ kernel' = (kernel \ {o}) \cup {m}
          \/ Named(c.ns, <<c.name, 0>>) = {} /\ kernel' = (kernel \ {o}) \cup {n}
      BY <1>1, <3>2 DEF m, n
    <3>10. \A l : l.idx = cur.idx => (l \in kernel' <=> l \in kernel)
      BY <3>1, <3>4, <3>5, <3>9
    <3> QED BY <1>2, <3>7, <3>8, <3>9, <3>10, SameKept
  <2> QED BY <2>1, <2>2, <2>3
<1>5. \E l \in kernel' : l.idx = cur.idx
  BY <1>2, <1>4, CurFacts
<1>6. \A l \in kernel' : l.idx = cur.idx => \E k \in kernel : k.idx = cur.idx /\ l.ns = k.ns
  BY <1>4
<1> QED BY <1>1, <1>2, <1>3, <1>4, <1>5, <1>6, KernelCallIInv DEF PC

\* The settings of the link are changed, or the call fails.
LEMMA SetLinkIInv == ASSUME IInv, SetLink PROVE IInv'
<1> DEFINE c == cur.link
           o == At(cur.idx)
           m == [o EXCEPT !.name = c.name,
                          !.attr = IF o.kind \in FixedAttrKinds THEN @ ELSE c.attr,
                          !.master = IF cur.master = None THEN @ ELSE cur.master]
<1>1. /\ pc = "set" /\ pc' = (IF cur.up # None THEN "state" ELSE "updated")
      /\ UNCHANGED <<config, bindfile, nextidx, registry, todo, pos>>
      /\ \E b \in BOOLEAN : cur' = [cur EXCEPT !.errs = b]
      /\ \/ kernel' = kernel
         \/ kernel' = Changed(cur.idx, m) /\ ~ \E k \in Named(c.ns, c.name) : k.idx # cur.idx
  <2>1. pc = "set" => cur.errs \in BOOLEAN
    BY CurTyped DEF Between, CurType
  <2>2. CASE kernel' = Changed(cur.idx, m) /\ ~ \E k \in Named(c.ns, c.name) : k.idx # cur.idx
    <3>1. cur' = [cur EXCEPT !.errs = @ \/ (o.kind \in FixedAttrKinds /\ o.attr # c.attr)]
          \/ cur' = [cur EXCEPT !.errs = TRUE]
      BY DEF SetLink
    <3>2. (cur.errs \/ (o.kind \in FixedAttrKinds /\ o.attr # c.attr)) \in BOOLEAN
      OBVIOUS
    <3> QED BY <2>2, <3>1, <3>2 DEF SetLink
  <2>3. CASE kernel' = kernel /\ cur' = [cur EXCEPT !.errs = TRUE]
    BY <2>3 DEF SetLink
  <2>4. (kernel' = Changed(cur.idx, m) /\ ~ \E k \in Named(c.ns, c.name) : k.idx # cur.idx)
        \/ (kernel' = kernel /\ cur' = [cur EXCEPT !.errs = TRUE])
    BY DEF SetLink
  <2> QED BY <2>2, <2>3, <2>4
<1>2. /\ cur \in CurType /\ LinksOK(kernel, config, nextidx) /\ pc \in Calling
      /\ c \in ConfigRecord /\ c.name \in Name
  BY <1>1, CurTyped DEF Calling, Between
<1>3. cur' \in CurType /\ cur'.link = cur.link /\ cur'.idx = cur.idx /\ cur'.up = cur.up
  BY <1>1, <1>2, CurMay
<1>4. o \in kernel /\ o \in KernelLink /\ o.idx = cur.idx /\ o.ns = c.ns
  <2>1. o \in kernel /\ o \in KernelLink /\ o.idx = cur.idx
    BY <1>2, CurFacts
  <2> QED BY <1>1, <2>1 DEF IInv, CurOK, Between
<1>5. /\ m \in KernelLink /\ m.idx = cur.idx /\ m.ns = c.ns /\ m.name = c.name
      /\ m.kind = o.kind /\ m.hw = o.hw /\ m.peer = o.peer
  <2>1. /\ (IF o.kind \in FixedAttrKinds THEN o.attr ELSE c.attr) \in Attr
        /\ (IF cur.master = None THEN o.master ELSE cur.master) \in Idx \cup {None}
    BY <1>2, <1>4 DEF KernelLink, ConfigRecord, CurType
  <2>2. c.name \in AnyName
    BY <1>2 DEF AnyName
  <2> QED BY <1>4, <2>1, <2>2 DEF KernelLink
<1> HIDE DEF m
<1>6. /\ LinksOK(kernel', config, nextidx) /\ Kept(kernel, kernel', nextidx)
      /\ \E l \in kernel' : l.idx = cur.idx
      /\ \A l \in kernel' : l.idx = cur.idx => \E k \in kernel : k.idx = cur.idx /\ l.ns = k.ns
  <2>1. CASE kernel' = kernel
    BY <1>2, <1>4, <2>1, SameKept
  <2>2. CASE kernel' = Changed(cur.idx, m) /\ ~ \E k \in Named(c.ns, c.name) : k.idx # cur.idx
    <3>1. \A l \in kernel : l.ns = m.ns /\ l.name = m.name => l.idx = m.idx
      BY <1>5, <2>2 DEF Named
    <3> QED BY <1>2, <1>4, <1>5, <2>2, <3>1, SelfChange
  <2> QED BY <1>1, <2>1, <2>2
<1> QED BY <1>1, <1>2, <1>3, <1>6, KernelCallIInv DEF PC

\* The link that was created gets its master.
LEMMA SetMasterIInv == ASSUME IInv, SetMaster PROVE IInv'
<1> DEFINE o == At(cur.idx)
           m == [o EXCEPT !.master = cur.master]
<1>1. /\ pc = "master" /\ pc' = "newstate"
      /\ UNCHANGED <<config, bindfile, nextidx, registry, todo, cur, pos>>
      /\ kernel' = kernel \/ kernel' = Changed(cur.idx, m)
  BY DEF SetMaster
<1>2. /\ cur \in CurType /\ LinksOK(kernel, config, nextidx) /\ pc \in Calling
      /\ cur.link.kind # "physical"
  BY <1>1, CurTyped DEF Calling, Between, IInv, CurOK
<1>3. o \in kernel /\ o \in KernelLink /\ o.idx = cur.idx
  BY <1>2, CurFacts
<1>4. /\ m \in KernelLink /\ m.idx = cur.idx /\ m.ns = o.ns /\ m.name = o.name
      /\ m.kind = o.kind /\ m.hw = o.hw /\ m.peer = o.peer
  BY <1>2, <1>3 DEF KernelLink, CurType
<1> HIDE DEF m
<1>5. /\ LinksOK(kernel', config, nextidx) /\ Kept(kernel, kernel', nextidx)
      /\ \E l \in kernel' : l.idx = cur.idx
      /\ \A l \in kernel' : l.idx = cur.idx => \E k \in kernel : k.idx = cur.idx /\ l.ns = k.ns
  <2>1. CASE kernel' = kernel
    BY <1>2, <1>3, <2>1, SameKept
  <2>2. CASE kernel' = Changed(cur.idx, m)
    <3>1. \A l \in kernel : l.ns = m.ns /\ l.name = m.name => l.idx = m.idx
      BY <1>2, <1>3, <1>4 DEF LinksOK, Coherent
    <3> QED BY <1>2, <1>3, <1>4, <2>2, <3>1, SelfChange
  <2> QED BY <1>1, <2>1, <2>2
<1> QED BY <1>1, <1>2, <1>5, KernelCallIInv DEF PC

\* The link that could not be updated is deleted.
LEMMA DeleteLinkIInv == ASSUME IInv, DeleteLink PROVE IInv'
<1>1. /\ pc = "del" /\ pc' = "add"
      /\ UNCHANGED <<config, bindfile, nextidx, registry, todo, cur, pos>>
      /\ kernel' = kernel \/ (Exists(cur.idx) /\ kernel' = Without(cur.idx))
  BY DEF DeleteLink, Exists
<1>2. /\ cur \in CurType /\ LinksOK(kernel, config, nextidx) /\ nextidx \in Nat
      /\ bindfile \in [Ns \X Idx -> Ns \cup {None}]
      /\ \A l \in kernel : l.idx = cur.idx => l.kind # "physical"
  BY <1>1, CurTyped DEF Between, IInv, KernelOK, CurOK
<1>3. LinksOK(kernel', config, nextidx) /\ Kept(kernel, kernel', nextidx)
  <2>1. CASE kernel' = kernel
    BY <1>2, <2>1, SameKept
  <2>2. CASE Exists(cur.idx) /\ kernel' = Without(cur.idx)
    <3>1. cur.idx \in Idx
      BY <1>2, <2>2 DEF Exists, LinksOK, KernelLink
    <3> QED BY <1>2, <2>2, <3>1, WithoutOK, ConstantsAssumption
  <2> QED BY <1>1, <2>1, <2>2
<1>4. RegistryOK'
  <2>1. Waiting' \subseteq Waiting /\ kernel' \subseteq KernelLink /\ nextidx' \in Nat /\ nextidx <= nextidx'
    BY <1>1, <1>2, <1>3 DEF Waiting, LinksOK
  <2> QED BY <1>1, <1>3, <2>1, RegistryStays
<1> QED BY <1>1, <1>2, <1>3, <1>4, CallIInv DEF Calling, Between, PC

\* What is known of one link changes.
LEMMA ItemChanged ==
  ASSUME IInv, pc # "idle", UNCHANGED <<config, nextidx, todo>>,
         LinksOK(kernel', config, nextidx), Kept(kernel, kernel', nextidx),
         NEW i \in 1 .. Len(registry), NEW y \in RegistryItem, registry' = [registry EXCEPT ![i] = y],
         y.kind = registry[i].kind, y.hw = registry[i].hw,
         ItemOK(registry[i], config, kernel', nextidx, Waiting) => ItemOK(y, config, kernel', nextidx, Waiting)
  PROVE  RegistryOK' /\ Len(registry') = Len(registry) /\ registry'[i] = y
<1>1. /\ registry \in Seq(RegistryItem) /\ nextidx \in Nat /\ kernel' \subseteq KernelLink
      /\ Waiting' = Waiting
  BY DEF IInv, RegistryOK, KernelOK, LinksOK, Waiting
<1>2. /\ registry' \in Seq(RegistryItem) /\ Len(registry') = Len(registry)
      /\ \A p \in 1 .. Len(registry) : registry'[p] = IF p = i THEN y ELSE registry[p]
  BY <1>1
<1>3. ItemOK(registry[i], config, kernel, nextidx, Waiting) /\ registry[i] \in RegistryItem
  BY <1>1 DEF IInv, RegistryOK
<1>4. ItemOK(registry[i], config, kernel', nextidx, Waiting)
  BY <1>1, <1>3, ItemKept, ConstantsAssumption
<1>5. ItemOK(y, config, kernel', nextidx', Waiting')
  BY <1>1, <1>4
<1>6. RegistryOK'
  BY <1>1, <1>2, <1>5, RegistryStep
<1> QED BY <1>2, <1>6

\* What MoveLink makes of the link and of its item: the name the link gets, the name
\* and the index the registry has for it.
Fresh      == <<cur.link.name, At(cur.idx).idx>>
IsClear    == Named(cur.link.ns, registry[cur.item].name) = {}
MoveName   == IF IsClear THEN At(cur.idx).name ELSE Fresh
KnownAs    == IF IsClear THEN registry[cur.item].name ELSE MoveName
FoundAs    == IF MoveName = KnownAs THEN cur.idx ELSE None
Moved      == [At(cur.idx) EXCEPT !.ns = cur.link.ns, !.name = MoveName, !.up = FALSE,
                                  !.master = None]
Stopped(k) == [At(cur.idx) EXCEPT !.up = FALSE, !.name = k]

\* The link is moved to its namespace, or stays where it is.
LEMMA MoveLinkIInv == ASSUME IInv, MoveLink PROVE IInv'
<1> DEFINE c == cur.link
           l == At(cur.idx)
           x == registry[cur.item]
<1>1. /\ pc = "move" /\ UNCHANGED <<config, bindfile, nextidx, todo, pos>>
      /\ \/ /\ Named(c.ns, MoveName) = {}
            /\ kernel' = Changed(cur.idx, Moved)
            /\ registry' = [registry EXCEPT ![cur.item].ns = c.ns, ![cur.item].name = KnownAs,
                                            ![cur.item].idx = FoundAs]
            /\ cur' = [cur EXCEPT !.idx = FoundAs]
            /\ pc' = IF FoundAs = None THEN "add" ELSE "rename"
         \/ /\ \E k \in {l.name, MoveName} :
                 kernel' = Changed(cur.idx, Stopped(k))
            /\ registry' = [registry EXCEPT ![cur.item].name = KnownAs]
            /\ cur' = cur
            /\ pc' = "next"
  BY Zenon DEF MoveLink, Fresh, IsClear, MoveName, KnownAs, FoundAs, Moved, Stopped
<1>2. /\ cur \in CurType /\ LinksOK(kernel, config, nextidx) /\ pc \in Calling /\ pc # "idle"
      /\ c \in config /\ c.name \in Name /\ c.ns \in Ns /\ pc \notin Between
      /\ registry \in Seq(RegistryItem) /\ bindfile \in [Ns \X Idx -> Ns \cup {None}]
  BY <1>1, CurTyped DEF Calling, Between, IInv, KernelOK
<1>3. /\ cur.item \in 1 .. Len(registry) /\ x.kind = "physical" /\ x.idx = cur.idx
      /\ c.kind = "physical" /\ Finds(c, x, kernel) /\ c \notin Waiting
  BY <1>1, <1>2 DEF IInv, CurOK
<1>4. /\ l \in kernel /\ l \in KernelLink /\ l.idx = cur.idx /\ cur.idx \in Idx
      /\ l.name \in Name \/ l.name[2] \in {0, l.idx}
  BY <1>2, CurFacts
<1>5. x \in RegistryItem /\ None \notin Idx /\ 0 \notin Idx
  BY <1>2, <1>3, ConstantsAssumption DEF Idx
<1>6. <<c.name, l.idx>> \in AnyName /\ <<c.name, l.idx>> \notin Name /\ l.name \in AnyName /\ x.name \in AnyName
  <2>1. <<c.name, l.idx>> \in Name \X (Idx \cup {0})
    BY <1>2, <1>4
  <2> QED BY <1>4, <1>5, <2>1, ConstantsAssumption DEF AnyName, KernelLink, RegistryItem
<1>7. /\ MoveName \in AnyName /\ KnownAs \in AnyName /\ FoundAs \in {cur.idx, None}
      /\ MoveName \in {l.name, <<c.name, l.idx>>} /\ (KnownAs = x.name \/ KnownAs = <<c.name, l.idx>>)
      /\ FoundAs = None => KnownAs = x.name
  BY <1>4, <1>5, <1>6 DEF Fresh, MoveName, KnownAs, FoundAs
<1> HIDE DEF l, x, c
<1>8. /\ LinksOK(kernel', config, nextidx) /\ Kept(kernel, kernel', nextidx)
      /\ pc' = "rename" => /\ \A k \in kernel' : k.idx = cur.idx => k.ns = c.ns
                           /\ \E k \in kernel' : k.idx = cur.idx
  <2>1. CASE Named(c.ns, MoveName) = {} /\ kernel' = Changed(cur.idx, Moved)
    <3>1. /\ Moved \in KernelLink /\ Moved.idx = cur.idx /\ Moved.ns = c.ns /\ Moved.name = MoveName
          /\ Moved.kind = l.kind /\ Moved.hw = l.hw /\ Moved.peer = l.peer
      BY <1>2, <1>4, <1>7 DEF Moved, KernelLink, l, c
    <3>2. \A k \in kernel : k.ns = Moved.ns /\ k.name = Moved.name => k.idx = Moved.idx
      BY <2>1, <3>1 DEF Named
    <3>3. Moved.name = l.name \/ Moved.name = <<c.name, cur.idx>>
      BY <1>4, <1>7, <3>1
    <3> QED BY <1>2, <2>1, <3>1, <3>2, <3>3, SelfChange DEF l, c
  <2>2. CASE pc' = "next" /\ \E k \in {l.name, MoveName} :
               kernel' = Changed(cur.idx, Stopped(k))
    <3>1. PICK k \in {l.name, MoveName} : kernel' = Changed(cur.idx, Stopped(k))
      BY <2>2
    <3> DEFINE m == Stopped(k)
    <3>2. /\ m \in KernelLink /\ m.idx = cur.idx /\ m.ns = l.ns /\ m.name = k
          /\ m.kind = l.kind /\ m.hw = l.hw /\ m.peer = l.peer
      BY <1>4, <1>6, <1>7 DEF KernelLink, Stopped, l
    <3> HIDE DEF m
    <3>3. k = l.name \/ k = <<c.name, cur.idx>>
      BY <1>4, <1>7
    <3>4. \A o \in kernel : o.ns = m.ns /\ o.name = m.name => o.idx = m.idx
      <4>1. CASE k = l.name
        BY <1>2, <1>4, <3>2, <4>1 DEF LinksOK, Coherent
      <4>2. CASE k = <<c.name, cur.idx>>
        <5> SUFFICES ASSUME NEW o \in kernel, o.name = <<c.name, cur.idx>>
                     PROVE  o.idx = cur.idx
          BY <3>2, <4>2
        <5>1. o.name \notin Name /\ o.name[2] = cur.idx
          BY <1>4, <1>6
        <5> QED BY <1>2, <1>4, <1>5, <5>1 DEF LinksOK, Coherent
      <4> QED BY <3>3, <4>1, <4>2
    <3>5. kernel' = Changed(cur.idx, m)
      BY <3>1 DEF m
    <3> QED BY <1>2, <2>2, <3>2, <3>3, <3>4, <3>5, SelfChange DEF l, c
  <2> QED BY <1>1, <2>1, <2>2
<1>9. RegistryOK'
  <2>1. \E y \in RegistryItem :
          /\ registry' = [registry EXCEPT ![cur.item] = y]
          /\ y.idx \in {cur.idx, None} /\ y.oldns = x.oldns /\ y.name = KnownAs
          /\ y.kind = x.kind /\ y.hw = x.hw /\ y.removed = x.removed
          /\ y.idx = None => y.name = x.name
    <3>1. CASE registry' = [registry EXCEPT ![cur.item].ns = c.ns, ![cur.item].name = KnownAs,
                                            ![cur.item].idx = FoundAs]
      <4> DEFINE y == [x EXCEPT !.ns = c.ns, !.name = KnownAs, !.idx = FoundAs]
      <4>1. registry' = [registry EXCEPT ![cur.item] = y]
        BY <1>2, <1>3, <3>1 DEF x
      <4>2. /\ y \in RegistryItem /\ y.idx = FoundAs /\ y.oldns = x.oldns /\ y.name = KnownAs
            /\ y.kind = x.kind /\ y.hw = x.hw /\ y.removed = x.removed
        BY <1>2, <1>4, <1>5, <1>7 DEF RegistryItem
      <4> QED BY <1>7, <4>1, <4>2
    <3>2. CASE registry' = [registry EXCEPT ![cur.item].name = KnownAs]
      <4> DEFINE y == [x EXCEPT !.name = KnownAs]
      <4>1. registry' = [registry EXCEPT ![cur.item] = y]
        BY <1>2, <1>3, <3>2 DEF x
      <4>2. /\ y \in RegistryItem /\ y.idx = x.idx /\ y.oldns = x.oldns /\ y.name = KnownAs
            /\ y.kind = x.kind /\ y.hw = x.hw /\ y.removed = x.removed
        BY <1>5, <1>7 DEF RegistryItem
      <4> QED BY <1>3, <1>4, <1>5, <4>1, <4>2
    <3> QED BY <1>1, <3>1, <3>2
  <2>2. PICK y \in RegistryItem :
          /\ registry' = [registry EXCEPT ![cur.item] = y]
          /\ y.idx \in {cur.idx, None} /\ y.oldns = x.oldns /\ y.name = KnownAs
          /\ y.kind = x.kind /\ y.hw = x.hw /\ y.removed = x.removed
          /\ y.idx = None => y.name = x.name
    BY <2>1
  <2>3. Finds(c, x, kernel')
    <3>1. ByName(c, kernel') <=> ByName(c, kernel)
      BY <1>8, ByNameKept
    <3> QED BY <1>3, <3>1 DEF Finds
  <2>4. ASSUME ItemOK(x, config, kernel', nextidx, Waiting)
        PROVE  ItemOK(y, config, kernel', nextidx, Waiting)
    <3>1. \A k \in kernel' : k.idx = y.idx => k.kind = y.kind /\ k.hw = y.hw
      <4>1. \A k \in kernel' : k.idx # None
        BY <1>5, <1>8 DEF LinksOK, KernelLink
      <4> QED BY <1>3, <2>2, <2>4, <4>1 DEF ItemOK
    <3>2. /\ y.idx \in Idx => y.idx < nextidx
          /\ y.kind = "physical" /\ y.idx # None => \E k \in kernel' : k.idx = y.idx
      BY <1>3, <1>4, <1>5, <2>2, <2>4 DEF ItemOK
    <3>3. y.idx = None => y.kind = "physical" /\ \E d \in config \ Waiting : Finds(d, y, kernel')
      <4>1. y.idx = None => Finds(c, y, kernel')
        BY <2>2, <2>3 DEF Finds
      <4> QED BY <1>2, <1>3, <2>2, <4>1
    <3>4. \A k, d \in config :
            ByName(k, kernel') /\ d.kind = "physical" /\ k # d /\ d.hw # None /\ y.hw = d.hw => y.name # k.name
      <4>1. \A k \in config : k.name \in Name
        BY DEF IInv, ConfigOK, ConfigRecord
      <4>2. y.name = x.name \/ y.name \notin Name
        BY <1>6, <1>7, <2>2
      <4> QED BY <2>2, <2>4, <4>1, <4>2 DEF ItemOK
    <3> QED BY <1>3, <2>2, <2>4, <3>1, <3>2, <3>3, <3>4 DEF ItemOK
  <2> QED BY <1>1, <1>2, <1>3, <1>8, <2>2, <2>4, ItemChanged DEF x
<1>10. /\ cur' \in CurType /\ cur'.link = c /\ cur'.up = cur.up
       /\ pc' = "rename" => cur'.idx = cur.idx
       /\ pc' \in {"add", "rename", "next"}
  BY <1>1, <1>2, <1>7 DEF CurType, c
<1> QED BY <1>1, <1>2, <1>8, <1>9, <1>10, CallIInv DEF c, Calling, Between, PC

\* The new link is moved from the namespace it was created in, or stays there.
LEMMA MoveInIInv == ASSUME IInv, MoveIn PROVE IInv'
<1> DEFINE c == cur.link
           o == At(cur.idx)
           x == registry[cur.item]
           m == [o EXCEPT !.ns = c.ns]
           y == [x EXCEPT !.ns = c.ns]
<1>1. /\ pc = "movein" /\ UNCHANGED <<config, bindfile, nextidx, todo, cur, pos>>
      /\ \/ /\ kernel' = Changed(cur.idx, m) /\ registry' = [registry EXCEPT ![cur.item].ns = c.ns]
            /\ pc' = "renamein"
         \/ /\ UNCHANGED <<kernel, registry>> /\ pc' \in {"peer", "next"}
  BY DEF MoveIn, NotAdded
<1>2. /\ cur \in CurType /\ LinksOK(kernel, config, nextidx) /\ pc \in Calling /\ pc # "idle"
      /\ c \in config /\ c.name \in Name /\ c.ns \in Ns /\ pc \notin Between
      /\ registry \in Seq(RegistryItem) /\ bindfile \in [Ns \X Idx -> Ns \cup {None}]
  BY <1>1, CurTyped DEF Calling, Between, IInv, KernelOK
<1>3. /\ cur.item \in 1 .. Len(registry) /\ x.kind = c.kind /\ x.oldns = c.bind /\ c.bind # c.ns
      /\ x.name \notin Name /\ c.kind # "physical" /\ c \notin Waiting
      /\ \A l \in kernel : l.idx = cur.idx => l.name = <<c.name, l.idx>>
  BY <1>1, <1>2 DEF IInv, CurOK
<1>4. CASE kernel' = kernel /\ registry' = registry /\ pc' \in {"peer", "next"}
  BY <1>1, <1>2, <1>3, <1>4, StillIInv DEF Calling, PC
<1>5. CASE /\ kernel' = Changed(cur.idx, m) /\ registry' = [registry EXCEPT ![cur.item].ns = c.ns]
           /\ pc' = "renamein"
  <2>1. /\ o \in kernel /\ o \in KernelLink /\ o.idx = cur.idx /\ cur.idx \in Idx /\ o.kind = c.kind
        /\ \A d \in config : d.kind = "physical" /\ d # c /\ d.hw # None => o.hw # d.hw
        /\ o.name = <<c.name, cur.idx>>
    BY <1>2, <1>3, CurFacts
  <2>2. x \in RegistryItem
    BY <1>2, <1>3
  <2>3. /\ m \in KernelLink /\ m.idx = cur.idx /\ m.ns = c.ns /\ m.name = o.name
        /\ m.kind = o.kind /\ m.hw = o.hw /\ m.peer = o.peer
    BY <1>2, <2>1 DEF KernelLink
  <2>4. /\ y \in RegistryItem /\ y.idx = x.idx /\ y.oldns = x.oldns /\ y.name = x.name /\ y.kind = x.kind
        /\ y.hw = x.hw /\ y.removed = x.removed
    BY <1>2, <2>2 DEF RegistryItem
  <2>5. registry' = [registry EXCEPT ![cur.item] = y]
    BY <1>2, <1>3, <1>5
  <2> HIDE DEF m, y, o
  <2>6. \A l \in kernel : l.ns = m.ns /\ l.name = m.name => l.idx = m.idx
    <3>1. <<c.name, cur.idx>> \in Name \X (Idx \cup {0}) /\ 0 \notin Idx
      BY <1>2, <2>1 DEF Idx
    <3>2. <<c.name, cur.idx>> \notin Name
      BY <3>1, ConstantsAssumption
    <3> QED BY <1>2, <2>1, <2>3, <3>1, <3>2 DEF LinksOK, Coherent
  <2>7. /\ LinksOK(kernel', config, nextidx) /\ Kept(kernel, kernel', nextidx)
        /\ m \in kernel' /\ \A l \in kernel' : l.idx = cur.idx => l = m
    BY <1>2, <1>5, <2>3, <2>6, SelfChange DEF o
  <2>8. ItemOK(x, config, kernel', nextidx, Waiting) => ItemOK(y, config, kernel', nextidx, Waiting)
    <3>1. CreatedFor(c, y)
      BY <1>3, <2>4 DEF CreatedFor
    <3> HIDE DEF c, x
    <3> QED BY <1>2, <3>1, <2>4 DEF ItemOK, Finds
  <2>9. RegistryOK' /\ Len(registry') = Len(registry) /\ registry'[cur.item] = y
    BY <1>1, <1>2, <1>3, <2>4, <2>5, <2>7, <2>8, ItemChanged
  <2>10. CurOK'
    <3>1. Exists(cur.idx)'
      BY <1>1, <2>3, <2>7 DEF Exists
    <3>2. cur'.link \notin Waiting' /\ CurType' = CurType
      BY <1>1, <1>3 DEF Waiting, CurType
    <3>3. \A l \in kernel' : l.idx = cur.idx =>
            /\ l.kind = c.kind /\ l.ns = c.ns /\ l.name = <<c.name, l.idx>>
            /\ \A d \in config : d.kind = "physical" /\ d # c /\ d.hw # None => l.hw # d.hw
      BY <2>1, <2>3, <2>7
    <3>4. registry'[cur.item].kind = c.kind /\ registry'[cur.item].oldns = c.bind
          /\ registry'[cur.item].name \notin Name
      BY <1>3, <2>4, <2>9
    <3> QED BY <1>1, <1>2, <1>3, <1>5, <2>9, <3>1, <3>2, <3>3, <3>4 DEF CurOK, CurType
  <2>11. ConfigOK' /\ KernelOK' /\ TodoOK'
    BY <1>1, <1>5, <2>7 DEF IInv, ConfigOK, KernelOK, TodoOK, PC
  <2> QED BY <2>9, <2>10, <2>11 DEF IInv
<1> QED BY <1>1, <1>4, <1>5

\* The new link gets its name, or keeps the one it was created with.
LEMMA RenameInIInv == ASSUME IInv, RenameIn PROVE IInv'
<1> DEFINE c == cur.link
           o == At(cur.idx)
           x == registry[cur.item]
           m == [o EXCEPT !.name = c.name]
           y == [x EXCEPT !.name = c.name]
<1>1. /\ pc = "renamein" /\ UNCHANGED <<config, bindfile, nextidx, todo, cur, pos>>
      /\ registry' = [registry EXCEPT ![cur.item].name = c.name]
      /\ \/ Named(c.ns, c.name) = {} /\ kernel' = Changed(cur.idx, m) /\ pc' = "bind"
         \/ kernel' = kernel /\ pc' \in {"peer", "next"}
  BY DEF RenameIn, NotAdded
<1>2. /\ cur \in CurType /\ LinksOK(kernel, config, nextidx) /\ pc \in Calling /\ pc # "idle"
      /\ c \in config /\ c.name \in Name /\ c.ns \in Ns /\ pc \notin Between
      /\ registry \in Seq(RegistryItem) /\ bindfile \in [Ns \X Idx -> Ns \cup {None}]
  BY <1>1, CurTyped DEF Calling, Between, IInv, KernelOK
<1>3. /\ cur.item \in 1 .. Len(registry) /\ x.kind = c.kind /\ x.oldns = c.bind /\ c.bind # c.ns
      /\ c.kind # "physical"
      /\ \A l \in kernel : l.idx = cur.idx => l.ns = c.ns
  BY <1>1, <1>2 DEF IInv, CurOK
<1>4. /\ o \in kernel /\ o \in KernelLink /\ o.idx = cur.idx /\ o.ns = c.ns
  BY <1>2, <1>3, CurFacts
<1>5. x \in RegistryItem
  BY <1>2, <1>3
<1>6. c.name \in AnyName
  BY <1>2 DEF AnyName
<1>7. /\ m \in KernelLink /\ m.idx = cur.idx /\ m.ns = c.ns /\ m.name = c.name
      /\ m.kind = o.kind /\ m.hw = o.hw /\ m.peer = o.peer
  BY <1>4, <1>6 DEF KernelLink
<1>8. /\ y \in RegistryItem /\ y.idx = x.idx /\ y.oldns = x.oldns /\ y.name = c.name /\ y.kind = x.kind
      /\ y.hw = x.hw /\ y.removed = x.removed
  BY <1>5, <1>6 DEF RegistryItem
<1>9. registry' = [registry EXCEPT ![cur.item] = y]
  BY <1>1, <1>2, <1>3
<1> HIDE DEF m, y, o
<1>10. LinksOK(kernel', config, nextidx) /\ Kept(kernel, kernel', nextidx)
       /\ \E l \in kernel' : l.idx = cur.idx
  <2>1. CASE kernel' = kernel
    BY <1>2, <1>4, <2>1, SameKept
  <2>2. CASE Named(c.ns, c.name) = {} /\ kernel' = Changed(cur.idx, m)
    <3>1. \A l \in kernel : l.ns = m.ns /\ l.name = m.name => l.idx = m.idx
      BY <1>7, <2>2 DEF Named
    <3> QED BY <1>2, <1>7, <2>2, <3>1, SelfChange DEF o
  <2> QED BY <1>1, <2>1, <2>2
<1>11. ItemOK(x, config, kernel', nextidx, Waiting) => ItemOK(y, config, kernel', nextidx, Waiting)
  <2>1. CreatedFor(c, y)
    BY <1>3, <1>8 DEF CreatedFor
  <2>2. y.kind # "physical"
    BY <1>3, <1>8
  <2>3. ItemOK(x, config, kernel', nextidx, Waiting) => x.hw = None /\ x.idx # None
    BY <1>3 DEF ItemOK
  <2> HIDE DEF c, x
  <2> QED BY <1>2, <1>8, <2>1, <2>2, <2>3 DEF ItemOK
<1>12. RegistryOK'
  BY <1>1, <1>2, <1>3, <1>8, <1>9, <1>10, <1>11, ItemChanged
<1> QED BY <1>1, <1>2, <1>3, <1>10, <1>12, CallIInv DEF Calling, Between, PC

\* What is read of a link is right.
LEMMA ReadOK ==
  ASSUME NEW F, NEW K, NEW n, NEW T, LinksOK(K, F, n), NEW l \in K
  PROVE  Item(l) \in RegistryItem /\ ItemOK(Item(l), F, K, n, T)
<1> DEFINE x == Item(l)
<1>1. /\ x.idx = l.idx /\ x.ns = l.ns /\ x.oldns = l.ns /\ x.name = l.name /\ x.kind = l.kind
      /\ x.hw = l.hw /\ ~ x.removed
  BY DEF Item
<1>2. l \in KernelLink /\ l.idx # None /\ l.idx < n
  BY ConstantsAssumption DEF LinksOK, KernelLink
<1>3. \A k \in K : k.idx = l.idx => k = l
  BY DEF LinksOK, Coherent
<1>4. \A c, d \in F : ByName(c, K) /\ d.kind = "physical" /\ c # d /\ d.hw # None /\ l.hw = d.hw => l.name # c.name
  BY DEF LinksOK, Recognisable
<1>5. l.hw # None => l.kind = "physical"
  BY DEF LinksOK, Coherent
<1>6. x \in RegistryItem
  BY <1>2 DEF Item, RegistryItem, KernelLink
<1> HIDE DEF x
<1>7. ItemOK(x, F, K, n, T)
  BY <1>1, <1>2, <1>3, <1>4, <1>5 DEF ItemOK
<1> QED BY <1>6, <1>7 DEF x

\* An item is appended.
LEMMA ItemAppended ==
  ASSUME IInv, pc # "idle", UNCHANGED <<config, todo>>, Kept(kernel, kernel', nextidx),
         kernel' \subseteq KernelLink, nextidx' \in Nat, nextidx <= nextidx',
         NEW y \in RegistryItem, registry' = Append(registry, y),
         ItemOK(y, config, kernel', nextidx', Waiting)
  PROVE  RegistryOK' /\ Len(registry') = Len(registry) + 1 /\ registry'[Len(registry) + 1] = y
<1>1. registry \in Seq(RegistryItem) /\ Len(registry) \in Nat /\ Waiting' = Waiting
  BY DEF IInv, RegistryOK, Waiting
<1>2. /\ registry' \in Seq(RegistryItem) /\ Len(registry') = Len(registry) + 1
      /\ registry'[Len(registry) + 1] = y
      /\ \A p \in 1 .. Len(registry) : registry'[p] = registry[p]
  BY <1>1
<1>3. \A p \in 1 .. Len(registry') :
        \/ p \in 1 .. Len(registry) /\ registry'[p] = registry[p]
        \/ ItemOK(registry'[p], config, kernel', nextidx', Waiting')
  BY <1>1, <1>2
<1>4. Len(registry) <= Len(registry')
  BY <1>1, <1>2
<1>5. RegistryOK'
  BY <1>1, <1>2, <1>3, <1>4, RegistryStep
<1> QED BY <1>2, <1>5

\* The peer of a veth link becomes known.
LEMMA AddPeerIInv == ASSUME IInv, AddPeer PROVE IInv'
<1> DEFINE peers == Named(cur.link.bind, cur.link.peer)
<1>1. /\ pc = "peer" /\ UNCHANGED <<config, kernel, bindfile, nextidx, todo, cur, pos>>
      /\ \/ pc' = "idle" /\ registry' = registry
         \/ /\ pc' = "next"
            /\ \E l \in kernel : registry' = Append(registry, Item(l))
  <2>1. peers # {} => \E l \in kernel : l = CHOOSE k \in peers : TRUE
    BY DEF Named
  <2> QED BY <2>1 DEF AddPeer
<1>2. /\ cur \in CurType /\ LinksOK(kernel, config, nextidx) /\ nextidx \in Nat /\ pc \notin Between
      /\ bindfile \in [Ns \X Idx -> Ns \cup {None}]
  BY <1>1, CurTyped DEF Between, IInv, KernelOK
<1>3. /\ Kept(kernel, kernel', nextidx) /\ kernel' \subseteq KernelLink /\ nextidx' \in Nat
      /\ nextidx <= nextidx' /\ Waiting' \subseteq Waiting /\ LinksOK(kernel', config, nextidx)
  BY <1>1, <1>2, SameKept DEF LinksOK, Waiting
<1>4. RegistryOK'
  <2>1. CASE registry' = registry
    BY <1>1, <1>3, <2>1, RegistryStays
  <2>2. ASSUME NEW l \in kernel, registry' = Append(registry, Item(l)) PROVE RegistryOK'
    <3>1. Item(l) \in RegistryItem /\ ItemOK(Item(l), config, kernel', nextidx', Waiting)
      BY <1>1, <1>2, ReadOK
    <3> QED BY <1>1, <1>3, <2>2, <3>1, ItemAppended
  <2> QED BY <1>1, <2>1, <2>2
<1> QED BY <1>1, <1>2, <1>3, <1>4, CallIInv DEF Calling, Between, PC

\* A link is created.
LEMMA AddLinkIInv == ASSUME IInv, AddLink PROVE IInv'
<1> DEFINE c  == cur.link
           ns == IF Bound THEN c.bind ELSE c.ns
           n  == IF Bound THEN <<c.name, nextidx>> ELSE c.name
           m  == IF c.kind = "veth" THEN nextidx + 2 ELSE nextidx + 1
           y  == Item(NewLink(nextidx, ns, n, c))
<1>1. /\ pc = "add" /\ c.kind # "physical" /\ UNCHANGED <<config, bindfile, todo, pos>>
      /\ nextidx < MaxIdx /\ ~ Taken(ns, n, c) /\ kernel' = Added(ns, n, c) /\ nextidx' = m
      /\ registry' = Append(registry, y)
      /\ cur' = [cur EXCEPT !.idx = nextidx, !.item = Len(registry) + 1]
      /\ pc' = IF Bound THEN "movein" ELSE IF c.kind \in BindKinds THEN "bind" ELSE "master"
  BY Zenon DEF AddLink
<1>2. /\ cur \in CurType /\ LinksOK(kernel, config, nextidx) /\ nextidx \in Nat \ {0} /\ pc \notin Between
      /\ c \in config /\ c \in ConfigRecord /\ c.name \in Name /\ c.ns \in Ns /\ Regular(config)
      /\ registry \in Seq(RegistryItem) /\ Len(registry) \in Nat /\ c \notin Waiting
      /\ config \subseteq ConfigRecord /\ pc # "idle"
  BY <1>1, CurTyped DEF Between, IInv, ConfigOK, CurOK
<1>3. nextidx \in Idx /\ None \notin Idx
  BY <1>1, <1>2, ConstantsAssumption DEF Idx
<1>4. ns \in Ns
  BY <1>2 DEF ConfigRecord
<1>5. Bound => <<c.name, nextidx>> \notin Name
  <2>1. <<c.name, nextidx>> \in Name \X (Idx \cup {0})
    BY <1>2, <1>3
  <2> QED BY <2>1, ConstantsAssumption
<1>6. c.kind = "veth" => c.peer \in Name /\ n # c.peer
  BY <1>2, <1>5 DEF Regular, ConfigRecord, Bound, BindKinds
<1>7. /\ LinksOK(kernel', config, m) /\ Kept(kernel, kernel', nextidx)
      /\ NewLink(nextidx, ns, n, c) \in KernelLink
      /\ \A l \in kernel' : l.idx < nextidx => l \in kernel
      /\ \E l \in kernel' : l.idx = nextidx
      /\ \A l \in kernel' : l.idx = nextidx => l.kind = c.kind /\ l.hw = None /\ l.name = n
  <2>1. n = c.name \/ n = <<c.name, nextidx>>
    OBVIOUS
  <2> HIDE DEF n, ns
  <2> QED BY <1>1, <1>2, <1>4, <1>6, <2>1, AddedOK, ConstantsAssumption
<1>8. /\ y.idx = nextidx /\ y.ns = ns /\ y.oldns = ns /\ y.name = n /\ y.kind = c.kind
      /\ y.hw = None /\ ~ y.removed
  BY DEF Item, NewLink
<1>9. y \in RegistryItem
  BY <1>7 DEF Item, RegistryItem, KernelLink
<1>10. m \in Nat \ {0} /\ nextidx < m
  BY <1>2
<1>11. Bound => n = <<c.name, nextidx>> /\ ns = c.bind /\ c.bind # c.ns
  BY DEF Bound
<1> HIDE DEF n, ns, m, y
<1>12. ItemOK(y, config, kernel', m, Waiting)
  BY <1>1, <1>3, <1>7, <1>8, <1>10 DEF ItemOK
<1>13. RegistryOK' /\ Len(registry') = Len(registry) + 1 /\ registry'[Len(registry) + 1] = y
  <2>1. kernel' \subseteq KernelLink /\ nextidx' \in Nat /\ nextidx <= nextidx'
    BY <1>1, <1>2, <1>7, <1>10 DEF LinksOK
  <2> QED BY <1>1, <1>2, <1>7, <1>9, <1>12, <2>1, ItemAppended
<1>14. ConfigOK' /\ KernelOK' /\ TodoOK'
  BY <1>1, <1>7, <1>10 DEF IInv, ConfigOK, KernelOK, TodoOK, PC
<1>15. CurOK'
  <2>1. cur' \in CurType /\ cur'.link = c /\ cur'.idx = nextidx /\ cur'.item = Len(registry) + 1
    <3>1. Len(registry) + 1 \in Nat /\ cur \in CurType /\ nextidx \in Idx
      BY <1>2, <1>3
    <3>2. cur' = [cur EXCEPT !.idx = nextidx, !.item = Len(registry) + 1]
      BY <1>1
    <3> QED BY <3>1, <3>2 DEF CurType
  <2>2. c \notin Waiting' /\ CurType' = CurType
    BY <1>1, <1>2 DEF Waiting, CurType
  <2>3. Exists(cur.idx)'
    BY <1>7, <2>1 DEF Exists
  <2>4. pc' = "movein" => Bound
    BY <1>1
  <2>5. pc' \in {"movein", "bind", "master"}
    BY <1>1
  <2>6. \A l \in kernel' : l.idx = cur'.idx =>
          /\ l.kind = c.kind /\ (pc' = "movein" => l.name = <<c.name, l.idx>>)
          /\ \A d \in config : d.kind = "physical" /\ d # c /\ d.hw # None => l.hw # d.hw
    BY <1>7, <1>11, <2>1, <2>4
  <2>7. pc' = "movein" =>
          /\ cur'.item \in 1 .. Len(registry') /\ registry'[cur'.item].kind = c.kind
          /\ registry'[cur'.item].oldns = c.bind /\ c.bind # c.ns
          /\ registry'[cur'.item].name \notin Name
    BY <1>2, <1>5, <1>8, <1>11, <1>13, <2>1, <2>4
  <2> HIDE DEF c
  <2> QED BY <1>1, <2>1, <2>2, <2>3, <2>5, <2>6, <2>7 DEF CurOK, CurType, Calling, Between, c
<1> QED BY <1>13, <1>14, <1>15 DEF IInv

\* Every step keeps the invariant.
LEMMA NextIInv == ASSUME IInv, [Next]_vars PROVE IInv'
<1>1. CASE StartRun \/ CleanUpStep \/ Finished \/ Abort
  BY <1>1, RunIInv
<1>2. CASE BeginLink \/ AddLink \/ DeleteLink \/ AddPeer
  BY <1>2, BeginLinkIInv, AddLinkIInv, DeleteLinkIInv, AddPeerIInv
<1>3. CASE MoveLink \/ ClearName \/ Compare \/ SetLink
  BY <1>3, MoveLinkIInv, ClearNameIInv, CompareIInv, SetLinkIInv
<1>4. CASE ShutDown \/ SetState \/ NewState
  BY <1>4, StateIInv
<1>5. CASE Updated \/ CannotCreate \/ AddFails
  BY <1>5, UpdatedIInv
<1>6. CASE MoveIn \/ RenameIn \/ SetBindState \/ SetMaster
  BY <1>6, MoveInIInv, RenameInIInv, SetBindStateIInv, SetMasterIInv
<1>7. CASE UNCHANGED vars
  <2>1. UNCHANGED <<config, kernel, bindfile, nextidx, registry, todo, pos, cur, pc>>
    BY <1>7 DEF vars
  <2>2. ConfigOK' /\ KernelOK' /\ TodoOK'
    BY <2>1 DEF IInv, ConfigOK, KernelOK, TodoOK
  <2>3. RegistryOK'
    BY <2>1 DEF IInv, RegistryOK, Waiting
  <2>4. CurOK'
    BY <2>1 DEF IInv, CurOK, Waiting, Exists
  <2> QED BY <2>2, <2>3, <2>4 DEF IInv
<1> QED BY <1>1, <1>2, <1>3, <1>4, <1>5, <1>6, <1>7 DEF Next, LinkStep

THEOREM Invariance == Spec => []IInv
<1>1. Init => IInv
  BY InitIInv
<1>2. IInv /\ [Next]_vars => IInv'
  BY NextIInv
<1> QED BY <1>1, <1>2, PTL DEF Spec

\* Whatever the links, the failures and the runs: no two links of a namespace have
\* a name and no two an index, and a call in the middle of Link.apply is made on a
\* link that is there.
THEOREM TypeCorrect == Spec => []TypeOK
<1>1. IInv => TypeOK
  <2> SUFFICES ASSUME IInv PROVE TypeOK
    OBVIOUS
  <2>1. /\ kernel \subseteq KernelLink /\ bindfile \in [Ns \X Idx -> Ns \cup {None}]
        /\ registry \in Seq(RegistryItem) /\ pc \in PC
        /\ \A l, m \in kernel : l.idx = m.idx \/ (l.ns = m.ns /\ l.name = m.name) => l = m
    BY DEF IInv, KernelOK, RegistryOK, TodoOK, LinksOK, Coherent
  <2>2. pc \in PC \ {"idle", "cleanup", "next", "updated", "del", "add", "peer", "done"} => Exists(cur.idx)
    BY DEF IInv, CurOK, PC, Calling, Between
  <2> QED BY <2>1, <2>2 DEF TypeOK
<1> QED BY <1>1, Invariance, PTL

-----------------------------------------------------------------------------
(* What a run leaves behind                                                *)

\* the first item that is the hardware of a configured physical link, or has its
\* name and namespace if the hardware is not there
IsItem(c, x) == x.kind = c.kind /\ ~ x.removed
HasHw(c, x)  == IsItem(c, x) /\ c.hw # None /\ x.hw = c.hw
HasName(c, x) == IsItem(c, x) /\ x.name = c.name /\ x.oldns = c.ns
Sees(reg, c, p) ==
  /\ p \in 1 .. Len(reg)
  /\ \/ HasHw(c, reg[p]) /\ \A q \in 1 .. p - 1 : ~ HasHw(c, reg[q])
     \/ /\ HasName(c, reg[p]) /\ \A q \in 1 .. p - 1 : ~ HasName(c, reg[q])
        /\ \A q \in 1 .. Len(reg) : ~ HasHw(c, reg[q])

\* why a link may be in the kernel in a run in which no call has failed so far: the
\* clean-up comes to it, it will be found for a configured link, or is at hand
ToCleanUp(l) == pc = "cleanup" /\ \E p \in pos .. Len(registry) :
  registry[p].idx = l.idx /\ IsOrphan(registry[p])
ToCome(l) == \E c \in Waiting : c.kind = "physical" /\ \E p \in 1 .. Len(registry) :
  Sees(registry, c, p) /\ registry[p].idx = l.idx /\ registry[p].ns = l.ns
InHand(l) == l.idx = cur.idx /\
  pc \in {"move", "rename", "compare", "down", "set", "movein", "renamein"}
Explained(l) == IsPermitted(l) \/ ToCleanUp(l) \/ ToCome(l) \/ InHand(l)

\* what is known of the virtual link of a configured one is right until it is applied
KnownRight ==
  \A e \in Waiting : e.kind # "physical" =>
    \A p \in 1 .. Len(registry) : HasName(e, registry[p]) =>
      \A l \in kernel : l.idx = registry[p].idx => l.name = e.name /\ l.ns = e.ns

CurNamed ==
  \A l \in kernel : l.idx = cur.idx =>
    /\ pc \in {"rename", "compare", "down", "set"} /\ cur.link.kind # "physical" =>
         l.name = cur.link.name
    /\ pc = "state" => l.name = cur.link.name /\ l.ns = cur.link.ns

OrphanInv ==
  pc # "idle" /\ ~ failed => (\A l \in kernel : Explained(l)) /\ KnownRight /\ CurNamed

\* What is found first stays found, as long as it keeps its name and nothing that is
\* new is the hardware.
LEMMA SeesKept ==
  ASSUME NEW r \in Seq(RegistryItem), NEW s \in Seq(RegistryItem), Len(r) <= Len(s),
         NEW c, c.name \in Name, NEW p, Sees(r, c, p),
         \A q \in 1 .. Len(r) :
           /\ s[q].kind = r[q].kind /\ s[q].hw = r[q].hw /\ s[q].oldns = r[q].oldns
           /\ s[q].kind = c.kind => /\ s[q].removed = r[q].removed
                                    /\ s[q].name = r[q].name \/ (q # p /\ s[q].name \notin Name),
         \A q \in Len(r) + 1 .. Len(s) : HasHw(c, s[q]) => \E o \in 1 .. Len(r) : HasHw(c, r[o])
  PROVE  Sees(s, c, p)
<1>1. Len(r) \in Nat /\ Len(s) \in Nat /\ p \in 1 .. Len(r) /\ p \in 1 .. Len(s)
  BY DEF Sees
<1>2. \A q \in 1 .. Len(r) : HasHw(c, s[q]) <=> HasHw(c, r[q])
  BY DEF HasHw, IsItem
<1>3. \A q \in 1 .. Len(r) : HasName(c, s[q]) => HasName(c, r[q])
  BY DEF HasName, IsItem
<1>4. HasName(c, r[p]) => HasName(c, s[p])
  BY <1>1 DEF HasName, IsItem
<1>5. \A q \in 1 .. p - 1 : q \in 1 .. Len(r)
  BY <1>1
<1>6. CASE HasHw(c, r[p]) /\ \A q \in 1 .. p - 1 : ~ HasHw(c, r[q])
  BY <1>1, <1>2, <1>5, <1>6 DEF Sees
<1>7. CASE /\ HasName(c, r[p]) /\ \A q \in 1 .. p - 1 : ~ HasName(c, r[q])
           /\ \A q \in 1 .. Len(r) : ~ HasHw(c, r[q])
  <2>1. \A q \in 1 .. Len(s) : ~ HasHw(c, s[q])
    <3> SUFFICES ASSUME NEW q \in 1 .. Len(s) PROVE ~ HasHw(c, s[q])
      OBVIOUS
    <3>1. q \in 1 .. Len(r) \/ q \in Len(r) + 1 .. Len(s)
      BY <1>1
    <3> QED BY <1>2, <1>7, <3>1
  <2> QED BY <1>1, <1>3, <1>4, <1>5, <1>7, <2>1 DEF Sees
<1> QED BY <1>6, <1>7 DEF Sees

\* The smallest position.
LEMMA MinIs ==
  ASSUME NEW S \in SUBSET Nat, NEW x \in S, \A y \in S : x <= y
  PROVE  Min(S) = x
<1>1. Min(S) \in S /\ Min(S) <= x
  BY MinFacts
<1>2. x <= Min(S) /\ x \in Nat /\ Min(S) \in Nat
  BY <1>1
<1> QED BY <1>1, <1>2

\* What is seen first is found, and what is found is seen first, but for orphans.
LEMMA SearchSees ==
  ASSUME NEW reg \in Seq(RegistryItem), NEW c
  PROVE  /\ \A p : Sees(reg, c, p) => Search(reg, c) = p
         /\ \A p : Search(reg, c) = p /\ p # 0 =>
              Sees(reg, c, p) \/ reg[p].orphan
<1> DEFINE First(S) == IF S = {} THEN 0 ELSE Min(S)
           Items  == {p \in 1 .. Len(reg) : reg[p].kind = c.kind /\ ~ reg[p].removed}
           H      == {p \in Items : c.hw # None /\ reg[p].hw = c.hw}
           N      == {p \in Items : reg[p].name = c.name /\ reg[p].oldns = c.ns}
           O      == {p \in Items : reg[p].kind = "physical" /\ reg[p].name = c.name
                                      /\ reg[p].orphan}
<1>1. Len(reg) \in Nat
  OBVIOUS
<1>2. H \in SUBSET Nat /\ N \in SUBSET Nat /\ O \in SUBSET Nat
  BY <1>1
<1>3. \A p : p \in H <=> p \in 1 .. Len(reg) /\ HasHw(c, reg[p])
  BY DEF HasHw, IsItem
<1>4. \A p : p \in N <=> p \in 1 .. Len(reg) /\ HasName(c, reg[p])
  BY DEF HasName, IsItem
<1>5. Search(reg, c) = IF First(H) # 0 THEN First(H) ELSE IF First(N) # 0 THEN First(N) ELSE First(O)
  BY DEF Search
<1>6. 0 \notin H /\ 0 \notin N /\ \A p \in O : reg[p].orphan
  OBVIOUS
<1> HIDE DEF H, N, O
<1>7. /\ H = {} => First(H) = 0
      /\ H # {} => First(H) \in H /\ First(H) # 0 /\ \A y \in H : First(H) <= y
  BY <1>2, <1>6, MinFacts
<1>8. /\ N = {} => First(N) = 0
      /\ N # {} => First(N) \in N /\ First(N) # 0 /\ \A y \in N : First(N) <= y
  BY <1>2, <1>6, MinFacts
<1>9. /\ O = {} => First(O) = 0
      /\ O # {} => First(O) \in O
  BY <1>2, MinFacts
<1>10. ASSUME NEW p, Sees(reg, c, p) PROVE Search(reg, c) = p
  <2>1. p \in 1 .. Len(reg) /\ p \in Nat
    BY <1>10 DEF Sees
  <2>2. CASE HasHw(c, reg[p]) /\ \A q \in 1 .. p - 1 : ~ HasHw(c, reg[q])
    <3>1. p \in H /\ \A y \in H : p <= y
      BY <1>1, <1>3, <2>1, <2>2
    <3>2. First(H) = p
      BY <1>2, <3>1, MinIs
    <3> QED BY <1>5, <2>1, <3>2
  <2>3. CASE /\ HasName(c, reg[p]) /\ \A q \in 1 .. p - 1 : ~ HasName(c, reg[q])
             /\ \A q \in 1 .. Len(reg) : ~ HasHw(c, reg[q])
    <3>1. p \in N /\ \A y \in N : p <= y
      BY <1>1, <1>4, <2>1, <2>3
    <3>2. First(N) = p
      BY <1>2, <3>1, MinIs
    <3>3. H = {}
      BY <1>3, <2>3
    <3> QED BY <1>5, <1>7, <2>1, <3>2, <3>3
  <2> QED BY <1>10, <2>2, <2>3 DEF Sees
<1>11. ASSUME NEW p, Search(reg, c) = p, p # 0 PROVE Sees(reg, c, p) \/ reg[p].orphan
  <2> HIDE DEF First
  <2>1. CASE H # {}
    <3>1. p \in H /\ \A y \in H : p <= y
      BY <1>5, <1>7, <1>11, <2>1
    <3>2. \A q \in 1 .. p - 1 : q \in 1 .. Len(reg) /\ ~ (p <= q)
      BY <1>1, <1>3, <3>1
    <3> QED BY <1>3, <3>1, <3>2 DEF Sees
  <2>2. CASE H = {} /\ N # {}
    <3>1. p \in N /\ \A y \in N : p <= y
      BY <1>5, <1>7, <1>8, <1>11, <2>2
    <3>2. \A q \in 1 .. p - 1 : q \in 1 .. Len(reg) /\ ~ (p <= q)
      BY <1>1, <1>4, <3>1
    <3> QED BY <1>3, <1>4, <2>2, <3>1, <3>2 DEF Sees
  <2>3. CASE H = {} /\ N = {}
    <3>1. p \in O
      BY <1>5, <1>7, <1>8, <1>9, <1>11, <2>3
    <3> QED BY <1>6, <3>1
  <2> QED BY <2>1, <2>2, <2>3
<1> QED BY <1>10, <1>11

\* The registry a run starts with: all links as they are, and those claimed that a
\* configured link is found to be.
LEMMA ClaimedFacts ==
  ASSUME LinksOK(kernel, config, nextidx)
  PROVE  LET r == Claimed(Inventory) IN
         /\ Inventory \in Seq(RegistryItem) /\ r \in Seq(RegistryItem) /\ Len(r) = Len(Inventory)
         /\ \A p \in 1 .. Len(r) : Inventory[p] \in RegistryItem /\
              \E l \in kernel :
                /\ r[p].idx = l.idx /\ r[p].ns = l.ns /\ r[p].oldns = l.ns /\ r[p].name = l.name
                /\ r[p].kind = l.kind /\ r[p].hw = l.hw /\ ~ r[p].removed /\ ~ r[p].orphan
                /\ r[p].claimed = (\E c \in config : Search(Inventory, c) = p)
                /\ Inventory[p] = Item(l)
         /\ \A l \in kernel : \E p \in 1 .. Len(r) : Inventory[p] = Item(l)
<1> DEFINE r == Claimed(Inventory)
           B(p) == \E c \in config : Search(Inventory, c) = p
<1>1. /\ Inventory \in Seq(RegistryItem)
      /\ \A p \in 1 .. Len(Inventory) : \E l \in kernel : Inventory[p] = Item(l)
      /\ \A l \in kernel : \E p \in 1 .. Len(Inventory) : Inventory[p] = Item(l)
  BY InventoryFacts
<1>2. r = [p \in 1 .. Len(Inventory) |-> [Inventory[p] EXCEPT !.claimed = B(p)]]
  BY DEF Claimed
<1>3. \A p : B(p) \in BOOLEAN
  OBVIOUS
<1> HIDE DEF B, r
<1>4. \A p \in 1 .. Len(Inventory) : [Inventory[p] EXCEPT !.claimed = B(p)] \in RegistryItem
  <2> SUFFICES ASSUME NEW p \in 1 .. Len(Inventory)
               PROVE  [Inventory[p] EXCEPT !.claimed = B(p)] \in RegistryItem
    OBVIOUS
  <2>1. Inventory[p] \in RegistryItem
    BY <1>1
  <2> QED BY <1>3, <2>1 DEF RegistryItem
<1>5. r \in Seq(RegistryItem) /\ Len(r) = Len(Inventory)
  <2>1. r \in [1 .. Len(Inventory) -> RegistryItem] /\ DOMAIN r = 1 .. Len(Inventory)
    BY <1>2, <1>4, Zenon
  <2>2. Len(Inventory) \in Nat
    BY <1>1
  <2> QED BY <2>1, <2>2
<1>6. ASSUME NEW p \in 1 .. Len(r), NEW l \in kernel, Inventory[p] = Item(l)
      PROVE  /\ r[p].idx = l.idx /\ r[p].ns = l.ns /\ r[p].oldns = l.ns /\ r[p].name = l.name
             /\ r[p].kind = l.kind /\ r[p].hw = l.hw /\ ~ r[p].removed /\ ~ r[p].orphan
             /\ r[p].claimed = B(p)
  <2>1. r[p] = [Item(l) EXCEPT !.claimed = B(p)]
    BY <1>2, <1>5, <1>6
  <2> QED BY <2>1 DEF Item
<1>7. \A p \in 1 .. Len(r) : Inventory[p] \in RegistryItem
  BY <1>1, <1>5
<1>8. \A p : B(p) = (\E c \in config : Search(Inventory, c) = p)
  BY DEF B
<1> QED BY <1>1, <1>5, <1>6, <1>7, <1>8 DEF r

\* Every configured link has its turn.
LEMMA OrdersFacts ==
  ASSUME IsFiniteSet(config), NEW s \in Orders
  PROVE  /\ s \in Seq(config) /\ Len(s) \in Nat
         /\ \A i, j \in 1 .. Len(s) : i # j => s[i] # s[j]
         /\ \A c \in config : \E i \in 1 .. Len(s) : s[i] = c
<1> DEFINE n == Cardinality(config)
<1>1. n \in Nat
  BY FS_CardinalityType
<1>2. s \in [1 .. n -> config] /\ \A i, j \in 1 .. n : i # j => s[i] # s[j]
  BY DEF Orders
<1> HIDE DEF n
<1>3. s \in Seq(config) /\ Len(s) = n
  BY <1>1, <1>2
<1>4. IsFiniteSet(1 .. n) /\ Cardinality(1 .. n) = n
  BY <1>1, FS_Interval
<1>5. s \in Injection(1 .. n, config)
  BY <1>2 DEF Injection, IsInjective
<1>6. s \in Surjection(1 .. n, config)
  BY <1>4, <1>5, FS_Injection DEF n
<1> QED BY <1>1, <1>2, <1>3, <1>6 DEF Surjection

\* A run starts: every link is to be cleaned up or found, or may stay.
LEMMA StartRunOrphan == ASSUME IInv, StartRun PROVE OrphanInv'
<1>1. /\ config' = config /\ kernel' = kernel /\ nextidx' = nextidx
      /\ registry' = Claimed(Inventory) /\ todo' \in Orders /\ pc' = "cleanup" /\ pos' = 1
  BY DEF StartRun
<1>2. LinksOK(kernel, config, nextidx) /\ Regular(config) /\ IsFiniteSet(config) /\ config \subseteq ConfigRecord
  BY DEF IInv, KernelOK, ConfigOK
<1>3. \A c \in config : c \in Waiting'
  BY <1>1, <1>2, OrdersFacts DEF Waiting
<1>4. Waiting' \subseteq config
  BY <1>1, <1>2, OrdersFacts DEF Waiting
<1> DEFINE r == Claimed(Inventory)
<1>5. /\ Inventory \in Seq(RegistryItem) /\ r \in Seq(RegistryItem) /\ Len(r) = Len(Inventory)
      /\ \A p \in 1 .. Len(r) : Inventory[p] \in RegistryItem /\
           \E l \in kernel :
             /\ r[p].idx = l.idx /\ r[p].ns = l.ns /\ r[p].oldns = l.ns /\ r[p].name = l.name
             /\ r[p].kind = l.kind /\ r[p].hw = l.hw /\ ~ r[p].removed /\ ~ r[p].orphan
             /\ r[p].claimed = (\E c \in config : Search(Inventory, c) = p)
             /\ Inventory[p] = Item(l)
      /\ \A l \in kernel : \E p \in 1 .. Len(r) : Inventory[p] = Item(l)
  BY <1>2, ClaimedFacts
<1> HIDE DEF r
<1>6. \A k, l \in kernel : k.idx = l.idx => k = l
  BY <1>2 DEF LinksOK, Coherent
<1>7. \A p \in 1 .. Len(r) : /\ Inventory[p].kind = r[p].kind /\ Inventory[p].hw = r[p].hw
                             /\ Inventory[p].oldns = r[p].oldns /\ Inventory[p].name = r[p].name
                             /\ ~ Inventory[p].removed /\ ~ Inventory[p].orphan
  <2> SUFFICES ASSUME NEW p \in 1 .. Len(r), NEW l \in kernel, Inventory[p] = Item(l),
                      /\ r[p].idx = l.idx /\ r[p].ns = l.ns /\ r[p].oldns = l.ns /\ r[p].name = l.name
                      /\ r[p].kind = l.kind /\ r[p].hw = l.hw
               PROVE  /\ Inventory[p].kind = r[p].kind /\ Inventory[p].hw = r[p].hw
                      /\ Inventory[p].oldns = r[p].oldns /\ Inventory[p].name = r[p].name
                      /\ ~ Inventory[p].removed /\ ~ Inventory[p].orphan
    BY <1>5
  <2> QED BY DEF Item
<1>8. ASSUME NEW l \in kernel PROVE Explained(l)'
  <2>1. PICK p \in 1 .. Len(r) : Inventory[p] = Item(l)
    BY <1>5
  <2>2. /\ r[p].idx = l.idx /\ r[p].ns = l.ns /\ r[p].oldns = l.ns /\ r[p].name = l.name
        /\ r[p].kind = l.kind /\ r[p].hw = l.hw
        /\ r[p].claimed = (\E c \in config : Search(Inventory, c) = p)
    <3>1. PICK k \in kernel :
            /\ r[p].idx = k.idx /\ r[p].ns = k.ns /\ r[p].oldns = k.ns /\ r[p].name = k.name
            /\ r[p].kind = k.kind /\ r[p].hw = k.hw
            /\ r[p].claimed = (\E c \in config : Search(Inventory, c) = p)
            /\ Inventory[p] = Item(k)
      BY <1>5
    <3>2. k.idx = l.idx
      BY <2>1, <3>1 DEF Item
    <3> QED BY <1>6, <3>1, <3>2
  <2>3. ASSUME NEW c \in config, Search(Inventory, c) = p PROVE Explained(l)'
    <3>1. /\ p # 0 /\ l.kind = c.kind
          /\ \/ c.hw # None /\ l.hw = c.hw
             \/ l.name = c.name /\ (l.ns = c.ns \/ c.kind = "physical")
      <4>1. p # 0 /\ p \in 1 .. Len(Inventory)
        BY <1>5
      <4>2. /\ Inventory[p].kind = c.kind
            /\ \/ c.hw # None /\ Inventory[p].hw = c.hw
               \/ /\ Inventory[p].name = c.name
                  /\ Inventory[p].oldns = c.ns \/ c.kind = "physical"
        BY <1>5, <2>3, <4>1, SearchFacts
      <4> QED BY <1>7, <2>2, <4>1, <4>2
    <3>2. CASE c.kind # "physical"
      <4>1. l.name = c.name /\ l.ns = c.ns
        BY <1>2, <3>1, <3>2 DEF Regular
      <4> QED BY <1>1, <3>1, <4>1 DEF Explained, IsPermitted, IsConfigured
    <3>3. CASE c.kind = "physical"
      <4>1. Sees(Inventory, c, p)
        BY <1>5, <1>7, <2>3, <3>1, SearchSees
      <4>2. c.name \in Name
        BY <1>2 DEF ConfigRecord
      <4>3. Sees(r, c, p)
        <5>1. \A q \in Len(Inventory) + 1 .. Len(r) : FALSE
          BY <1>5
        <5>2. Len(Inventory) <= Len(r)
          BY <1>5
        <5>3. \A q \in 1 .. Len(Inventory) :
                /\ r[q].kind = Inventory[q].kind /\ r[q].hw = Inventory[q].hw
                /\ r[q].oldns = Inventory[q].oldns /\ r[q].removed = Inventory[q].removed
                /\ r[q].name = Inventory[q].name
          <6> SUFFICES ASSUME NEW q \in 1 .. Len(r)
                       PROVE  r[q].removed = Inventory[q].removed
            BY <1>5, <1>7
          <6>1. r[q] \in RegistryItem /\ Inventory[q] \in RegistryItem
            BY <1>5
          <6>2. r[q].removed \in BOOLEAN /\ Inventory[q].removed \in BOOLEAN
            BY <6>1 DEF RegistryItem
          <6> QED BY <1>5, <1>7, <6>2
        <5> QED BY <1>5, <4>1, <4>2, <5>1, <5>2, <5>3, SeesKept
      <4>4. ToCome(l)'
        BY <1>1, <1>3, <2>2, <3>3, <4>3 DEF ToCome, r
      <4> QED BY <4>4 DEF Explained
    <3> QED BY <3>2, <3>3
  <2>4. CASE ~ r[p].claimed
    <3>1. CASE IsOrphan(r[p])
      <4>1. p \in pos' .. Len(registry') /\ registry'[p] = r[p]
        BY <1>1 DEF r
      <4>2. ToCleanUp(l)'
        BY <1>1, <2>2, <3>1, <4>1 DEF ToCleanUp, IsOrphan
      <4> QED BY <4>2 DEF Explained
    <3>2. CASE ~ IsOrphan(r[p])
      BY <2>2, <2>4, <3>2 DEF IsOrphan, Explained, IsPermitted
    <3> QED BY <3>1, <3>2
  <2> QED BY <2>2, <2>3, <2>4
<1>9. KnownRight'
  <2> SUFFICES ASSUME NEW e \in Waiting', NEW p \in 1 .. Len(r), HasName(e, r[p]),
                      NEW l \in kernel, l.idx = r[p].idx
               PROVE  l.name = e.name /\ l.ns = e.ns
    BY <1>1 DEF KnownRight, HasName, IsItem, r
  <2>1. PICK k \in kernel : r[p].idx = k.idx /\ r[p].oldns = k.ns /\ r[p].name = k.name
    BY <1>5
  <2> QED BY <1>6, <2>1 DEF HasName
<1>10. CurNamed'
  BY <1>1 DEF CurNamed
<1> QED BY <1>1, <1>8, <1>9, <1>10 DEF OrphanInv

\* What a waiting physical link sees first is it.
LEMMA SeesFinds ==
  ASSUME IInv, pc # "idle", NEW c \in Waiting, c.kind = "physical", NEW p, Sees(registry, c, p)
  PROVE  /\ c \in config /\ p \in 1 .. Len(registry) /\ registry[p].kind = "physical"
         /\ Finds(c, registry[p], kernel)
<1>1. p \in 1 .. Len(registry) /\ registry[p].kind = "physical"
  BY DEF Sees, HasHw, HasName, IsItem
<1>2. c \in config
  BY DEF IInv, TodoOK, Waiting
<1>3. \A l \in kernel : l.kind = "physical" =>
        \E q \in 1 .. Len(registry) : /\ registry[q].kind = "physical" /\ registry[q].hw = l.hw
                                      /\ ~ registry[q].removed
  BY DEF IInv, RegistryOK, ItemOK
<1>4. (\A q \in 1 .. Len(registry) : ~ HasHw(c, registry[q])) => ByName(c, kernel)
  BY <1>3 DEF ByName, HasHw, IsItem
<1>5. CASE HasHw(c, registry[p])
  BY <1>1, <1>2, <1>5 DEF HasHw, Finds
<1>6. CASE HasName(c, registry[p]) /\ \A q \in 1 .. Len(registry) : ~ HasHw(c, registry[q])
  BY <1>1, <1>2, <1>4, <1>6 DEF HasName, Finds
<1> QED BY <1>5, <1>6 DEF Sees

\* what a step leaves of what is known: what is seen first, and of virtual links
SightKept ==
  \A c \in Waiting, p \in 1 .. Len(registry) :
    c.kind = "physical" /\ Sees(registry, c, p) =>
      Sees(registry', c, p) /\ registry'[p].idx = registry[p].idx /\ registry'[p].ns = registry[p].ns
NamesKept ==
  \A e \in Waiting, p \in 1 .. Len(registry') :
    e.kind # "physical" /\ HasName(e, registry'[p]) =>
      \/ p \in 1 .. Len(registry) /\ HasName(e, registry[p]) /\ registry'[p].idx = registry[p].idx
      \/ \A l \in kernel' : l.idx = registry'[p].idx => l.name = e.name /\ l.ns = e.ns

LEMMA KnownRightKept ==
  ASSUME IInv, KnownRight, pc \notin Between, UNCHANGED <<config, todo>>, NamesKept,
         kernel' \subseteq KernelLink,
         \A k \in kernel' : k.idx < nextidx =>
           \E l \in kernel : /\ k.idx = l.idx
                             /\ \/ k.name = l.name /\ k.ns = l.ns
                                \/ l.name = cur.link.name /\ l.ns = cur.link.ns
                                \/ l.kind = "physical" \/ l.name \notin Name
  PROVE  KnownRight'
<1> SUFFICES ASSUME NEW e \in Waiting, e.kind # "physical", NEW p \in 1 .. Len(registry'),
                    HasName(e, registry'[p]), NEW k \in kernel', k.idx = registry'[p].idx,
                    p \in 1 .. Len(registry), HasName(e, registry[p]), registry'[p].idx = registry[p].idx
             PROVE  k.name = e.name /\ k.ns = e.ns
  BY DEF KnownRight, NamesKept, Waiting, HasName, IsItem
<1>1. registry[p].idx \in Idx /\ ItemOK(registry[p], config, kernel, nextidx, Waiting)
  BY DEF KernelLink, IInv, RegistryOK
<1>2. k.idx < nextidx
  BY <1>1 DEF ItemOK
<1>3. PICK l \in kernel : /\ k.idx = l.idx
                          /\ \/ k.name = l.name /\ k.ns = l.ns
                             \/ l.name = cur.link.name /\ l.ns = cur.link.ns
                             \/ l.kind = "physical" \/ l.name \notin Name
  BY <1>2
<1>4. l.name = e.name /\ l.ns = e.ns
  BY <1>3 DEF KnownRight
<1>5. l.kind # "physical"
  BY <1>1, <1>3 DEF ItemOK, HasName, IsItem
<1>6. e \in config /\ e.name \in Name
  BY DEF IInv, TodoOK, ConfigOK, ConfigRecord, Waiting
<1>7. ~ (e.name = cur.link.name /\ e.ns = cur.link.ns)
  <2>1. cur.link \in config /\ cur.link \notin Waiting /\ Regular(config)
    BY CurTyped DEF IInv, CurOK
  <2> QED BY <1>6, <2>1 DEF Regular
<1> QED BY <1>3, <1>4, <1>5, <1>6, <1>7

\* A step of Link.apply: every link may stay then, is at hand or is what it was.
LEMMA OrphanStep ==
  ASSUME IInv, OrphanInv, ~ failed, pc \notin Between, pc' # "cleanup", UNCHANGED <<config, todo>>,
         SightKept, NamesKept, kernel' \subseteq KernelLink,
         \A k \in kernel' : k.idx < nextidx =>
           \E l \in kernel : /\ k.idx = l.idx
                             /\ \/ k.name = l.name /\ k.ns = l.ns
                                \/ l.name = cur.link.name /\ l.ns = cur.link.ns
                                \/ l.kind = "physical" \/ l.name \notin Name,
         \A k \in kernel' : \/ IsPermitted(k) \/ InHand(k)'
                            \/ \E l \in kernel : /\ k.idx = l.idx /\ k.ns = l.ns /\ ~ InHand(l)
                                                 /\ IsPermitted(l) => IsPermitted(k),
         Len(registry) <= Len(registry'), registry' \in Seq(RegistryItem),
         CurNamed'
  PROVE  OrphanInv'
<1>1. (\A l \in kernel : Explained(l)) /\ KnownRight
  BY DEF OrphanInv, Between
<1>2. KnownRight'
  BY <1>1, KnownRightKept
<1>3. ASSUME NEW k \in kernel' PROVE Explained(k)'
  <2>1. IsPermitted(k) => IsPermitted(k)'
    BY DEF IsPermitted, IsConfigured
  <2>2. ASSUME NEW l \in kernel, k.idx = l.idx, k.ns = l.ns, ~ InHand(l), IsPermitted(l) => IsPermitted(k)
        PROVE  Explained(k)'
    <3>1. IsPermitted(l) \/ ToCome(l)
      BY <1>1, <2>2 DEF Explained, ToCleanUp, Between
    <3>2. ASSUME NEW c \in Waiting, c.kind = "physical", NEW p \in 1 .. Len(registry),
                 Sees(registry, c, p), registry[p].idx = l.idx, registry[p].ns = l.ns
          PROVE  ToCome(k)'
      <4>1. /\ Sees(registry', c, p) /\ registry'[p].idx = k.idx /\ registry'[p].ns = k.ns
            /\ p \in 1 .. Len(registry')
        BY <2>2, <3>2 DEF SightKept, Sees
      <4>2. c \in Waiting'
        BY DEF Waiting
      <4> QED BY <3>2, <4>1, <4>2 DEF ToCome
    <3> QED BY <2>1, <2>2, <3>1, <3>2 DEF Explained, ToCome
  <2> QED BY <2>1, <2>2 DEF Explained
<1> QED BY <1>2, <1>3 DEF OrphanInv

\* The registry stays.
LEMMA SightStays ==
  ASSUME IInv, UNCHANGED <<registry, todo>>
  PROVE  /\ SightKept /\ NamesKept
         /\ Len(registry) <= Len(registry') /\ registry' \in Seq(RegistryItem)
<1>1. registry \in Seq(RegistryItem) /\ Len(registry) \in Nat
  BY DEF IInv, RegistryOK
<1>2. SightKept
  BY DEF SightKept
<1>3. NamesKept
  BY DEF NamesKept
<1> QED BY <1>1, <1>2, <1>3

\* What may stay may stay, if it does not go up.
LEMMA PermittedSame ==
  ASSUME NEW l, NEW k, Same(k, l), l.kind # "physical" \/ (k.up => l.up), IsPermitted(l)
  PROVE  IsPermitted(k)
BY DEF Same, IsPermitted, IsConfigured

\* A link that is as configured may stay.
LEMMA ConfiguredStays ==
  ASSUME IInv, pc \notin Between, NEW k, k.kind = cur.link.kind, k.name = cur.link.name, k.ns = cur.link.ns
  PROVE  IsPermitted(k)
BY CurTyped DEF IsPermitted, IsConfigured

LEMMA CompareOrphan == ASSUME IInv, OrphanInv, Compare, ~ failed' PROVE OrphanInv'
<1> DEFINE c == cur.link
           o == At(cur.idx)
<1>1. /\ pc = "compare" /\ UNCHANGED <<config, kernel, registry, todo, failed>>
      /\ cur'.idx = cur.idx /\ cur'.link = c
      /\ \/ pc' \in {"idle", "down", "set"}
         \/ pc' \in {"state", "updated"} /\ ~ LinkDiffers(o)
  <2>1. cur \in CurType
    BY CurTyped DEF Compare, Between
  <2> QED BY <2>1 DEF Compare, CurType
<1> SUFFICES ASSUME pc' # "idle" PROVE OrphanInv'
  BY DEF OrphanInv
<1>2. pc \in Calling /\ pc \notin Between /\ kernel \subseteq KernelLink /\ CurNamed /\ ~ failed
  BY <1>1 DEF Calling, Between, IInv, KernelOK, LinksOK, OrphanInv
<1>3. /\ o \in kernel /\ o.idx = cur.idx /\ o.kind = c.kind /\ o.ns = c.ns
      /\ \A l \in kernel : l.idx = cur.idx <=> l = o
  <2>1. /\ o \in kernel /\ o.idx = cur.idx /\ o.kind = c.kind
        /\ \A l \in kernel : l.idx = cur.idx <=> l = o
    BY <1>2, CurFacts
  <2> QED BY <1>1, <1>2, <2>1 DEF IInv, CurOK
<1>4. pc' \in {"state", "updated"} => o.name = c.name
  BY <1>1 DEF LinkDiffers
<1>5. CurNamed'
  BY <1>1, <1>2, <1>3, <1>4 DEF CurNamed
<1>6. ASSUME NEW l \in kernel, l = o PROVE IsPermitted(l) \/ InHand(l)'
  BY <1>1, <1>2, <1>3, <1>4, <1>6, ConfiguredStays DEF InHand
<1>7. \A k \in kernel' : \/ IsPermitted(k) \/ InHand(k)'
                         \/ \E l \in kernel : /\ k.idx = l.idx /\ k.ns = l.ns /\ ~ InHand(l)
                                              /\ IsPermitted(l) => IsPermitted(k)
  BY <1>1, <1>3, <1>6 DEF InHand
<1>8. pc' # "cleanup" /\ kernel' \subseteq KernelLink
  BY <1>1, <1>2
<1> QED BY <1>1, <1>2, <1>5, <1>7, <1>8, SightStays, OrphanStep

\* Steps that read only, or write what nobody looks at here.
LEMMA QuietOrphan ==
  ASSUME IInv, OrphanInv, Updated \/ CannotCreate \/ AddFails \/ SetBindState, ~ failed' PROVE OrphanInv'
<1>1. /\ pc \in {"updated", "add", "bind"} /\ UNCHANGED <<config, kernel, registry, todo, failed>>
      /\ pc' \in {"del", "next", "master"}
  BY DEF Updated, CannotCreate, AddFails, SetBindState, Failure, Refused, NoFailure
<1>2. pc \notin Between /\ kernel' \subseteq KernelLink /\ ~ failed /\ pc' # "cleanup"
  BY <1>1 DEF Between, IInv, KernelOK, LinksOK
<1>3. CurNamed'
  BY <1>1 DEF CurNamed
<1>4. \A k \in kernel' : \E l \in kernel : /\ k.idx = l.idx /\ k.ns = l.ns /\ ~ InHand(l)
                                           /\ IsPermitted(l) => IsPermitted(k)
  BY <1>1 DEF InHand
<1>5. \A k \in kernel' : \E l \in kernel : k.idx = l.idx /\ k.name = l.name /\ k.ns = l.ns
  BY <1>1
<1> QED BY <1>1, <1>2, <1>3, <1>4, <1>5, SightStays, OrphanStep

\* A link that goes up or down is else what it was.
LEMMA SetUpFacts ==
  ASSUME kernel \subseteq KernelLink, NEW i, NEW up \in BOOLEAN
  PROVE  /\ SetUp(i, up) \subseteq KernelLink
         /\ \A k \in SetUp(i, up) : \E l \in kernel :
              /\ Same(k, l) /\ (l.idx # i => k = l) /\ (l.idx = i => k.up = up)
              /\ k.attr = l.attr /\ k.master = l.master
<1> SUFFICES ASSUME NEW l \in kernel, NEW k, k = IF l.idx = i THEN [l EXCEPT !.up = up] ELSE l
             PROVE  /\ k \in KernelLink /\ Same(k, l) /\ (l.idx # i => k = l) /\ (l.idx = i => k.up = up)
                    /\ k.attr = l.attr /\ k.master = l.master
  BY DEF SetUp
<1> QED BY DEF KernelLink, Same

LEMMA StateOrphan ==
  ASSUME IInv, OrphanInv, ShutDown \/ SetState \/ NewState, ~ failed' PROVE OrphanInv'
<1> DEFINE c == cur.link
<1>1. /\ UNCHANGED <<config, registry, todo, cur, failed>>
      /\ \/ pc = "down" /\ pc' = "set"
         \/ pc = "state" /\ pc' = "updated"
         \/ pc = "newstate" /\ pc' \in {"peer", "next"}
  BY DEF ShutDown, SetState, NewState, Failure, NoFailure
<1>2. pc \in Calling /\ pc \notin Between /\ kernel \subseteq KernelLink /\ CurNamed /\ ~ failed
  BY <1>1 DEF Calling, Between, IInv, KernelOK, LinksOK, OrphanInv
<1>3. kernel' = kernel \/ \E up \in BOOLEAN : kernel' = SetUp(cur.idx, up)
  <2>1. cur.up = None \/ cur.up \in BOOLEAN
    BY <1>2, CurTyped DEF CurType
  <2>2. pc = "state" => cur.up # None
    BY <1>2 DEF IInv, CurOK
  <2> QED BY <1>1, <2>1, <2>2 DEF ShutDown, SetState, NewState
<1>4. /\ kernel' \subseteq KernelLink
      /\ \A k \in kernel' : \E l \in kernel : Same(k, l) /\ (l.idx # cur.idx => k = l)
  <2>1. CASE kernel' = kernel
    BY <1>2, <2>1 DEF Same
  <2>2. ASSUME NEW up \in BOOLEAN, kernel' = SetUp(cur.idx, up)
        PROVE  /\ kernel' \subseteq KernelLink
               /\ \A k \in kernel' : \E l \in kernel : Same(k, l) /\ (l.idx # cur.idx => k = l)
    BY <1>2, <2>2, SetUpFacts
  <2> QED BY <1>3, <2>1, <2>2
<1>5. \A l \in kernel : l.idx = cur.idx => l.kind = c.kind
  BY <1>2, CurFacts
<1>6. CurNamed'
  BY <1>1, <1>2, <1>4 DEF CurNamed, Same
<1>7. ASSUME NEW k \in kernel'
      PROVE  \/ IsPermitted(k) \/ InHand(k)'
             \/ \E l \in kernel : /\ k.idx = l.idx /\ k.ns = l.ns /\ ~ InHand(l)
                                  /\ IsPermitted(l) => IsPermitted(k)
  <2>1. PICK l \in kernel : Same(k, l) /\ (l.idx # cur.idx => k = l)
    BY <1>4
  <2>2. CASE l.idx # cur.idx
    BY <2>1, <2>2 DEF InHand
  <2>3. CASE l.idx = cur.idx /\ pc = "down"
    BY <1>1, <2>1, <2>3 DEF InHand, Same
  <2>4. CASE l.idx = cur.idx /\ pc = "state"
    <3>1. k.kind = c.kind /\ k.name = c.name /\ k.ns = c.ns
      BY <1>2, <1>5, <2>1, <2>4 DEF CurNamed, Same
    <3> QED BY <1>2, <3>1, ConfiguredStays
  <2>5. CASE l.idx = cur.idx /\ pc = "newstate"
    <3>1. l.kind # "physical"
      BY <1>2, <1>5, <2>5 DEF IInv, CurOK
    <3>2. IsPermitted(l) => IsPermitted(k)
      BY <2>1, <3>1, PermittedSame
    <3> QED BY <2>1, <2>5, <3>2 DEF InHand, Same
  <2> QED BY <1>1, <2>2, <2>3, <2>4, <2>5
<1>8. \A k \in kernel' : \E l \in kernel : k.idx = l.idx /\ k.name = l.name /\ k.ns = l.ns
  BY <1>4 DEF Same
<1>9. pc' # "cleanup"
  BY <1>1
<1> QED BY <1>1, <1>2, <1>4, <1>6, <1>7, <1>8, <1>9, SightStays, OrphanStep

\* One link changes.
LEMMA ChangedIs ==
  ASSUME IInv, pc \in Calling, NEW m
  PROVE  \A k \in Changed(cur.idx, m) : k = m \/ (k \in kernel /\ k.idx # cur.idx)
BY DEF Changed

LEMMA SetMasterOrphan == ASSUME IInv, OrphanInv, SetMaster, ~ failed' PROVE OrphanInv'
<1> DEFINE o == At(cur.idx)
           m == [o EXCEPT !.master = cur.master]
<1>1. /\ pc = "master" /\ pc' = "newstate" /\ UNCHANGED <<config, registry, todo, cur, failed>>
      /\ kernel' = kernel \/ kernel' = Changed(cur.idx, m)
  BY DEF SetMaster, Failure, NoFailure
<1>2. /\ pc \in Calling /\ pc \notin Between /\ kernel \subseteq KernelLink /\ ~ failed
      /\ cur.master \in Idx \cup {None} /\ cur.link.kind # "physical"
  BY <1>1, CurTyped DEF Calling, Between, IInv, KernelOK, LinksOK, CurOK, CurType
<1>3. o \in kernel /\ o.idx = cur.idx /\ o.kind # "physical" /\ o \in KernelLink
  BY <1>2, CurFacts
<1>4. m \in KernelLink /\ Same(m, o)
  BY <1>2, <1>3 DEF KernelLink, Same
<1> HIDE DEF m
<1>5. \A k \in kernel' : \/ k \in kernel
                         \/ k \in KernelLink /\ Same(k, o)
  BY <1>1, <1>2, <1>4, ChangedIs
<1>6. \A k \in kernel' : \E l \in kernel : /\ k.idx = l.idx /\ k.ns = l.ns /\ ~ InHand(l)
                                           /\ IsPermitted(l) => IsPermitted(k)
  <2> SUFFICES ASSUME NEW k \in kernel'
               PROVE  \E l \in kernel : /\ k.idx = l.idx /\ k.ns = l.ns /\ ~ InHand(l)
                                        /\ IsPermitted(l) => IsPermitted(k)
    OBVIOUS
  <2>1. CASE k \in kernel
    BY <1>1, <2>1 DEF InHand
  <2>2. CASE Same(k, o)
    <3>1. IsPermitted(o) => IsPermitted(k)
      BY <1>3, <2>2, PermittedSame
    <3> QED BY <1>1, <1>3, <2>2, <3>1 DEF InHand, Same
  <2> QED BY <1>5, <2>1, <2>2
<1>7. \A k \in kernel' : \E l \in kernel : k.idx = l.idx /\ k.name = l.name /\ k.ns = l.ns
  BY <1>3, <1>5 DEF Same
<1>8. CurNamed' /\ pc' # "cleanup" /\ kernel' \subseteq KernelLink
  BY <1>1, <1>2, <1>5 DEF CurNamed
<1> QED BY <1>1, <1>2, <1>6, <1>7, <1>8, SightStays, OrphanStep

LEMMA SetLinkOrphan == ASSUME IInv, OrphanInv, SetLink, ~ failed' PROVE OrphanInv'
<1> DEFINE c == cur.link
           o == At(cur.idx)
           m == [o EXCEPT !.name = c.name,
                          !.attr = IF o.kind \in FixedAttrKinds THEN @ ELSE c.attr,
                          !.master = IF cur.master = None THEN @ ELSE cur.master]
<1>1. /\ pc = "set" /\ pc' \in {"state", "updated"} /\ UNCHANGED <<config, registry, todo, failed>>
      /\ kernel' = Changed(cur.idx, m)
      /\ cur'.idx = cur.idx /\ cur'.link = c
  <2>1. cur \in CurType
    BY CurTyped DEF SetLink, Between
  <2>2. /\ kernel' = Changed(cur.idx, m) /\ UNCHANGED failed
        /\ cur' = [cur EXCEPT !.errs = @ \/ (o.kind \in FixedAttrKinds /\ o.attr # c.attr)]
    BY DEF SetLink, Failure, Refused, NoFailure
  <2> QED BY <2>1, <2>2 DEF SetLink, CurType
<1>2. /\ pc \in Calling /\ pc \notin Between /\ kernel \subseteq KernelLink /\ ~ failed /\ CurNamed
      /\ c \in ConfigRecord /\ c.name \in Name /\ cur \in CurType
  BY <1>1, CurTyped DEF Calling, Between, IInv, KernelOK, LinksOK, OrphanInv
<1>3. o \in kernel /\ o.idx = cur.idx /\ o.kind = c.kind /\ o \in KernelLink /\ o.ns = c.ns
  <2>1. o \in kernel /\ o.idx = cur.idx /\ o.kind = c.kind /\ o \in KernelLink
    BY <1>2, CurFacts
  <2> QED BY <1>1, <1>2, <2>1 DEF IInv, CurOK
<1>4. /\ m \in KernelLink /\ m.idx = cur.idx /\ m.ns = c.ns /\ m.name = c.name /\ m.kind = c.kind
  <2>1. /\ (IF o.kind \in FixedAttrKinds THEN o.attr ELSE c.attr) \in Attr
        /\ (IF cur.master = None THEN o.master ELSE cur.master) \in Idx \cup {None}
    BY <1>2, <1>3 DEF KernelLink, ConfigRecord, CurType
  <2>2. c.name \in AnyName
    BY <1>2 DEF AnyName
  <2> QED BY <1>3, <2>1, <2>2 DEF KernelLink
<1> HIDE DEF m
<1>5. \A k \in kernel' : k = m \/ (k \in kernel /\ k.idx # cur.idx)
  BY <1>1, <1>2, ChangedIs
<1>6. \A k \in kernel' : \/ IsPermitted(k)
                         \/ \E l \in kernel : /\ k.idx = l.idx /\ k.ns = l.ns /\ ~ InHand(l)
                                              /\ IsPermitted(l) => IsPermitted(k)
  <2>1. IsPermitted(m)
    BY <1>2, <1>4, ConfiguredStays
  <2> QED BY <1>5, <2>1 DEF InHand
<1>7. \A k \in kernel' : \E l \in kernel : /\ k.idx = l.idx
                                           /\ (k.name = l.name /\ k.ns = l.ns) \/ l.kind = "physical"
  <2>1. o.kind # "physical" => o.name = c.name
    BY <1>1, <1>2, <1>3 DEF CurNamed
  <2> QED BY <1>3, <1>4, <1>5, <2>1
<1>8. CurNamed' /\ pc' # "cleanup" /\ kernel' \subseteq KernelLink
  BY <1>1, <1>2, <1>4, <1>5 DEF CurNamed
<1> QED BY <1>1, <1>2, <1>6, <1>7, <1>8, SightStays, OrphanStep

LEMMA ClearNameOrphan == ASSUME IInv, OrphanInv, ClearName, ~ failed' PROVE OrphanInv'
<1> DEFINE c == cur.link
<1>1. /\ pc = "rename" /\ pc' = "compare" /\ UNCHANGED <<config, registry, todo, cur, failed>>
      /\ kernel' = (kernel \ InTheWay) \cup {Renamed(l) : l \in InTheWay}
  <2>1. ~ Failure /\ ~ Refused
    BY DEF Failure, Refused
  <2>2. ~ IF Named(c.ns, <<c.name, 0>>) = {} THEN Failure ELSE Refused
    BY <2>1
  <2>3. kernel' = (kernel \ InTheWay) \cup {Renamed(l) : l \in InTheWay}
    BY <2>2, Zenon DEF ClearName, InTheWay, Renamed
  <2>4. cur' = cur /\ NoFailure
    BY <2>2, Zenon DEF ClearName
  <2>5. pc = "rename" /\ pc' = "compare" /\ UNCHANGED <<config, registry, todo>>
    BY Zenon DEF ClearName
  <2>6. UNCHANGED failed
    BY <2>4 DEF NoFailure
  <2> HIDE DEF c
  <2> QED BY <2>3, <2>4, <2>5, <2>6
<1>2. /\ pc \in Calling /\ pc \notin Between /\ kernel \subseteq KernelLink /\ ~ failed /\ CurNamed
      /\ c \in config /\ c.name \in Name /\ c.ns \in Ns /\ Regular(config)
      /\ \A l \in kernel : Explained(l)
  BY <1>1, CurTyped DEF Calling, Between, IInv, KernelOK, LinksOK, OrphanInv
<1>3. /\ \E l \in kernel : l.idx = cur.idx
      /\ \A l \in kernel : l.idx = cur.idx => l.ns = c.ns /\ l.kind = c.kind
  BY <1>1, <1>2, CurFacts DEF IInv, CurOK
<1>4. ASSUME NEW o \in InTheWay
      PROVE  /\ o \in kernel /\ o.name = c.name /\ o.ns = c.ns /\ o.idx # cur.idx
             /\ Renamed(o) \in KernelLink /\ Renamed(o).idx = o.idx /\ Renamed(o).kind = o.kind
             /\ Renamed(o).ns = o.ns /\ Renamed(o).name = <<c.name, 0>> /\ Renamed(o).peer = o.peer
             /\ ~ Renamed(o).up
  <2>1. o \in kernel /\ o \in KernelLink /\ o.name = c.name /\ o.ns = c.ns /\ o.idx # cur.idx
    BY <1>2 DEF InTheWay, Named
  <2>2. <<c.name, 0>> \in AnyName
    BY <1>2 DEF AnyName
  <2> QED BY <2>1, <2>2 DEF Renamed, KernelLink
<1>5. ASSUME NEW o \in InTheWay PROVE IsPermitted(Renamed(o))
  <2>1. CASE o.kind = "physical"
    BY <1>4, <2>1 DEF IsPermitted
  <2>2. CASE o.kind # "physical"
    <3>1. IsPermitted(o)
      <4>1. ~ ToCome(o)
        <5> SUFFICES ASSUME NEW d \in Waiting, d.kind = "physical", NEW p \in 1 .. Len(registry),
                            Sees(registry, d, p), registry[p].idx = o.idx
                     PROVE  FALSE
          BY DEF ToCome
        <5>1. registry[p].kind = "physical" /\ ItemOK(registry[p], config, kernel, nextidx, Waiting)
          BY DEF Sees, HasHw, HasName, IsItem, IInv, RegistryOK
        <5> QED BY <1>4, <2>2, <5>1 DEF ItemOK
      <4> QED BY <1>1, <1>2, <1>4, <4>1 DEF Explained, ToCleanUp, InHand
    <3>2. ~ IsConfigured(o)
      <4> SUFFICES ASSUME NEW d \in config, d.kind = o.kind, d.ns = o.ns, d.name = o.name
                   PROVE  FALSE
        BY DEF IsConfigured
      <4>1. d = c
        BY <1>2, <1>4 DEF Regular
      <4>2. PICK l \in kernel : l.idx = cur.idx
        BY <1>3
      <4>3. l.name = c.name /\ l.ns = c.ns
        BY <1>1, <1>2, <1>3, <2>2, <4>1, <4>2 DEF CurNamed
      <4>4. l = o
        BY <1>4, <4>2, <4>3 DEF IInv, KernelOK, LinksOK, Coherent
      <4> QED BY <1>4, <4>2, <4>4
    <3>3. o.name \notin IgnoredName \X {0}
      <4>1. c.name \notin Name \X (Idx \cup {0})
        BY <1>2, ConstantsAssumption
      <4> SUFFICES ASSUME o.name \in IgnoredName \X {0} PROVE FALSE
        OBVIOUS
      <4>2. o.name = c.name
        BY <1>4
      <4> QED BY <4>1, <4>2, ConstantsAssumption
    <3> QED BY <1>4, <2>2, <3>1, <3>2, <3>3 DEF IsPermitted
  <2> QED BY <2>1, <2>2
<1>6. \A k \in kernel' : \/ k \in kernel \/ \E o \in InTheWay : k = Renamed(o)
  BY <1>1
<1>7. \A k \in kernel' : \/ IsPermitted(k) \/ InHand(k)'
                         \/ \E l \in kernel : /\ k.idx = l.idx /\ k.ns = l.ns /\ ~ InHand(l)
                                              /\ IsPermitted(l) => IsPermitted(k)
  <2> SUFFICES ASSUME NEW k \in kernel, k \in kernel'
               PROVE  InHand(k)' \/ ~ InHand(k)
    BY <1>5, <1>6
  <2> QED BY <1>1 DEF InHand
<1>8. \A k \in kernel' : \E l \in kernel :
        k.idx = l.idx /\ ((k.name = l.name /\ k.ns = l.ns) \/ (l.name = c.name /\ l.ns = c.ns))
  BY <1>4, <1>6
<1>9. CurNamed'
  <2>1. \A k \in kernel' : k.idx = cur.idx => k \in kernel
    BY <1>4, <1>6
  <2> QED BY <1>1, <1>2, <2>1 DEF CurNamed
<1>10. pc' # "cleanup" /\ kernel' \subseteq KernelLink
  BY <1>1, <1>2, <1>4, <1>6
<1> QED BY <1>1, <1>2, <1>7, <1>8, <1>9, <1>10, SightStays, OrphanStep

\* s is r with another item at i
Replaces(s, r, i, y) ==
  /\ s \in Seq(RegistryItem) /\ Len(s) = Len(r)
  /\ \A q \in 1 .. Len(r) : s[q] = IF q = i THEN y ELSE r[q]
LEMMA ReplacedIs ==
  ASSUME NEW r \in Seq(RegistryItem), NEW i \in 1 .. Len(r), NEW y \in RegistryItem,
         NEW s, s = [r EXCEPT ![i] = y]
  PROVE  Replaces(s, r, i, y)
BY DEF Replaces

\* What is seen first is, if another item changes in what does not matter.
LEMMA SeesReplaced ==
  ASSUME NEW r \in Seq(RegistryItem), NEW s, NEW i \in 1 .. Len(r), NEW y \in RegistryItem,
         Replaces(s, r, i, y),
         y.kind = r[i].kind, y.hw = r[i].hw, y.oldns = r[i].oldns,
         y.kind = "physical" => /\ y.removed = r[i].removed
                                /\ y.name = r[i].name \/ y.name \notin Name,
         NEW c, c.name \in Name, c.kind = "physical", NEW p, Sees(r, c, p), p # i
  PROVE  Sees(s, c, p) /\ s[p] = r[p] /\ p \in 1 .. Len(r)
<1>0. /\ s \in Seq(RegistryItem) /\ Len(s) = Len(r)
      /\ \A q \in 1 .. Len(r) : s[q] = IF q = i THEN y ELSE r[q]
  BY DEF Replaces
<1>1. p \in 1 .. Len(r) /\ s[p] = r[p] /\ Len(r) \in Nat /\ Len(r) <= Len(s)
  BY <1>0 DEF Sees
<1>2. ASSUME NEW q \in 1 .. Len(r)
      PROVE  /\ s[q].kind = r[q].kind /\ s[q].hw = r[q].hw /\ s[q].oldns = r[q].oldns
             /\ s[q].kind = c.kind => /\ s[q].removed = r[q].removed
                                      /\ s[q].name = r[q].name \/ (q # p /\ s[q].name \notin Name)
  <2>1. CASE q = i
    <3>1. s[q] = y
      BY <1>0, <2>1
    <3> QED BY <2>1, <3>1
  <2>2. CASE q # i
    <3>1. s[q] = r[q]
      BY <1>0, <2>2
    <3> QED BY <3>1
  <2> QED BY <2>1, <2>2
<1>3. \A q \in Len(r) + 1 .. Len(s) : HasHw(c, s[q]) => \E o \in 1 .. Len(r) : HasHw(c, r[o])
  BY <1>0, <1>1
<1>4. Sees(s, c, p)
  BY <1>0, <1>1, <1>2, <1>3, SeesKept
<1> QED BY <1>1, <1>4

\* An item changes that no waiting physical link is.
LEMMA SightItem ==
  ASSUME IInv, NEW i \in 1 .. Len(registry), NEW y \in RegistryItem, registry' = [registry EXCEPT ![i] = y],
         y.kind = registry[i].kind, y.hw = registry[i].hw, y.oldns = registry[i].oldns,
         y.kind = "physical" => /\ y.removed = registry[i].removed
                                /\ y.name = registry[i].name \/ y.name \notin Name,
         \A c \in Waiting : c.kind = "physical" => ~ Sees(registry, c, i)
  PROVE  /\ SightKept
         /\ Len(registry') = Len(registry) /\ registry' \in Seq(RegistryItem) /\ Len(registry) <= Len(registry')
         /\ \A q \in 1 .. Len(registry) : registry'[q] = IF q = i THEN y ELSE registry[q]
<1>1. registry \in Seq(RegistryItem) /\ Len(registry) \in Nat
  BY DEF IInv, RegistryOK
<1>0. Replaces(registry', registry, i, y)
  BY <1>1, ReplacedIs
<1>2. /\ registry' \in Seq(RegistryItem) /\ Len(registry') = Len(registry)
      /\ \A q \in 1 .. Len(registry) : registry'[q] = IF q = i THEN y ELSE registry[q]
  BY <1>0 DEF Replaces
<1>3. \A c \in Waiting : c.name \in Name
  BY DEF IInv, TodoOK, ConfigOK, ConfigRecord, Waiting
<1>4. \A c \in Waiting, p \in 1 .. Len(registry) : c.kind = "physical" /\ Sees(registry, c, p) =>
        Sees(registry', c, p) /\ registry'[p] = registry[p]
  <2> SUFFICES ASSUME NEW c \in Waiting, NEW p \in 1 .. Len(registry), c.kind = "physical",
                      Sees(registry, c, p)
               PROVE  Sees(registry', c, p) /\ registry'[p] = registry[p]
    OBVIOUS
  <2>1. p # i /\ c.name \in Name
    BY <1>3
  <2> QED BY <1>0, <1>1, <2>1, SeesReplaced
<1>5. Len(registry) <= Len(registry')
  BY <1>1, <1>2
<1>6. SightKept
  BY <1>4 DEF SightKept
<1> QED BY <1>2, <1>5, <1>6

\* An item is appended that is not hardware nobody has seen yet.
LEMMA SightAppended ==
  ASSUME IInv, pc # "idle", NEW y \in RegistryItem, registry' = Append(registry, y),
         y.hw # None => \E l \in kernel : l.kind = "physical" /\ l.hw = y.hw
  PROVE  /\ SightKept
         /\ Len(registry') = Len(registry) + 1 /\ registry' \in Seq(RegistryItem)
         /\ Len(registry) <= Len(registry')
         /\ registry'[Len(registry) + 1] = y
         /\ \A q \in 1 .. Len(registry) : registry'[q] = registry[q]
<1>1. registry \in Seq(RegistryItem) /\ Len(registry) \in Nat
  BY DEF IInv, RegistryOK
<1>2. /\ registry' \in Seq(RegistryItem) /\ Len(registry') = Len(registry) + 1
      /\ registry'[Len(registry) + 1] = y
      /\ \A q \in 1 .. Len(registry) : registry'[q] = registry[q]
  BY <1>1
<1>3. ASSUME NEW c \in Waiting, NEW p \in 1 .. Len(registry), c.kind = "physical", Sees(registry, c, p)
      PROVE  Sees(registry', c, p)
  <2>1. c.name \in Name
    BY DEF IInv, TodoOK, ConfigOK, ConfigRecord, Waiting
  <2>2. HasHw(c, y) => \E o \in 1 .. Len(registry) : HasHw(c, registry[o])
    <3> SUFFICES ASSUME HasHw(c, y) PROVE \E o \in 1 .. Len(registry) : HasHw(c, registry[o])
      OBVIOUS
    <3>1. PICK l \in kernel : l.kind = "physical" /\ l.hw = c.hw
      BY DEF HasHw
    <3>2. PICK o \in 1 .. Len(registry) : registry[o].kind = "physical" /\ registry[o].hw = l.hw
      BY <3>1 DEF IInv, RegistryOK
    <3>3. ~ registry[o].removed
      BY <3>2 DEF IInv, RegistryOK, ItemOK
    <3> QED BY <1>3, <3>1, <3>2, <3>3 DEF HasHw, IsItem
  <2>3. \A q \in Len(registry) + 1 .. Len(registry') : registry'[q] = y
    BY <1>1, <1>2
  <2>4. Len(registry) <= Len(registry')
    BY <1>1, <1>2
  <2>5. \A q \in 1 .. Len(registry) :
          /\ registry'[q].kind = registry[q].kind /\ registry'[q].hw = registry[q].hw
          /\ registry'[q].oldns = registry[q].oldns /\ registry'[q].removed = registry[q].removed
          /\ registry'[q].name = registry[q].name
    BY <1>2
  <2> QED BY <1>1, <1>2, <1>3, <2>1, <2>2, <2>3, <2>4, <2>5, SeesKept
<1> QED BY <1>1, <1>2, <1>3 DEF SightKept

LEMMA MoveLinkOrphan == ASSUME IInv, OrphanInv, MoveLink, ~ failed' PROVE OrphanInv'
<1> DEFINE c == cur.link
           o == At(cur.idx)
           x == registry[cur.item]
           y == [x EXCEPT !.ns = c.ns, !.name = KnownAs, !.idx = FoundAs]
<1>1. /\ pc = "move" /\ UNCHANGED <<config, todo, failed>>
      /\ kernel' = Changed(cur.idx, Moved)
      /\ registry' = [registry EXCEPT ![cur.item].ns = c.ns, ![cur.item].name = KnownAs,
                                      ![cur.item].idx = FoundAs]
      /\ cur' = [cur EXCEPT !.idx = FoundAs]
      /\ pc' = IF FoundAs = None THEN "add" ELSE "rename"
  <2>1. ~ Failure /\ ~ Refused
    BY DEF Failure, Refused
  <2>2. ~ IF Named(c.ns, MoveName) = {} THEN Failure ELSE Refused
    BY <2>1
  <2>3. /\ kernel' = Changed(cur.idx, Moved)
        /\ registry' = [registry EXCEPT ![cur.item].ns = c.ns, ![cur.item].name = KnownAs,
                                        ![cur.item].idx = FoundAs]
        /\ cur' = [cur EXCEPT !.idx = FoundAs]
        /\ pc' = IF FoundAs = None THEN "add" ELSE "rename"
        /\ NoFailure
    BY <2>2, Zenon DEF MoveLink, Fresh, IsClear, MoveName, KnownAs, FoundAs, Moved
  <2>4. pc = "move" /\ UNCHANGED <<config, todo>>
    BY Zenon DEF MoveLink
  <2>5. UNCHANGED failed
    BY <2>3 DEF NoFailure
  <2> QED BY <2>3, <2>4, <2>5
<1>2. /\ pc \in Calling /\ pc \notin Between /\ kernel \subseteq KernelLink /\ ~ failed
      /\ c \in config /\ c.name \in Name /\ c.ns \in Ns /\ cur \in CurType
      /\ registry \in Seq(RegistryItem) /\ Regular(config) /\ Recognisable(config, kernel)
  BY <1>1, CurTyped DEF Calling, Between, LinksOK, OrphanInv
<1>3. /\ cur.item \in 1 .. Len(registry) /\ x.kind = "physical" /\ x.idx = cur.idx
      /\ c.kind = "physical" /\ Finds(c, x, kernel) /\ c \notin Waiting
  BY <1>1, <1>2 DEF IInv, CurOK
<1>4. /\ o \in kernel /\ o \in KernelLink /\ o.idx = cur.idx /\ cur.idx \in Idx /\ o.kind = "physical"
  BY <1>2, <1>3, CurFacts
<1>5. x \in RegistryItem /\ <<c.name, o.idx>> \in AnyName /\ <<c.name, o.idx>> \notin Name
  <2>1. <<c.name, o.idx>> \in Name \X (Idx \cup {0})
    BY <1>2, <1>4
  <2> QED BY <1>2, <1>3, <2>1, ConstantsAssumption DEF AnyName
<1>6. /\ MoveName \in AnyName /\ KnownAs \in AnyName /\ FoundAs \in {cur.idx, None}
      /\ (KnownAs = x.name \/ KnownAs \notin Name)
  BY <1>4, <1>5 DEF Fresh, MoveName, KnownAs, FoundAs, KernelLink, RegistryItem
<1>7. /\ y \in RegistryItem /\ y.idx = FoundAs /\ y.oldns = x.oldns /\ y.name = KnownAs
      /\ y.kind = x.kind /\ y.hw = x.hw /\ y.removed = x.removed
  BY <1>2, <1>4, <1>5, <1>6 DEF RegistryItem
<1>8. registry' = [registry EXCEPT ![cur.item] = y]
  BY <1>1, <1>2, <1>3
<1>9. /\ Moved \in KernelLink /\ Moved.idx = cur.idx /\ Moved.kind = "physical" /\ ~ Moved.up
  BY <1>2, <1>4, <1>6 DEF Moved, KernelLink
<1>10. \A k \in kernel' : k = Moved \/ (k \in kernel /\ k.idx # cur.idx)
  BY <1>1, <1>2, ChangedIs
<1> HIDE DEF y
<1>11. \A d \in Waiting : d.kind = "physical" => ~ Sees(registry, d, cur.item)
  <2> SUFFICES ASSUME NEW d \in Waiting, d.kind = "physical", Sees(registry, d, cur.item) PROVE FALSE
    OBVIOUS
  <2>1. d \in config /\ Finds(d, x, kernel)
    BY <1>2, SeesFinds DEF Between
  <2>2. ItemOK(x, config, kernel, nextidx, Waiting)
    BY <1>3 DEF IInv, RegistryOK
  <2> QED BY <1>2, <1>3, <2>1, <2>2, FoundByOne
<1>12. /\ SightKept
       /\ Len(registry') = Len(registry) /\ registry' \in Seq(RegistryItem) /\ Len(registry) <= Len(registry')
       /\ \A q \in 1 .. Len(registry) : registry'[q] = IF q = cur.item THEN y ELSE registry[q]
  BY <1>3, <1>6, <1>7, <1>8, <1>11, SightItem
<1>13. NamesKept
  BY <1>3, <1>7, <1>12 DEF NamesKept, HasName, IsItem
<1>14. \A k \in kernel' : \/ IsPermitted(k) \/ InHand(k)'
                          \/ \E l \in kernel : /\ k.idx = l.idx /\ k.ns = l.ns /\ ~ InHand(l)
                                               /\ IsPermitted(l) => IsPermitted(k)
  <2>1. IsPermitted(Moved)
    BY <1>9 DEF IsPermitted
  <2> QED BY <1>10, <2>1 DEF InHand
<1>15. \A k \in kernel' : \E l \in kernel : k.idx = l.idx /\ ((k.name = l.name /\ k.ns = l.ns) \/ l.kind = "physical")
  BY <1>4, <1>9, <1>10
<1>16. CurNamed' /\ pc' # "cleanup" /\ kernel' \subseteq KernelLink
  <2>1. cur'.link = c
    BY <1>1, <1>2 DEF CurType
  <2> QED BY <1>1, <1>2, <1>3, <1>9, <1>10, <2>1 DEF CurNamed
<1> QED BY <1>1, <1>2, <1>12, <1>13, <1>14, <1>15, <1>16, OrphanStep

LEMMA DeleteLinkOrphan == ASSUME IInv, OrphanInv, DeleteLink, ~ failed' PROVE OrphanInv'
<1>1. /\ pc = "del" /\ pc' = "add" /\ UNCHANGED <<config, registry, todo, failed>>
      /\ kernel' = kernel \/ kernel' = Without(cur.idx)
  BY DEF DeleteLink, Failure, NoFailure
<1>2. pc \notin Between /\ kernel \subseteq KernelLink /\ ~ failed
  BY <1>1 DEF Between, IInv, KernelOK, LinksOK, OrphanInv
<1>3. \A k \in kernel' : k \in KernelLink /\ \E l \in kernel : Same(k, l) /\ k.up = l.up
  <2>1. \A k \in Without(cur.idx) : \E l \in kernel : k = l \/ k = [l EXCEPT !.master = None]
    BY DEF Without
  <2>2. \A l \in kernel : LET k == [l EXCEPT !.master = None] IN
          k \in KernelLink /\ Same(k, l) /\ k.up = l.up
    BY <1>2 DEF KernelLink, Same
  <2>3. \A l : Same(l, l)
    BY DEF Same
  <2> QED BY <1>1, <1>2, <2>1, <2>2, <2>3
<1>4. \A k \in kernel' : \E l \in kernel : /\ k.idx = l.idx /\ k.ns = l.ns /\ ~ InHand(l)
                                           /\ IsPermitted(l) => IsPermitted(k)
  <2> SUFFICES ASSUME NEW k \in kernel', NEW l \in kernel, Same(k, l), k.up = l.up
               PROVE  k.idx = l.idx /\ k.ns = l.ns /\ ~ InHand(l) /\ (IsPermitted(l) => IsPermitted(k))
    BY <1>3
  <2>1. IsPermitted(l) => IsPermitted(k)
    BY PermittedSame
  <2> QED BY <1>1, <2>1 DEF InHand, Same
<1>5. \A k \in kernel' : \E l \in kernel : k.idx = l.idx /\ k.name = l.name /\ k.ns = l.ns
  BY <1>3 DEF Same
<1>6. CurNamed' /\ pc' # "cleanup" /\ kernel' \subseteq KernelLink
  BY <1>1, <1>3 DEF CurNamed
<1> QED BY <1>1, <1>2, <1>4, <1>5, <1>6, SightStays, OrphanStep


LEMMA MoveInOrphan == ASSUME IInv, OrphanInv, MoveIn, ~ failed' PROVE OrphanInv'
<1> DEFINE c == cur.link
           o == At(cur.idx)
           x == registry[cur.item]
           m == [o EXCEPT !.ns = c.ns]
           y == [x EXCEPT !.ns = c.ns]
<1>1. /\ pc = "movein" /\ pc' = "renamein" /\ UNCHANGED <<config, todo, cur, failed>>
      /\ kernel' = Changed(cur.idx, m) /\ registry' = [registry EXCEPT ![cur.item].ns = c.ns]
  BY DEF MoveIn, Failure, NoFailure
<1>2. /\ pc \in Calling /\ pc \notin Between /\ kernel \subseteq KernelLink /\ ~ failed
      /\ c.ns \in Ns /\ registry \in Seq(RegistryItem) /\ config \subseteq ConfigRecord
  BY <1>1, CurTyped DEF Calling, Between, LinksOK, OrphanInv, IInv, ConfigOK
<1>3. /\ cur.item \in 1 .. Len(registry) /\ x.kind = c.kind /\ x.name \notin Name
      /\ c.kind # "physical"
      /\ \A l \in kernel : l.idx = cur.idx => l.name = <<c.name, l.idx>>
  BY <1>1, <1>2 DEF IInv, CurOK
<1>4. o \in kernel /\ o \in KernelLink /\ o.idx = cur.idx /\ cur.idx \in Idx /\ o.name \notin Name
  <2>1. o \in kernel /\ o \in KernelLink /\ o.idx = cur.idx /\ cur.idx \in Idx
    BY <1>2, CurFacts
  <2>2. o.name \in Name \X (Idx \cup {0})
    <3>1. o.name = <<c.name, cur.idx>> /\ c.name \in Name
      BY <1>2, <1>3, <2>1, CurTyped
    <3> QED BY <2>1, <3>1
  <2> QED BY <2>1, <2>2, ConstantsAssumption
<1>5. m \in KernelLink /\ m.idx = cur.idx
  BY <1>2, <1>4 DEF KernelLink
<1>6. x \in RegistryItem
  BY <1>2, <1>3
<1>7. /\ y \in RegistryItem /\ y.oldns = x.oldns /\ y.name = x.name /\ y.kind = x.kind /\ y.hw = x.hw
  BY <1>2, <1>6 DEF RegistryItem
<1>8. registry' = [registry EXCEPT ![cur.item] = y]
  BY <1>1, <1>2, <1>3
<1> HIDE DEF y, m
<1>9. \A k \in kernel' : k = m \/ (k \in kernel /\ k.idx # cur.idx)
  BY <1>1, <1>2, ChangedIs
<1>10. \A d \in Waiting : d.kind = "physical" => ~ Sees(registry, d, cur.item)
  BY <1>3 DEF Sees, HasHw, HasName, IsItem
<1>11. /\ SightKept
       /\ Len(registry') = Len(registry) /\ registry' \in Seq(RegistryItem) /\ Len(registry) <= Len(registry')
       /\ \A q \in 1 .. Len(registry) : registry'[q] = IF q = cur.item THEN y ELSE registry[q]
  BY <1>3, <1>7, <1>8, <1>10, SightItem
<1>12. NamesKept
  <2>1. \A e \in Waiting : e.name \in Name
    BY <1>2 DEF IInv, TodoOK, ConfigRecord, Waiting
  <2> QED BY <1>3, <1>7, <1>11, <2>1 DEF NamesKept, HasName, IsItem
<1>13. \A k \in kernel' : \/ IsPermitted(k) \/ InHand(k)'
                          \/ \E l \in kernel : /\ k.idx = l.idx /\ k.ns = l.ns /\ ~ InHand(l)
                                               /\ IsPermitted(l) => IsPermitted(k)
  BY <1>1, <1>5, <1>9 DEF InHand
<1>14. \A k \in kernel' : \E l \in kernel : k.idx = l.idx /\ ((k.name = l.name /\ k.ns = l.ns) \/ l.name \notin Name)
  BY <1>4, <1>5, <1>9
<1>15. CurNamed' /\ pc' # "cleanup" /\ kernel' \subseteq KernelLink
  BY <1>1, <1>2, <1>5, <1>9 DEF CurNamed
<1> QED BY <1>1, <1>2, <1>11, <1>12, <1>13, <1>14, <1>15, OrphanStep

LEMMA RenameInOrphan == ASSUME IInv, OrphanInv, RenameIn, ~ failed' PROVE OrphanInv'
<1> DEFINE c == cur.link
           o == At(cur.idx)
           x == registry[cur.item]
           m == [o EXCEPT !.name = c.name]
           y == [x EXCEPT !.name = c.name]
<1>1. /\ pc = "renamein" /\ pc' = "bind" /\ UNCHANGED <<config, todo, cur, failed>>
      /\ kernel' = Changed(cur.idx, m) /\ registry' = [registry EXCEPT ![cur.item].name = c.name]
  <2>1. ~ Failure /\ ~ Refused
    BY DEF Failure, Refused
  <2>2. ~ IF Named(c.ns, c.name) = {} THEN Failure ELSE Refused
    BY <2>1
  <2>3. kernel' = Changed(cur.idx, m) /\ pc' = "bind" /\ NoFailure
    BY <2>2, Zenon DEF RenameIn
  <2>4. /\ pc = "renamein" /\ UNCHANGED <<config, todo, cur>>
        /\ registry' = [registry EXCEPT ![cur.item].name = c.name]
    BY Zenon DEF RenameIn
  <2>5. UNCHANGED failed
    BY <2>3 DEF NoFailure
  <2> HIDE DEF c, m
  <2> QED BY <2>3, <2>4, <2>5
<1>2. /\ pc \in Calling /\ pc \notin Between /\ kernel \subseteq KernelLink /\ ~ failed
      /\ c.name \in Name /\ c \in config /\ Regular(config) /\ registry \in Seq(RegistryItem)
  BY <1>1, CurTyped DEF Calling, Between, LinksOK, OrphanInv
<1>3. /\ cur.item \in 1 .. Len(registry) /\ x.kind = c.kind /\ x.oldns = c.bind /\ c.bind # c.ns
      /\ c.kind # "physical" /\ x.name \notin Name
      /\ \A l \in kernel : l.idx = cur.idx => l.ns = c.ns /\ l.name = <<c.name, l.idx>>
  BY <1>1, <1>2 DEF IInv, CurOK
<1>4. /\ o \in kernel /\ o \in KernelLink /\ o.idx = cur.idx /\ cur.idx \in Idx /\ o.kind = c.kind
      /\ o.ns = c.ns /\ o.name \notin Name
  <2>1. o \in kernel /\ o \in KernelLink /\ o.idx = cur.idx /\ cur.idx \in Idx /\ o.kind = c.kind
    BY <1>2, CurFacts
  <2>2. o.name \in Name \X (Idx \cup {0})
    <3>1. o.name = <<c.name, cur.idx>>
      BY <1>3, <2>1
    <3> HIDE DEF c, o
    <3>2. c.name \in Name /\ cur.idx \in Idx
      BY <1>2, <2>1
    <3> QED BY <3>1, <3>2
  <2> QED BY <1>3, <2>1, <2>2, ConstantsAssumption
<1>5. c.name \in AnyName
  BY <1>2 DEF AnyName
<1>6. m \in KernelLink /\ m.idx = cur.idx /\ m.ns = c.ns /\ m.name = c.name /\ m.kind = c.kind
  BY <1>4, <1>5 DEF KernelLink
<1>7. x \in RegistryItem
  BY <1>2, <1>3
<1>8. /\ y \in RegistryItem /\ y.oldns = x.oldns /\ y.name = c.name /\ y.kind = x.kind /\ y.hw = x.hw
  BY <1>5, <1>7 DEF RegistryItem
<1>9. registry' = [registry EXCEPT ![cur.item] = y]
  BY <1>1, <1>2, <1>3
<1> HIDE DEF y, m
<1>10. \A k \in kernel' : k = m \/ (k \in kernel /\ k.idx # cur.idx)
  BY <1>1, <1>2, ChangedIs
<1>11. \A d \in Waiting : d.kind = "physical" => ~ Sees(registry, d, cur.item)
  BY <1>3 DEF Sees, HasHw, HasName, IsItem
<1>12. /\ SightKept
       /\ Len(registry') = Len(registry) /\ registry' \in Seq(RegistryItem) /\ Len(registry) <= Len(registry')
       /\ \A q \in 1 .. Len(registry) : registry'[q] = IF q = cur.item THEN y ELSE registry[q]
  BY <1>3, <1>8, <1>9, <1>11, SightItem
<1>13. NamesKept
  <2>1. \A e \in Waiting : ~ HasName(e, y)
    <3> SUFFICES ASSUME NEW e \in Waiting, HasName(e, y) PROVE FALSE
      OBVIOUS
    <3>1. e \in config /\ c.kind = e.kind /\ c.name = e.name /\ c.bind = e.ns
      BY <1>3, <1>8 DEF HasName, IsItem, IInv, TodoOK, Waiting
    <3> QED BY <1>2, <1>3, <3>1 DEF Regular
  <2>2. \A p \in 1 .. Len(registry') : p = cur.item \/ registry'[p] = registry[p]
    BY <1>12
  <2>3. registry'[cur.item] = y
    BY <1>3, <1>12
  <2> QED BY <1>12, <2>1, <2>2, <2>3 DEF NamesKept
<1>14. \A k \in kernel' : \/ IsPermitted(k)
                          \/ \E l \in kernel : /\ k.idx = l.idx /\ k.ns = l.ns /\ ~ InHand(l)
                                               /\ IsPermitted(l) => IsPermitted(k)
  <2>1. IsPermitted(m)
    BY <1>2, <1>6, ConfiguredStays
  <2> QED BY <1>10, <2>1 DEF InHand
<1>15. \A k \in kernel' : \E l \in kernel : k.idx = l.idx /\ ((k.name = l.name /\ k.ns = l.ns) \/ l.name \notin Name)
  BY <1>4, <1>6, <1>10
<1>16. CurNamed' /\ pc' # "cleanup" /\ kernel' \subseteq KernelLink
  BY <1>1, <1>2, <1>6, <1>10 DEF CurNamed
<1> QED BY <1>1, <1>2, <1>12, <1>13, <1>14, <1>15, <1>16, OrphanStep

\* What is added is what was asked for, or a peer.
LEMMA AddedIs ==
  ASSUME nextidx \in Nat, nextidx < MaxIdx, NEW ns, NEW n, NEW c
  PROVE  \A l \in Added(ns, n, c) :
           \/ l \in kernel
           \/ l.idx = nextidx /\ l.ns = ns /\ l.name = n /\ l.kind = c.kind
           \/ l.idx = nextidx + 1 /\ l.peer = nextidx
BY DEF Added, NewLink

LEMMA AddLinkOrphan == ASSUME IInv, OrphanInv, AddLink, ~ failed' PROVE OrphanInv'
<1> DEFINE c  == cur.link
           ns == IF Bound THEN c.bind ELSE c.ns
           n  == IF Bound THEN <<c.name, nextidx>> ELSE c.name
           y  == Item(NewLink(nextidx, ns, n, c))
<1>1. /\ pc = "add" /\ c.kind # "physical" /\ UNCHANGED <<config, todo, failed>>
      /\ nextidx < MaxIdx /\ ~ Taken(ns, n, c) /\ kernel' = Added(ns, n, c)
      /\ registry' = Append(registry, y)
      /\ cur' = [cur EXCEPT !.idx = nextidx, !.item = Len(registry) + 1]
      /\ pc' = IF Bound THEN "movein" ELSE IF c.kind \in BindKinds THEN "bind" ELSE "master"
  BY Zenon DEF AddLink
<1>2. /\ cur \in CurType /\ LinksOK(kernel, config, nextidx) /\ nextidx \in Nat \ {0} /\ pc \notin Between
      /\ c \in config /\ c \in ConfigRecord /\ c.name \in Name /\ c.ns \in Ns /\ Regular(config)
      /\ registry \in Seq(RegistryItem) /\ Len(registry) \in Nat /\ c \notin Waiting
      /\ config \subseteq ConfigRecord /\ pc # "idle" /\ ~ failed
  BY <1>1, CurTyped DEF Between, IInv, ConfigOK, CurOK
<1>3. nextidx \in Idx /\ None \notin Idx
  BY <1>1, <1>2, ConstantsAssumption DEF Idx
<1>4. ns \in Ns
  BY <1>2 DEF ConfigRecord
<1>5. Bound => <<c.name, nextidx>> \notin Name
  <2>1. <<c.name, nextidx>> \in Name \X (Idx \cup {0})
    BY <1>2, <1>3
  <2> QED BY <2>1, ConstantsAssumption
<1>6. c.kind = "veth" => c.peer \in Name /\ n # c.peer
  BY <1>2, <1>5 DEF Regular, ConfigRecord, Bound, BindKinds
<1>7. kernel' \subseteq KernelLink /\ NewLink(nextidx, ns, n, c) \in KernelLink
      /\ \A l \in kernel' : l.idx < nextidx => l \in kernel
  <2>1. n = c.name \/ n = <<c.name, nextidx>>
    OBVIOUS
  <2> HIDE DEF n, ns
  <2> QED BY <1>1, <1>2, <1>4, <1>6, <2>1, AddedOK, ConstantsAssumption DEF LinksOK
<1>8. y.oldns = ns /\ y.name = n /\ y.kind = c.kind /\ y.hw = None
  BY DEF Item, NewLink
<1>9. y \in RegistryItem
  BY <1>7 DEF Item, RegistryItem, KernelLink
<1>10. /\ Bound => n \notin Name /\ pc' = "movein"
       /\ ~ Bound => n = c.name /\ ns = c.ns
       /\ pc' \in {"movein", "bind", "master"} /\ cur'.idx = nextidx
  BY <1>1, <1>2, <1>5 DEF CurType
<1> HIDE DEF n, ns, y
<1>11. \A l \in kernel' : \/ l \in kernel
                          \/ l.idx = nextidx /\ l.ns = ns /\ l.name = n /\ l.kind = c.kind
                          \/ l.idx = nextidx + 1 /\ l.peer = nextidx
  BY <1>1, <1>2, AddedIs
<1>12. /\ SightKept
       /\ Len(registry') = Len(registry) + 1 /\ registry' \in Seq(RegistryItem)
       /\ Len(registry) <= Len(registry')
       /\ registry'[Len(registry) + 1] = y
       /\ \A q \in 1 .. Len(registry) : registry'[q] = registry[q]
  BY <1>1, <1>2, <1>8, <1>9, SightAppended
<1>13. NamesKept
  <2>1. \A e \in Waiting : ~ HasName(e, y)
    <3> SUFFICES ASSUME NEW e \in Waiting, HasName(e, y) PROVE FALSE
      OBVIOUS
    <3>0. e \in config
      BY DEF IInv, TodoOK, Waiting
    <3>1. e.name = n /\ e.ns = ns /\ e.kind = c.kind /\ e.name \in Name
      BY <1>2, <1>8, <3>0 DEF HasName, IsItem, ConfigRecord
    <3>2. e = c
      BY <1>2, <1>10, <3>0, <3>1 DEF Regular
    <3> QED BY <1>2, <3>2
  <2>2. \A p \in 1 .. Len(registry') : p \in 1 .. Len(registry) \/ p = Len(registry) + 1
    BY <1>2, <1>12
  <2> QED BY <1>12, <2>1, <2>2 DEF NamesKept
<1>14. \A k \in kernel' : \/ IsPermitted(k) \/ InHand(k)'
                          \/ \E l \in kernel : /\ k.idx = l.idx /\ k.ns = l.ns /\ ~ InHand(l)
                                               /\ IsPermitted(l) => IsPermitted(k)
  <2> SUFFICES ASSUME NEW k \in kernel', k \notin kernel PROVE IsPermitted(k) \/ InHand(k)'
    BY <1>1 DEF InHand
  <2>1. CASE k.idx = nextidx /\ k.ns = ns /\ k.name = n /\ k.kind = c.kind
    <3>1. CASE Bound
      BY <1>10, <2>1, <3>1 DEF InHand
    <3>2. CASE ~ Bound
      BY <1>2, <1>10, <2>1, <3>2, ConfiguredStays
    <3> QED BY <3>1, <3>2
  <2>2. CASE k.peer = nextidx
    BY <1>3, <2>2 DEF IsPermitted
  <2> QED BY <1>11, <2>1, <2>2
<1>15. \A k \in kernel' : k.idx < nextidx => \E l \in kernel : k.idx = l.idx /\ k.name = l.name /\ k.ns = l.ns
  BY <1>7
<1>16. CurNamed' /\ pc' # "cleanup" /\ kernel' \subseteq KernelLink
  BY <1>7, <1>10 DEF CurNamed
<1> QED BY <1>1, <1>2, <1>12, <1>13, <1>14, <1>15, <1>16, OrphanStep

LEMMA AddPeerOrphan == ASSUME IInv, OrphanInv, AddPeer, ~ failed' PROVE OrphanInv'
<1> DEFINE peers == Named(cur.link.bind, cur.link.peer)
<1>1. /\ pc = "peer" /\ UNCHANGED <<config, kernel, nextidx, todo, failed>>
      /\ \/ pc' = "idle"
         \/ /\ pc' = "next"
            /\ \E l \in kernel : registry' = Append(registry, Item(l))
  <2>1. peers # {} => \E l \in kernel : l = CHOOSE k \in peers : TRUE
    BY DEF Named
  <2> QED BY <2>1 DEF AddPeer
<1>2. /\ LinksOK(kernel, config, nextidx) /\ nextidx \in Nat /\ pc \notin Between /\ ~ failed
      /\ kernel \subseteq KernelLink /\ pc # "idle" /\ Len(registry) \in Nat
  BY <1>1, CurTyped DEF Between, IInv, LinksOK
<1>3. CASE pc' = "idle"
  BY <1>3 DEF OrphanInv
<1>4. ASSUME pc' = "next", NEW l \in kernel, registry' = Append(registry, Item(l)) PROVE OrphanInv'
  <2> DEFINE y == Item(l)
  <2>1. y \in RegistryItem
    BY <1>2, ReadOK
  <2>2. y.idx = l.idx /\ y.oldns = l.ns /\ y.name = l.name /\ y.kind = l.kind /\ y.hw = l.hw
    BY DEF Item
  <2> HIDE DEF y
  <2>3. y.hw # None => \E k \in kernel : k.kind = "physical" /\ k.hw = y.hw
    BY <1>2, <2>2 DEF LinksOK, Coherent
  <2>4. /\ SightKept
        /\ Len(registry') = Len(registry) + 1 /\ registry' \in Seq(RegistryItem)
        /\ Len(registry) <= Len(registry')
        /\ registry'[Len(registry) + 1] = y
        /\ \A q \in 1 .. Len(registry) : registry'[q] = registry[q]
    BY <1>2, <1>4, <2>1, <2>3, SightAppended DEF y
  <2>5. NamesKept
    <3>1. \A p \in 1 .. Len(registry') : p \in 1 .. Len(registry) \/ p = Len(registry) + 1
      BY <1>2, <2>4
    <3>2. \A e \in Waiting : HasName(e, y) => \A k \in kernel' : k.idx = y.idx => k.name = e.name /\ k.ns = e.ns
      <4>1. \A k \in kernel : k.idx = l.idx => k = l
        BY <1>2 DEF LinksOK, Coherent
      <4> QED BY <1>1, <2>2, <4>1 DEF HasName
    <3> SUFFICES ASSUME NEW e \in Waiting, NEW p \in 1 .. Len(registry'), HasName(e, registry'[p])
                 PROVE  \/ p \in 1 .. Len(registry) /\ HasName(e, registry[p]) /\ registry'[p].idx = registry[p].idx
                        \/ \A k \in kernel' : k.idx = registry'[p].idx => k.name = e.name /\ k.ns = e.ns
      BY DEF NamesKept
    <3>3. CASE p \in 1 .. Len(registry)
      <4>1. registry'[p] = registry[p]
        BY <2>4, <3>3
      <4> QED BY <3>3, <4>1
    <3>4. CASE p = Len(registry) + 1
      <4>1. registry'[p] = y
        BY <2>4, <3>4
      <4> QED BY <3>2, <4>1
    <3> QED BY <3>1, <3>3, <3>4
  <2>6. \A k \in kernel' : \E j \in kernel : /\ k.idx = j.idx /\ k.ns = j.ns /\ ~ InHand(j)
                                             /\ IsPermitted(j) => IsPermitted(k)
    BY <1>1 DEF InHand
  <2>7. \A k \in kernel' : \E j \in kernel : k.idx = j.idx /\ k.name = j.name /\ k.ns = j.ns
    BY <1>1
  <2>8. CurNamed' /\ pc' # "cleanup" /\ kernel' \subseteq KernelLink
    BY <1>1, <1>2, <1>4 DEF CurNamed
  <2> QED BY <1>1, <1>2, <2>4, <2>5, <2>6, <2>7, <2>8, OrphanStep
<1> QED BY <1>1, <1>3, <1>4

\* What is seen first is, whatever is marked.
LEMMA SeesMarked ==
  ASSUME NEW r \in Seq(RegistryItem), NEW s, NEW i \in 1 .. Len(r), NEW y \in RegistryItem,
         Replaces(s, r, i, y),
         y.kind = r[i].kind, y.hw = r[i].hw, y.oldns = r[i].oldns, y.removed = r[i].removed,
         y.name = r[i].name, NEW c, c.name \in Name, NEW p, Sees(r, c, p)
  PROVE  Sees(s, c, p)
<1>1. /\ s \in Seq(RegistryItem) /\ Len(s) = Len(r)
      /\ \A q \in 1 .. Len(r) : s[q] = IF q = i THEN y ELSE r[q]
  BY DEF Replaces
<1>2. Len(r) \in Nat /\ Len(r) <= Len(s)
  BY <1>1
<1>3. ASSUME NEW q \in 1 .. Len(r)
      PROVE  /\ s[q].kind = r[q].kind /\ s[q].hw = r[q].hw /\ s[q].oldns = r[q].oldns
             /\ s[q].removed = r[q].removed /\ s[q].name = r[q].name
  <2>1. CASE q = i
    <3>1. s[q] = y
      BY <1>1, <2>1
    <3> QED BY <2>1, <3>1
  <2>2. CASE q # i
    <3>1. s[q] = r[q]
      BY <1>1, <2>2
    <3> QED BY <3>1
  <2> QED BY <2>1, <2>2
<1>4. \A q \in Len(r) + 1 .. Len(s) : HasHw(c, s[q]) => \E o \in 1 .. Len(r) : HasHw(c, r[o])
  BY <1>1, <1>2
<1> QED BY <1>1, <1>2, <1>3, <1>4, SeesKept

\* The next link is looked up: it is at hand now.
LEMMA BeginLinkOrphan == ASSUME IInv, OrphanInv, BeginLink, ~ failed' PROVE OrphanInv'
<1> DEFINE c == Head(todo)
           p == Search(registry, c)
           x == registry[p]
           y == [x EXCEPT !.claimed = TRUE]
<1>1. /\ pc = "next" /\ todo # <<>> /\ todo' = Tail(todo)
      /\ cur'.link = c /\ cur'.idx = IF p = 0 THEN None ELSE x.idx
      /\ registry' = IF p = 0 THEN registry ELSE [registry EXCEPT ![p].claimed = TRUE]
      /\ pc' = AfterLookUp(c, p)
      /\ UNCHANGED <<config, kernel, bindfile, failed>>
  BY DEF BeginLink
<1> SUFFICES ASSUME pc' # "idle" PROVE OrphanInv'
  BY DEF OrphanInv
<1>2. /\ config \subseteq ConfigRecord /\ Regular(config) /\ LinksOK(kernel, config, nextidx)
      /\ registry \in Seq(RegistryItem) /\ todo \in Seq(config)
  BY DEF IInv, ConfigOK, KernelOK, RegistryOK, TodoOK
<1>3. /\ (\A l \in kernel : IsPermitted(l) \/ ToCome(l)) /\ KnownRight
  BY <1>1 DEF OrphanInv, Explained, ToCleanUp, InHand
<1>4. c \in config /\ c \in Waiting /\ Waiting' \subseteq Waiting /\ Waiting \subseteq Waiting' \cup {c}
  <2>1. /\ todo' \in Seq(config) /\ Len(todo') = Len(todo) - 1 /\ Len(todo) \in Nat \ {0}
        /\ \A i \in 1 .. Len(todo') : todo'[i] = todo[i + 1] /\ i + 1 \in 1 .. Len(todo)
        /\ c = todo[1] /\ 1 \in 1 .. Len(todo)
    BY <1>1, <1>2
  <2>2. \A i \in 1 .. Len(todo) : i = 1 \/ (i - 1 \in 1 .. Len(todo') /\ todo'[i - 1] = todo[i])
    BY <2>1
  <2>3. Waiting \subseteq Waiting' \cup {c}
    BY <2>1, <2>2 DEF Waiting
  <2>4. c \in config /\ c \in Waiting
    BY <1>2, <2>1 DEF Waiting
  <2>5. Waiting' \subseteq Waiting
    BY <2>1 DEF Waiting
  <2> QED BY <2>3, <2>4, <2>5
<1>5. /\ p \in 0 .. Len(registry)
      /\ p # 0 => x.kind = c.kind /\ ~ x.removed
      /\ p # 0 /\ c.hw = None /\ c.kind # "physical" => HasName(c, x)
  BY <1>2, SearchFacts DEF HasName, IsItem
<1>6. \A q : Sees(registry, c, q) => p = q /\ q \in 1 .. Len(registry)
  <2>1. \A q : Sees(registry, c, q) => p = q
    BY <1>2, SearchSees
  <2> HIDE DEF p
  <2> QED BY <2>1 DEF Sees
<1>7. p # 0 => /\ p \in 1 .. Len(registry) /\ x \in RegistryItem
               /\ y \in RegistryItem /\ Replaces(registry', registry, p, y)
               /\ y.kind = x.kind /\ y.hw = x.hw /\ y.oldns = x.oldns /\ y.removed = x.removed
               /\ y.name = x.name /\ y.idx = x.idx /\ y.ns = x.ns
  <2> HIDE DEF p, c
  <2> SUFFICES ASSUME p # 0
               PROVE  /\ p \in 1 .. Len(registry) /\ x \in RegistryItem
                      /\ y \in RegistryItem /\ Replaces(registry', registry, p, y)
                      /\ y.kind = x.kind /\ y.hw = x.hw /\ y.oldns = x.oldns /\ y.removed = x.removed
                      /\ y.name = x.name /\ y.idx = x.idx /\ y.ns = x.ns
    OBVIOUS
  <2>1. p \in 1 .. Len(registry) /\ x \in RegistryItem
    BY <1>2, <1>5
  <2>2. /\ y \in RegistryItem
        /\ y.kind = x.kind /\ y.hw = x.hw /\ y.oldns = x.oldns /\ y.removed = x.removed
        /\ y.name = x.name /\ y.idx = x.idx /\ y.ns = x.ns
    BY <2>1 DEF RegistryItem
  <2>3. registry' = [registry EXCEPT ![p] = y]
    BY <1>1, <1>2, <2>1
  <2> QED BY <1>2, <2>1, <2>2, <2>3, ReplacedIs
<1> HIDE DEF c, p, x, y
<1>8. \A q \in 1 .. Len(registry) :
        /\ q \in 1 .. Len(registry')
        /\ registry'[q].idx = registry[q].idx /\ registry'[q].ns = registry[q].ns
        /\ \A d \in Waiting : Sees(registry, d, q) => Sees(registry', d, q)
  <2> SUFFICES ASSUME NEW q \in 1 .. Len(registry)
               PROVE  /\ q \in 1 .. Len(registry')
                      /\ registry'[q].idx = registry[q].idx /\ registry'[q].ns = registry[q].ns
                      /\ \A d \in Waiting : Sees(registry, d, q) => Sees(registry', d, q)
    OBVIOUS
  <2>1. CASE p = 0
    BY <1>1, <2>1
  <2>2. CASE p # 0
    <3>1. \A d \in Waiting : d.name \in Name
      BY <1>2 DEF Waiting, ConfigRecord
    <3>2. \A d \in Waiting : Sees(registry, d, q) => Sees(registry', d, q)
      BY <1>2, <1>7, <2>2, <3>1, SeesMarked DEF x
    <3> QED BY <1>7, <2>2, <3>2 DEF Replaces, x
  <2> QED BY <2>1, <2>2
<1>9. ASSUME NEW l \in kernel PROVE Explained(l)'
  <2>1. CASE IsPermitted(l)
    BY <1>1, <2>1 DEF Explained, IsPermitted, IsConfigured
  <2>2. CASE ToCome(l)
    <3>1. PICK d \in Waiting, q \in 1 .. Len(registry) :
            d.kind = "physical" /\ Sees(registry, d, q) /\ registry[q].idx = l.idx /\ registry[q].ns = l.ns
      BY <2>2 DEF ToCome
    <3>2. CASE d \in Waiting'
      <4>1. ToCome(l)'
        BY <1>8, <3>1, <3>2 DEF ToCome
      <4> QED BY <4>1 DEF Explained
    <3>3. CASE d = c
      <4>1. p = q /\ p # 0 /\ x.idx = l.idx /\ x.ns = l.ns /\ cur'.idx = l.idx
        BY <1>1, <1>6, <3>1, <3>3 DEF x
      <4>2. pc' \in {"move", "rename"}
        BY <1>1, <3>1, <3>3, <4>1 DEF AfterLookUp, BindKinds, x
      <4>3. InHand(l)'
        BY <4>1, <4>2 DEF InHand
      <4> QED BY <4>3 DEF Explained
    <3> QED BY <1>4, <3>1, <3>2, <3>3
  <2> QED BY <1>3, <2>1, <2>2
<1>10. KnownRight'
  <2> SUFFICES ASSUME NEW e \in Waiting', e.kind # "physical", NEW q \in 1 .. Len(registry'),
                      HasName(e, registry'[q]), NEW l \in kernel, l.idx = registry'[q].idx
               PROVE  l.name = e.name /\ l.ns = e.ns
    BY <1>1 DEF KnownRight, HasName, IsItem
  <2>1. q \in 1 .. Len(registry) /\ HasName(e, registry[q]) /\ registry'[q].idx = registry[q].idx
    <3>1. CASE p = 0
      BY <1>1, <3>1
    <3>2. CASE p # 0
      BY <1>7, <3>2 DEF Replaces, HasName, IsItem, x
    <3> QED BY <3>1, <3>2
  <2> QED BY <1>3, <1>4, <2>1 DEF KnownRight
<1>11. CurNamed'
  <2>1. pc' \in {"add", "del", "move", "rename"} /\ (pc' = "rename" => p # 0)
    BY <1>1 DEF AfterLookUp
  <2> SUFFICES ASSUME pc' = "rename", c.kind # "physical", NEW l \in kernel, l.idx = x.idx
               PROVE  l.name = c.name
    BY <1>1, <2>1 DEF CurNamed
  <2>2. p \in 1 .. Len(registry) /\ HasName(c, x)
    BY <1>2, <1>4, <1>5, <1>7, <2>1 DEF Regular
  <2> QED BY <1>3, <1>4, <2>2 DEF KnownRight, x
<1> QED BY <1>9, <1>10, <1>11, <1>1 DEF OrphanInv

\* A virtual orphan is removed, and with it its item.
LEMMA RemoveOrphanOrphan ==
  ASSUME IInv, OrphanInv, NEW i \in 1 .. Len(registry), RemoveOrphan(registry[i]), ~ failed' PROVE OrphanInv'
<1> DEFINE x == registry[pos]
           y == [x EXCEPT !.removed = TRUE]
<1>1. /\ pc = "cleanup" /\ pos <= Len(registry) /\ x.kind # "physical" /\ pos' = pos + 1
      /\ registry' = [registry EXCEPT ![pos].removed = TRUE]
      /\ UNCHANGED <<config, todo, cur, pc, failed>> /\ kernel' = Without(x.idx)
  <2>1. x = registry[i]
    BY DEF RemoveOrphan, InCleanUp
  <2>2. RemoveOrphan(x)
    BY <2>1
  <2> QED BY <2>2 DEF RemoveOrphan, InCleanUp, Failure, NoFailure
<1>2. /\ registry \in Seq(RegistryItem) /\ Len(registry) \in Nat /\ pos \in 1 .. Len(registry)
      /\ kernel \subseteq KernelLink /\ (\A l \in kernel : Explained(l)) /\ KnownRight
      /\ LinksOK(kernel, config, nextidx) /\ Waiting' = Waiting
  BY <1>1 DEF IInv, RegistryOK, TodoOK, KernelOK, LinksOK, OrphanInv, Waiting
<1>3. x \in RegistryItem /\ ItemOK(x, config, kernel, nextidx, Waiting)
  BY <1>2 DEF IInv, RegistryOK
<1>4. /\ y \in RegistryItem /\ y.oldns = x.oldns /\ y.kind = x.kind /\ y.hw = x.hw /\ y.removed
  BY <1>3 DEF RegistryItem
<1>5. registry' = [registry EXCEPT ![pos] = y]
  BY <1>1, <1>2
<1> HIDE DEF y
<1>6. \A d \in Waiting : d.kind = "physical" => ~ Sees(registry, d, pos)
  BY <1>1 DEF Sees, HasHw, HasName, IsItem
<1>7. /\ SightKept
      /\ Len(registry') = Len(registry)
      /\ \A q \in 1 .. Len(registry) : registry'[q] = IF q = pos THEN y ELSE registry[q]
  BY <1>1, <1>2, <1>4, <1>5, <1>6, SightItem
<1>8. x.idx \in Idx /\ \A l \in kernel : l.idx = x.idx => l.kind # "physical"
  BY <1>1, <1>3 DEF ItemOK, RegistryItem
<1>9. \A k \in kernel' : \E l \in kernel : Same(k, l) /\ k.up = l.up /\ l.idx # x.idx
  <2>1. \A k \in Without(x.idx) : \E l \in kernel : l.idx # x.idx /\ (k = l \/ k = [l EXCEPT !.master = None])
    BY DEF Without
  <2>2. \A l \in kernel : LET k == [l EXCEPT !.master = None] IN Same(k, l) /\ k.up = l.up
    BY <1>2 DEF KernelLink, Same
  <2> SUFFICES ASSUME NEW k \in Without(x.idx)
               PROVE  \E l \in kernel : Same(k, l) /\ k.up = l.up /\ l.idx # x.idx
    BY <1>1
  <2>3. PICK l \in kernel : l.idx # x.idx /\ (k = l \/ k = [l EXCEPT !.master = None])
    BY <2>1
  <2>4. Same(k, l) /\ k.up = l.up
    BY <2>2, <2>3 DEF Same
  <2> QED BY <2>3, <2>4
<1>10. ASSUME NEW k \in kernel' PROVE Explained(k)'
  <2>1. PICK l \in kernel : Same(k, l) /\ k.up = l.up /\ l.idx # x.idx
    BY <1>9
  <2>2. CASE IsPermitted(l)
    <3>1. IsPermitted(k)
      BY <2>1, <2>2, PermittedSame
    <3> QED BY <1>1, <3>1 DEF Explained, IsPermitted, IsConfigured
  <2>3. CASE ToCleanUp(l)
    <3>1. PICK q \in pos .. Len(registry) : registry[q].idx = l.idx /\ IsOrphan(registry[q])
      BY <2>3 DEF ToCleanUp
    <3>2. q # pos
      BY <2>1, <3>1
    <3>3. q \in pos' .. Len(registry') /\ registry'[q] = registry[q] /\ k.idx = l.idx
      BY <1>1, <1>2, <1>7, <2>1, <3>2 DEF Same
    <3>4. ToCleanUp(k)'
      BY <1>1, <3>1, <3>3 DEF ToCleanUp, IsOrphan
    <3> QED BY <3>4 DEF Explained
  <2>4. CASE ToCome(l)
    <3>1. PICK d \in Waiting, q \in 1 .. Len(registry) :
            d.kind = "physical" /\ Sees(registry, d, q) /\ registry[q].idx = l.idx /\ registry[q].ns = l.ns
      BY <2>4 DEF ToCome
    <3>2. /\ Sees(registry', d, q) /\ registry'[q].idx = k.idx /\ registry'[q].ns = k.ns
          /\ q \in 1 .. Len(registry')
      BY <1>7, <2>1, <3>1 DEF SightKept, Same
    <3>3. ToCome(k)'
      BY <1>2, <3>1, <3>2 DEF ToCome
    <3> QED BY <3>3 DEF Explained
  <2> QED BY <1>1, <1>2, <2>2, <2>3, <2>4 DEF Explained, InHand
<1>11. KnownRight'
  <2> SUFFICES ASSUME NEW e \in Waiting, e.kind # "physical", NEW q \in 1 .. Len(registry'),
                      HasName(e, registry'[q]), NEW k \in kernel', k.idx = registry'[q].idx
               PROVE  k.name = e.name /\ k.ns = e.ns
    BY <1>2 DEF KnownRight, HasName, IsItem
  <2>1. q \in 1 .. Len(registry) /\ q # pos /\ registry'[q] = registry[q]
    <3>1. q # pos
      BY <1>2, <1>4, <1>7 DEF HasName, IsItem
    <3> QED BY <1>7, <3>1
  <2> QED BY <1>2, <1>9, <2>1 DEF KnownRight, Same
<1>12. CurNamed'
  BY <1>1 DEF CurNamed
<1> QED BY <1>10, <1>11, <1>12 DEF OrphanInv

\* A physical orphan is down.
LEMMA ShutdownOrphanOrphan ==
  ASSUME IInv, OrphanInv, NEW i \in 1 .. Len(registry), ShutdownOrphan(registry[i]), ~ failed' PROVE OrphanInv'
<1> DEFINE x == registry[pos]
           y == [x EXCEPT !.orphan = TRUE]
<1>1. /\ pc = "cleanup" /\ pos <= Len(registry) /\ x.kind = "physical" /\ pos' = pos + 1
      /\ registry' = [registry EXCEPT ![pos].orphan = TRUE]
      /\ UNCHANGED <<config, todo, cur, pc, failed>> /\ kernel' = SetUp(x.idx, FALSE)
  <2>1. x = registry[i] /\ ShutdownOrphan(x)
    BY DEF ShutdownOrphan, InCleanUp
  <2> QED BY <2>1 DEF ShutdownOrphan, InCleanUp, Failure, NoFailure
<1>2. /\ registry \in Seq(RegistryItem) /\ Len(registry) \in Nat /\ pos \in 1 .. Len(registry)
      /\ kernel \subseteq KernelLink /\ (\A l \in kernel : Explained(l)) /\ KnownRight
      /\ LinksOK(kernel, config, nextidx) /\ Waiting' = Waiting
      /\ \A d \in Waiting : d.name \in Name
  BY <1>1 DEF IInv, RegistryOK, TodoOK, KernelOK, LinksOK, OrphanInv, Waiting, ConfigOK, ConfigRecord
<1>3. x \in RegistryItem /\ ItemOK(x, config, kernel, nextidx, Waiting)
  BY <1>2 DEF IInv, RegistryOK
<1>4. /\ y \in RegistryItem /\ y.oldns = x.oldns /\ y.kind = x.kind /\ y.hw = x.hw
      /\ y.removed = x.removed /\ y.name = x.name /\ y.idx = x.idx /\ y.ns = x.ns
  BY <1>3 DEF RegistryItem
<1>5. registry' = [registry EXCEPT ![pos] = y]
  BY <1>1, <1>2
<1> HIDE DEF y
<1>6. Replaces(registry', registry, pos, y)
  BY <1>2, <1>4, <1>5, ReplacedIs
<1>7. /\ Len(registry') = Len(registry)
      /\ \A q \in 1 .. Len(registry) : registry'[q] = IF q = pos THEN y ELSE registry[q]
  BY <1>6 DEF Replaces
<1> HIDE DEF x
<1>8. \A q \in 1 .. Len(registry) :
        /\ registry'[q].idx = registry[q].idx /\ registry'[q].ns = registry[q].ns
        /\ \A d \in Waiting : Sees(registry, d, q) => Sees(registry', d, q)
        /\ \A d \in Waiting : HasName(d, registry'[q]) => HasName(d, registry[q])
  <2> SUFFICES ASSUME NEW q \in 1 .. Len(registry)
               PROVE  /\ registry'[q].idx = registry[q].idx /\ registry'[q].ns = registry[q].ns
                      /\ \A d \in Waiting : Sees(registry, d, q) => Sees(registry', d, q)
                      /\ \A d \in Waiting : HasName(d, registry'[q]) => HasName(d, registry[q])
    OBVIOUS
  <2>1. \A d \in Waiting : Sees(registry, d, q) => Sees(registry', d, q)
    BY <1>2, <1>4, <1>6, SeesMarked DEF x
  <2>2. /\ registry'[q].idx = registry[q].idx /\ registry'[q].ns = registry[q].ns
        /\ \A d \in Waiting : HasName(d, registry'[q]) => HasName(d, registry[q])
    BY <1>4, <1>7 DEF HasName, IsItem, x
  <2> QED BY <2>1, <2>2
<1>9. \A l \in kernel : l.idx = x.idx => l.kind = "physical"
  BY <1>1, <1>3 DEF ItemOK
<1>10. \A k \in kernel' : \E l \in kernel : Same(k, l) /\ (l.idx # x.idx => k = l) /\ (l.idx = x.idx => ~ k.up)
  <2>1. PICK up \in BOOLEAN : ~ up /\ kernel' = SetUp(x.idx, up)
    BY <1>1
  <2>2. \A k \in SetUp(x.idx, up) : \E l \in kernel :
          Same(k, l) /\ (l.idx # x.idx => k = l) /\ (l.idx = x.idx => k.up = up)
    BY <1>2, SetUpFacts
  <2> QED BY <2>1, <2>2
<1>11. ASSUME NEW k \in kernel' PROVE Explained(k)'
  <2>1. PICK l \in kernel : Same(k, l) /\ (l.idx # x.idx => k = l) /\ (l.idx = x.idx => ~ k.up)
    BY <1>10
  <2>2. IsPermitted(k) => Explained(k)'
    BY <1>1 DEF Explained, IsPermitted, IsConfigured
  <2>3. CASE l.idx = x.idx
    BY <1>9, <2>1, <2>2, <2>3 DEF IsPermitted, Same
  <2>4. CASE l.idx # x.idx /\ ToCleanUp(l)
    <3>1. PICK q \in pos .. Len(registry) : registry[q].idx = l.idx /\ IsOrphan(registry[q])
      BY <2>4 DEF ToCleanUp
    <3>2. q # pos
      BY <2>4, <3>1 DEF x
    <3>3. q \in pos' .. Len(registry') /\ registry'[q] = registry[q] /\ k.idx = l.idx
      BY <1>1, <1>2, <1>7, <2>1, <3>2 DEF Same
    <3>4. ToCleanUp(k)'
      BY <1>1, <3>1, <3>3 DEF ToCleanUp, IsOrphan
    <3> QED BY <3>4 DEF Explained
  <2>5. CASE l.idx # x.idx /\ ToCome(l)
    <3>1. PICK d \in Waiting, q \in 1 .. Len(registry) :
            d.kind = "physical" /\ Sees(registry, d, q) /\ registry[q].idx = l.idx /\ registry[q].ns = l.ns
      BY <2>5 DEF ToCome
    <3>2. /\ Sees(registry', d, q) /\ registry'[q].idx = k.idx /\ registry'[q].ns = k.ns
          /\ q \in 1 .. Len(registry')
      BY <1>7, <1>8, <2>1, <3>1 DEF Same
    <3>3. ToCome(k)'
      BY <1>2, <3>1, <3>2 DEF ToCome
    <3> QED BY <3>3 DEF Explained
  <2> QED BY <1>1, <1>2, <2>1, <2>2, <2>3, <2>4, <2>5 DEF Explained, InHand
<1>12. KnownRight'
  <2> SUFFICES ASSUME NEW e \in Waiting, e.kind # "physical", NEW q \in 1 .. Len(registry'),
                      HasName(e, registry'[q]), NEW k \in kernel', k.idx = registry'[q].idx
               PROVE  k.name = e.name /\ k.ns = e.ns
    BY <1>2 DEF KnownRight, HasName, IsItem
  <2>1. q \in 1 .. Len(registry) /\ HasName(e, registry[q]) /\ registry'[q].idx = registry[q].idx
    BY <1>7, <1>8
  <2> QED BY <1>2, <1>10, <2>1 DEF KnownRight, Same
<1>13. CurNamed'
  BY <1>1 DEF CurNamed
<1> QED BY <1>11, <1>12, <1>13 DEF OrphanInv

\* An item that is no orphan is passed by, or the run goes on.
LEMMA PassedOrphan ==
  ASSUME IInv, OrphanInv, ~ failed',
         (\E i \in 1 .. Len(registry) : KeepItem(registry[i])) \/ CleanUpDone \/ Finished
  PROVE  OrphanInv'
<1>1. /\ UNCHANGED <<config, kernel, registry, todo, cur, failed>>
      /\ \/ /\ pc = "cleanup" /\ pc' = pc /\ pos' = pos + 1 /\ pos <= Len(registry)
            /\ ~ IsOrphan(registry[pos])
         \/ pc = "cleanup" /\ pc' = "next" /\ pos > Len(registry)
         \/ pc = "next" /\ pc' = "done"
  BY DEF KeepItem, InCleanUp, CleanUpDone, Finished
<1>2. pos \in Nat \ {0} \/ pc = "next"
  BY <1>1 DEF IInv, TodoOK
<1>3. (\A l \in kernel : Explained(l)) /\ KnownRight /\ Len(registry) \in Nat
  BY <1>1 DEF OrphanInv, IInv, RegistryOK
<1>4. ASSUME NEW l \in kernel PROVE Explained(l)'
  <2>1. CASE ToCleanUp(l)
    <3>1. PICK q \in pos .. Len(registry) : registry[q].idx = l.idx /\ IsOrphan(registry[q])
      BY <2>1 DEF ToCleanUp
    <3>2. pc' = "cleanup" /\ q # pos /\ q \in pos' .. Len(registry)
      BY <1>1, <1>2, <1>3, <2>1, <3>1 DEF ToCleanUp
    <3>3. ToCleanUp(l)'
      BY <1>1, <3>1, <3>2 DEF ToCleanUp, IsOrphan
    <3> QED BY <3>3 DEF Explained
  <2>2. CASE IsPermitted(l) \/ ToCome(l)
    <3>1. Waiting' = Waiting
      BY <1>1 DEF Waiting
    <3> QED BY <1>1, <2>2, <3>1 DEF Explained, IsPermitted, IsConfigured, ToCome
  <2> QED BY <1>1, <1>3, <2>1, <2>2 DEF Explained, InHand
<1>5. KnownRight'
  BY <1>1, <1>3 DEF KnownRight, Waiting
<1>6. CurNamed'
  BY <1>1 DEF CurNamed
<1> QED BY <1>1, <1>4, <1>5, <1>6 DEF OrphanInv

\* Every step keeps it.
LEMMA NextOrphan == ASSUME IInv, OrphanInv, [Next]_vars PROVE OrphanInv'
<1>1. CASE failed'
  BY <1>1 DEF OrphanInv
<1>2. CASE StartRun
  BY <1>2, StartRunOrphan
<1>3. CASE ~ failed' /\ (CleanUpStep \/ Finished)
  BY <1>3, RemoveOrphanOrphan, ShutdownOrphanOrphan, PassedOrphan DEF CleanUpStep
<1>4. CASE Abort
  BY <1>4 DEF Abort, OrphanInv
<1>5. CASE ~ failed' /\ (BeginLink \/ AddLink \/ DeleteLink \/ AddPeer)
  BY <1>5, BeginLinkOrphan, AddLinkOrphan, DeleteLinkOrphan, AddPeerOrphan
<1>6. CASE ~ failed' /\ (MoveLink \/ ClearName \/ Compare \/ SetLink)
  BY <1>6, MoveLinkOrphan, ClearNameOrphan, CompareOrphan, SetLinkOrphan
<1>7. CASE ~ failed' /\ (ShutDown \/ SetState \/ NewState)
  BY <1>7, StateOrphan
<1>8. CASE ~ failed' /\ (Updated \/ CannotCreate \/ AddFails \/ SetBindState)
  BY <1>8, QuietOrphan
<1>9. CASE ~ failed' /\ (MoveIn \/ RenameIn \/ SetMaster)
  BY <1>9, MoveInOrphan, RenameInOrphan, SetMasterOrphan
<1>10. CASE UNCHANGED vars
  <2>1. UNCHANGED <<config, kernel, registry, todo, pos, cur, pc, failed>>
    BY <1>10 DEF vars
  <2>2. KnownRight' = KnownRight /\ CurNamed' = CurNamed
    BY <2>1 DEF KnownRight, CurNamed, Waiting
  <2>3. \A l : Explained(l) => Explained(l)'
    BY <2>1 DEF Explained, IsPermitted, IsConfigured, ToCleanUp, IsOrphan, ToCome, InHand, Waiting
  <2> QED BY <2>1, <2>2, <2>3 DEF OrphanInv
<1> QED BY <1>1, <1>2, <1>3, <1>4, <1>5, <1>6, <1>7, <1>8, <1>9, <1>10 DEF Next, LinkStep

\* When a run is done it has come to every link.
AllCome == pc = "done" => todo = <<>>

LEMMA NextAllCome == ASSUME IInv, AllCome, [Next]_vars PROVE AllCome'
<1>1. CASE StartRun \/ CleanUpStep \/ Finished \/ Abort
  BY <1>1 DEF StartRun, CleanUpStep, KeepItem, RemoveOrphan, ShutdownOrphan, InCleanUp, CleanUpDone,
              Finished, Abort, AllCome
<1>2. CASE LinkStep
  <2>1. CASE BeginLink \/ MoveLink \/ ClearName \/ Compare \/ ShutDown \/ SetLink
    BY <2>1 DEF BeginLink, AfterLookUp, MoveLink, ClearName, Compare, ShutDown, SetLink, AllCome
  <2>2. CASE SetState \/ Updated \/ DeleteLink \/ CannotCreate \/ AddLink \/ AddFails
    BY <2>2 DEF SetState, Updated, DeleteLink, CannotCreate, AddLink, AddFails, NotAdded, AllCome
  <2>3. CASE MoveIn \/ RenameIn \/ SetBindState \/ SetMaster \/ NewState \/ AddPeer
    BY <2>3 DEF MoveIn, RenameIn, NotAdded, SetBindState, SetMaster, NewState, AddPeer, AllCome
  <2> QED BY <1>2, <2>1, <2>2, <2>3 DEF LinkStep
<1>3. CASE UNCHANGED vars
  BY <1>3 DEF vars, AllCome
<1> QED BY <1>1, <1>2, <1>3 DEF Next

\* In a run in which no call has failed so far there is a reason for every link of the
\* kernel to be there, no configured virtual link has gone by another name since the
\* registry was built, and a run that is done has been at every configured link.
THEOREM OrphanInvariance == Spec => [](OrphanInv /\ AllCome)
<1>1. Init => OrphanInv /\ AllCome
  BY DEF Init, OrphanInv, AllCome
<1>2. IInv /\ IInv' /\ (OrphanInv /\ AllCome) /\ [Next]_vars => (OrphanInv /\ AllCome)'
  BY NextOrphan, NextAllCome
<1> QED BY <1>1, <1>2, Invariance, PTL DEF Spec

\* A run in which no call fails leaves no virtual link that is neither configured nor
\* ignored nor a peer, and no such physical link up: whatever the kernel held and
\* earlier runs left.
THEOREM OrphansGoneHolds == Spec => []OrphansGone
<1>1. OrphanInv /\ AllCome => OrphansGone
  <2> SUFFICES ASSUME OrphanInv, AllCome, pc = "done", ~ failed, NEW l \in kernel
               PROVE  IsPermitted(l)
    BY DEF OrphansGone
  <2>1. Explained(l) /\ Waiting = {}
    BY DEF OrphanInv, AllCome, Waiting
  <2> QED BY <2>1 DEF Explained, ToCleanUp, ToCome, InHand
<1> QED BY <1>1, OrphanInvariance, PTL

-----------------------------------------------------------------------------
(* A run takes effect                                                     *)

\* what is shown of configurations like this: no veth links, and every master is
\* another configured link that can be created
Plain ==
  \A c \in config :
    /\ c.kind # "veth"
    /\ c.master # None => /\ c.master # c.name
                          /\ \E d \in config : d.ns = c.ns /\ d.name = c.master /\ d.kind # "physical"

\* the configured links the run is done with
Done == {c \in config \ Waiting : pc \in Between \/ c # cur.link}

IsMaster(d, c) == d.name = c.master /\ d.ns = c.ns
MastersFirst ==
  /\ \A c \in config \ Waiting, d \in config : IsMaster(d, c) => d \in Done
  /\ \A i, j \in 1 .. Len(todo) : i < j => ~ IsMaster(todo[j], todo[i])

\* a physical link is known where it is, and by its name unless it got the one that is
\* configured for it
Unique == \A p, q \in 1 .. Len(registry) :
  registry[p].kind = "physical" /\ registry[q].kind = "physical" /\ registry[p].idx # None
    /\ registry[p].idx = registry[q].idx => p = q
NamedFor(d, l, x) ==
  /\ d.kind = "physical" /\ d.name = l.name
  /\ (d.hw # None /\ d.hw = l.hw) \/ (ByName(d, kernel) /\ x.name \notin Name)
Tracked ==
  \A l \in kernel : l.kind = "physical" =>
    /\ l.name \in Name => \E p \in 1 .. Len(registry) : registry[p].idx = l.idx
    /\ \A p \in 1 .. Len(registry) : registry[p].idx = l.idx =>
         /\ registry[p].ns = l.ns
         /\ l.name \in Name => \/ registry[p].name = l.name
                               \/ \E d \in config \ Waiting : NamedFor(d, l, registry[p])

\* a physical link that is known by its name is where Search looks for it
Findable ==
  \A c \in Waiting, p \in 1 .. Len(registry) :
    LET x == registry[p] IN
    c.kind = "physical" /\ c.hw = None /\ x.kind = "physical" /\ x.name = c.name =>
      /\ x.ns = x.oldns
      /\ \/ x.ns = c.ns \/ x.orphan \/ x.name \in IgnoredName \/ (~ ManagesNs /\ x.ns # Root)
         \/ pc = "cleanup" /\ p >= pos /\ IsOrphan(x)

NoneDone  == pc = "cleanup" => Done = {}
DoneRight == \A c \in Done : Creatable(c) => Lost(c) \/ \E l \in kernel : Right(c, l)

\* the link that is applied is as configured, but for its state
IsSet(l) == /\ l.name = cur.link.name /\ l.ns = cur.link.ns /\ l.attr = cur.link.attr
            /\ cur.master # None => l.master = cur.master

InApply == {"move", "rename", "compare", "down", "set"}

\* how far the link that is applied has come
CurState ==
  LET c == cur.link IN
  pc \notin Between =>
    /\ pc # "peer"
    /\ cur.master = IF c.master = None THEN None ELSE IndexOf(c.ns, c.master)
    /\ c.up \in {None, cur.up}
    /\ cur.errs => c.kind # "physical" /\ pc \notin InApply
    /\ pc = "updated" => Exists(cur.idx)
    /\ pc = "add" /\ c.kind = "physical" => ~ Creatable(c) \/ Lost(c)
CurPhysical ==
  LET c == cur.link
      x == registry[cur.item]
  IN
  pc \in InApply /\ c.kind = "physical" =>
    /\ cur.item \in 1 .. Len(registry) /\ x.kind = "physical" /\ x.idx = cur.idx
    /\ pc = "move" => Search(registry, c) = cur.item
    /\ \A l \in kernel : l.idx = cur.idx =>
         /\ \A d \in config : d.kind = "physical" /\ d # c /\ d.hw = None => l.name # d.name
         /\ \/ c.hw # None /\ l.hw = c.hw
            \/ ByName(c, kernel) /\ (x.name = c.name \/ x.name \notin Name)
         /\ pc = "move" /\ l.name \in Name => l.name = x.name
CurLink ==
  LET c == cur.link IN
  \A l \in kernel : l.idx = cur.idx =>
    /\ pc \in {"compare", "down", "set"} =>
         \A k \in kernel : k.name = c.name /\ k.ns = c.ns => k = l
    /\ pc \in {"state", "updated"} =>
         l.name = c.name /\ l.ns = c.ns /\ (cur.errs \/ IsSet(l))
         /\ (c.kind = "physical" /\ c.hw # None => l.hw = c.hw \/ ByName(c, kernel))
    /\ pc = "updated" => cur.errs \/ c.up \in {None, l.up}
    /\ pc = "del" /\ l.ns = c.ns => l.name = c.name
    /\ pc \in {"movein", "renamein", "bind", "master", "newstate"} => l.attr = c.attr
    /\ pc \in {"bind", "master", "newstate"} => l.name = c.name /\ l.ns = c.ns
    /\ pc = "newstate" => IsSet(l)

Effect == /\ MastersFirst /\ Unique /\ Tracked /\ Findable /\ NoneDone /\ DoneRight
          /\ CurState /\ CurPhysical /\ CurLink
EffectInv == Plain /\ pc # "idle" /\ ~ failed => Effect

-----------------------------------------------------------------------------
\* the link of a name, and being as configured, in a set of links
InNamed(K, ns, n) == {l \in K : l.ns = ns /\ l.name = n}
IndexIn(K, ns, n) == IF InNamed(K, ns, n) = {} THEN None
                     ELSE (CHOOSE l \in InNamed(K, ns, n) : TRUE).idx
RightIn(K, c, l) ==
  /\ l.name = c.name /\ l.ns = c.ns /\ l.kind = c.kind /\ l.attr = c.attr
  /\ c.hw # None => l.hw = c.hw
  /\ c.master # None => /\ IndexIn(K, c.ns, c.master) # None
                        /\ l.master = IndexIn(K, c.ns, c.master)
  /\ c.up \in {None, l.up}

\* The index of a link that is there.
LEMMA IndexIs ==
  ASSUME NEW K, K \subseteq KernelLink, Coherent(K), NEW k \in K
  PROVE  IndexIn(K, k.ns, k.name) = k.idx /\ k.idx # None
<1>1. k \in InNamed(K, k.ns, k.name) /\ \A l \in InNamed(K, k.ns, k.name) : l = k
  BY DEF InNamed, Coherent
<1>2. k.idx \in Idx /\ None \notin Idx
  BY ConstantsAssumption DEF KernelLink
<1>3. (CHOOSE l \in InNamed(K, k.ns, k.name) : TRUE) = k
  BY <1>1
<1> QED BY <1>1, <1>2, <1>3 DEF IndexIn

LEMMA IndexSame ==
  /\ \A ns, n : IndexOf(ns, n) = IndexIn(kernel, ns, n)
  /\ \A ns, n : IndexOf(ns, n)' = IndexIn(kernel', ns, n)
BY DEF IndexOf, Named, IndexIn, InNamed

\* Where the master is there, this is what it is to be as configured.
LEMMA RightIs ==
  ASSUME NEW c, c.kind # "veth", NEW l
  PROVE  /\ (c.master # None => IndexOf(c.ns, c.master) # None) =>
              (Right(c, l) <=> RightIn(kernel, c, l))
         /\ (c.master # None => IndexOf(c.ns, c.master)' # None) =>
              (Right(c, l)' <=> RightIn(kernel', c, l))
<1>1. (c.master # None => IndexOf(c.ns, c.master) # None) => (Right(c, l) <=> RightIn(kernel, c, l))
  BY IndexSame DEF Right, RightIn, HasMaster
<1>2. (c.master # None => IndexOf(c.ns, c.master)' # None) => (Right(c, l)' <=> RightIn(kernel', c, l))
  BY IndexSame DEF Right, RightIn, HasMaster
<1> QED BY <1>1, <1>2

\* Only a physical link is lost.
LEMMA LostIsPhysical ==
  ASSUME IInv, NEW c, Lost(c) PROVE c.kind = "physical"
<1>1. PICK p \in 1 .. Len(registry) : p = Search(registry, c) /\ registry[p].idx = None
  BY DEF Lost
<1>2. registry \in Seq(RegistryItem) /\ ItemOK(registry[p], config, kernel, nextidx, Waiting)
  BY DEF IInv, RegistryOK
<1>3. p # 0 /\ registry[p].kind = c.kind
  BY <1>1, <1>2, SearchFacts
<1> QED BY <1>1, <1>2, <1>3 DEF ItemOK

\* The master of a link that is done, or of the one that is applied, is there.
LEMMA MasterThere ==
  ASSUME IInv, Plain, DoneRight, NEW c \in config, c.master # None,
         \A d \in config : IsMaster(d, c) => d \in Done
  PROVE  \E d \in Done, k \in kernel :
           /\ IsMaster(d, c) /\ d.kind # "physical" /\ d.kind # "veth" /\ d.name = c.master /\ d.ns = c.ns
           /\ Right(d, k) /\ k.name = c.master /\ k.ns = c.ns
           /\ IndexOf(c.ns, c.master) = k.idx /\ k.idx # None
<1>1. PICK d \in config : d.ns = c.ns /\ d.name = c.master /\ d.kind # "physical"
  BY DEF Plain
<1>2. IsMaster(d, c) /\ d \in Done /\ d.kind # "veth"
  BY <1>1 DEF IsMaster, Plain
<1>3. Creatable(d) /\ ~ Lost(d)
  BY <1>1, LostIsPhysical DEF Creatable
<1>4. PICK k \in kernel : Right(d, k)
  BY <1>2, <1>3 DEF DoneRight
<1>5. k.name = c.master /\ k.ns = c.ns
  BY <1>1, <1>4 DEF Right
<1>6. IndexIn(kernel, c.ns, c.master) = k.idx /\ k.idx # None
  BY <1>5, IndexIs DEF IInv, KernelOK, LinksOK
<1> QED BY <1>1, <1>2, <1>4, <1>5, <1>6, IndexSame

-----------------------------------------------------------------------------
\* what a step leaves of the links that are done: they are as they were, physical ones
\* do not get the name of one that is known by it, and what is lost is not found again
StaysAs(c, l, m) == m = l \/ (c.master = None /\ m = [l EXCEPT !.master = None])
DoneStays == \A c \in Done, l \in kernel : Right(c, l) => \E m \in kernel' : StaysAs(c, l, m)
NoneNew ==
  \A m \in kernel' : m.kind = "physical" =>
    \E l \in kernel : /\ l.kind = "physical" /\ l.hw = m.hw
                      /\ \A c \in Done : c.kind = "physical" /\ c.hw = None /\ m.name = c.name =>
                           l.name = m.name /\ l.ns = m.ns
LostStays == \A c \in Done : Lost(c) => Lost(c)'

\* The master of a link stays the one of its name.
LEMMA MasterKept ==
  ASSUME IInv, IInv', Plain, MastersFirst, DoneRight, DoneStays,
         NEW c \in config \ Waiting, c.master # None
  PROVE  IndexOf(c.ns, c.master)' = IndexOf(c.ns, c.master) /\ IndexOf(c.ns, c.master) # None
<1>1. PICK d \in Done, k \in kernel :
        /\ Right(d, k) /\ k.name = c.master /\ k.ns = c.ns
        /\ IndexOf(c.ns, c.master) = k.idx /\ k.idx # None
  BY MasterThere DEF MastersFirst
<1>2. PICK m \in kernel' : StaysAs(d, k, m)
  BY <1>1 DEF DoneStays
<1>3. k \in KernelLink
  BY DEF IInv, KernelOK, LinksOK
<1>4. m.name = k.name /\ m.ns = k.ns /\ m.idx = k.idx
  BY <1>2, <1>3 DEF StaysAs, KernelLink
<1>5. IndexIn(kernel', m.ns, m.name) = m.idx
  <2>1. kernel' \subseteq KernelLink /\ Coherent(kernel')
    BY DEF IInv, KernelOK, LinksOK
  <2> QED BY <2>1, IndexIs
<1> QED BY <1>1, <1>4, <1>5, IndexSame

\* Links that were done are so still.
LEMMA DoneKept ==
  ASSUME IInv, IInv', Plain, MastersFirst, DoneRight, DoneStays, NoneNew, LostStays
  PROVE  \A c \in Done : Creatable(c)' => Lost(c)' \/ \E l \in kernel' : Right(c, l)'
<1> SUFFICES ASSUME NEW c \in Done, Creatable(c)'
             PROVE  Lost(c)' \/ \E l \in kernel' : Right(c, l)'
  OBVIOUS
<1>1. c \in config \ Waiting /\ c.kind # "veth"
  BY DEF Done, Plain
<1>2. Creatable(c)
  <2>1. CASE c.kind # "physical"
    BY <2>1 DEF Creatable
  <2>2. CASE c.kind = "physical"
    <3>1. PICK m \in kernel' : /\ m.kind = "physical"
                               /\ IF c.hw # None THEN m.hw = c.hw
                                  ELSE /\ m.name = c.name
                                       /\ \/ m.ns = c.ns
                                          \/ c.name \notin IgnoredName /\ (ManagesNs \/ m.ns = Root)
      BY <2>2 DEF Creatable
    <3>2. PICK l \in kernel : /\ l.kind = "physical" /\ l.hw = m.hw
                              /\ c.hw = None => l.name = m.name /\ l.ns = m.ns
      BY <2>2, <3>1 DEF NoneNew
    <3> QED BY <2>2, <3>1, <3>2 DEF Creatable
  <2> QED BY <2>1, <2>2
<1>3. CASE Lost(c)
  BY <1>3 DEF LostStays
<1>4. CASE ~ Lost(c)
  <2>1. PICK l \in kernel : Right(c, l)
    BY <1>2, <1>4 DEF DoneRight
  <2>2. PICK m \in kernel' : StaysAs(c, l, m)
    BY <2>1 DEF DoneStays
  <2>3. l \in KernelLink
    BY DEF IInv, KernelOK, LinksOK
  <2>4. /\ m.name = l.name /\ m.ns = l.ns /\ m.kind = l.kind /\ m.attr = l.attr /\ m.hw = l.hw
        /\ m.up = l.up /\ (c.master # None => m.master = l.master)
    BY <2>2, <2>3 DEF StaysAs, KernelLink
  <2>5. c.master # None => IndexOf(c.ns, c.master)' = IndexOf(c.ns, c.master) /\ IndexOf(c.ns, c.master) # None
    BY <1>1, MasterKept
  <2>6. RightIn(kernel, c, l)
    BY <1>1, <2>1, <2>5, RightIs
  <2>7. RightIn(kernel', c, m)
    BY <2>4, <2>5, <2>6, IndexSame DEF RightIn
  <2>8. Right(c, m)'
    BY <1>1, <2>5, <2>7, RightIs
  <2> QED BY <2>8
<1> QED BY <1>3, <1>4

\* What an item is to Search, if it is a physical one.
Resembles(s, r, c, q) ==
  /\ s[q].kind = r[q].kind
  /\ r[q].kind = "physical" =>
       /\ s[q].hw = r[q].hw /\ s[q].oldns = r[q].oldns /\ s[q].orphan = r[q].orphan
       /\ s[q].removed = r[q].removed /\ (s[q].name = r[q].name \/ s[q].name # c.name)

\* A physical link is found where it was, if its item stays.
LEMMA SearchSame ==
  ASSUME NEW r \in Seq(RegistryItem), NEW s \in Seq(RegistryItem), Len(r) <= Len(s),
         NEW c, c.kind = "physical", NEW p, p = Search(r, c), p # 0, s[p].name = r[p].name,
         \A q \in 1 .. Len(r) : Resembles(s, r, c, q),
         \A q \in 1 .. Len(s) : q \in 1 .. Len(r) \/ s[q].kind # "physical"
  PROVE  Search(s, c) = p
<1> DEFINE First(S) == IF S = {} THEN 0 ELSE Min(S)
           H(t) == {q \in {o \in 1 .. Len(t) : t[o].kind = c.kind /\ ~ t[o].removed} :
                      c.hw # None /\ t[q].hw = c.hw}
           N(t) == {q \in {o \in 1 .. Len(t) : t[o].kind = c.kind /\ ~ t[o].removed} :
                      t[q].name = c.name /\ t[q].oldns = c.ns}
           O(t) == {q \in {o \in 1 .. Len(t) : t[o].kind = c.kind /\ ~ t[o].removed} :
                      t[q].kind = "physical" /\ t[q].name = c.name /\ t[q].orphan}
<1>1. Len(r) \in Nat /\ Len(s) \in Nat
  OBVIOUS
<1>2. ASSUME NEW t
      PROVE  Search(t, c) = IF First(H(t)) # 0 THEN First(H(t))
                            ELSE IF First(N(t)) # 0 THEN First(N(t)) ELSE First(O(t))
  BY Zenon DEF Search
<1>3. H(s) = H(r)
  <2>1. \A q : q \in H(s) => q \in H(r)
    BY DEF Resembles
  <2>2. \A q : q \in H(r) => q \in H(s)
    BY <1>1 DEF Resembles
  <2> QED BY <2>1, <2>2
<1>4. N(s) \subseteq N(r) /\ O(s) \subseteq O(r)
  BY DEF Resembles
<1>5. (p \in N(r) => p \in N(s)) /\ (p \in O(r) => p \in O(s))
  BY <1>1 DEF Resembles
<1>6. \A S \in SUBSET Nat : 0 \notin S /\ S # {} =>
        First(S) \in S /\ First(S) # 0 /\ \A y \in S : First(S) <= y
  <2> SUFFICES ASSUME NEW S \in SUBSET Nat, 0 \notin S, S # {}
               PROVE  First(S) \in S /\ First(S) # 0 /\ \A y \in S : First(S) <= y
    OBVIOUS
  <2>1. First(S) = Min(S)
    OBVIOUS
  <2> QED BY <2>1, MinFacts
<1>7. \A S, T \in SUBSET Nat : 0 \notin S /\ T \subseteq S /\ S # {} /\ First(S) \in T => First(T) = First(S)
  <2> SUFFICES ASSUME NEW S \in SUBSET Nat, NEW T \in SUBSET Nat, 0 \notin S, T \subseteq S, S # {},
                      First(S) \in T
               PROVE  First(T) = First(S)
    OBVIOUS
  <2>1. First(S) \in T /\ \A y \in T : First(S) <= y
    BY <1>6
  <2>2. Min(T) = First(S)
    BY <2>1, MinIs
  <2> QED BY <2>1, <2>2
<1>8. /\ H(r) \in SUBSET Nat /\ N(r) \in SUBSET Nat /\ O(r) \in SUBSET Nat
      /\ N(s) \in SUBSET Nat /\ O(s) \in SUBSET Nat
      /\ 0 \notin H(r) /\ 0 \notin N(r) /\ 0 \notin O(r) /\ 0 \notin N(s) /\ 0 \notin O(s)
  OBVIOUS
<1>9. First({}) = 0
  OBVIOUS
<1> HIDE DEF First, H, N, O
<1>10. CASE H(r) # {}
  BY <1>2, <1>3, <1>6, <1>8, <1>10
<1>11. CASE H(r) = {} /\ N(r) # {}
  <2>1. p = First(N(r)) /\ p \in N(r)
    BY <1>2, <1>6, <1>8, <1>9, <1>11
  <2>2. First(N(s)) = p
    BY <1>4, <1>5, <1>7, <1>8, <1>11, <2>1
  <2> QED BY <1>2, <1>3, <1>9, <1>11, <2>2
<1>12. CASE H(r) = {} /\ N(r) = {}
  <2>1. p = First(O(r)) /\ O(r) # {}
    BY <1>2, <1>9, <1>12
  <2>2. p \in O(r)
    BY <1>6, <1>8, <2>1
  <2>3. First(O(s)) = p
    BY <1>4, <1>5, <1>7, <1>8, <2>1, <2>2
  <2>4. N(s) = {}
    BY <1>4, <1>12
  <2> QED BY <1>2, <1>3, <1>9, <1>12, <2>3, <2>4
<1> QED BY <1>10, <1>11, <1>12

-----------------------------------------------------------------------------
\* what a step leaves of the items, and of the physical links: they stay where they are
\* and get at most a name that is not configured; MoveLink moves the link at hand
AtHand(n) == \A d \in config : d.kind = "physical" /\ d # cur.link /\ d.hw = None => n # d.name
ItemStays(x, y) ==
  /\ y.kind = x.kind
  /\ x.kind = "physical" =>
       /\ y.hw = x.hw /\ y.oldns = x.oldns /\ y.idx \in {x.idx, None}
       /\ \/ y.idx = x.idx /\ y.ns = x.ns /\ y.name = x.name
          \/ /\ pc = "move" /\ x.idx = cur.idx /\ x.idx # None
             /\ y.name = x.name \/ y.name \notin Name
             /\ AtHand(y.name)
ItemsStay ==
  /\ Len(registry) <= Len(registry')
  /\ \A p \in 1 .. Len(registry) : ItemStays(registry[p], registry'[p])
  /\ \A p \in 1 .. Len(registry') : p \in 1 .. Len(registry) \/ registry'[p].kind # "physical"
MarksStay ==
  \A p \in 1 .. Len(registry) : registry[p].kind = "physical" =>
    registry'[p].orphan = registry[p].orphan /\ registry'[p].removed = registry[p].removed

\* what Tracked says of a link
KnownAt(l, r, K) ==
  /\ l.name \in Name => \E p \in 1 .. Len(r) : r[p].idx = l.idx
  /\ \A p \in 1 .. Len(r) : r[p].idx = l.idx =>
       /\ r[p].ns = l.ns
       /\ l.name \in Name =>
            \/ r[p].name = l.name
            \/ \E d \in config \ Waiting : 
                 /\ d.kind = "physical" /\ d.name = l.name
                 /\ (d.hw # None /\ d.hw = l.hw) \/ (ByName(d, K) /\ r[p].name \notin Name)
LinksStay ==
  \A m \in kernel' : m.kind = "physical" =>
    \E l \in kernel :
      /\ l.idx = m.idx /\ l.kind = m.kind /\ l.hw = m.hw
      /\ \/ /\ l.ns = m.ns /\ (l.name = m.name \/ m.name \notin Name)
            /\ pc = "move" => m.idx # cur.idx
         \/ m.idx = cur.idx /\ AtHand(m.name) /\ KnownAt(m, registry', kernel')

LEMMA TrackedIs ==
  /\ Tracked <=> \A l \in kernel : l.kind = "physical" => KnownAt(l, registry, kernel)
  /\ config' = config /\ Waiting' = Waiting =>
       (Tracked' <=> \A l \in kernel' : l.kind = "physical" => KnownAt(l, registry', kernel'))
<1>1. Tracked <=> \A l \in kernel : l.kind = "physical" => KnownAt(l, registry, kernel)
  BY DEF Tracked, KnownAt, NamedFor
<1>2. ASSUME config' = config, Waiting' = Waiting
      PROVE  Tracked' <=> \A l \in kernel' : l.kind = "physical" => KnownAt(l, registry', kernel')
  BY <1>2 DEF Tracked, KnownAt, NamedFor
<1> QED BY <1>1, <1>2

\* An item that is a physical link is of one.
LEMMA ItemIsPhysical ==
  ASSUME IInv
  PROVE  \A l \in kernel, p \in 1 .. Len(registry) :
           registry[p].idx = l.idx => /\ registry[p].kind = l.kind /\ registry[p].hw = l.hw
                                      /\ registry[p].idx # None
<1>1. \A l \in kernel : l.idx # None
  BY ConstantsAssumption DEF IInv, KernelOK, LinksOK, KernelLink
<1> QED BY <1>1 DEF IInv, RegistryOK, ItemOK

\* Physical links are known as before.
LEMMA TrackedKept ==
  ASSUME IInv, IInv', UNCHANGED config, Waiting' = Waiting, Unique, Tracked, LinksStay, ItemsStay
  PROVE  Unique' /\ Tracked'
<1>1. \A p \in 1 .. Len(registry') : registry'[p].kind = "physical" =>
        p \in 1 .. Len(registry) /\ registry[p].kind = "physical" /\ ItemStays(registry[p], registry'[p])
  BY DEF ItemsStay, ItemStays
<1>2. Unique'
  BY <1>1 DEF Unique, ItemStays
<1>3. ASSUME NEW m \in kernel', m.kind = "physical"
      PROVE  KnownAt(m, registry', kernel')
  <2>1. PICK l \in kernel :
          /\ l.idx = m.idx /\ l.kind = m.kind /\ l.hw = m.hw
          /\ \/ /\ l.ns = m.ns /\ (l.name = m.name \/ m.name \notin Name)
                /\ pc = "move" => m.idx # cur.idx
             \/ m.idx = cur.idx /\ AtHand(m.name) /\ KnownAt(m, registry', kernel')
    BY <1>3 DEF LinksStay
  <2>2. CASE /\ l.ns = m.ns /\ (l.name = m.name \/ m.name \notin Name)
             /\ pc = "move" => m.idx # cur.idx
    <3>1. KnownAt(l, registry, kernel) /\ m.idx # None
      BY <1>3, <2>1, TrackedIs, ItemIsPhysical, ConstantsAssumption DEF IInv, KernelOK, LinksOK, KernelLink
    <3>2. ASSUME NEW p \in 1 .. Len(registry), registry[p].idx = m.idx
          PROVE  /\ p \in 1 .. Len(registry') /\ registry'[p].idx = m.idx
                 /\ registry'[p].ns = registry[p].ns /\ registry'[p].name = registry[p].name
      <4>1. registry[p].kind = "physical"
        BY <1>3, <2>1, <3>2, ItemIsPhysical
      <4>2. ItemStays(registry[p], registry'[p]) /\ Len(registry) <= Len(registry')
        BY DEF ItemsStay
      <4>3. Len(registry) \in Nat /\ Len(registry') \in Nat
        BY DEF IInv, RegistryOK
      <4> QED BY <2>2, <3>2, <4>1, <4>2, <4>3 DEF ItemStays
    <3>3. ASSUME NEW p \in 1 .. Len(registry'), registry'[p].idx = m.idx
          PROVE  p \in 1 .. Len(registry) /\ registry[p].idx = m.idx
      <4>1. registry'[p].kind = "physical"
        <5>1. ItemOK(registry[p], config, kernel, nextidx, Waiting)'
          BY DEF IInv, RegistryOK
        <5> QED BY <1>3, <3>3, <5>1 DEF ItemOK
      <4> QED BY <1>1, <3>1, <3>3, <4>1 DEF ItemStays
    <3>4. \A d : ByName(d, kernel) => ByName(d, kernel')
      BY DEF LinksStay, ByName
    <3>5. m.name \in Name => l.name = m.name
      BY <2>2
    <3> QED BY <2>1, <2>2, <3>1, <3>2, <3>3, <3>4, <3>5 DEF KnownAt
  <2> QED BY <2>1, <2>2
<1> QED BY <1>2, <1>3, TrackedIs

\* What is lost is not found again.
LEMMA LostKept ==
  ASSUME IInv, IInv', ItemsStay, MarksStay, NEW c \in config, Lost(c)
  PROVE  Lost(c)'
<1> DEFINE p == Search(registry, c)
<1>1. p \in 1 .. Len(registry) /\ registry[p].idx = None /\ c.kind = "physical"
  BY LostIsPhysical DEF Lost
<1>2. /\ registry \in Seq(RegistryItem) /\ registry' \in Seq(RegistryItem)
      /\ Len(registry) \in Nat /\ Len(registry') \in Nat /\ Len(registry) <= Len(registry') /\ p # 0
  BY <1>1 DEF IInv, RegistryOK, ItemsStay
<1>3. c.name \in Name
  BY DEF IInv, ConfigOK, ConfigRecord
<1>4. p # 0 => registry[p].kind = c.kind
  BY <1>2, SearchFacts
<1> HIDE DEF p
<1>5. registry'[p].idx = None /\ registry'[p].name = registry[p].name
  BY <1>1, <1>2, <1>4 DEF ItemsStay, ItemStays
<1>6. \A q \in 1 .. Len(registry) : Resembles(registry', registry, c, q)
  BY <1>3 DEF Resembles, ItemsStay, ItemStays, MarksStay
<1>7. \A q \in 1 .. Len(registry') : q \in 1 .. Len(registry) \/ registry'[q].kind # "physical"
  BY DEF ItemsStay
<1>8. Search(registry', c) = p
  BY <1>1, <1>2, <1>5, <1>6, <1>7, SearchSame DEF p
<1>9. p \in 1 .. Len(registry')
  BY <1>1, <1>2
<1> QED BY <1>5, <1>8, <1>9 DEF Lost

\* What can be found by its name still can.
LEMMA FindableKept ==
  ASSUME IInv, UNCHANGED <<config, todo>>, pc # "cleanup", Findable, ItemsStay, MarksStay, pc \notin Between
  PROVE  Findable'
<1> SUFFICES ASSUME NEW c \in Waiting, NEW p \in 1 .. Len(registry'), c.kind = "physical", c.hw = None,
                    registry'[p].kind = "physical", registry'[p].name = c.name
             PROVE  LET y == registry'[p] IN
                    /\ y.ns = y.oldns
                    /\ \/ y.ns = c.ns \/ y.orphan \/ y.name \in IgnoredName
                       \/ (~ ManagesNs /\ y.ns # Root)
  BY DEF Findable, Waiting
<1>1. p \in 1 .. Len(registry) /\ ItemStays(registry[p], registry'[p]) /\ registry[p].kind = "physical"
  BY DEF ItemsStay, ItemStays
<1>2. c \in config /\ c # cur.link
  BY DEF IInv, TodoOK, CurOK, Waiting
<1>3. registry'[p].ns = registry[p].ns /\ registry'[p].name = registry[p].name
  BY <1>1, <1>2 DEF ItemStays, AtHand
<1>4. registry'[p].oldns = registry[p].oldns /\ registry'[p].orphan = registry[p].orphan
  BY <1>1 DEF ItemStays, MarksStay
<1> QED BY <1>1, <1>3, <1>4 DEF Findable

\* A step of Link.apply, of which what is done is not undone.
LEMMA StepEffect ==
  ASSUME IInv, IInv', Plain, Effect, pc \notin Between, pc' # "cleanup", UNCHANGED <<config, todo>>,
         cur'.link = cur.link, cur'.master = cur.master,
         DoneStays, LinksStay, ItemsStay, MarksStay,
         pc' \in Between => (Creatable(cur.link)' =>
                              Lost(cur.link)' \/ \E l \in kernel' : Right(cur.link, l)'),
         pc' \notin Between => /\ pc' # "peer"
                               /\ cur.link.up \in {None, cur'.up}
                               /\ cur'.errs => cur.link.kind # "physical" /\ pc' \notin InApply
                               /\ pc' = "updated" => Exists(cur.idx)'
                               /\ pc' = "add" /\ cur.link.kind = "physical" =>
                                    ~ Creatable(cur.link)' \/ Lost(cur.link)',
         CurPhysical', CurLink'
  PROVE  Effect'
<1> DEFINE c == cur.link
<1>1. Waiting' = Waiting /\ c \in config \ Waiting /\ c \notin Done /\ pc # "cleanup" /\ c = cur'.link
  BY CurTyped DEF IInv, CurOK, Waiting, Done, Between
<1>2. Done \subseteq Done' /\ \A d \in Done' : d \in Done \/ (d = c /\ pc' \in Between)
  BY <1>1 DEF Done
<1>3. MastersFirst'
  BY <1>1, <1>2 DEF MastersFirst, IsMaster, Effect
<1>4. Unique' /\ Tracked' /\ Findable'
  BY <1>1, TrackedKept, FindableKept DEF Effect
<1>5. NoneDone'
  BY DEF NoneDone
<1>6. DoneRight'
  <2>1. LostStays
    BY LostKept DEF LostStays, Done
  <2>2. NoneNew
    BY <1>1 DEF NoneNew, LinksStay, AtHand, Done, IInv, ConfigOK, ConfigRecord
  <2>3. \A d \in Done : Creatable(d)' => Lost(d)' \/ \E l \in kernel' : Right(d, l)'
    BY <2>1, <2>2, DoneKept DEF Effect
  <2> QED BY <1>2, <2>3 DEF DoneRight
<1>7. c.master # None => IndexOf(c.ns, c.master)' = IndexOf(c.ns, c.master)
  BY <1>1, MasterKept DEF Effect
<1>8. CurState'
  BY <1>1, <1>7 DEF CurState, Effect
<1> QED BY <1>3, <1>4, <1>5, <1>6, <1>8 DEF Effect

\* where a run is between two steps, if no call has failed
Smooth == IInv /\ OrphanInv /\ Plain /\ Effect /\ pc # "idle" /\ ~ failed

\* A link that is done is not the one at hand.
LEMMA NotAtHand ==
  ASSUME Smooth, pc \in Calling \cup {"del"}, NEW d \in Done, NEW l \in kernel, Right(d, l),
         pc = "del" => l.ns = cur.link.ns
  PROVE  l.idx # cur.idx
<1> DEFINE c == cur.link
<1> SUFFICES ASSUME l.idx = cur.idx PROVE FALSE
  OBVIOUS
<1>1. pc \notin Between /\ IInv /\ CurNamed /\ CurPhysical /\ CurLink
  BY DEF Calling, Between, Smooth, OrphanInv, Effect
<1>2. /\ d \in config /\ d # c /\ c \in config /\ Regular(config) /\ c.name \in Name /\ d.name \in Name
  BY <1>1, CurTyped DEF Done, IInv, ConfigOK, ConfigRecord
<1>3. /\ l.name = d.name /\ l.ns = d.ns /\ l.kind = d.kind /\ (d.hw # None => l.hw = d.hw)
      /\ l.kind = c.kind /\ (d.kind = "physical" /\ d.hw # None => l.hw # d.hw)
      /\ ~ (l.name = c.name /\ l.ns = c.ns)
  BY <1>1, <1>2 DEF Right, IInv, CurOK, Regular
<1>4. CASE pc \in InApply /\ c.kind = "physical"
  BY <1>1, <1>2, <1>3, <1>4 DEF CurPhysical
<1>5. CASE pc \in {"state", "bind", "master", "newstate", "del"}
  BY <1>1, <1>3, <1>5 DEF CurLink
<1>6. CASE pc \in {"movein", "renamein"}
  <2>1. l.name = <<c.name, l.idx>> /\ l.idx \in Idx
    BY <1>1, <1>6 DEF IInv, CurOK, KernelOK, LinksOK, KernelLink
  <2> QED BY <1>2, <1>3, <2>1, ConstantsAssumption
<1>7. CASE pc \in {"move", "rename", "compare", "down", "set"} /\ c.kind # "physical"
  <2>1. pc # "move"
    BY <1>1, <1>7 DEF IInv, CurOK
  <2>2. l.name = c.name
    BY <1>1, <1>7, <2>1 DEF CurNamed
  <2>3. l.ns = c.ns
    BY <1>1, <1>7, <2>1 DEF IInv, CurOK
  <2> QED BY <1>3, <2>2, <2>3
<1> QED BY <1>4, <1>5, <1>6, <1>7 DEF Calling, InApply

\* A call leaves the other links alone, or the other link of the name.
LEMMA OthersStay ==
  ASSUME Smooth, pc \in Calling,
         \A l \in kernel : \/ l.idx = cur.idx \/ l \in kernel'
                           \/ l.name = cur.link.name /\ l.ns = cur.link.ns
  PROVE  DoneStays
<1> SUFFICES ASSUME NEW d \in Done, NEW l \in kernel, Right(d, l)
             PROVE  \E m \in kernel' : StaysAs(d, l, m)
  BY DEF DoneStays
<1>1. l.idx # cur.idx
  <2>1. pc \in Calling \cup {"del"} /\ pc # "del"
    BY DEF Calling
  <2> QED BY <2>1, NotAtHand
<1>2. ~ (l.name = cur.link.name /\ l.ns = cur.link.ns)
  <2>1. pc \notin Between /\ IInv
    BY DEF Smooth, Calling, Between
  <2>2. cur.link \in config /\ Regular(config) /\ d \in config /\ d # cur.link
    BY <2>1, CurTyped DEF Done
  <2> QED BY <2>2 DEF Right, Regular
<1>3. l \in kernel'
  BY <1>1, <1>2
<1> QED BY <1>3 DEF StaysAs

\* Nothing happens to the registry, or to the kernel.
LEMMA SameItems == ASSUME IInv, UNCHANGED registry PROVE ItemsStay /\ MarksStay
<1>1. Len(registry) \in Nat
  BY DEF IInv, RegistryOK
<1> QED BY <1>1 DEF ItemsStay, MarksStay, ItemStays

LEMMA SameKernel == ASSUME UNCHANGED kernel, pc # "move" PROVE DoneStays /\ LinksStay
BY DEF DoneStays, LinksStay, StaysAs

LEMMA SmoothFacts ==
  ASSUME Smooth, pc \notin Between
  PROVE  /\ IInv /\ Plain /\ Effect /\ CurState /\ CurPhysical /\ CurLink /\ CurNamed /\ ~ failed
         /\ cur \in CurType /\ cur.link \in config /\ cur.link.name \in Name /\ kernel \subseteq KernelLink
         /\ cur.link.kind # "veth"
BY CurTyped DEF Smooth, Effect, OrphanInv, IInv, KernelOK, LinksOK, Plain

LEMMA CompareEffect == ASSUME Smooth, IInv', Compare, ~ failed' PROVE Effect'
<1> DEFINE c == cur.link
           o == At(cur.idx)
<1>1. /\ pc = "compare" /\ UNCHANGED <<config, kernel, registry, todo>>
      /\ cur' = cur \/ (cur.up = None /\ cur' = [cur EXCEPT !.up = TRUE])
      /\ \/ pc' \in {"down", "set"}
         \/ cur' = cur /\ pc' \in {"state", "updated"} /\ ~ LinkDiffers(o)
            /\ (pc' = "updated" => cur.up = None \/ cur.up = o.up)
  <2>1. pc \notin Between
    BY DEF Compare, Between
  <2>2. ~ PeerIsElsewhere(o)
    BY <2>1, SmoothFacts DEF PeerIsElsewhere
  <2> QED BY <2>2 DEF Compare
<1>2. /\ pc \in Calling /\ pc \notin Between /\ pc \in InApply /\ pc # "move" /\ IInv
  BY <1>1 DEF Calling, Between, InApply, Smooth
<1>3. /\ Plain /\ Effect /\ CurState /\ CurPhysical /\ CurLink /\ cur \in CurType
  BY <1>2, SmoothFacts
<1>4. /\ cur'.idx = cur.idx /\ cur'.link = c /\ cur'.master = cur.master /\ cur'.errs = cur.errs
      /\ cur'.item = cur.item /\ (cur.up # None => cur'.up = cur.up)
  BY <1>1, <1>3 DEF CurType
<1>5. /\ o \in kernel /\ \A l \in kernel : l.idx = cur.idx <=> l = o
  BY <1>2, CurFacts
<1>6. o.kind = c.kind /\ o.ns = c.ns
  BY <1>1, <1>2, <1>5, CurFacts DEF IInv, CurOK
<1>7. c.up \in {None, cur'.up} /\ ~ cur.errs
  BY <1>2, <1>3, <1>4 DEF CurState
<1>8. CurPhysical'
  BY <1>1, <1>2, <1>3, <1>4, <1>6 DEF CurPhysical, InApply, ByName
<1>9. CurLink'
  <2>1. CASE pc' \in {"down", "set"}
    BY <1>1, <1>3, <1>4, <2>1 DEF CurLink
  <2>2. CASE pc' \in {"state", "updated"} /\ cur' = cur /\ ~ LinkDiffers(o)
    <3>1. IsSet(o)
      BY <1>6, <2>2 DEF IsSet, LinkDiffers
    <3>2. c.kind = "physical" /\ c.hw # None => o.hw = c.hw \/ ByName(c, kernel)
      BY <1>2, <1>3, <1>5 DEF CurPhysical
    <3>3. pc' = "updated" => c.up \in {None, o.up}
      BY <1>1, <1>7, <2>2
    <3> QED BY <1>1, <1>5, <2>2, <3>1, <3>2, <3>3 DEF CurLink, IsSet, ByName
  <2> QED BY <1>1, <2>1, <2>2
<1>10. Exists(cur.idx)'
  BY <1>1, <1>4, <1>5 DEF Exists
<1>11. DoneStays /\ LinksStay /\ ItemsStay /\ MarksStay
  BY <1>1, <1>2, SameItems, SameKernel
<1>12. pc' \notin Between /\ pc' # "cleanup" /\ pc' # "peer" /\ pc' # "add"
  BY <1>1 DEF Between
<1> QED BY <1>1, <1>2, <1>3, <1>4, <1>7, <1>8, <1>9, <1>10, <1>11, <1>12, StepEffect

\* The link goes up or down.
LEMMA UpDown ==
  ASSUME Smooth, pc \in Calling, pc # "move", NEW up \in BOOLEAN, kernel' = SetUp(cur.idx, up),
         UNCHANGED registry
  PROVE  /\ DoneStays /\ LinksStay /\ ItemsStay /\ MarksStay
         /\ \A k \in kernel' : \E l \in kernel : /\ Same(k, l) /\ (l.idx = cur.idx => k.up = up)
                                                 /\ k.attr = l.attr /\ k.master = l.master
         /\ \A l \in kernel : \E k \in kernel' : k.idx = l.idx
         /\ \A d : ByName(d, kernel) => ByName(d, kernel')
<1>1. pc \notin Between /\ IInv
  BY DEF Calling, Between, Smooth
<1>2. \A k \in kernel' : \E l \in kernel :
        /\ Same(k, l) /\ (l.idx # cur.idx => k = l) /\ (l.idx = cur.idx => k.up = up)
        /\ k.attr = l.attr /\ k.master = l.master
  BY <1>1, SetUpFacts, SmoothFacts
<1>3. \A l \in kernel : l.idx = cur.idx \/ l \in kernel'
  BY DEF SetUp
<1>4. LinksStay
  BY <1>2 DEF LinksStay, Same
<1>5. \A l \in kernel : \E k \in kernel' : k.idx = l.idx
  <2> SUFFICES ASSUME NEW l \in kernel PROVE \E k \in kernel' : k.idx = l.idx
    OBVIOUS
  <2>1. (IF l.idx = cur.idx THEN [l EXCEPT !.up = up] ELSE l) \in kernel'
    BY DEF SetUp
  <2>2. l \in KernelLink
    BY <1>1, SmoothFacts
  <2>3. (IF l.idx = cur.idx THEN [l EXCEPT !.up = up] ELSE l).idx = l.idx
    BY <2>2 DEF KernelLink
  <2> QED BY <2>1, <2>3
<1>6. \A d : ByName(d, kernel) => ByName(d, kernel')
  BY <1>2 DEF ByName, Same
<1> QED BY <1>1, <1>2, <1>3, <1>4, <1>5, <1>6, OthersStay, SameItems

\* The link at hand is the one that was looked up.
LEMMA HandStays ==
  ASSUME CurPhysical, pc \in InApply, pc' # "move", UNCHANGED <<config, registry>>,
         cur'.link = cur.link, cur'.idx = cur.idx, cur'.item = cur.item,
         \A k \in kernel' : k.idx = cur.idx =>
           \E l \in kernel : l.idx = cur.idx /\ l.name = k.name /\ l.hw = k.hw,
         \A d : ByName(d, kernel) => ByName(d, kernel')
  PROVE  CurPhysical'
<1> DEFINE c == cur.link
           x == registry[cur.item]
<1> SUFFICES ASSUME c.kind = "physical"
             PROVE  /\ cur.item \in 1 .. Len(registry) /\ x.kind = "physical" /\ x.idx = cur.idx
                    /\ \A k \in kernel' : k.idx = cur.idx =>
                         /\ \A d \in config : d.kind = "physical" /\ d # c /\ d.hw = None => k.name # d.name
                         /\ \/ c.hw # None /\ k.hw = c.hw
                            \/ ByName(c, kernel') /\ (x.name = c.name \/ x.name \notin Name)
  BY DEF CurPhysical
<1>1. /\ cur.item \in 1 .. Len(registry) /\ x.kind = "physical" /\ x.idx = cur.idx
      /\ \A l \in kernel : l.idx = cur.idx =>
           /\ \A d \in config : d.kind = "physical" /\ d # c /\ d.hw = None => l.name # d.name
           /\ \/ c.hw # None /\ l.hw = c.hw
              \/ ByName(c, kernel) /\ (x.name = c.name \/ x.name \notin Name)
  BY DEF CurPhysical
<1> QED BY <1>1

LEMMA ShutDownEffect == ASSUME Smooth, IInv', ShutDown, ~ failed' PROVE Effect'
<1>1. /\ pc = "down" /\ pc' = "set" /\ UNCHANGED <<config, registry, todo, cur>>
      /\ kernel' = SetUp(cur.idx, FALSE)
  BY DEF ShutDown, Failure
<1>2. pc \in Calling /\ pc \notin Between /\ pc # "move" /\ IInv /\ FALSE \in BOOLEAN
  BY <1>1 DEF Calling, Between, Smooth
<1>3. Plain /\ Effect /\ CurState /\ CurPhysical /\ CurLink
  BY <1>2, SmoothFacts
<1>4. /\ DoneStays /\ LinksStay /\ ItemsStay /\ MarksStay
      /\ \A k \in kernel' : \E l \in kernel : Same(k, l)
      /\ \A d : ByName(d, kernel) => ByName(d, kernel')
  BY <1>1, <1>2, UpDown
<1>5. CurPhysical'
  <2>1. pc \in InApply /\ pc' # "move"
    BY <1>1 DEF InApply
  <2>2. \A k \in kernel' : k.idx = cur.idx =>
          \E l \in kernel : l.idx = cur.idx /\ l.name = k.name /\ l.hw = k.hw
    BY <1>4 DEF Same
  <2> QED BY <1>1, <1>3, <1>4, <2>1, <2>2, HandStays
<1>6. CurLink'
  <2> SUFFICES ASSUME NEW l \in kernel', l.idx = cur.idx, NEW k \in kernel',
                      k.name = cur.link.name, k.ns = cur.link.ns
               PROVE  k = l
    BY <1>1 DEF CurLink
  <2>1. PICK n \in kernel : Same(l, n)
    BY <1>4
  <2>2. PICK o \in kernel : Same(k, o)
    BY <1>4
  <2>3. n = o
    BY <1>1, <1>3, <2>1, <2>2 DEF CurLink, Same
  <2> QED BY <2>1, <2>2, <2>3 DEF Same, IInv, KernelOK, LinksOK, Coherent
<1>7. /\ cur.link.up \in {None, cur.up} /\ ~ cur.errs /\ pc' \notin Between
      /\ pc' \notin {"cleanup", "peer", "updated", "add"}
  BY <1>1, <1>2, <1>3 DEF CurState, InApply, Between
<1> QED BY <1>1, <1>2, <1>3, <1>4, <1>5, <1>6, <1>7, StepEffect

LEMMA SetStateEffect == ASSUME Smooth, IInv', SetState, ~ failed' PROVE Effect'
<1> DEFINE c == cur.link
<1>1. /\ pc = "state" /\ pc' = "updated" /\ UNCHANGED <<config, registry, todo, cur>>
      /\ kernel' = SetUp(cur.idx, cur.up)
  BY DEF SetState, Failure
<1>2. pc \in Calling /\ pc \notin Between /\ pc # "move" /\ IInv
  BY <1>1 DEF Calling, Between, Smooth
<1>3. Plain /\ Effect /\ CurState /\ CurPhysical /\ CurLink /\ cur.up \in BOOLEAN
  BY <1>1, <1>2, SmoothFacts DEF CurType, IInv, CurOK
<1>4. /\ DoneStays /\ LinksStay /\ ItemsStay /\ MarksStay
      /\ \A k \in kernel' : \E l \in kernel : /\ Same(k, l) /\ (l.idx = cur.idx => k.up = cur.up)
                                              /\ k.attr = l.attr /\ k.master = l.master
      /\ \A l \in kernel : \E k \in kernel' : k.idx = l.idx
      /\ \A d : ByName(d, kernel) => ByName(d, kernel')
  BY <1>1, <1>2, <1>3, UpDown
<1>5. CurPhysical'
  BY <1>1 DEF CurPhysical, InApply
<1>6. Exists(cur.idx)'
  BY <1>1, <1>2, <1>4, CurFacts DEF Exists
<1>7. c.up \in {None, cur.up} /\ ~ (cur.errs /\ c.kind = "physical") /\ pc' \notin Between
      /\ pc' \notin {"cleanup", "peer", "add"} /\ pc' \notin InApply
  BY <1>1, <1>2, <1>3 DEF CurState, InApply, Between
<1>8. CurLink'
  BY <1>1, <1>3, <1>4, <1>7 DEF CurLink, IsSet, Same
<1> QED BY <1>1, <1>2, <1>3, <1>4, <1>5, <1>6, <1>7, <1>8, StepEffect

\* A link that is as configured when the run is done with it.
LEMMA SetIsRight ==
  ASSUME IInv, IInv', Plain, Effect, DoneStays, pc \notin Between, UNCHANGED config,
         NEW c \in config, c = cur.link,
         NEW m \in kernel', m.kind = c.kind, IsSet(m),
         c.hw # None => m.hw = c.hw, c.up \in {None, m.up}
  PROVE  Right(c, m)'
<1>1. c.kind # "veth" /\ c \in config \ Waiting
  BY DEF IInv, CurOK, Plain
<1>2. c.master # None => /\ IndexOf(c.ns, c.master)' = IndexOf(c.ns, c.master)
                         /\ IndexOf(c.ns, c.master) # None
                         /\ m.master = IndexOf(c.ns, c.master)
  <2> SUFFICES ASSUME c.master # None
               PROVE  /\ IndexOf(c.ns, c.master)' = IndexOf(c.ns, c.master)
                      /\ IndexOf(c.ns, c.master) # None
                      /\ m.master = IndexOf(c.ns, c.master)
    OBVIOUS
  <2>1. IndexOf(c.ns, c.master)' = IndexOf(c.ns, c.master) /\ IndexOf(c.ns, c.master) # None
    BY <1>1, MasterKept DEF Effect
  <2>2. cur.master = IndexOf(c.ns, c.master)
    BY DEF Effect, CurState
  <2> QED BY <2>1, <2>2 DEF IsSet
<1>3. RightIn(kernel', c, m)
  BY <1>2, IndexSame DEF RightIn, IsSet
<1> QED BY <1>1, <1>2, <1>3, RightIs

LEMMA SetLinkEffect == ASSUME Smooth, IInv', SetLink, ~ failed' PROVE Effect'
<1> DEFINE c == cur.link
           o == At(cur.idx)
           x == registry[cur.item]
           fixed == o.kind \in FixedAttrKinds
           m == [o EXCEPT !.name = c.name, !.attr = IF fixed THEN @ ELSE c.attr,
                          !.master = IF cur.master = None THEN @ ELSE cur.master]
<1>1. /\ pc = "set" /\ pc' = (IF cur.up # None THEN "state" ELSE "updated")
      /\ UNCHANGED <<config, registry, todo>> /\ kernel' = Changed(cur.idx, m)
      /\ cur' = [cur EXCEPT !.errs = @ \/ (fixed /\ o.attr # c.attr)]
  BY DEF SetLink, Failure, Refused
<1>2. pc \in Calling /\ pc \notin Between /\ pc \in InApply /\ pc # "move" /\ IInv
  BY <1>1 DEF Calling, Between, InApply, Smooth
<1>3. /\ Plain /\ Effect /\ CurState /\ CurPhysical /\ CurLink /\ cur \in CurType
      /\ c \in config /\ c.name \in Name
  BY <1>2, SmoothFacts
<1>4. /\ o \in kernel /\ o \in KernelLink /\ o.idx = cur.idx /\ o.kind = c.kind
      /\ \A l \in kernel : l.idx = cur.idx <=> l = o
  BY <1>2, CurFacts
<1>5. o.ns = c.ns
  BY <1>1, <1>2, <1>4 DEF IInv, CurOK
<1>6. /\ m.idx = cur.idx /\ m.ns = c.ns /\ m.name = c.name /\ m.kind = c.kind /\ m.hw = o.hw
      /\ m.attr = (IF fixed THEN o.attr ELSE c.attr)
      /\ cur.master # None => m.master = cur.master
  BY <1>4, <1>5 DEF KernelLink
<1>7. /\ m \in kernel' /\ \A k \in kernel' : k = m \/ (k \in kernel /\ k.idx # cur.idx)
      /\ \A l \in kernel : l.idx = cur.idx \/ l \in kernel'
  BY <1>1, <1>4 DEF Changed
<1> HIDE DEF m
<1>8. /\ cur'.idx = cur.idx /\ cur'.link = c /\ cur'.master = cur.master /\ cur'.up = cur.up
      /\ (cur'.errs <=> cur.errs \/ (fixed /\ o.attr # c.attr))
  BY <1>1, <1>3 DEF CurType
<1>9. \A d : ByName(d, kernel) => ByName(d, kernel')
  BY <1>4, <1>6, <1>7 DEF ByName
<1>10. c.kind = "physical" =>
         /\ cur.item \in 1 .. Len(registry) /\ x.kind = "physical" /\ x.idx = cur.idx
         /\ \/ c.hw # None /\ o.hw = c.hw
            \/ ByName(c, kernel) /\ (x.name = c.name \/ x.name \notin Name)
  BY <1>2, <1>3, <1>4 DEF CurPhysical
<1>11. c.kind = "physical" => AtHand(c.name)
  <2> SUFFICES ASSUME c.kind = "physical", NEW d \in config, d.kind = "physical", d # c, d.hw = None
               PROVE  c.name # d.name
    BY DEF AtHand
  <2>1. Recognisable(config, kernel) /\ ByName(d, kernel)
    BY <1>2 DEF IInv, KernelOK, LinksOK, ByName
  <2> QED BY <1>3, <2>1 DEF Recognisable
<1>12. c.kind = "physical" => KnownAt(m, registry', kernel')
  <2> SUFFICES ASSUME c.kind = "physical" PROVE KnownAt(m, registry', kernel')
    OBVIOUS
  <2>1. \A p \in 1 .. Len(registry) : registry[p].idx = cur.idx => p = cur.item
    <3>1. \A p \in 1 .. Len(registry) : registry[p].idx = cur.idx =>
            registry[p].kind = "physical" /\ registry[p].idx # None
      BY <1>2, <1>4, ItemIsPhysical
    <3> QED BY <1>3, <1>10, <3>1 DEF Effect, Unique
  <2>2. x.ns = o.ns
    BY <1>3, <1>4, <1>10 DEF Effect, Tracked
  <2>3. c \in config \ Waiting
    BY <1>2, <1>3 DEF IInv, CurOK
  <2> QED BY <1>1, <1>5, <1>6, <1>9, <1>10, <2>1, <2>2, <2>3 DEF KnownAt
<1>13. LinksStay
  BY <1>2, <1>4, <1>6, <1>7, <1>8, <1>11, <1>12 DEF LinksStay
<1>14. DoneStays /\ ItemsStay /\ MarksStay
  BY <1>1, <1>2, <1>7, OthersStay, SameItems
<1>15. ~ cur.errs /\ c.up \in {None, cur.up} /\ (cur'.errs => c.kind # "physical")
  BY <1>2, <1>3, <1>4, <1>8, ConstantsAssumption DEF CurState
<1>16. /\ pc' \in {"state", "updated"} /\ pc' \notin InApply /\ pc' \notin Between
       /\ pc' \notin {"add", "peer", "cleanup"}
  BY <1>1 DEF InApply, Between
<1>17. CurLink'
  <2>1. \A k \in kernel' : k.idx = cur.idx => k = m
    BY <1>7
  <2>2. \A k \in kernel' : k.idx = cur.idx => cur'.errs \/ IsSet(k)'
    BY <1>6, <1>8, <2>1 DEF IsSet
  <2>3. pc' = "updated" => c.up \in {None, m.up}
    BY <1>1, <1>15
  <2> QED BY <1>6, <1>8, <1>9, <1>10, <1>16, <2>1, <2>2, <2>3 DEF CurLink
<1>18. CurPhysical' /\ Exists(cur.idx)'
  BY <1>6, <1>7, <1>8, <1>16 DEF CurPhysical, Exists
<1> QED BY <1>1, <1>2, <1>3, <1>8, <1>13, <1>14, <1>15, <1>16, <1>17, <1>18, StepEffect

LEMMA UpdatedEffect == ASSUME Smooth, IInv', Updated PROVE Effect'
<1>1. /\ pc = "updated" /\ pc' = (IF cur.errs /\ cur.link.kind # "physical" THEN "del" ELSE "next")
      /\ UNCHANGED <<config, kernel, registry, todo, cur>>
  BY DEF Updated
<1>2. pc \notin Between /\ pc # "move" /\ IInv
  BY <1>1 DEF Between, Smooth
<1>3. Plain /\ Effect /\ CurState /\ CurLink /\ cur.link \in config /\ cur.link \in ConfigRecord
  BY <1>2, SmoothFacts, CurTyped
<1>4. DoneStays /\ LinksStay /\ ItemsStay /\ MarksStay
  BY <1>1, <1>2, SameItems, SameKernel
<1>5. PICK c \in config : c = cur.link
  BY <1>3
<1>6. pc' = "next" => (Creatable(c)' => \E l \in kernel' : Right(c, l)')
  <2> SUFFICES ASSUME pc' = "next", Creatable(c) PROVE \E l \in kernel' : Right(c, l)'
    BY <1>1 DEF Creatable
  <2>1. ~ cur.errs
    BY <1>1, <1>2, <1>3 DEF CurState
  <2>2. PICK l \in kernel : l.idx = cur.idx
    BY <1>1, <1>2, <1>3 DEF CurState, Exists
  <2>3. /\ IsSet(l) /\ l.kind = c.kind /\ c.up \in {None, l.up}
        /\ c.kind = "physical" /\ c.hw # None => l.hw = c.hw \/ ByName(c, kernel)
    BY <1>1, <1>2, <1>3, <1>5, <2>1, <2>2 DEF CurLink, IInv, CurOK
  <2>4. c.hw # None => l.hw = c.hw
    BY <1>2, <2>3 DEF Creatable, ByName, IInv, ConfigOK, Regular
  <2>5. l \in kernel' /\ UNCHANGED config
    BY <1>1
  <2>6. Right(c, l)'
    BY <1>2, <1>3, <1>4, <1>5, <2>3, <2>4, <2>5, SetIsRight
  <2> QED BY <2>5, <2>6
<1>7. pc' \notin {"cleanup", "peer", "updated", "add"} /\ pc' \in {"del", "next"}
  BY <1>1
<1>8. CurPhysical' /\ CurLink'
  <2>1. CurPhysical'
    BY <1>7 DEF CurPhysical, InApply
  <2>2. \A l \in kernel' : l.idx = cur.idx => l.name = cur.link.name
    BY <1>1, <1>3 DEF CurLink
  <2> QED BY <1>1, <1>7, <2>1, <2>2 DEF CurLink
<1>9. cur.link.up \in {None, cur.up} /\ (pc' \notin Between => cur.link.kind # "physical" /\ pc' \notin InApply)
  BY <1>1, <1>2, <1>3, <1>7 DEF CurState, Between, InApply
<1>10. pc' \in Between => (Creatable(cur.link)' => \E l \in kernel' : Right(cur.link, l)')
  <2>1. c = cur'.link
    BY <1>1, <1>5
  <2> QED BY <1>6, <1>7, <2>1 DEF Between, Creatable, Right, HasMaster, IndexOf, Named
<1> QED BY <1>1, <1>2, <1>3, <1>4, <1>7, <1>8, <1>9, <1>10, StepEffect

LEMMA CannotCreateEffect == ASSUME Smooth, IInv', CannotCreate PROVE Effect'
<1>1. /\ pc = "add" /\ cur.link.kind = "physical" /\ pc' = "next"
      /\ UNCHANGED <<config, kernel, registry, todo, cur>>
  BY DEF CannotCreate
<1>2. pc \notin Between /\ pc # "move" /\ IInv
  BY <1>1 DEF Between, Smooth
<1>3. Plain /\ Effect /\ CurState
  BY <1>2, SmoothFacts
<1>4. DoneStays /\ LinksStay /\ ItemsStay /\ MarksStay
  BY <1>1, <1>2, SameItems, SameKernel
<1>5. Creatable(cur.link)' => Lost(cur.link)'
  BY <1>1, <1>2, <1>3 DEF CurState, Creatable, Lost
<1>6. CurPhysical' /\ CurLink'
  BY <1>1 DEF CurPhysical, InApply, CurLink
<1> QED BY <1>1, <1>2, <1>3, <1>4, <1>5, <1>6, StepEffect DEF Between

LEMMA SetBindStateEffect == ASSUME Smooth, IInv', SetBindState, ~ failed' PROVE Effect'
<1>1. /\ pc = "bind" /\ pc' = "master" /\ UNCHANGED <<config, kernel, registry, todo, cur>>
  BY DEF SetBindState
<1>2. pc \notin Between /\ pc # "move" /\ IInv
  BY <1>1 DEF Between, Smooth
<1>3. Plain /\ Effect /\ CurState /\ CurLink
  BY <1>2, SmoothFacts
<1>4. DoneStays /\ LinksStay /\ ItemsStay /\ MarksStay
  BY <1>1, <1>2, SameItems, SameKernel
<1>5. CurPhysical' /\ CurLink'
  BY <1>1, <1>3 DEF CurPhysical, InApply, CurLink
<1>6. /\ cur.link.up \in {None, cur.up} /\ (cur.errs => cur.link.kind # "physical") /\ pc' \notin InApply
      /\ pc' \notin Between /\ pc' \notin {"cleanup", "peer", "updated", "add"}
  BY <1>1, <1>2, <1>3 DEF CurState, InApply, Between
<1> QED BY <1>1, <1>2, <1>3, <1>4, <1>5, <1>6, StepEffect

\* A virtual link is changed, or its item.
LEMMA VirtualChange ==
  ASSUME Smooth, pc \in Calling, pc # "move", cur.link.kind # "physical", NEW m, m.kind = cur.link.kind,
         kernel' = kernel \/ kernel' = Changed(cur.idx, m)
  PROVE  DoneStays /\ LinksStay
<1>1. IInv
  BY DEF Smooth
<1>2. \A k \in kernel' : k.kind = "physical" => k \in kernel
  BY DEF Changed
<1>3. \A l \in kernel : l.idx = cur.idx \/ l \in kernel'
  BY DEF Changed
<1>4. LinksStay
  BY <1>2 DEF LinksStay
<1> QED BY <1>3, <1>4, OthersStay

LEMMA VirtualItem ==
  ASSUME IInv, NEW i \in 1 .. Len(registry), registry[i].kind # "physical",
         NEW y, y.kind = registry[i].kind, registry' = [registry EXCEPT ![i] = y]
  PROVE  ItemsStay /\ MarksStay
<1>1. registry \in Seq(RegistryItem) /\ Len(registry) \in Nat
  BY DEF IInv, RegistryOK
<1>2. Len(registry') = Len(registry) /\ \A p \in 1 .. Len(registry) : registry'[p] = IF p = i THEN y ELSE registry[p]
  BY <1>1
<1>3. \A p \in 1 .. Len(registry) : registry[p].kind = "physical" => registry'[p] = registry[p]
  BY <1>2
<1>4. \A p \in 1 .. Len(registry) : registry'[p].kind = registry[p].kind
  BY <1>2
<1> QED BY <1>1, <1>2, <1>3, <1>4 DEF ItemsStay, MarksStay, ItemStays

LEMMA SetMasterEffect == ASSUME Smooth, IInv', SetMaster, ~ failed' PROVE Effect'
<1> DEFINE o == At(cur.idx)
           m == [o EXCEPT !.master = cur.master]
<1>1. /\ pc = "master" /\ pc' = "newstate" /\ UNCHANGED <<config, registry, todo, cur>>
      /\ kernel' = (IF cur.master = None THEN kernel ELSE Changed(cur.idx, m))
  BY DEF SetMaster, Failure
<1>2. pc \in Calling /\ pc \notin Between /\ pc # "move" /\ IInv
  BY <1>1 DEF Calling, Between, Smooth
<1>3. Plain /\ Effect /\ CurState /\ CurLink /\ cur.link.kind # "physical"
  BY <1>1, <1>2, SmoothFacts DEF IInv, CurOK
<1>4. /\ o \in kernel /\ o \in KernelLink /\ o.idx = cur.idx /\ o.kind = cur.link.kind
      /\ \A l \in kernel : l.idx = cur.idx <=> l = o
  BY <1>2, CurFacts
<1>5. /\ m.name = o.name /\ m.ns = o.ns /\ m.attr = o.attr /\ m.kind = o.kind /\ m.master = cur.master
      /\ m.kind = cur.link.kind
  BY <1>4 DEF KernelLink
<1>6. /\ kernel' = kernel \/ kernel' = Changed(cur.idx, m)
      /\ \A k \in kernel' : k.idx = cur.idx => k = m \/ (cur.master = None /\ k = o)
  BY <1>1, <1>4 DEF Changed
<1> HIDE DEF m
<1>7. DoneStays /\ LinksStay /\ ItemsStay /\ MarksStay
  BY <1>1, <1>2, <1>3, <1>5, <1>6, VirtualChange, SameItems
<1>8. CurPhysical' /\ CurLink'
  <2>1. o.attr = cur.link.attr /\ o.name = cur.link.name /\ o.ns = cur.link.ns
    BY <1>1, <1>3, <1>4 DEF CurLink
  <2>2. \A k \in kernel' : k.idx = cur.idx =>
          /\ k.attr = cur.link.attr /\ k.name = cur.link.name /\ k.ns = cur.link.ns
          /\ cur.master # None => k.master = cur.master
    BY <1>5, <1>6, <2>1
  <2>3. CurPhysical'
    BY <1>1 DEF CurPhysical, InApply
  <2> QED BY <1>1, <2>2, <2>3 DEF CurLink, IsSet
<1>9. /\ cur.link.up \in {None, cur.up} /\ pc' \notin InApply
      /\ pc' \notin Between /\ pc' \notin {"cleanup", "peer", "updated", "add"}
  BY <1>1, <1>2, <1>3 DEF CurState, InApply, Between
<1> QED BY <1>1, <1>2, <1>3, <1>7, <1>8, <1>9, StepEffect

LEMMA NewStateEffect == ASSUME Smooth, IInv', NewState, ~ failed' PROVE Effect'
<1>1. /\ pc = "newstate" /\ pc' = (IF cur.link.kind = "veth" THEN "peer" ELSE "next")
      /\ UNCHANGED <<config, registry, todo, cur>>
      /\ kernel' = (IF cur.up = None THEN kernel ELSE SetUp(cur.idx, cur.up))
  BY DEF NewState, Failure
<1>2. pc \in Calling /\ pc \notin Between /\ pc # "move" /\ IInv
  BY <1>1 DEF Calling, Between, Smooth
<1>3. /\ Plain /\ Effect /\ CurState /\ CurLink /\ cur.link \in config /\ cur \in CurType
      /\ cur.link.kind # "physical" /\ pc' = "next"
  BY <1>1, <1>2, SmoothFacts DEF IInv, CurOK
<1>4. /\ DoneStays /\ LinksStay /\ ItemsStay /\ MarksStay
      /\ \A k \in kernel' : \E l \in kernel : /\ Same(k, l) /\ k.attr = l.attr /\ k.master = l.master
                                              /\ l.idx = cur.idx /\ cur.up # None => k.up = cur.up
      /\ \A l \in kernel : \E k \in kernel' : k.idx = l.idx
  <2>1. CASE cur.up = None
    <3>1. kernel' = kernel
      BY <1>1, <2>1
    <3>2. DoneStays /\ LinksStay /\ ItemsStay /\ MarksStay
      BY <1>1, <1>2, <3>1, SameItems, SameKernel
    <3> QED BY <2>1, <3>1, <3>2 DEF Same
  <2>2. CASE cur.up # None
    <3>1. cur.up \in BOOLEAN
      BY <1>3, <2>2 DEF CurType
    <3>2. kernel' = SetUp(cur.idx, cur.up) /\ UNCHANGED registry
      BY <1>1, <2>2
    <3> QED BY <1>2, <3>1, <3>2, UpDown
  <2> QED BY <2>1, <2>2
<1>5. PICK c \in config : c = cur.link
  BY <1>3
<1>6. PICK m \in kernel' : m.idx = cur.idx
  BY <1>2, <1>4, CurFacts
<1>7. PICK l \in kernel : /\ Same(m, l) /\ m.attr = l.attr /\ m.master = l.master
                          /\ l.idx = cur.idx /\ cur.up # None => m.up = cur.up
  BY <1>4
<1>8. IsSet(l) /\ l.idx = cur.idx /\ l.kind = c.kind
  BY <1>1, <1>2, <1>3, <1>5, <1>6, <1>7, CurFacts DEF CurLink, Same
<1>9. IsSet(m) /\ m.kind = c.kind
  BY <1>7, <1>8 DEF IsSet, Same
<1>10. c.up \in {None, m.up}
  BY <1>2, <1>3, <1>5, <1>7, <1>8 DEF CurState
<1>11. c.hw = None
  BY <1>2, <1>3, <1>5 DEF IInv, ConfigOK, Regular
<1>12. Right(c, m)'
  BY <1>1, <1>2, <1>3, <1>4, <1>5, <1>9, <1>10, <1>11, SetIsRight
<1>13. Creatable(cur.link)' => \E k \in kernel' : Right(cur.link, k)'
  <2>1. c = cur'.link
    BY <1>1, <1>5
  <2> QED BY <1>12, <2>1 DEF Creatable, Right, HasMaster, IndexOf, Named
<1>14. CurPhysical' /\ CurLink'
  BY <1>3 DEF CurPhysical, InApply, CurLink
<1> QED BY <1>1, <1>2, <1>3, <1>4, <1>13, <1>14, StepEffect DEF Between

LEMMA MoveInEffect == ASSUME Smooth, IInv', MoveIn, ~ failed' PROVE Effect'
<1> DEFINE c == cur.link
           o == At(cur.idx)
           m == [o EXCEPT !.ns = c.ns]
           y == [registry[cur.item] EXCEPT !.ns = c.ns]
<1>1. /\ pc = "movein" /\ pc' = "renamein" /\ UNCHANGED <<config, todo, cur>>
      /\ kernel' = Changed(cur.idx, m) /\ registry' = [registry EXCEPT ![cur.item].ns = c.ns]
  BY DEF MoveIn, Failure
<1>2. pc \in Calling /\ pc \notin Between /\ pc # "move" /\ IInv
  BY <1>1 DEF Calling, Between, Smooth
<1>3. /\ Plain /\ Effect /\ CurState /\ CurLink /\ c.kind # "physical"
      /\ cur.item \in 1 .. Len(registry) /\ registry[cur.item].kind = c.kind
      /\ registry \in Seq(RegistryItem)
  BY <1>1, <1>2, SmoothFacts, CurTyped DEF IInv, CurOK
<1>4. /\ o \in kernel /\ o \in KernelLink /\ o.idx = cur.idx /\ o.kind = c.kind
      /\ \A l \in kernel : l.idx = cur.idx <=> l = o
  BY <1>2, CurFacts
<1>5. m.attr = o.attr /\ m.kind = c.kind
  BY <1>4 DEF KernelLink
<1>6. /\ y.kind = registry[cur.item].kind /\ registry' = [registry EXCEPT ![cur.item] = y]
  <2>1. registry[cur.item] \in RegistryItem
    BY <1>3
  <2>2. y.kind = registry[cur.item].kind
    BY <2>1 DEF RegistryItem
  <2> QED BY <1>1, <1>3, <2>2
<1> HIDE DEF m, y
<1>7. \A k \in kernel' : k.idx = cur.idx => k = m
  BY <1>1, <1>4 DEF Changed
<1>8. DoneStays /\ LinksStay /\ ItemsStay /\ MarksStay
  BY <1>1, <1>2, <1>3, <1>5, <1>6, VirtualChange, VirtualItem
<1>9. CurPhysical' /\ CurLink'
  <2>1. \A k \in kernel' : k.idx = cur.idx => k.attr = c.attr
    BY <1>1, <1>3, <1>4, <1>5, <1>7 DEF CurLink
  <2> QED BY <1>1, <2>1 DEF CurPhysical, InApply, CurLink
<1>10. /\ c.up \in {None, cur.up} /\ pc' \notin InApply
       /\ pc' \notin Between /\ pc' \notin {"cleanup", "peer", "updated", "add"}
  BY <1>1, <1>2, <1>3 DEF CurState, InApply, Between
<1> QED BY <1>1, <1>2, <1>3, <1>8, <1>9, <1>10, StepEffect

LEMMA RenameInEffect == ASSUME Smooth, IInv', RenameIn, ~ failed' PROVE Effect'
<1> DEFINE c == cur.link
           o == At(cur.idx)
           m == [o EXCEPT !.name = c.name]
           y == [registry[cur.item] EXCEPT !.name = c.name]
<1>1. /\ pc = "renamein" /\ pc' = "bind" /\ UNCHANGED <<config, todo, cur>>
      /\ kernel' = Changed(cur.idx, m) /\ registry' = [registry EXCEPT ![cur.item].name = c.name]
  <2>1. ~ Failure /\ ~ Refused
    BY DEF Failure, Refused
  <2>2. ~ IF Named(c.ns, c.name) = {} THEN Failure ELSE Refused
    BY <2>1
  <2>3. kernel' = Changed(cur.idx, m) /\ pc' = "bind"
    BY <2>2, Zenon DEF RenameIn
  <2>4. /\ pc = "renamein" /\ UNCHANGED <<config, todo, cur>>
        /\ registry' = [registry EXCEPT ![cur.item].name = c.name]
    BY Zenon DEF RenameIn
  <2> HIDE DEF c, m
  <2> QED BY <2>3, <2>4
<1>2. pc \in Calling /\ pc \notin Between /\ pc # "move" /\ IInv
  BY <1>1 DEF Calling, Between, Smooth
<1>3. /\ Plain /\ Effect /\ CurState /\ CurLink /\ c.kind # "physical"
      /\ cur.item \in 1 .. Len(registry) /\ registry[cur.item].kind = c.kind
      /\ registry \in Seq(RegistryItem)
      /\ \A l \in kernel : l.idx = cur.idx => l.ns = c.ns
  BY <1>1, <1>2, SmoothFacts, CurTyped DEF IInv, CurOK
<1>4. /\ o \in kernel /\ o \in KernelLink /\ o.idx = cur.idx /\ o.kind = c.kind
      /\ \A l \in kernel : l.idx = cur.idx <=> l = o
  BY <1>2, CurFacts
<1>5. m.attr = o.attr /\ m.kind = c.kind /\ m.name = c.name /\ m.ns = o.ns
  BY <1>4 DEF KernelLink
<1>6. /\ y.kind = registry[cur.item].kind /\ registry' = [registry EXCEPT ![cur.item] = y]
  <2>1. registry[cur.item] \in RegistryItem
    BY <1>3
  <2>2. y.kind = registry[cur.item].kind
    BY <2>1 DEF RegistryItem
  <2> QED BY <1>1, <1>3, <2>2
<1> HIDE DEF m, y
<1>7. \A k \in kernel' : k.idx = cur.idx => k = m
  BY <1>1, <1>4 DEF Changed
<1>8. DoneStays /\ LinksStay /\ ItemsStay /\ MarksStay
  BY <1>1, <1>2, <1>3, <1>5, <1>6, VirtualChange, VirtualItem
<1>9. CurPhysical' /\ CurLink'
  <2>1. \A k \in kernel' : k.idx = cur.idx => k.attr = c.attr /\ k.name = c.name /\ k.ns = c.ns
    BY <1>1, <1>3, <1>4, <1>5, <1>7 DEF CurLink
  <2> QED BY <1>1, <2>1 DEF CurPhysical, InApply, CurLink
<1>10. /\ c.up \in {None, cur.up} /\ pc' \notin InApply
       /\ pc' \notin Between /\ pc' \notin {"cleanup", "peer", "updated", "add"}
  BY <1>1, <1>2, <1>3 DEF CurState, InApply, Between
<1> QED BY <1>1, <1>2, <1>3, <1>8, <1>9, <1>10, StepEffect

LEMMA AddLinkEffect == ASSUME Smooth, IInv', AddLink PROVE Effect'
<1> DEFINE c  == cur.link
           ns == IF Bound THEN c.bind ELSE c.ns
           n  == IF Bound THEN <<c.name, nextidx>> ELSE c.name
           m  == NewLink(nextidx, ns, n, c)
<1>1. /\ pc = "add" /\ c.kind # "physical" /\ UNCHANGED <<config, todo>>
      /\ kernel' = Added(ns, n, c) /\ registry' = Append(registry, Item(m))
      /\ cur' = [cur EXCEPT !.idx = nextidx, !.item = Len(registry) + 1]
      /\ pc' = IF Bound THEN "movein" ELSE IF c.kind \in BindKinds THEN "bind" ELSE "master"
  BY Zenon DEF AddLink
<1>2. /\ pc \notin Between /\ pc # "move" /\ IInv
  BY <1>1 DEF Between, Smooth
<1>3. /\ Plain /\ Effect /\ CurState /\ CurLink /\ c.kind # "veth" /\ cur \in CurType
      /\ registry \in Seq(RegistryItem) /\ LinksOK(kernel, config, nextidx)
  BY <1>2, SmoothFacts, CurTyped
<1>4. /\ cur'.idx = nextidx /\ cur'.link = c /\ cur'.master = cur.master /\ cur'.up = cur.up
  BY <1>1, <1>3 DEF CurType
<1>5. m.kind = c.kind /\ m.attr = c.attr /\ m.ns = ns /\ m.name = n /\ Item(m).kind = c.kind
  BY DEF NewLink, Item
<1>6. kernel' = kernel \cup {m}
  BY <1>1, <1>3 DEF Added
<1>7. ~ Bound => ns = c.ns /\ n = c.name
  OBVIOUS
<1>8. pc' \in {"movein", "bind", "master"} /\ (pc' # "movein" => ~ Bound)
  BY <1>1
<1> HIDE DEF m, ns, n
<1>9. \A k \in kernel' : k.idx = nextidx => k = m
  <2>1. \A l \in kernel : l.idx < nextidx /\ l.idx \in Nat
    BY <1>3 DEF LinksOK, KernelLink, Idx
  <2>2. \A l \in kernel : l.idx # nextidx
    BY <2>1
  <2> QED BY <1>6, <2>2
<1>10. DoneStays /\ LinksStay
  BY <1>1, <1>2, <1>5, <1>6 DEF DoneStays, LinksStay, StaysAs
<1>11. ItemsStay /\ MarksStay
  <2>1. /\ Len(registry) \in Nat /\ Len(registry') = Len(registry) + 1
        /\ registry'[Len(registry) + 1] = Item(m)
        /\ \A p \in 1 .. Len(registry) : registry'[p] = registry[p]
    BY <1>1, <1>3
  <2> QED BY <1>1, <1>5, <2>1 DEF ItemsStay, ItemStays, MarksStay
<1>12. CurPhysical' /\ CurLink'
  <2>1. \A k \in kernel' : k.idx = nextidx =>
          k.attr = c.attr /\ (pc' # "movein" => k.name = c.name /\ k.ns = c.ns)
    BY <1>5, <1>7, <1>8, <1>9
  <2> QED BY <1>4, <1>8, <2>1 DEF CurPhysical, InApply, CurLink
<1>13. /\ c.up \in {None, cur'.up} /\ pc' \notin InApply
       /\ pc' \notin Between /\ pc' \notin {"cleanup", "peer", "updated", "add"}
  BY <1>2, <1>3, <1>4, <1>8 DEF CurState, InApply, Between
<1> QED BY <1>1, <1>2, <1>3, <1>4, <1>10, <1>11, <1>12, <1>13, StepEffect

LEMMA DeleteLinkEffect == ASSUME Smooth, IInv', DeleteLink, ~ failed' PROVE Effect'
<1> DEFINE c == cur.link
<1>1. /\ pc = "del" /\ pc' = "add" /\ UNCHANGED <<config, registry, todo, cur>>
      /\ kernel' = IF \E l \in kernel : l.idx = cur.idx /\ l.ns = c.ns THEN Without(cur.idx) ELSE kernel
  BY DEF DeleteLink, Failure
<1>2. /\ pc \notin Between /\ pc # "move" /\ pc \in Calling \cup {"del"} /\ IInv
  BY <1>1 DEF Between, Smooth
<1>3. /\ Plain /\ Effect /\ CurState /\ CurLink /\ c.kind # "veth" /\ c.kind # "physical"
      /\ LinksOK(kernel, config, nextidx) /\ kernel \subseteq KernelLink
      /\ \A l \in kernel : l.idx = cur.idx => l.kind = c.kind
  BY <1>1, <1>2, SmoothFacts, CurTyped DEF IInv, CurOK
<1> DEFINE gone == {l \in kernel : l.idx = cur.idx \/ l.peer = cur.idx}
<1>5. ASSUME NEW g \in kernel, g.idx = cur.idx, g.ns = c.ns
      PROVE  DoneStays /\ LinksStay
  <2>1. kernel' = {IF \E h \in gone : h.idx = l.master THEN [l EXCEPT !.master = None] ELSE l :
                     l \in kernel \ gone}
    BY <1>1, <1>5 DEF Without
  <2>2. \A l \in kernel : l.peer # None => l.kind = "veth"
    BY <1>3 DEF LinksOK, Coherent
  <2>3. cur.idx # None
    BY <1>3, <1>5, ConstantsAssumption DEF KernelLink
  <2>4. ASSUME NEW d \in Done, NEW k \in kernel, Right(d, k)
        PROVE  k \notin gone
    <3>1. k.kind # "veth"
      BY <1>3, <2>4 DEF Right, Plain, Done
    <3>2. k.idx # cur.idx
      <4>1. k.idx = cur.idx => k.ns = c.ns
        BY <1>3, <1>5 DEF LinksOK, Coherent
      <4> QED BY <1>2, <2>4, <4>1, NotAtHand
    <3> QED BY <2>2, <2>3, <3>1, <3>2
  <2>5. ASSUME NEW d \in Done, NEW k \in kernel, Right(d, k)
        PROVE  \E m \in kernel' : StaysAs(d, k, m)
    <3>1. k \in kernel \ gone
      BY <2>4, <2>5
    <3>2. d.master # None => ~ \E h \in gone : h.idx = k.master
      <4> SUFFICES ASSUME d.master # None, NEW h \in gone, h.idx = k.master PROVE FALSE
        OBVIOUS
      <4>1. d \in config \ Waiting
        BY DEF Done
      <4>2. PICK e \in Done, q \in kernel :
              Right(e, q) /\ IndexOf(d.ns, d.master) = q.idx /\ q.idx # None
        BY <1>2, <1>3, <4>1, MasterThere DEF Effect, MastersFirst
      <4>3. k.master = q.idx
        BY <2>5, <4>2 DEF Right, HasMaster
      <4>4. h = q
        BY <1>3, <4>3 DEF LinksOK, Coherent
      <4> QED BY <2>4, <4>2, <4>4
    <3>3. CASE \E h \in gone : h.idx = k.master
      <4>1. [k EXCEPT !.master = None] \in kernel'
        BY <2>1, <3>1, <3>3
      <4> QED BY <3>2, <3>3, <4>1 DEF StaysAs
    <3>4. CASE ~ \E h \in gone : h.idx = k.master
      <4>1. k \in kernel'
        BY <2>1, <3>1, <3>4
      <4> QED BY <4>1 DEF StaysAs
    <3> QED BY <3>3, <3>4
  <2>6. LinksStay
    <3>1. ASSUME NEW m \in kernel'
          PROVE  \E l \in kernel : /\ m.idx = l.idx /\ m.kind = l.kind /\ m.hw = l.hw
                                   /\ m.ns = l.ns /\ m.name = l.name
      <4>1. PICK l \in kernel : m = l \/ m = [l EXCEPT !.master = None]
        BY <2>1
      <4>2. l \in KernelLink
        BY <1>3
      <4> QED BY <4>1, <4>2 DEF KernelLink
    <3> QED BY <1>2, <3>1 DEF LinksStay
  <2> QED BY <2>5, <2>6 DEF DoneStays
<1>6. DoneStays /\ LinksStay
  BY <1>1, <1>2, <1>5, SameKernel
<1>7. CurPhysical' /\ CurLink'
  BY <1>1 DEF CurPhysical, InApply, CurLink
<1>8. c.up \in {None, cur.up} /\ pc' \notin InApply
      /\ pc' \notin Between /\ pc' \notin {"cleanup", "peer", "updated"}
  BY <1>1, <1>2, <1>3 DEF CurState, InApply, Between
<1> QED BY <1>1, <1>2, <1>3, <1>6, <1>7, <1>8, SameItems, StepEffect

LEMMA ClearNameEffect == ASSUME Smooth, IInv', ClearName, ~ failed' PROVE Effect'
<1> DEFINE c == cur.link
<1>1. /\ pc = "rename" /\ pc' = "compare" /\ UNCHANGED <<config, registry, todo, cur>>
      /\ kernel' = (kernel \ InTheWay) \cup {Renamed(l) : l \in InTheWay}
  <2>1. ~ Failure /\ ~ Refused
    BY DEF Failure, Refused
  <2>2. ~ IF Named(c.ns, <<c.name, 0>>) = {} THEN Failure ELSE Refused
    BY <2>1
  <2>3. kernel' = (kernel \ InTheWay) \cup {Renamed(l) : l \in InTheWay}
    BY <2>2, Zenon DEF ClearName, InTheWay, Renamed
  <2>4. cur' = cur
    BY <2>2, Zenon DEF ClearName
  <2>5. pc = "rename" /\ pc' = "compare" /\ UNCHANGED <<config, registry, todo>>
    BY Zenon DEF ClearName
  <2> HIDE DEF c
  <2> QED BY <2>3, <2>4, <2>5
<1>2. /\ pc \in Calling /\ pc \notin Between /\ pc \in InApply /\ pc # "move" /\ pc' # "move" /\ IInv
  BY <1>1 DEF Calling, Between, InApply, Smooth
<1>3. /\ Plain /\ Effect /\ CurState /\ CurPhysical /\ c \in config /\ c.name \in Name
      /\ kernel \subseteq KernelLink
      /\ \A l \in kernel : l.idx = cur.idx => l.ns = c.ns
  BY <1>1, <1>2, SmoothFacts DEF IInv, CurOK
<1>4. <<c.name, 0>> \notin Name
  <2>1. <<c.name, 0>> \in Name \X (Idx \cup {0})
    BY <1>3
  <2> QED BY <2>1, ConstantsAssumption
<1>5. ASSUME NEW l \in InTheWay
      PROVE  /\ l \in kernel /\ l.name = c.name /\ l.ns = c.ns /\ l.idx # cur.idx
             /\ Renamed(l).idx = l.idx /\ Renamed(l).kind = l.kind /\ Renamed(l).hw = l.hw
             /\ Renamed(l).ns = l.ns /\ Renamed(l).name \notin Name
  BY <1>3, <1>4 DEF InTheWay, Named, Renamed, KernelLink
<1>6. \A k \in kernel' : (k \in kernel /\ k \notin InTheWay) \/ \E l \in InTheWay : k = Renamed(l)
  BY <1>1
<1>7. \A k \in kernel' : \E l \in kernel :
        /\ l.idx = k.idx /\ l.kind = k.kind /\ l.hw = k.hw /\ l.ns = k.ns
        /\ l.name = k.name \/ k.name \notin Name
        /\ l.idx = cur.idx => l = k
  BY <1>5, <1>6
<1>8. LinksStay /\ DoneStays /\ ItemsStay /\ MarksStay
  <2>1. LinksStay
    BY <1>2, <1>7 DEF LinksStay
  <2>2. \A l \in kernel : l \in kernel' \/ (l.name = c.name /\ l.ns = c.ns)
    BY <1>1, <1>5
  <2>3. DoneStays
    BY <1>2, <2>2, OthersStay
  <2> QED BY <1>1, <1>2, <2>1, <2>3, SameItems
<1>9. CurPhysical'
  <2>1. \A d : ByName(d, kernel) => ByName(d, kernel')
    BY <1>7 DEF ByName
  <2> QED BY <1>1, <1>2, <1>3, <1>7, <2>1, HandStays
<1>10. CurLink'
  <2>1. ASSUME NEW k \in kernel', k.name = c.name, k.ns = c.ns
        PROVE  k.idx = cur.idx
    <3>1. k \in kernel /\ k \notin InTheWay
      BY <1>3, <1>5, <1>6, <2>1
    <3> QED BY <2>1, <3>1 DEF InTheWay, Named
  <2>2. Coherent(kernel')
    BY DEF IInv, KernelOK, LinksOK
  <2> QED BY <1>1, <2>1, <2>2 DEF CurLink, Coherent
<1>11. /\ c.up \in {None, cur.up} /\ ~ cur.errs /\ pc' \notin Between
       /\ pc' \notin {"cleanup", "peer", "updated", "add"}
  BY <1>1, <1>2, <1>3 DEF CurState, Between
<1> QED BY <1>1, <1>2, <1>3, <1>8, <1>9, <1>10, <1>11, StepEffect

\* The physical link is moved; it is lost if it had another name than it is known by.
LEMMA MoveLinkEffect == ASSUME Smooth, IInv', MoveLink, ~ failed' PROVE Effect'
<1> DEFINE o == At(cur.idx)
           x == registry[cur.item]
           y == [x EXCEPT !.ns = cur.link.ns, !.name = KnownAs, !.idx = FoundAs]
<1>1. /\ pc = "move" /\ UNCHANGED <<config, todo>>
      /\ kernel' = Changed(cur.idx, Moved)
      /\ registry' = [registry EXCEPT ![cur.item].ns = cur.link.ns, ![cur.item].name = KnownAs,
                                      ![cur.item].idx = FoundAs]
      /\ cur' = [cur EXCEPT !.idx = FoundAs]
      /\ pc' = IF FoundAs = None THEN "add" ELSE "rename"
  <2>1. ~ Failure /\ ~ Refused
    BY DEF Failure, Refused
  <2>2. ~ IF Named(cur.link.ns, MoveName) = {} THEN Failure ELSE Refused
    BY <2>1
  <2>3. /\ kernel' = Changed(cur.idx, Moved)
        /\ registry' = [registry EXCEPT ![cur.item].ns = cur.link.ns, ![cur.item].name = KnownAs,
                                        ![cur.item].idx = FoundAs]
        /\ cur' = [cur EXCEPT !.idx = FoundAs]
        /\ pc' = IF FoundAs = None THEN "add" ELSE "rename"
    BY <2>2, Zenon DEF MoveLink, Fresh, IsClear, MoveName, KnownAs, FoundAs, Moved
  <2>4. pc = "move" /\ UNCHANGED <<config, todo>>
    BY Zenon DEF MoveLink
  <2> QED BY <2>3, <2>4
<1>2. /\ pc \in Calling /\ pc \notin Between /\ pc \in InApply /\ IInv
  BY <1>1 DEF Calling, Between, InApply, Smooth
<1>3. /\ Plain /\ Effect /\ CurState /\ CurPhysical /\ cur.link \in config /\ cur.link.name \in Name
      /\ cur \in CurType /\ registry \in Seq(RegistryItem) /\ cur.link.ns \in Ns
      /\ cur.item \in 1 .. Len(registry) /\ x.kind = "physical" /\ x.idx = cur.idx
      /\ cur.link.kind = "physical" /\ Finds(cur.link, x, kernel)
      /\ Regular(config) /\ Recognisable(config, kernel)
  BY <1>1, <1>2, SmoothFacts, CurTyped DEF IInv, CurOK, LinksOK
<1>4. /\ o \in kernel /\ o \in KernelLink /\ o.idx = cur.idx /\ cur.idx \in Idx /\ o.kind = "physical"
      /\ \A l \in kernel : l.idx = cur.idx <=> l = o
  BY <1>2, <1>3, CurFacts
<1>5. Fresh \in AnyName /\ Fresh \notin Name
  <2>1. <<cur.link.name, o.idx>> \in Name \X (Idx \cup {0})
    BY <1>3, <1>4
  <2> QED BY <2>1, ConstantsAssumption DEF AnyName, Fresh
<1>6. x \in RegistryItem
  BY <1>3
<1>7. /\ y \in RegistryItem /\ y.idx = FoundAs /\ y.oldns = x.oldns /\ y.name = KnownAs /\ y.kind = x.kind
      /\ y.hw = x.hw /\ y.removed = x.removed /\ y.orphan = x.orphan /\ y.ns = cur.link.ns
  <2>1. KnownAs \in AnyName /\ FoundAs \in Idx \cup {None}
    BY <1>4, <1>5, <1>6 DEF KnownAs, MoveName, FoundAs, RegistryItem
  <2> HIDE DEF x
  <2> QED BY <1>3, <1>6, <2>1 DEF RegistryItem
<1>8. /\ Len(registry) \in Nat /\ registry' \in Seq(RegistryItem) /\ Len(registry') = Len(registry)
      /\ \A q \in 1 .. Len(registry) : registry'[q] = IF q = cur.item THEN y ELSE registry[q]
  <2>1. registry' = [registry EXCEPT ![cur.item] = y]
    BY <1>1, <1>3, <1>6
  <2> HIDE DEF y
  <2> QED BY <1>3, <1>7, <2>1
<1>9. cur'.link = cur.link /\ cur'.idx = FoundAs /\ cur'.item = cur.item /\ cur'.master = cur.master
      /\ cur'.up = cur.up /\ cur'.errs = cur.errs
  BY <1>1, <1>3 DEF CurType
<1>10. /\ Moved.idx = cur.idx /\ Moved.kind = "physical" /\ Moved.hw = o.hw /\ Moved.name = MoveName
       /\ Moved.ns = cur.link.ns
  BY <1>4 DEF Moved, KernelLink
<1>11. /\ Moved \in kernel' /\ \A k \in kernel' : k = Moved \/ (k \in kernel /\ k.idx # cur.idx)
       /\ \A l \in kernel : l.idx = cur.idx \/ l \in kernel'
  BY <1>1, <1>4 DEF Changed
<1> HIDE DEF y
<1>12. /\ AtHand(o.name) /\ Search(registry, cur.link) = cur.item
       /\ o.name \in Name => o.name = x.name
       /\ \/ cur.link.hw # None /\ o.hw = cur.link.hw
          \/ ByName(cur.link, kernel) /\ (x.name = cur.link.name \/ x.name \notin Name)
  BY <1>1, <1>2, <1>3, <1>4 DEF CurPhysical, AtHand
<1>13. AtHand(MoveName) /\ AtHand(KnownAs)
  <2>1. \A d \in config : d.name \in Name
    BY <1>2 DEF IInv, ConfigOK, ConfigRecord
  <2>2. AtHand(Fresh)
    BY <1>5, <2>1 DEF AtHand
  <2>3. AtHand(x.name)
    <3>1. ItemOK(x, config, kernel, nextidx, Waiting)
      BY <1>2, <1>3 DEF IInv, RegistryOK
    <3>2. \A d \in config : Finds(d, x, kernel) => d = cur.link
      BY <1>3, <3>1, FoundByOne
    <3> QED BY <3>2 DEF AtHand, Finds, ByName
  <2> QED BY <1>12, <2>2, <2>3 DEF MoveName, KnownAs
<1>14. FoundAs \in {cur.idx, None} /\ (KnownAs = x.name \/ KnownAs \notin Name) /\ cur.idx # None
  BY <1>4, <1>5, ConstantsAssumption DEF KnownAs, MoveName, FoundAs
<1>15. ItemsStay
  <2>1. ItemStays(x, y)
    BY <1>1, <1>3, <1>7, <1>13, <1>14 DEF ItemStays
  <2>2. \A z : ItemStays(z, z)
    BY DEF ItemStays
  <2> QED BY <1>8, <2>1, <2>2 DEF ItemsStay
<1>16. MarksStay
  BY <1>7, <1>8 DEF MarksStay
<1>17. KnownAt(Moved, registry', kernel')
  <2>1. \A p \in 1 .. Len(registry) : registry[p].idx = cur.idx => p = cur.item
    <3>1. \A p \in 1 .. Len(registry) : registry[p].idx = cur.idx =>
            registry[p].kind = "physical" /\ registry[p].idx # None
      BY <1>2, <1>4, ItemIsPhysical
    <3> QED BY <1>3, <3>1 DEF Effect, Unique
  <2>2. \A p \in 1 .. Len(registry') : registry'[p].idx = cur.idx => p = cur.item
    BY <1>8, <2>1
  <2>3. registry'[cur.item].ns = cur.link.ns /\ registry'[cur.item].idx = FoundAs
        /\ registry'[cur.item].name = KnownAs
    BY <1>3, <1>7, <1>8
  <2>4. MoveName \in Name => MoveName = KnownAs /\ FoundAs = cur.idx
    BY <1>5, <1>12 DEF MoveName, KnownAs, FoundAs
  <2> QED BY <1>3, <1>8, <1>10, <2>2, <2>3, <2>4 DEF KnownAt
<1>18. LinksStay
  BY <1>4, <1>10, <1>11, <1>13, <1>17 DEF LinksStay
<1>19. DoneStays
  BY <1>2, <1>11, OthersStay
<1>20. PICK c \in config : c = cur.link
  BY <1>3
<1>21. FoundAs = None => Lost(c)'
  <2> SUFFICES ASSUME FoundAs = None PROVE Lost(c)'
    OBVIOUS
  <2>1. KnownAs = x.name
    BY <1>14 DEF KnownAs, FoundAs
  <2>2. \A q \in 1 .. Len(registry) : Resembles(registry', registry, c, q)
    BY <1>7, <1>8, <2>1 DEF Resembles
  <2>3. /\ registry'[cur.item].name = registry[cur.item].name /\ registry'[cur.item].idx = None
        /\ \A q \in 1 .. Len(registry') : q \in 1 .. Len(registry)
        /\ cur.item # 0 /\ Len(registry) <= Len(registry')
    BY <1>3, <1>7, <1>8, <2>1
  <2>4. Search(registry', c) = cur.item
    BY <1>3, <1>8, <1>12, <1>20, <2>2, <2>3, SearchSame
  <2> QED BY <1>3, <1>8, <2>3, <2>4 DEF Lost
<1>22. pc' = "add" => Lost(cur.link)'
  <2>1. c = cur'.link
    BY <1>9, <1>20
  <2> QED BY <1>1, <1>21, <2>1 DEF Lost
<1>23. CurPhysical'
  <2> SUFFICES ASSUME pc' = "rename"
               PROVE  /\ cur.item \in 1 .. Len(registry') /\ registry'[cur.item].kind = "physical"
                      /\ registry'[cur.item].idx = FoundAs
                      /\ \A k \in kernel' : k.idx = FoundAs =>
                           /\ AtHand(k.name)
                           /\ \/ cur.link.hw # None /\ k.hw = cur.link.hw
                              \/ /\ ByName(cur.link, kernel')
                                 /\ \/ registry'[cur.item].name = cur.link.name
                                    \/ registry'[cur.item].name \notin Name
    BY <1>1, <1>9 DEF CurPhysical, InApply, AtHand
  <2>1. FoundAs = cur.idx
    BY <1>1, <1>14
  <2>2. \A d : ByName(d, kernel) => ByName(d, kernel')
    BY <1>4, <1>10, <1>11 DEF ByName
  <2>3. \A k \in kernel' : k.idx = cur.idx => k.name = MoveName /\ k.hw = o.hw
    BY <1>10, <1>11
  <2>4. registry'[cur.item].idx = FoundAs /\ registry'[cur.item].kind = "physical"
        /\ (registry'[cur.item].name = x.name \/ registry'[cur.item].name \notin Name)
    BY <1>3, <1>7, <1>8, <1>14
  <2> QED BY <1>3, <1>8, <1>12, <1>13, <2>1, <2>2, <2>3, <2>4
<1>24. CurLink' /\ pc' \in {"add", "rename"}
  BY <1>1 DEF CurLink
<1>25. cur.link.up \in {None, cur.up} /\ ~ cur.errs
  BY <1>2, <1>3 DEF CurState
<1> QED
  BY <1>1, <1>2, <1>3, <1>9, <1>15, <1>16, <1>18, <1>19, <1>22, <1>23, <1>24, <1>25, StepEffect DEF Between

-----------------------------------------------------------------------------
\* The next link of todo.
LEMMA NextOfTodo ==
  ASSUME IInv, todo # <<>>, todo' = Tail(todo), NEW c, c = Head(todo)
  PROVE  /\ c \in config /\ c \in Waiting /\ c \notin Waiting' /\ Waiting \subseteq Waiting' \cup {c}
         /\ Waiting' \subseteq Waiting
         /\ Len(todo') \in Nat /\ 1 \in 1 .. Len(todo) /\ c = todo[1]
         /\ \A i \in 1 .. Len(todo') : todo'[i] = todo[i + 1] /\ i + 1 \in 1 .. Len(todo)
<1>1. todo \in Seq(config) /\ \A i, j \in 1 .. Len(todo) : i # j => todo[i] # todo[j]
  BY DEF IInv, TodoOK
<1>2. /\ todo' \in Seq(config) /\ Len(todo') = Len(todo) - 1 /\ Len(todo) \in Nat \ {0}
      /\ \A i \in 1 .. Len(todo') : todo'[i] = todo[i + 1] /\ i + 1 \in 1 .. Len(todo)
      /\ c = todo[1] /\ 1 \in 1 .. Len(todo)
  <2>1. Len(todo) \in Nat \ {0} /\ Head(todo) = todo[1] /\ Tail(todo) \in Seq(config)
    BY <1>1
  <2>2. /\ Len(Tail(todo)) = Len(todo) - 1
        /\ \A i \in 1 .. Len(Tail(todo)) : Tail(todo)[i] = todo[i + 1] /\ i + 1 \in 1 .. Len(todo)
    BY <1>1, <2>1
  <2> QED BY <2>1, <2>2
<1>3. \A i \in 1 .. Len(todo) : i = 1 \/ (i - 1 \in 1 .. Len(todo') /\ todo'[i - 1] = todo[i])
  BY <1>2
<1>4. Waiting \subseteq Waiting' \cup {c}
  <2> SUFFICES ASSUME NEW i \in 1 .. Len(todo), todo[i] # c PROVE todo[i] \in Waiting'
    BY DEF Waiting
  <2>1. i # 1
    BY <1>2
  <2> QED BY <1>3, <2>1 DEF Waiting
<1>5. c \in config /\ c \in Waiting
  BY <1>1, <1>2 DEF Waiting
<1>6. Waiting' \subseteq Waiting
  BY <1>2 DEF Waiting
<1>7. \A i \in 1 .. Len(todo') : i + 1 # 1
  BY <1>2
<1>8. c \notin Waiting'
  BY <1>1, <1>2, <1>7 DEF Waiting
<1> QED BY <1>2, <1>4, <1>5, <1>6, <1>8

\* The hardware of an item is there, and that of no item is not.
LEMMA HardwareIsKnown ==
  ASSUME IInv, pc # "idle", NEW c, c.kind = "physical"
  PROVE  (\A q \in 1 .. Len(registry) : ~ HasHw(c, registry[q])) => ByName(c, kernel)
<1>1. \A l \in kernel : l.kind = "physical" =>
        \E q \in 1 .. Len(registry) : /\ registry[q].kind = "physical" /\ registry[q].hw = l.hw
                                      /\ ~ registry[q].removed
  BY DEF IInv, RegistryOK, ItemOK
<1> QED BY <1>1 DEF ByName, HasHw, IsItem

\* How a physical link is found: as the hardware, or by its name.
LEMMA LookedUp ==
  ASSUME IInv, pc # "idle", NEW c \in config, c.kind = "physical", Search(registry, c) # 0
  PROVE  LET x == registry[Search(registry, c)] IN
         /\ Search(registry, c) \in 1 .. Len(registry) /\ x.kind = "physical" /\ Finds(c, x, kernel)
         /\ \/ c.hw # None /\ x.hw = c.hw
            \/ ByName(c, kernel) /\ x.name = c.name
<1> DEFINE p == Search(registry, c)
           x == registry[p]
<1>1. registry \in Seq(RegistryItem)
  BY DEF IInv, RegistryOK
<1>2. /\ p \in 1 .. Len(registry) /\ x.kind = "physical"
      /\ \/ c.hw # None /\ x.hw = c.hw
         \/ /\ c.hw # None => \A q \in 1 .. Len(registry) :
                 registry[q].kind = c.kind /\ ~ registry[q].removed => registry[q].hw # c.hw
            /\ x.name = c.name
  BY <1>1, SearchFacts
<1>3. CASE c.hw # None /\ x.hw = c.hw
  BY <1>2, <1>3 DEF Finds
<1>4. CASE /\ c.hw # None => \A q \in 1 .. Len(registry) :
                registry[q].kind = c.kind /\ ~ registry[q].removed => registry[q].hw # c.hw
           /\ x.name = c.name
  <2>1. ByName(c, kernel)
    BY <1>4, HardwareIsKnown DEF HasHw, IsItem
  <2> QED BY <1>2, <1>4, <2>1 DEF Finds
<1> QED BY <1>2, <1>3, <1>4

\* What is known of a link that is found.
LEMMA FoundLink ==
  ASSUME IInv, pc # "idle", Tracked, NEW c \in Waiting, c.kind = "physical", Search(registry, c) # 0,
         NEW l \in kernel, l.idx = registry[Search(registry, c)].idx
  PROVE  LET x == registry[Search(registry, c)] IN
         /\ \A d \in config : d.kind = "physical" /\ d # c /\ d.hw = None => l.name # d.name
         /\ \/ c.hw # None /\ l.hw = c.hw
            \/ ByName(c, kernel) /\ x.name = c.name
         /\ l.name \in Name => l.name = x.name
         /\ l.kind = "physical" /\ l.ns = x.ns
<1> DEFINE p == Search(registry, c)
           x == registry[p]
<1>1. c \in config /\ c \in ConfigRecord /\ c.name \in Name /\ \A d \in config : d.name \in Name
  BY DEF IInv, TodoOK, ConfigOK, ConfigRecord, Waiting
<1>2. /\ p \in 1 .. Len(registry) /\ x.kind = "physical"
      /\ \/ c.hw # None /\ x.hw = c.hw
         \/ ByName(c, kernel) /\ x.name = c.name
  BY <1>1, LookedUp
<1>3. Regular(config) /\ Recognisable(config, kernel) /\ ItemOK(x, config, kernel, nextidx, Waiting)
  BY <1>2 DEF IInv, ConfigOK, KernelOK, LinksOK, RegistryOK
<1>4. l.kind = "physical" /\ l.hw = x.hw
  BY <1>2, ItemIsPhysical
<1> HIDE DEF p
<1>5. x.ns = l.ns /\ (l.name \in Name => x.name = l.name \/ \E d \in config \ Waiting : NamedFor(d, l, x))
  BY <1>2, <1>4 DEF Tracked, p
<1>6. ASSUME NEW e \in config \ Waiting, NamedFor(e, l, x)
      PROVE  FALSE
  <2>1. e # c /\ e.kind = "physical" /\ e.name = l.name
    BY <1>6 DEF NamedFor
  <2>2. CASE e.hw # None /\ e.hw = l.hw
    <3>1. CASE c.hw # None /\ x.hw = c.hw
      BY <1>1, <1>3, <1>4, <2>1, <2>2, <3>1 DEF Regular
    <3>2. CASE ByName(c, kernel) /\ x.name = c.name
      BY <1>1, <1>3, <1>4, <2>1, <2>2, <3>2 DEF ItemOK
    <3> QED BY <1>2, <3>1, <3>2
  <2>3. CASE ByName(e, kernel) /\ x.name \notin Name
    BY <1>1, <1>2, <1>3, <1>4, <2>1, <2>3 DEF Recognisable
  <2> QED BY <1>6, <2>2, <2>3 DEF NamedFor
<1>7. l.name \in Name => l.name = x.name
  BY <1>5, <1>6
<1>8. ASSUME NEW d \in config, d.kind = "physical", d # c, d.hw = None, l.name = d.name
      PROVE  FALSE
  <2>1. ByName(d, kernel) /\ l.name \in Name /\ x.name = d.name
    BY <1>1, <1>7, <1>8 DEF ByName
  <2> QED BY <1>1, <1>2, <1>3, <1>4, <1>8, <2>1 DEF Recognisable
<1> QED BY <1>2, <1>4, <1>5, <1>7, <1>8 DEF p

\* What is not found.
LEMMA SearchNone ==
  ASSUME NEW reg \in Seq(RegistryItem), NEW c, Search(reg, c) = 0
  PROVE  \A q \in 1 .. Len(reg) :
           /\ ~ HasHw(c, reg[q]) /\ ~ HasName(c, reg[q])
           /\ ~ (IsItem(c, reg[q]) /\ reg[q].kind = "physical" /\ reg[q].name = c.name /\ reg[q].orphan)
<1> DEFINE First(S) == IF S = {} THEN 0 ELSE Min(S)
           Items == {o \in 1 .. Len(reg) : reg[o].kind = c.kind /\ ~ reg[o].removed}
           H == {q \in Items : c.hw # None /\ reg[q].hw = c.hw}
           N == {q \in Items : reg[q].name = c.name /\ reg[q].oldns = c.ns}
           O == {q \in Items : reg[q].kind = "physical" /\ reg[q].name = c.name /\ reg[q].orphan}
<1>1. First(H) = 0 /\ First(N) = 0 /\ First(O) = 0
  BY DEF Search
<1>2. ASSUME NEW S \in SUBSET Nat, 0 \notin S, First(S) = 0 PROVE S = {}
  <2> SUFFICES ASSUME S # {} PROVE FALSE
    OBVIOUS
  <2>1. Min(S) = 0
    BY <1>2
  <2> QED BY <1>2, <2>1, MinFacts
<1>3. /\ H \in SUBSET Nat /\ N \in SUBSET Nat /\ O \in SUBSET Nat
      /\ 0 \notin H /\ 0 \notin N /\ 0 \notin O
  OBVIOUS
<1> HIDE DEF First
<1>4. H = {} /\ N = {} /\ O = {}
  BY <1>1, <1>2, <1>3
<1> QED BY <1>4 DEF HasHw, HasName, IsItem

\* A physical link that is not found is not there, or not where it is looked for.
LEMMA NotFound ==
  ASSUME IInv, pc \notin {"idle", "cleanup"}, Tracked, Findable, NEW c \in Waiting, c.kind = "physical",
         Search(registry, c) = 0
  PROVE  ~ Creatable(c)
<1>1. c \in config /\ c.name \in Name /\ registry \in Seq(RegistryItem)
  BY DEF IInv, TodoOK, ConfigOK, ConfigRecord, RegistryOK, Waiting
<1>2. \A q \in 1 .. Len(registry) :
        /\ ~ HasHw(c, registry[q]) /\ ~ HasName(c, registry[q])
        /\ ~ (IsItem(c, registry[q]) /\ registry[q].kind = "physical" /\ registry[q].name = c.name
              /\ registry[q].orphan)
  BY <1>1, SearchNone
<1>3. ByName(c, kernel)
  BY <1>2, HardwareIsKnown
<1> SUFFICES ASSUME Creatable(c) PROVE FALSE
  OBVIOUS
<1>10. PICK l \in kernel : /\ l.kind = "physical"
                          /\ IF c.hw # None THEN l.hw = c.hw
                             ELSE /\ l.name = c.name
                                  /\ \/ l.ns = c.ns
                                     \/ c.name \notin IgnoredName /\ (ManagesNs \/ l.ns = Root)
  BY DEF Creatable
<1>4. /\ c.hw = None /\ l.name = c.name
      /\ l.ns = c.ns \/ (c.name \notin IgnoredName /\ (ManagesNs \/ l.ns = Root))
  <2>1. CASE c.hw # None
    BY <1>3, <1>10, <2>1 DEF ByName
  <2>2. CASE c.hw = None
    BY <1>10, <2>2
  <2> QED BY <2>1, <2>2
<1>5. PICK q \in 1 .. Len(registry) : registry[q].idx = l.idx
  BY <1>1, <1>10, <1>4 DEF Tracked
<1>6. registry[q].kind = "physical" /\ ~ registry[q].removed
  BY <1>10, <1>5, ItemIsPhysical DEF IInv, RegistryOK, ItemOK
<1>7. registry[q].ns = l.ns /\ registry[q].name = c.name
  <2>1. registry[q].ns = l.ns /\ (registry[q].name = l.name \/ \E d \in config \ Waiting : NamedFor(d, l, registry[q]))
    BY <1>1, <1>10, <1>4, <1>5 DEF Tracked
  <2>2. ASSUME NEW d \in config \ Waiting, NamedFor(d, l, registry[q]) PROVE FALSE
    BY <1>1, <1>3, <1>4, <2>2 DEF NamedFor, IInv, KernelOK, LinksOK, Recognisable
  <2> QED BY <1>4, <2>1, <2>2
<1>8. registry[q].ns = registry[q].oldns /\
        \/ registry[q].ns = c.ns \/ registry[q].orphan \/ registry[q].name \in IgnoredName
        \/ (~ ManagesNs /\ registry[q].ns # Root)
  BY <1>4, <1>6, <1>7 DEF Findable
<1>9. registry[q].oldns # c.ns /\ ~ registry[q].orphan
  BY <1>2, <1>6, <1>7 DEF HasName, IsItem
<1> QED BY <1>4, <1>7, <1>8, <1>9

\* What is found does not depend on what is claimed.
AsBefore(s, r) ==
  /\ Len(s) = Len(r)
  /\ \A q \in 1 .. Len(r) :
       /\ s[q].idx = r[q].idx /\ s[q].ns = r[q].ns /\ s[q].oldns = r[q].oldns
       /\ s[q].name = r[q].name /\ s[q].kind = r[q].kind /\ s[q].hw = r[q].hw
       /\ s[q].orphan = r[q].orphan /\ s[q].removed = r[q].removed
LEMMA SearchAsBefore ==
  ASSUME NEW r, NEW s, AsBefore(s, r), NEW c
  PROVE  Search(s, c) = Search(r, c)
<1> DEFINE First(S) == IF S = {} THEN 0 ELSE Min(S)
           H(t) == {q \in {o \in 1 .. Len(t) : t[o].kind = c.kind /\ ~ t[o].removed} :
                      c.hw # None /\ t[q].hw = c.hw}
           N(t) == {q \in {o \in 1 .. Len(t) : t[o].kind = c.kind /\ ~ t[o].removed} :
                      t[q].name = c.name /\ t[q].oldns = c.ns}
           O(t) == {q \in {o \in 1 .. Len(t) : t[o].kind = c.kind /\ ~ t[o].removed} :
                      t[q].kind = "physical" /\ t[q].name = c.name /\ t[q].orphan}
<1>1. ASSUME NEW t
      PROVE  Search(t, c) = IF First(H(t)) # 0 THEN First(H(t))
                            ELSE IF First(N(t)) # 0 THEN First(N(t)) ELSE First(O(t))
  BY Zenon DEF Search
<1>2. H(s) = H(r)
  BY DEF AsBefore
<1>3. N(s) = N(r)
  BY DEF AsBefore
<1>4. O(s) = O(r)
  BY DEF AsBefore
<1> HIDE DEF First, H, N, O
<1> QED BY <1>1, <1>2, <1>3, <1>4

\* The next link is looked up: nothing changes but that its item is claimed.
LEMMA BegunIs ==
  ASSUME IInv, BeginLink, NEW c, c = Head(todo), NEW p, p = Search(registry, c)
  PROVE  /\ pc = "next" /\ todo # <<>> /\ todo' = Tail(todo)
         /\ cur'.link = c /\ cur'.item = p /\ cur'.errs = FALSE
         /\ cur'.idx = (IF p = 0 THEN None ELSE registry[p].idx)
         /\ cur'.master = (IF c.master = None THEN None ELSE IndexOf(c.ns, c.master))
         /\ c.master # None => (IndexOf(c.ns, c.master) # None => cur'.up = c.up)
         /\ c.master = None => cur'.up = c.up
         /\ pc' = AfterLookUp(c, p) /\ pc' \in {"del", "move", "rename", "add", "idle"}
         /\ UNCHANGED <<config, kernel, failed>>
         /\ p \in 0 .. Len(registry) /\ AsBefore(registry', registry)
<1> DEFINE m  == IF c.master = None THEN None ELSE IndexOf(c.ns, c.master)
           up == IF c.master # None /\ m = None THEN FALSE ELSE c.up
<1>1. /\ pc = "next" /\ todo # <<>> /\ todo' = Tail(todo)
      /\ cur' = [link |-> c, item |-> p, idx |-> IF p = 0 THEN None ELSE registry[p].idx,
                 master |-> m, up |-> up, errs |-> FALSE]
      /\ registry' = IF p = 0 THEN registry ELSE [registry EXCEPT ![p].claimed = TRUE]
      /\ pc' = AfterLookUp(c, p)
      /\ UNCHANGED <<config, kernel, failed>>
  BY DEF BeginLink
<1>2. registry \in Seq(RegistryItem)
  BY DEF IInv, RegistryOK
<1>3. p \in 0 .. Len(registry)
  BY <1>2, SearchFacts
<1>4. pc' \in {"del", "move", "rename", "add", "idle"}
  BY <1>1 DEF AfterLookUp
<1>5. AsBefore(registry', registry)
  <2>1. CASE p = 0
    BY <1>1, <2>1 DEF AsBefore
  <2>2. CASE p # 0
    <3> DEFINE y == [registry[p] EXCEPT !.claimed = TRUE]
    <3>1. p \in 1 .. Len(registry) /\ registry[p] \in RegistryItem
      BY <1>2, <1>3, <2>2
    <3>2. /\ y \in RegistryItem /\ y.idx = registry[p].idx /\ y.ns = registry[p].ns
          /\ y.oldns = registry[p].oldns /\ y.name = registry[p].name /\ y.kind = registry[p].kind
          /\ y.hw = registry[p].hw /\ y.orphan = registry[p].orphan /\ y.removed = registry[p].removed
      BY <3>1 DEF RegistryItem
    <3>3. registry' = [registry EXCEPT ![p] = y]
      BY <1>1, <1>2, <2>2, <3>1
    <3> HIDE DEF y
    <3>4. Replaces(registry', registry, p, y)
      BY <1>2, <3>1, <3>2, <3>3, ReplacedIs
    <3> QED BY <3>2, <3>4 DEF Replaces, AsBefore
  <2> QED BY <2>1, <2>2
<1> QED BY <1>1, <1>3, <1>4, <1>5

LEMMA BeginLinkEffect == ASSUME Smooth, IInv', BeginLink, pc' # "idle" PROVE Effect'
<1>1. PICK c, p : c = Head(todo) /\ p = Search(registry, c)
  OBVIOUS
<1>2. IInv /\ Plain /\ Effect /\ OrphanInv /\ ~ failed /\ pc = "next"
  BY DEF Smooth, BeginLink
<1>3. /\ todo # <<>> /\ todo' = Tail(todo)
      /\ cur'.link = c /\ cur'.item = p /\ cur'.errs = FALSE
      /\ cur'.idx = (IF p = 0 THEN None ELSE registry[p].idx)
      /\ cur'.master = (IF c.master = None THEN None ELSE IndexOf(c.ns, c.master))
      /\ c.master # None => (IndexOf(c.ns, c.master) # None => cur'.up = c.up)
      /\ c.master = None => cur'.up = c.up
      /\ pc' = AfterLookUp(c, p) /\ pc' \in {"del", "move", "rename", "add"}
      /\ UNCHANGED <<config, kernel, failed>>
      /\ p \in 0 .. Len(registry) /\ AsBefore(registry', registry)
  BY <1>1, <1>2, BegunIs
<1>4. /\ c \in config /\ c \in Waiting /\ c \notin Waiting' /\ Waiting \subseteq Waiting' \cup {c}
      /\ Waiting' \subseteq Waiting
      /\ Len(todo') \in Nat /\ 1 \in 1 .. Len(todo) /\ c = todo[1]
      /\ \A i \in 1 .. Len(todo') : todo'[i] = todo[i + 1] /\ i + 1 \in 1 .. Len(todo)
  BY <1>1, <1>2, <1>3, NextOfTodo
<1>5. Done' = Done
  BY <1>2, <1>3, <1>4 DEF Done, Between
<1>6. ASSUME NEW d \in config, IsMaster(d, c) PROVE d \in Done
  <2>1. d \notin Waiting
    <3> SUFFICES ASSUME NEW j \in 1 .. Len(todo), d = todo[j] PROVE FALSE
      BY DEF Waiting
    <3>1. j # 1
      BY <1>2, <1>4, <1>6, ConstantsAssumption DEF IsMaster, Plain, IInv, ConfigOK, ConfigRecord
    <3>2. 1 < j
      BY <3>1
    <3> QED BY <1>2, <1>4, <1>6, <3>2 DEF Effect, MastersFirst
  <2> QED BY <1>2, <2>1 DEF Done, Between
<1>7. MastersFirst'
  <2>1. ASSUME NEW e \in config \ Waiting', NEW d \in config, IsMaster(d, e) PROVE d \in Done
    <3>1. CASE e = c
      BY <1>6, <2>1, <3>1
    <3>2. CASE e # c
      BY <1>2, <1>4, <2>1, <3>2 DEF Effect, MastersFirst
    <3> QED BY <3>1, <3>2
  <2>2. ASSUME NEW i \in 1 .. Len(todo'), NEW j \in 1 .. Len(todo'), i < j
        PROVE  ~ IsMaster(todo'[j], todo'[i])
    <3>1. /\ i + 1 \in 1 .. Len(todo) /\ j + 1 \in 1 .. Len(todo) /\ i + 1 < j + 1
          /\ todo'[i] = todo[i + 1] /\ todo'[j] = todo[j + 1]
      BY <1>4, <2>2
    <3> QED BY <1>2, <3>1 DEF Effect, MastersFirst
  <2> QED BY <1>3, <1>5, <2>1, <2>2 DEF MastersFirst, IsMaster
<1>8. \A d : Search(registry', d) = Search(registry, d)
  BY <1>3, SearchAsBefore
<1>9. \A d : Lost(d) => Lost(d)'
  BY <1>3, <1>8 DEF Lost, AsBefore
<1>10. Unique'
  BY <1>2, <1>3 DEF Effect, Unique, AsBefore
<1>11. Tracked'
  <2> SUFFICES ASSUME NEW l \in kernel, l.kind = "physical"
               PROVE  /\ l.name \in Name => \E q \in 1 .. Len(registry') : registry'[q].idx = l.idx
                      /\ \A q \in 1 .. Len(registry') : registry'[q].idx = l.idx =>
                           /\ registry'[q].ns = l.ns
                           /\ l.name \in Name => \/ registry'[q].name = l.name
                                                 \/ \E d \in config \ Waiting' : NamedFor(d, l, registry'[q])
    BY <1>3 DEF Tracked, NamedFor
  <2>1. \A q \in 1 .. Len(registry) : \A d : NamedFor(d, l, registry[q]) => NamedFor(d, l, registry'[q])
    BY <1>3 DEF NamedFor, AsBefore
  <2>2. config \ Waiting \subseteq config \ Waiting'
    BY <1>4
  <2>3. l.name \in Name => \E q \in 1 .. Len(registry) : registry[q].idx = l.idx
    BY <1>2 DEF Effect, Tracked
  <2>4. ASSUME NEW q \in 1 .. Len(registry), registry[q].idx = l.idx
        PROVE  /\ registry[q].ns = l.ns
               /\ l.name \in Name => \/ registry[q].name = l.name
                                     \/ \E d \in config \ Waiting : NamedFor(d, l, registry[q])
    BY <1>2, <2>4 DEF Effect, Tracked
  <2>5. l.name \in Name => \E q \in 1 .. Len(registry') : registry'[q].idx = l.idx
    BY <1>3, <2>3 DEF AsBefore
  <2>6. ASSUME NEW q \in 1 .. Len(registry'), registry'[q].idx = l.idx
        PROVE  /\ registry'[q].ns = l.ns
               /\ l.name \in Name => \/ registry'[q].name = l.name
                                     \/ \E d \in config \ Waiting' : NamedFor(d, l, registry'[q])
    <3>1. /\ q \in 1 .. Len(registry) /\ registry[q].idx = l.idx
          /\ registry'[q].ns = registry[q].ns /\ registry'[q].name = registry[q].name
      BY <1>3, <2>6 DEF AsBefore
    <3> QED BY <2>1, <2>2, <2>4, <3>1
  <2> QED BY <2>5, <2>6
<1>12. Findable'
  BY <1>2, <1>3, <1>4 DEF Effect, Findable, AsBefore
<1>13. NoneDone'
  BY <1>3 DEF NoneDone
<1>14. DoneRight'
  <2>1. \A d, l : Right(d, l) => Right(d, l)'
    BY <1>3 DEF Right, HasMaster, IndexOf, Named
  <2>2. \A d : Creatable(d)' => Creatable(d)
    BY <1>3 DEF Creatable
  <2> QED BY <1>2, <1>3, <1>5, <1>9, <2>1, <2>2 DEF Effect, DoneRight
<1>15. c.kind = "physical" /\ p # 0 =>
         /\ p \in 1 .. Len(registry) /\ registry[p].kind = "physical"
         /\ ItemOK(registry[p], config, kernel, nextidx, Waiting)
  BY <1>1, <1>2, <1>4, LookedUp DEF IInv, RegistryOK
<1>16. ASSUME c.kind = "physical", p # 0, NEW l \in kernel, l.idx = registry[p].idx
       PROVE  /\ \A d \in config : d.kind = "physical" /\ d # c /\ d.hw = None => l.name # d.name
              /\ \/ c.hw # None /\ l.hw = c.hw
                 \/ ByName(c, kernel) /\ registry[p].name = c.name
              /\ l.name \in Name => l.name = registry[p].name
              /\ l.kind = "physical" /\ l.ns = registry[p].ns
  BY <1>1, <1>2, <1>4, <1>16, FoundLink DEF Effect
<1>17. CurState'
  <2>1. c.master # None => IndexOf(c.ns, c.master) # None
    BY <1>2, <1>4, <1>6, MasterThere DEF Effect
  <2>2. IndexOf(c.ns, c.master)' = IndexOf(c.ns, c.master)
    BY <1>3 DEF IndexOf, Named
  <2>3. ASSUME pc' = "add", c.kind = "physical" PROVE ~ Creatable(c)' \/ Lost(c)'
    <3>1. CASE p = 0
      <4>1. ~ Creatable(c)
        BY <1>1, <1>2, <1>4, <2>3, <3>1, NotFound DEF Effect
      <4> QED BY <1>3, <4>1 DEF Creatable
    <3>2. CASE p # 0
      <4>1. registry[p].ns = c.ns /\ ~ \E l \in kernel : l.idx = registry[p].idx /\ l.ns = c.ns
        BY <1>3, <2>3, <3>2 DEF AfterLookUp
      <4>2. registry[p].idx = None
        BY <1>15, <1>16, <2>3, <3>2, <4>1 DEF ItemOK
      <4>3. Lost(c)
        BY <1>1, <1>15, <2>3, <3>2, <4>2 DEF Lost
      <4> QED BY <1>9, <4>3
    <3> QED BY <3>1, <3>2
  <2> QED BY <1>3, <2>1, <2>2, <2>3 DEF CurState
<1>18. CurPhysical'
  <2> SUFFICES ASSUME pc' \in InApply, c.kind = "physical"
               PROVE  /\ cur'.item \in 1 .. Len(registry') /\ registry'[cur'.item].kind = "physical"
                      /\ registry'[cur'.item].idx = cur'.idx
                      /\ Search(registry', c) = cur'.item
                      /\ \A l \in kernel : l.idx = cur'.idx =>
                           /\ \A d \in config : d.kind = "physical" /\ d # c /\ d.hw = None => l.name # d.name
                           /\ \/ c.hw # None /\ l.hw = c.hw
                              \/ ByName(c, kernel) /\ registry'[cur'.item].name = c.name
                           /\ l.name \in Name => l.name = registry'[cur'.item].name
    BY <1>3 DEF CurPhysical, ByName
  <2>1. p # 0
    BY <1>3 DEF AfterLookUp, InApply
  <2>2. /\ p \in 1 .. Len(registry') /\ registry'[p].kind = "physical" /\ cur'.idx = registry[p].idx
        /\ registry'[p].idx = registry[p].idx /\ registry'[p].name = registry[p].name
    BY <1>3, <1>15, <2>1 DEF AsBefore
  <2> QED BY <1>1, <1>3, <1>8, <1>16, <2>1, <2>2
<1>19. CurLink'
  <2>1. ASSUME pc' = "del", NEW l \in kernel, l.idx = cur'.idx PROVE l.name = c.name
    <3>1. p # 0 /\ c.kind \in BindKinds
      BY <1>3, <2>1 DEF AfterLookUp
    <3>2. c.kind # "physical" /\ c.hw = None
      BY <1>2, <1>4, <3>1 DEF BindKinds, IInv, ConfigOK, Regular
    <3>3. registry \in Seq(RegistryItem)
      BY <1>2 DEF IInv, RegistryOK
    <3>4. p \in 1 .. Len(registry) /\ HasName(c, registry[p])
      BY <1>1, <1>3, <3>1, <3>2, <3>3, SearchFacts DEF HasName, IsItem
    <3> QED BY <1>2, <1>3, <1>4, <2>1, <3>1, <3>2, <3>4 DEF OrphanInv, KnownRight
  <2> QED BY <1>3, <2>1 DEF CurLink
<1> QED BY <1>7, <1>10, <1>11, <1>12, <1>13, <1>14, <1>17, <1>18, <1>19 DEF Effect

\* A link is in the inventory once.
LEMMA InventoryOnce ==
  ASSUME LinksOK(kernel, config, nextidx),
         NEW p \in 1 .. Len(Inventory), NEW q \in 1 .. Len(Inventory), Inventory[p].idx = Inventory[q].idx
  PROVE  p = q
<1> DEFINE n == Len(Inventory)
           f == [i \in 1 .. n |-> CHOOSE l \in kernel : Inventory[i] = Item(l)]
<1>1. /\ n \in Nat /\ n = Cardinality(kernel)
      /\ \A i \in 1 .. n : \E l \in kernel : Inventory[i] = Item(l)
      /\ \A l \in kernel : \E i \in 1 .. n : Inventory[i] = Item(l)
  BY InventoryFacts
<1>2. Coherent(kernel)
  BY DEF LinksOK
<1>3. \A k, l : Item(k) = Item(l) => k.idx = l.idx
  BY DEF Item
<1>4. \A i \in 1 .. n : f[i] \in kernel /\ Inventory[i] = Item(f[i])
  BY <1>1
<1>5. f \in [1 .. n -> kernel]
  BY <1>4
<1> HIDE DEF f, n
<1>6. \A l \in kernel : \E i \in 1 .. n : f[i] = l
  <2> SUFFICES ASSUME NEW l \in kernel PROVE \E i \in 1 .. n : f[i] = l
    OBVIOUS
  <2>1. PICK i \in 1 .. n : Inventory[i] = Item(l)
    BY <1>1
  <2> QED BY <1>2, <1>3, <1>4, <2>1 DEF Coherent
<1>7. f \in Surjection(1 .. n, kernel)
  BY <1>5, <1>6 DEF Surjection
<1>8. IsFiniteSet(1 .. n) /\ Cardinality(1 .. n) = n
  BY <1>1, FS_Interval
<1>9. f \in Injection(1 .. n, kernel)
  BY <1>1, <1>7, <1>8, FS_Surjection
<1>10. f[p] = f[q]
  <2>1. \A l : Item(l).idx = l.idx
    BY DEF Item
  <2>2. f[p] \in kernel /\ f[q] \in kernel /\ Inventory[p] = Item(f[p]) /\ Inventory[q] = Item(f[q])
    BY <1>4 DEF n
  <2>3. f[p].idx = f[q].idx
    BY <2>1, <2>2
  <2> QED BY <1>2, <2>2, <2>3 DEF Coherent
<1> QED BY <1>9, <1>10 DEF Injection, IsInjective, n

\* The registry a run starts with, and the links it will come to.
LEMMA StartedIs ==
  ASSUME IInv, StartRun
  PROVE  /\ UNCHANGED <<config, kernel>> /\ pc' = "cleanup" /\ pos' = 1
         /\ Waiting' = config /\ Done' = {}
         /\ \A i, j \in 1 .. Len(todo') : i < j => ~ IsMaster(todo'[j], todo'[i])
         /\ \A p \in 1 .. Len(registry') : \E l \in kernel :
              /\ registry'[p].idx = l.idx /\ registry'[p].ns = l.ns /\ registry'[p].oldns = l.ns
              /\ registry'[p].name = l.name /\ registry'[p].kind = l.kind /\ registry'[p].hw = l.hw
              /\ ~ registry'[p].orphan
              /\ registry'[p].claimed = (\E c \in config : Search(Inventory, c) = p)
              /\ Inventory[p] = Item(l)
         /\ \A l \in kernel : \E p \in 1 .. Len(registry') : registry'[p].idx = l.idx
         /\ Inventory \in Seq(RegistryItem) /\ Len(registry') = Len(Inventory)
         /\ \A p, q \in 1 .. Len(registry') : registry'[p].idx = registry'[q].idx => p = q
<1>1. /\ UNCHANGED <<config, kernel>> /\ registry' = Claimed(Inventory) /\ todo' \in Orders
      /\ pc' = "cleanup" /\ pos' = 1
  BY DEF StartRun
<1>2. LinksOK(kernel, config, nextidx) /\ IsFiniteSet(config)
  BY DEF IInv, KernelOK, ConfigOK
<1>3. LET r == Claimed(Inventory) IN
      /\ Inventory \in Seq(RegistryItem) /\ Len(r) = Len(Inventory)
      /\ \A p \in 1 .. Len(r) : \E l \in kernel :
           /\ r[p].idx = l.idx /\ r[p].ns = l.ns /\ r[p].oldns = l.ns /\ r[p].name = l.name
           /\ r[p].kind = l.kind /\ r[p].hw = l.hw /\ ~ r[p].orphan
           /\ r[p].claimed = (\E c \in config : Search(Inventory, c) = p)
           /\ Inventory[p] = Item(l)
      /\ \A l \in kernel : \E p \in 1 .. Len(r) : Inventory[p] = Item(l)
  BY <1>2, ClaimedFacts
<1>4. /\ Inventory \in Seq(RegistryItem) /\ Len(registry') = Len(Inventory)
      /\ \A p \in 1 .. Len(registry') : \E l \in kernel :
           /\ registry'[p].idx = l.idx /\ registry'[p].ns = l.ns /\ registry'[p].oldns = l.ns
           /\ registry'[p].name = l.name /\ registry'[p].kind = l.kind /\ registry'[p].hw = l.hw
           /\ ~ registry'[p].orphan
           /\ registry'[p].claimed = (\E c \in config : Search(Inventory, c) = p)
           /\ Inventory[p] = Item(l)
      /\ \A l \in kernel : \E p \in 1 .. Len(registry') : Inventory[p] = Item(l)
  BY <1>1, <1>3, Zenon
<1>5. \A l : Item(l).idx = l.idx
  BY DEF Item
<1>6. \A p \in 1 .. Len(registry') : Inventory[p].idx = registry'[p].idx
  <2> SUFFICES ASSUME NEW p \in 1 .. Len(registry')
               PROVE  Inventory[p].idx = registry'[p].idx
    OBVIOUS
  <2>1. PICK l \in kernel : registry'[p].idx = l.idx /\ Inventory[p] = Item(l)
    BY <1>4
  <2> QED BY <1>5, <2>1
<1>7. \A l \in kernel : \E p \in 1 .. Len(registry') : registry'[p].idx = l.idx
  <2> SUFFICES ASSUME NEW l \in kernel
               PROVE  \E p \in 1 .. Len(registry') : registry'[p].idx = l.idx
    OBVIOUS
  <2>1. PICK p \in 1 .. Len(registry') : Inventory[p] = Item(l)
    BY <1>4
  <2> QED BY <1>5, <1>6, <2>1
<1>8. \A p, q \in 1 .. Len(registry') : registry'[p].idx = registry'[q].idx => p = q
  <2> SUFFICES ASSUME NEW p \in 1 .. Len(registry'), NEW q \in 1 .. Len(registry'),
                      registry'[p].idx = registry'[q].idx
               PROVE  p = q
    OBVIOUS
  <2>1. p \in 1 .. Len(Inventory) /\ q \in 1 .. Len(Inventory) /\ Inventory[p].idx = Inventory[q].idx
    BY <1>4, <1>6
  <2> QED BY <1>2, <2>1, InventoryOnce
<1>9. /\ \A c \in config : \E i \in 1 .. Len(todo') : todo'[i] = c
      /\ todo' \in Seq(config)
  BY <1>1, <1>2, OrdersFacts
<1>10. Waiting' = config
  <2>1. Waiting' \subseteq config
    BY <1>9 DEF Waiting
  <2>2. config \subseteq Waiting'
    BY <1>9 DEF Waiting
  <2> QED BY <2>1, <2>2
<1>11. Done' = {}
  BY <1>1, <1>10 DEF Done
<1>12. \A i, j \in 1 .. Len(todo') : i < j => ~ IsMaster(todo'[j], todo'[i])
  <2>1. DOMAIN todo' = 1 .. Len(todo')
    BY <1>9
  <2>2. \A i, j \in DOMAIN todo' : i < j => ~ (todo'[i].master = todo'[j].name /\ todo'[i].ns = todo'[j].ns)
    BY <1>1 DEF Orders
  <2> QED BY <2>1, <2>2 DEF IsMaster
<1> QED BY <1>1, <1>4, <1>7, <1>8, <1>10, <1>11, <1>12

\* A run starts: everything is known as it is, and what will be found by its name is
\* claimed where it is looked for, or an orphan.
LEMMA StartRunEffect == ASSUME IInv, StartRun PROVE Effect'
<1>1. /\ UNCHANGED <<config, kernel>> /\ pc' = "cleanup" /\ pos' = 1
      /\ Waiting' = config /\ Done' = {}
      /\ \A i, j \in 1 .. Len(todo') : i < j => ~ IsMaster(todo'[j], todo'[i])
  BY StartedIs
<1>2. ASSUME NEW p \in 1 .. Len(registry')
      PROVE  \E l \in kernel :
               /\ registry'[p].idx = l.idx /\ registry'[p].ns = l.ns /\ registry'[p].oldns = l.ns
               /\ registry'[p].name = l.name /\ registry'[p].kind = l.kind /\ registry'[p].hw = l.hw
               /\ Inventory[p] = Item(l)
               /\ registry'[p].claimed => \E c \in config : Search(Inventory, c) = p
  <2>1. \E l \in kernel :
          /\ registry'[p].idx = l.idx /\ registry'[p].ns = l.ns /\ registry'[p].oldns = l.ns
          /\ registry'[p].name = l.name /\ registry'[p].kind = l.kind /\ registry'[p].hw = l.hw
          /\ ~ registry'[p].orphan
          /\ registry'[p].claimed = (\E c \in config : Search(Inventory, c) = p)
          /\ Inventory[p] = Item(l)
    BY StartedIs
  <2> QED BY <2>1, Zenon
<1>3. /\ \A l \in kernel : \E p \in 1 .. Len(registry') : registry'[p].idx = l.idx
      /\ \A p, q \in 1 .. Len(registry') : registry'[p].idx = registry'[q].idx => p = q
      /\ Inventory \in Seq(RegistryItem) /\ Len(registry') = Len(Inventory)
  BY StartedIs
<1>4. /\ Coherent(kernel) /\ Recognisable(config, kernel)
      /\ \A c \in config : c.hw = None /\ c.kind = "physical" => ByName(c, kernel)
  BY DEF IInv, KernelOK, LinksOK, ByName
<1>5. MastersFirst'
  BY <1>1 DEF MastersFirst, IsMaster
<1>6. Unique'
  BY <1>3 DEF Unique
<1>7. Tracked'
  <2> SUFFICES ASSUME NEW l \in kernel, NEW p \in 1 .. Len(registry'), registry'[p].idx = l.idx
               PROVE  registry'[p].ns = l.ns /\ registry'[p].name = l.name
    BY <1>1, <1>3 DEF Tracked
  <2>1. PICK k \in kernel : registry'[p].idx = k.idx /\ registry'[p].ns = k.ns /\ registry'[p].name = k.name
    BY <1>2
  <2> QED BY <1>4, <2>1 DEF Coherent
<1>8. Findable'
  <2> SUFFICES ASSUME NEW c \in config, NEW p \in 1 .. Len(registry'), c.kind = "physical", c.hw = None,
                      registry'[p].kind = "physical", registry'[p].name = c.name
               PROVE  /\ registry'[p].ns = registry'[p].oldns
                      /\ \/ registry'[p].ns = c.ns \/ registry'[p].name \in IgnoredName
                         \/ ~ ManagesNs /\ registry'[p].ns # Root
                         \/ p >= 1 /\ IsOrphan(registry'[p])
    BY <1>1 DEF Findable, IsOrphan
  <2>1. PICK l \in kernel :
          /\ registry'[p].idx = l.idx /\ registry'[p].ns = l.ns /\ registry'[p].oldns = l.ns
          /\ registry'[p].name = l.name /\ registry'[p].kind = l.kind /\ registry'[p].hw = l.hw
          /\ Inventory[p] = Item(l)
          /\ registry'[p].claimed => \E d \in config : Search(Inventory, d) = p
    BY <1>2
  <2>2. /\ Inventory[p].kind = l.kind /\ Inventory[p].hw = l.hw /\ Inventory[p].name = l.name
        /\ Inventory[p].oldns = l.ns /\ ~ Inventory[p].orphan
    BY <2>1 DEF Item
  <2>3. ASSUME NEW d \in config, Search(Inventory, d) = p PROVE registry'[p].ns = c.ns
    <3>1. p # 0
      OBVIOUS
    <3>2. /\ l.kind = d.kind
          /\ (d.hw # None /\ l.hw = d.hw) \/ l.name = d.name
      BY <1>3, <2>2, <2>3, <3>1, SearchFacts
    <3>3. d = c
      <4>1. ByName(c, kernel) /\ d.kind = "physical" /\ l.name = c.name
        BY <1>4, <2>1, <3>2
      <4>2. d # c => c.name # d.name /\ (d.hw # None /\ l.hw = d.hw => l.name # c.name)
        BY <1>4, <4>1 DEF Recognisable
      <4> QED BY <3>2, <4>1, <4>2
    <3>4. Sees(Inventory, c, p)
      BY <1>3, <2>2, <2>3, <3>1, <3>3, SearchSees
    <3>5. Inventory[p].oldns = c.ns
      BY <3>4 DEF Sees, HasHw, HasName
    <3> QED BY <2>1, <2>2, <3>5
  <2> QED BY <2>1, <2>3 DEF IsOrphan
<1>9. NoneDone' /\ DoneRight'
  BY <1>1 DEF NoneDone, DoneRight
<1>10. CurState' /\ CurPhysical' /\ CurLink'
  BY <1>1 DEF CurState, CurPhysical, CurLink, Between, InApply
<1> QED BY <1>5, <1>6, <1>7, <1>8, <1>9, <1>10 DEF Effect

\* Nothing is done while a run cleans up, or when it has.
LEMMA CleanUpEffect ==
  ASSUME Smooth, IInv', pc = "cleanup", pc' \in {"cleanup", "next"}, UNCHANGED <<config, todo>>,
         LinksStay, ItemsStay, Findable'
  PROVE  Effect'
<1>1. IInv /\ Effect /\ Waiting' = Waiting
  BY DEF Smooth, Waiting
<1>2. Done = {} /\ Done' = {}
  <2>1. Done = config \ Waiting /\ Done' = config \ Waiting
    BY <1>1 DEF Done, Between
  <2> QED BY <1>1, <2>1 DEF Effect, NoneDone
<1>3. MastersFirst'
  BY <1>1, <1>2 DEF Effect, MastersFirst, IsMaster
<1>4. Unique' /\ Tracked'
  BY <1>1, TrackedKept DEF Effect
<1>5. NoneDone' /\ DoneRight'
  BY <1>2 DEF NoneDone, DoneRight
<1>6. CurState' /\ CurPhysical' /\ CurLink'
  BY DEF CurState, CurPhysical, CurLink, Between, InApply
<1> QED BY <1>3, <1>4, <1>5, <1>6 DEF Effect

\* An item that is no orphan is passed by, or all items have been.
LEMMA PassedEffect ==
  ASSUME Smooth, IInv', (\E i \in 1 .. Len(registry) : KeepItem(registry[i])) \/ CleanUpDone
  PROVE  Effect'
<1>1. /\ pc = "cleanup" /\ pc' \in {"cleanup", "next"} /\ UNCHANGED <<config, kernel, registry, todo>>
      /\ \/ pos' = pos + 1 /\ ~ IsOrphan(registry[pos]) /\ pc' = "cleanup"
         \/ pos > Len(registry)
  BY DEF KeepItem, InCleanUp, CleanUpDone
<1>2. IInv /\ Effect /\ pos \in Nat /\ Waiting' = Waiting /\ Len(registry) \in Nat
  <2>1. IInv /\ Effect /\ pos \in Nat /\ Waiting' = Waiting
    BY <1>1 DEF Smooth, IInv, TodoOK, Waiting
  <2>2. registry \in Seq(RegistryItem)
    BY <2>1 DEF IInv, RegistryOK
  <2> QED BY <2>1, <2>2
<1>3. LinksStay /\ ItemsStay
  BY <1>1, <1>2, SameItems, SameKernel
<1>4. Findable'
  <2> SUFFICES ASSUME NEW c \in Waiting, NEW p \in 1 .. Len(registry), p >= pos, IsOrphan(registry[p])
               PROVE  pc' = "cleanup" /\ p >= pos'
    BY <1>1, <1>2 DEF Effect, Findable, IsOrphan
  <2>1. ~ pos > Len(registry)
    BY <1>2
  <2>2. p # pos /\ pos' = pos + 1
    BY <1>1, <2>1
  <2> QED BY <1>1, <1>2, <2>1, <2>2
<1> QED BY <1>1, <1>3, <1>4, CleanUpEffect

\* An orphan is shut down, or removed and its item with it.
LEMMA OrphanEffect ==
  ASSUME Smooth, IInv', ~ failed', NEW i \in 1 .. Len(registry),
         RemoveOrphan(registry[i]) \/ ShutdownOrphan(registry[i])
  PROVE  Effect'
<1> DEFINE x == registry[pos]
           y == registry'[pos]
<1>1. /\ pc = "cleanup" /\ pos <= Len(registry) /\ pos' = pos + 1
      /\ UNCHANGED <<config, todo, pc>>
      /\ \/ /\ x.kind # "physical" /\ registry' = [registry EXCEPT ![pos].removed = TRUE]
            /\ kernel' = Without(x.idx)
         \/ /\ x.kind = "physical" /\ registry' = [registry EXCEPT ![pos].orphan = TRUE]
            /\ kernel' = SetUp(x.idx, FALSE)
  <2>1. x = registry[i]
    BY DEF RemoveOrphan, ShutdownOrphan, InCleanUp
  <2>2. RemoveOrphan(x) \/ ShutdownOrphan(x)
    BY <2>1
  <2> QED BY <2>2 DEF RemoveOrphan, ShutdownOrphan, InCleanUp, Failure, NoFailure
<1>2. /\ IInv /\ Effect /\ Waiting' = Waiting /\ pos \in 1 .. Len(registry) /\ Len(registry) \in Nat
      /\ registry \in Seq(RegistryItem) /\ kernel \subseteq KernelLink /\ pos \in Nat
  <2>1. IInv /\ Effect /\ Waiting' = Waiting /\ pos \in Nat /\ pos > 0
    BY <1>1 DEF Smooth, IInv, TodoOK, Waiting
  <2>2. registry \in Seq(RegistryItem) /\ kernel \subseteq KernelLink
    BY <2>1 DEF IInv, RegistryOK, KernelOK, LinksOK
  <2> QED BY <1>1, <2>1, <2>2
<1>3. x \in RegistryItem
  BY <1>2
<1>4. /\ Len(registry') = Len(registry)
      /\ \A q \in 1 .. Len(registry) : q = pos \/ registry'[q] = registry[q]
      /\ y.kind = x.kind /\ y.idx = x.idx /\ y.ns = x.ns /\ y.oldns = x.oldns /\ y.name = x.name
      /\ y.hw = x.hw /\ (x.kind = "physical" => y.orphan)
  <2>1. CASE registry' = [registry EXCEPT ![pos].removed = TRUE] /\ x.kind # "physical"
    BY <1>2, <1>3, <2>1 DEF RegistryItem
  <2>2. CASE registry' = [registry EXCEPT ![pos].orphan = TRUE]
    BY <1>2, <1>3, <2>2 DEF RegistryItem
  <2> QED BY <1>1, <2>1, <2>2
<1> HIDE DEF x, y
<1>5. ItemsStay
  <2>1. \A q \in 1 .. Len(registry) : ItemStays(registry[q], registry'[q])
    BY <1>4 DEF ItemStays, x, y
  <2> QED BY <1>2, <1>4, <2>1 DEF ItemsStay
<1>6. \A k \in kernel' : \E l \in kernel : Same(k, l)
  <2>1. CASE kernel' = Without(x.idx)
    <3>1. \A k \in Without(x.idx) : \E l \in kernel : k = l \/ k = [l EXCEPT !.master = None]
      BY DEF Without
    <3>2. \A l \in kernel : Same(l, l) /\ Same([l EXCEPT !.master = None], l)
      BY <1>2 DEF KernelLink, Same
    <3> SUFFICES ASSUME NEW k \in Without(x.idx) PROVE \E l \in kernel : Same(k, l)
      BY <2>1
    <3>3. PICK l \in kernel : k = l \/ k = [l EXCEPT !.master = None]
      BY <3>1
    <3>4. Same(l, l) /\ Same([l EXCEPT !.master = None], l)
      BY <3>2
    <3> QED BY <3>3, <3>4
  <2>2. CASE kernel' = SetUp(x.idx, FALSE)
    <3>1. PICK up \in BOOLEAN : kernel' = SetUp(x.idx, up)
      BY <2>2
    <3>2. \A k \in SetUp(x.idx, up) : \E l \in kernel : Same(k, l)
      BY <1>2, SetUpFacts
    <3> QED BY <3>1, <3>2
  <2> QED BY <1>1, <2>1, <2>2
<1>7. LinksStay
  BY <1>1, <1>6 DEF LinksStay, Same
<1>8. Findable'
  <2> SUFFICES ASSUME NEW c \in Waiting, NEW p \in 1 .. Len(registry), c.kind = "physical", c.hw = None,
                      registry'[p].kind = "physical", registry'[p].name = c.name
               PROVE  LET z == registry'[p] IN
                      /\ z.ns = z.oldns
                      /\ \/ z.ns = c.ns \/ z.orphan \/ z.name \in IgnoredName \/ (~ ManagesNs /\ z.ns # Root)
                         \/ pc' = "cleanup" /\ p >= pos' /\ IsOrphan(z)
    BY <1>2, <1>4 DEF Findable, IsOrphan
  <2>1. LET z == registry[p] IN
        /\ z.kind = "physical" /\ z.name = c.name /\ z.ns = z.oldns
        /\ \/ z.ns = c.ns \/ z.orphan \/ z.name \in IgnoredName \/ (~ ManagesNs /\ z.ns # Root)
           \/ p >= pos /\ IsOrphan(z)
    BY <1>2, <1>4 DEF Effect, Findable, x, y
  <2>2. CASE p = pos
    BY <1>4, <2>1, <2>2 DEF x, y
  <2>3. CASE p # pos
    <3>1. p >= pos => p >= pos'
      BY <1>1, <1>2, <2>3
    <3> QED BY <1>1, <1>4, <2>1, <2>3, <3>1
  <2> QED BY <2>2, <2>3
<1> QED BY <1>1, <1>2, <1>5, <1>7, <1>8, CleanUpEffect

\* The run is done.
LEMMA FinishedEffect == ASSUME Smooth, Finished PROVE Effect'
<1>1. /\ pc = "next" /\ pc' = "done" /\ UNCHANGED <<config, kernel, registry, todo, cur>>
      /\ Waiting' = Waiting /\ Effect
  BY DEF Finished, Smooth, Waiting
<1>2. Done' = Done
  BY <1>1 DEF Done, Between
<1>3. MastersFirst' /\ Unique'
  BY <1>1, <1>2 DEF Effect, MastersFirst, IsMaster, Unique
<1>4. Tracked'
  BY <1>1 DEF Effect, Tracked, NamedFor, ByName
<1>5. Findable' /\ NoneDone'
  BY <1>1, <1>2 DEF Effect, Findable, NoneDone
<1>6. DoneRight'
  BY <1>1, <1>2 DEF Effect, DoneRight, Creatable, Lost, Right, HasMaster, IndexOf, Named
<1>7. CurState' /\ CurPhysical' /\ CurLink'
  BY <1>1 DEF CurState, CurPhysical, CurLink, Between, InApply
<1> QED BY <1>3, <1>4, <1>5, <1>6, <1>7 DEF Effect

\* What every step does.
LEMMA StepFacts ==
  ASSUME [Next]_vars
  PROVE  config' = config /\ (StartRun \/ UNCHANGED vars \/ (pc # "idle" /\ (failed => failed')))
<1> DEFINE Goes == config' = config /\ pc # "idle" /\ (failed' = failed \/ failed' = TRUE)
<1>1. ASSUME NEW x, KeepItem(x) \/ RemoveOrphan(x) \/ ShutdownOrphan(x) PROVE Goes
  <2>1. CASE KeepItem(x)
    BY <2>1 DEF KeepItem, InCleanUp
  <2>2. CASE RemoveOrphan(x)
    BY <2>2 DEF RemoveOrphan, InCleanUp, Failure, NoFailure
  <2>3. CASE ShutdownOrphan(x)
    BY <2>3 DEF ShutdownOrphan, InCleanUp, Failure, NoFailure
  <2> HIDE DEF Goes
  <2> QED BY <1>1, <2>1, <2>2, <2>3
<1>2. CleanUpDone \/ Finished \/ Abort => Goes
  BY DEF CleanUpDone, Finished, Abort, Failure
<1>3. BeginLink \/ Compare \/ ShutDown => Goes
  BY DEF BeginLink, Compare, ShutDown, Failure, NoFailure
<1>4. MoveLink => Goes
  BY Zenon DEF MoveLink, Failure, Refused, NoFailure
<1>5. ClearName => Goes
  BY Zenon DEF ClearName, Failure, Refused, NoFailure
<1>6. SetLink => Goes
  BY Zenon DEF SetLink, Failure, Refused, NoFailure
<1>7. SetState \/ Updated \/ DeleteLink \/ CannotCreate \/ AddLink \/ AddFails => Goes
  BY DEF SetState, Updated, DeleteLink, CannotCreate, AddLink, AddFails, Failure, Refused, NoFailure
<1>8. MoveIn \/ RenameIn \/ SetBindState \/ SetMaster \/ NewState \/ AddPeer => Goes
  BY DEF MoveIn, RenameIn, SetBindState, SetMaster, NewState, AddPeer, Failure, Refused, NoFailure
<1>9. Goes => config' = config /\ pc # "idle" /\ (failed => failed')
  <2>1. CASE failed' = failed
    BY <2>1, Zenon
  <2>2. CASE failed' = TRUE
    BY <2>2
  <2> QED BY <2>1, <2>2, Zenon
<1> HIDE DEF Goes
<1>10. StartRun \/ UNCHANGED vars => config' = config
  BY DEF StartRun, vars
<1>11. StartRun \/ UNCHANGED vars \/ Goes
  BY <1>1, <1>2, <1>3, <1>4, <1>5, <1>6, <1>7, <1>8 DEF Next, CleanUpStep, LinkStep
<1> QED BY <1>9, <1>10, <1>11

\* Every step keeps it.
LEMMA NextEffect == ASSUME IInv, IInv', OrphanInv, EffectInv, [Next]_vars PROVE EffectInv'
<1> SUFFICES ASSUME Plain', pc' # "idle", ~ failed' PROVE Effect'
  BY DEF EffectInv
<1>1. Plain
  BY StepFacts DEF Plain
<1>2. CASE StartRun
  BY <1>2, StartRunEffect
<1>3. ~ StartRun /\ ~ UNCHANGED vars => Smooth
  BY <1>1, StepFacts DEF Smooth, EffectInv
<1>4. CASE Smooth /\ (CleanUpStep \/ Finished)
  BY <1>4, PassedEffect, OrphanEffect, FinishedEffect DEF CleanUpStep
<1>5. CASE Abort \/ AddFails
  BY <1>5 DEF Abort, AddFails, Failure, Refused
<1>6. CASE Smooth /\ AddPeer
  BY <1>6 DEF AddPeer, Smooth, Effect, CurState, Between
<1>7. CASE Smooth /\ (BeginLink \/ MoveLink \/ ClearName \/ Compare \/ ShutDown \/ SetLink \/ SetState)
  BY <1>7, BeginLinkEffect, MoveLinkEffect, ClearNameEffect, CompareEffect, ShutDownEffect,
     SetLinkEffect, SetStateEffect
<1>8. CASE Smooth /\ (Updated \/ DeleteLink \/ CannotCreate \/ AddLink)
  BY <1>8, UpdatedEffect, DeleteLinkEffect, CannotCreateEffect, AddLinkEffect
<1>9. CASE Smooth /\ (MoveIn \/ RenameIn \/ SetBindState \/ SetMaster \/ NewState)
  BY <1>9, MoveInEffect, RenameInEffect, SetBindStateEffect, SetMasterEffect, NewStateEffect
<1>10. CASE UNCHANGED vars
  <2>1. UNCHANGED <<config, kernel, registry, todo, pos, cur, pc, failed>>
    BY <1>10 DEF vars
  <2>2. Effect /\ Waiting' = Waiting
    BY <1>1, <2>1 DEF EffectInv, Waiting
  <2>3. Done' = Done
    BY <2>1, <2>2 DEF Done
  <2>4. MastersFirst' /\ Unique' /\ Tracked'
    BY <2>1, <2>2, <2>3 DEF Effect, MastersFirst, IsMaster, Unique, Tracked, NamedFor, ByName
  <2>5. Findable' /\ NoneDone'
    BY <2>1, <2>2, <2>3 DEF Effect, Findable, NoneDone
  <2>6. DoneRight'
    BY <2>1, <2>2, <2>3 DEF Effect, DoneRight, Creatable, Lost, Right, HasMaster, IndexOf, Named
  <2>7. CurState'
    BY <2>1, <2>2 DEF Effect, CurState, Creatable, Lost, Exists, IndexOf, Named
  <2>8. CurPhysical'
    BY <2>1, <2>2 DEF Effect, CurPhysical, ByName
  <2>9. CurLink'
    BY <2>1, <2>2 DEF Effect, CurLink, IsSet, ByName
  <2> QED BY <2>4, <2>5, <2>6, <2>7, <2>8, <2>9 DEF Effect
<1> QED BY <1>2, <1>3, <1>4, <1>5, <1>6, <1>7, <1>8, <1>9, <1>10 DEF Next, LinkStep

\* In a run in which no call has failed so far every configured link that the run is done
\* with is as configured, or lost, and what the next steps rely on is known right: where
\* the physical links are and what they are found as, that the master of a link is there
\* before it, and how far the link at hand has come.
THEOREM EffectInvariance == Spec => []EffectInv
<1>1. Init => EffectInv
  BY DEF Init, EffectInv
<1>2. IInv /\ IInv' /\ OrphanInv /\ EffectInv /\ [Next]_vars => EffectInv'
  BY NextEffect
<1> QED BY <1>1, <1>2, Invariance, OrphanInvariance, PTL DEF Spec

\* A run in which no call fails leaves every configured link in the kernel as it is
\* configured, whatever the kernel held, earlier runs left behind and the order within a
\* stage was: for all configurations whose masters are configured virtual links and that
\* have no veth link.
THEOREM RunTakesEffectHolds == Spec => [](Plain => RunTakesEffect)
<1>1. EffectInv /\ AllCome => (Plain => RunTakesEffect)
  <2> SUFFICES ASSUME EffectInv, AllCome, Plain, pc = "done", ~ failed
               PROVE  \A c \in config : Creatable(c) => Lost(c) \/ \E l \in kernel : Right(c, l)
    BY DEF RunTakesEffect
  <2>1. Effect /\ todo = <<>>
    BY DEF EffectInv, AllCome
  <2>2. Done = config
    BY <2>1 DEF Done, Waiting, Between
  <2> QED BY <2>1, <2>2 DEF Effect, DoneRight
<1> QED BY <1>1, EffectInvariance, OrphanInvariance, PTL
=============================================================================
