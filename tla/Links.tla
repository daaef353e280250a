------------------------------- MODULE Links -------------------------------
(***************************************************************************)
(* One `ifstate apply' on the links of a host: the registry is built from  *)
(* the kernel's links, links nobody configured are removed or shut down,   *)
(* and then each configured link is renamed, moved, updated, created or    *)
(* recreated (libifstate/__init__.py, link/base.py, link/veth.py,          *)
(* netns/__init__.py).  Every call to the kernel is a step of its own: a   *)
(* call may fail, and the run may be killed between any two of them.       *)
(***************************************************************************)
EXTENDS Naturals, Sequences, FiniteSets, SequencesExt

CONSTANTS
  Name, Ns, Root,   \* interface names; network namespaces, Root among them
  Hw, Attr,         \* identities of physical links; values of a link attribute
  None,
  FixedAttrKinds,   \* kinds of link whose attribute is set at creation only
  IgnoredName,      \* names on the `ignore' list
  ManagesNs,        \* the configuration has a `namespaces' setting
  Scenario,         \* <<configured links, the kernel's links beforehand, left>>
  MaxIdx, MaxRuns   \* bounds

Kinds     == {"physical", "dummy", "bond", "tunnel", "veth"}
BindKinds == {"tunnel", "veth"}    \* attr_bind_kinds
Idx       == 1 .. MaxIdx

\* <<n, 0>> is the name `n!' given to a link that is in the way of n, and
\* <<n, i>> the unique name of link i while it is moved
AnyName == Name \cup (Name \X (Idx \cup {0}))

ConfigRecord == [name : Name, ns : Ns, kind : Kinds, hw : Hw \cup {None},
                 bind : Ns, peer : Name \cup {None}, attr : Attr,
                 up : BOOLEAN \cup {None}, master : Name \cup {None}]

KernelLink == [idx : Idx, ns : Ns, name : AnyName, kind : Kinds, hw : Hw \cup {None},
               attr : Attr, up : BOOLEAN, master : Idx \cup {None}, peer : Idx \cup {None}]

\* oldns is the attribute `netns', which stays what it was when the link moves;
\* an item that was removed from the registry stays in its place
RegistryItem == [idx : Idx \cup {None}, ns : Ns, oldns : Ns, name : AnyName, kind : Kinds,
                 hw : Hw \cup {None}, claimed : BOOLEAN, orphan : BOOLEAN, removed : BOOLEAN]

\* A name once in a namespace and an index once; the name of a link that is being
\* moved is its own; only veth links have peers, only physical ones are hardware.
Coherent(K) ==
  /\ \A l, m \in K : l.idx = m.idx \/ (l.ns = m.ns /\ l.name = m.name) => l = m
  /\ \A l \in K : l.name \in Name \/ l.name[2] \in {0, l.idx}
  /\ \A l \in K : (l.peer # None => l.kind = "veth") /\ (l.hw # None => l.kind = "physical")
  /\ \A l, m \in K : l.hw # None /\ l.hw = m.hw => l = m

\* Names are unique in a namespace and hardware anywhere; no veth or tunnel is bound
\* to a namespace that has one of its kind and name.
Regular(F) ==
  /\ \A c, d \in F : (c.name = d.name /\ c.ns = d.ns) \/ (c.hw # None /\ c.hw = d.hw) => c = d
  /\ \A c \in F : /\ c.hw # None => c.kind = "physical"
                  /\ c.kind \notin BindKinds => c.bind = c.ns
                  /\ c.kind = "veth" => c.peer # None /\ (c.bind = c.ns => c.peer # c.name)
  /\ \A c, d \in F : c.kind = d.kind /\ c.name = d.name /\ c.bind = d.ns => c.bind = c.ns

\* A physical link that is known by its name, as no hardware is configured or it is
\* not there: it has the name alone, and no other configured hardware goes by it.
ByName(c, K) ==
  c.kind = "physical" /\ \A l \in K : c.hw # None /\ l.kind = "physical" => l.hw # c.hw
Recognisable(F, K) ==
  \A c, d \in F : ByName(c, K) /\ d.kind = "physical" /\ c # d =>
    c.name # d.name /\ \A l \in K : d.hw # None /\ l.hw = d.hw => l.name # c.name

ASSUME ConstantsAssumption ==
  /\ Root \in Ns /\ None \notin Name \cup Hw \cup Ns \cup Idx
  /\ "physical" \notin FixedAttrKinds
  /\ IgnoredName \subseteq Name /\ Name \cap (Name \X (Idx \cup {0})) = {}
  /\ Scenario \subseteq (SUBSET ConfigRecord) \X (SUBSET KernelLink) \X Nat
  /\ MaxIdx \in Nat \ {0} /\ MaxRuns \in Nat

ASSUME ScenarioAssumption ==
  \A s \in Scenario :
    /\ IsFiniteSet(s[1]) /\ Regular(s[1])
    /\ IsFiniteSet(s[2]) /\ Coherent(s[2]) /\ \A l \in s[2] : l.idx < MaxIdx
    /\ Recognisable(s[1], s[2])

VARIABLES
  config,     \* the configured links
  kernel,     \* the kernel's links
  bindfile,   \* /run/libifstate[/netns/<ns>]/bind/<idx>.mount
  nextidx,    \* the next interface index
  registry,   \* LinkRegistry.registry
  todo,       \* configured links the run has not come to yet
  pos,        \* the position of the clean-up in the registry
  cur,        \* the Link.apply that is running
  pc,
  left,       \* failures that may still happen
  failed,     \* a call of this run failed
  runs

vars == <<config, kernel, bindfile, nextidx, registry, todo, pos, cur, pc, left, failed,
          runs>>

PC == {"idle", "cleanup", "next", "move", "rename", "compare", "down", "set", "state",
       "updated", "del", "add", "movein", "renamein", "bind", "master", "newstate",
       "peer", "done"}

\* item is the position in the registry, 0 for none; up is None when no state is
\* set; errs says that the exception collector is not empty
NoLink == [link |-> None, item |-> 0, idx |-> None, master |-> None, up |-> None,
           errs |-> FALSE]

Init ==
  /\ \E s \in Scenario : config = s[1] /\ kernel = s[2] /\ left = s[3]
  /\ bindfile = [x \in Ns \X Idx |-> None]
  /\ nextidx = CHOOSE i \in Idx : \A l \in kernel : l.idx < i
  /\ registry = <<>> /\ todo = <<>> /\ pos = 0 /\ cur = NoLink /\ pc = "idle"
  /\ failed = FALSE /\ runs = 0

-----------------------------------------------------------------------------
(* The kernel                                                              *)

At(i)           == CHOOSE l \in kernel : l.idx = i
Exists(i)       == \E l \in kernel : l.idx = i
Named(ns, n)    == {l \in kernel : l.ns = ns /\ l.name = n}
IndexOf(ns, n)  == IF Named(ns, n) = {} THEN None ELSE (CHOOSE l \in Named(ns, n) : TRUE).idx

Changed(i, new) == {IF l.idx = i THEN new ELSE l : l \in kernel}

SetUp(i, up) == {IF l.idx = i THEN [l EXCEPT !.up = up] ELSE l : l \in kernel}

\* a veth link takes its peer along, a master frees its ports
Without(i) ==
  LET gone == {l \in kernel : l.idx = i \/ l.peer = i} IN
    {IF \E g \in gone : g.idx = l.master THEN [l EXCEPT !.master = None] ELSE l :
       l \in kernel \ gone}

NewLink(i, ns, n, c) ==
  [idx |-> i, ns |-> ns, name |-> n, kind |-> c.kind, hw |-> None, attr |-> c.attr,
   up |-> FALSE, master |-> None, peer |-> None]

\* `ip link add' in ns under name n; a veth link is created with its peer
Added(ns, n, c) ==
  IF c.kind = "veth"
    THEN kernel \cup {[NewLink(nextidx, ns, n, c) EXCEPT !.peer = nextidx + 1],
                      [NewLink(nextidx + 1, ns, c.peer, c) EXCEPT !.peer = nextidx]}
    ELSE kernel \cup {NewLink(nextidx, ns, n, c)}

\* EEXIST
Taken(ns, n, c) ==
  Named(ns, n) # {} \/ (c.kind = "veth" /\ Named(ns, c.peer) # {})

-----------------------------------------------------------------------------
(* The registry                                                            *)

Item(l) == [idx |-> l.idx, ns |-> l.ns, oldns |-> l.ns, name |-> l.name, kind |-> l.kind,
            hw |-> l.hw, claimed |-> FALSE, orphan |-> FALSE, removed |-> FALSE]

\* inventory_netns, over the root namespace and then the others
Before(m, l) == \/ m.ns = Root /\ l.ns # Root
                \/ (m.ns = Root <=> l.ns = Root) /\ m.idx < l.idx
Inventory ==
  LET At0(p) == CHOOSE l \in kernel : Cardinality({m \in kernel : Before(m, l)}) = p
  IN  [p \in 1 .. Cardinality(kernel) |-> Item(At0(p - 1))]

\* search_link_registry: the first item with the businfo or permanent address,
\* then one with the name, then, for a physical link, the orphan of any
\* namespace with the name
Search(reg, c) ==
  LET First(S) == IF S = {} THEN 0 ELSE Min(S)
      Items    == {p \in 1 .. Len(reg) : reg[p].kind = c.kind /\ ~ reg[p].removed}
      hw       == First({p \in Items : c.hw # None /\ reg[p].hw = c.hw})
      name     == First({p \in Items : reg[p].name = c.name /\ reg[p].oldns = c.ns})
      orphan   == First({p \in Items : reg[p].kind = "physical" /\ reg[p].name = c.name
                                         /\ reg[p].orphan})
  IN  IF hw # 0 THEN hw ELSE IF name # 0 THEN name ELSE orphan

\* the constructor of every configured link claims the item it finds
Claimed(reg) ==
  [p \in 1 .. Len(reg) |->
     [reg[p] EXCEPT !.claimed = \E c \in config : Search(reg, c) = p]]

\* Every order in which no link comes before its master: what the stages of
\* module Stages allow.
Orders ==
  {s \in [1 .. Cardinality(config) -> config] :
     /\ \A i, j \in DOMAIN s : i # j => s[i] # s[j]
     /\ \A i, j \in DOMAIN s : i < j => ~ (s[i].master = s[j].name /\ s[i].ns = s[j].ns)}

-----------------------------------------------------------------------------
(* Failures                                                                *)

\* the call the run is at fails: a netlink error
Failure ==
  /\ left > 0
  /\ left' = left - 1
  /\ failed' = TRUE

\* the call fails, as the name exists already
Refused ==
  /\ failed' = TRUE
  /\ UNCHANGED left

NoFailure == UNCHANGED <<left, failed>>

\* the process is killed, or an exception nobody expects ends it
Abort ==
  /\ pc \notin {"idle", "done"}
  /\ Failure
  /\ pc' = "idle"
  /\ UNCHANGED <<config, kernel, bindfile, nextidx, registry, todo, pos, cur, runs>>

-----------------------------------------------------------------------------
(* IfState.update and the clean-up of orphan links                         *)

StartRun ==
  /\ pc \in {"idle", "done"}
  /\ runs < MaxRuns
  /\ runs' = runs + 1
  /\ registry' = Claimed(Inventory)
  /\ todo' \in Orders
  /\ pc' = "cleanup"
  /\ pos' = 1
  /\ failed' = FALSE
  /\ UNCHANGED <<config, kernel, bindfile, nextidx, cur, left>>

IsOrphan(x) ==
  /\ ~ x.claimed
  /\ x.name \notin IgnoredName
  /\ ManagesNs \/ x.ns = Root

InCleanUp(x) == pc = "cleanup" /\ pos <= Len(registry) /\ registry[pos] = x

KeepItem(x) ==
  /\ InCleanUp(x)
  /\ ~ IsOrphan(x)
  /\ pos' = pos + 1
  /\ UNCHANGED <<config, kernel, bindfile, nextidx, registry, todo, cur, pc, left,
                 failed, runs>>

\* free_registry_item of a virtual link; that it is gone already (the peer of a
\* veth link that was removed before) is no error; the item leaves the registry
RemoveOrphan(x) ==
  /\ InCleanUp(x)
  /\ IsOrphan(x) /\ x.kind # "physical"
  /\ pos' = pos + 1
  /\ registry' = [registry EXCEPT ![pos].removed = TRUE]
  /\ \/ kernel' = Without(x.idx) /\ NoFailure
     \/ kernel' \in {kernel, SetUp(x.idx, FALSE)} /\ Failure
  /\ UNCHANGED <<config, bindfile, nextidx, todo, cur, pc, runs>>

\* (mutant of ShutdownOrphan: orphan physical links stay up)
ShutdownOrphanKeep(x) ==
  /\ InCleanUp(x) /\ IsOrphan(x) /\ x.kind = "physical"
  /\ pos' = pos + 1
  /\ registry' = [registry EXCEPT ![pos].orphan = TRUE]
  /\ UNCHANGED <<config, kernel, bindfile, nextidx, todo, cur, pc, left, failed,
                 runs>>

\* free_registry_item of a physical link
ShutdownOrphan(x) ==
  /\ InCleanUp(x)
  /\ IsOrphan(x) /\ x.kind = "physical"
  /\ pos' = pos + 1
  /\ registry' = [registry EXCEPT ![pos].orphan = TRUE]
  /\ \/ kernel' = SetUp(x.idx, FALSE) /\ NoFailure
     \/ At(x.idx).up /\ kernel' = kernel /\ Failure
  /\ UNCHANGED <<config, bindfile, nextidx, todo, cur, pc, runs>>

\* the items that RemoveOrphan has marked are out of the registry
CleanUpDone ==
  /\ pc = "cleanup" /\ pos > Len(registry)
  /\ pc' = "next"
  /\ UNCHANGED <<config, kernel, bindfile, nextidx, registry, todo, cur, pos, left,
                 failed, runs>>

-----------------------------------------------------------------------------
(* Link.apply                                                              *)

\* Where a link that was looked up in the registry goes on.  That the index is gone
\* is an error of get_link: the one of other namespaces returns nothing, the one of
\* the root namespace raises a NameError, which ends the run.
AfterLookUp(c, p) ==
  IF p = 0 THEN "add"
  ELSE LET x == registry[p] IN
    IF c.kind \in BindKinds /\ bindfile[<<x.ns, x.idx>>] # c.bind THEN "del"
    ELSE IF x.ns # c.ns THEN "move"
         ELSE IF \E l \in kernel : l.idx = x.idx /\ l.ns = c.ns THEN "rename"
         ELSE IF x.idx # None /\ c.ns = Root THEN "idle" ELSE "add"

\* a master that is not there is left out, and the link stays down
BeginLink ==
  /\ pc = "next" /\ todo # <<>>
  /\ LET c  == Head(todo)
         m  == IF c.master = None THEN None ELSE IndexOf(c.ns, c.master)
         up == IF c.master # None /\ m = None THEN FALSE ELSE c.up
         p  == Search(registry, c)
     IN  /\ cur' = [link |-> c, item |-> p, idx |-> IF p = 0 THEN None ELSE registry[p].idx,
                    master |-> m, up |-> up, errs |-> FALSE]
         /\ registry' = IF p = 0 THEN registry ELSE [registry EXCEPT ![p].claimed = TRUE]
         /\ pc' = AfterLookUp(c, p)
  /\ todo' = Tail(todo)
  /\ UNCHANGED <<config, kernel, bindfile, nextidx, pos, left, failed, runs>>

Finished ==
  /\ pc = "next" /\ todo = <<>>
  /\ pc' = "done"
  /\ UNCHANGED <<config, kernel, bindfile, nextidx, registry, todo, cur, pos, left,
                 failed, runs>>

\* update_netns: a link of the same name in the target namespace makes it take
\* another name first; a move shuts the link down.  The link is then looked up by
\* the name the registry has for it, and is not found if it was put out of the way
\* before.  After an error the link is shut down where it is and left alone.
MoveLink ==
  LET l     == At(cur.idx)
      known == registry[cur.item].name
      clear == Named(cur.link.ns, known) = {}
      n     == IF clear THEN l.name ELSE <<cur.link.name, l.idx>>
      name  == IF clear THEN known ELSE n
      free  == Named(cur.link.ns, n) = {}
      idx   == IF n = name THEN cur.idx ELSE None
  IN
  /\ pc = "move"
  /\ \/ /\ free
        /\ kernel' = Changed(cur.idx, [l EXCEPT !.ns = cur.link.ns, !.name = n,
                                               !.up = FALSE, !.master = None])
        /\ registry' = [registry EXCEPT ![cur.item].ns = cur.link.ns, ![cur.item].name = name,
                                        ![cur.item].idx = idx]
        /\ cur' = [cur EXCEPT !.idx = idx]
        /\ pc' = IF idx = None THEN "add" ELSE "rename"
        /\ NoFailure
     \/ /\ \E k \in {l.name, n} :
             kernel' = Changed(cur.idx, [l EXCEPT !.up = FALSE, !.name = k])
        /\ registry' = [registry EXCEPT ![cur.item].name = name]
        /\ UNCHANGED cur
        /\ pc' = "next"
        /\ IF free THEN Failure ELSE Refused
  /\ UNCHANGED <<config, bindfile, nextidx, todo, pos, runs>>

\* another link that has the name is shut down and renamed
ClearName ==
  LET c      == cur.link
      others == {l \in Named(c.ns, c.name) : l.idx # cur.idx}
      free   == Named(c.ns, <<c.name, 0>>) = {}
  IN
  /\ pc = "rename"
  /\ pc' = "compare"
  /\ \/ /\ others = {} \/ free
        /\ kernel' = (kernel \ others) \cup
                       {[l EXCEPT !.up = FALSE, !.name = <<c.name, 0>>] : l \in others}
        /\ UNCHANGED cur /\ NoFailure
     \/ /\ others # {}
        /\ kernel' \in {kernel, (kernel \ others) \cup {[l EXCEPT !.up = FALSE] : l \in others}}
        /\ cur' = [cur EXCEPT !.errs = TRUE]
        /\ IF free THEN Failure ELSE Refused
  /\ UNCHANGED <<config, bindfile, nextidx, registry, todo, pos, runs>>

\* VethLink.get_if_attr looks the peer up in bind_netns: an exception that nobody
\* catches if it is not there
PeerIsElsewhere(l) ==
  cur.link.kind = "veth" /\ l.peer # None /\ At(l.peer).ns # cur.link.bind

\* what update compares; an attribute that is not configured is not
PeerName(l) == IF l.peer = None THEN None ELSE At(l.peer).name

\* (mutant of LinkDiffers: the index of the peer is compared with its name)
LinkDiffersPeerIndex(l) ==
  \/ l.name # cur.link.name \/ l.attr # cur.link.attr
  \/ cur.master # None /\ l.master # cur.master
  \/ cur.link.kind = "veth" /\ l.peer # cur.link.peer

LinkDiffers(l) ==
  \/ l.name # cur.link.name
  \/ l.attr # cur.link.attr
  \/ cur.master # None /\ l.master # cur.master
  \/ cur.link.kind = "veth" /\ PeerName(l) # cur.link.peer

Compare ==
  LET l == At(cur.idx) IN
  /\ pc = "compare"
  /\ pc' = IF PeerIsElsewhere(l) THEN "idle"
           ELSE IF LinkDiffers(l) THEN (IF l.up THEN "down" ELSE "set")
           ELSE IF cur.up # None /\ cur.up # l.up THEN "state" ELSE "updated"
  /\ cur' = IF pc' = "down" /\ cur.up = None THEN [cur EXCEPT !.up = TRUE] ELSE cur
  /\ UNCHANGED <<config, kernel, bindfile, nextidx, registry, todo, pos, left,
                 failed, runs>>

ShutDown ==
  /\ pc = "down"
  /\ pc' = "set"
  /\ \/ kernel' = SetUp(cur.idx, FALSE) /\ UNCHANGED cur /\ NoFailure
     \/ kernel' = kernel /\ cur' = [cur EXCEPT !.errs = TRUE] /\ Failure
  /\ UNCHANGED <<config, bindfile, nextidx, registry, todo, pos, runs>>

\* `ip link set' and the check that the settings took effect
SetLink ==
  LET l     == At(cur.idx)
      c     == cur.link
      fixed == l.kind \in FixedAttrKinds
      taken == \E k \in Named(c.ns, c.name) : k.idx # cur.idx
  IN
  /\ pc = "set"
  /\ pc' = IF cur.up # None THEN "state" ELSE "updated"
  /\ \/ /\ ~ taken
        /\ kernel' = Changed(cur.idx, [l EXCEPT
             !.name = c.name,
             !.attr = IF fixed THEN @ ELSE c.attr,
             !.master = IF cur.master = None THEN @ ELSE cur.master])
        /\ cur' = [cur EXCEPT !.errs = @ \/ (fixed /\ l.attr # c.attr)]
        /\ NoFailure
     \/ /\ kernel' = kernel
        /\ cur' = [cur EXCEPT !.errs = TRUE]
        /\ IF taken THEN Refused ELSE Failure
  /\ UNCHANGED <<config, bindfile, nextidx, registry, todo, pos, runs>>

SetState ==
  /\ pc = "state"
  /\ pc' = "updated"
  /\ \/ kernel' = SetUp(cur.idx, cur.up) /\ UNCHANGED cur /\ NoFailure
     \/ kernel' = kernel /\ cur' = [cur EXCEPT !.errs = TRUE] /\ Failure
  /\ UNCHANGED <<config, bindfile, nextidx, registry, todo, pos, runs>>

\* (mutant of Updated: a virtual link that could not be updated is not recreated)
UpdatedKeep == pc = "updated" /\ pc' = "next" /\
  UNCHANGED <<config, kernel, bindfile, nextidx, registry, todo, cur, pos, left,
              failed, runs>>

\* a virtual link that could not be updated is recreated
Updated ==
  /\ pc = "updated"
  /\ pc' = IF cur.errs /\ cur.link.kind # "physical" THEN "del" ELSE "next"
  /\ UNCHANGED <<config, kernel, bindfile, nextidx, registry, todo, cur, pos, left,
                 failed, runs>>

-----------------------------------------------------------------------------
(* Link.recreate and Link.create                                           *)

\* the index is deleted in the namespace of the configured link, and nothing
\* happens when it is not there
DeleteLink ==
  /\ pc = "del"
  /\ pc' = "add"
  /\ \/ /\ kernel' = IF \E l \in kernel : l.idx = cur.idx /\ l.ns = cur.link.ns
                     THEN Without(cur.idx) ELSE kernel
        /\ NoFailure
     \/ kernel' = kernel /\ Failure
  /\ UNCHANGED <<config, bindfile, nextidx, registry, todo, cur, pos, runs>>

\* PhysicalLink.create
CannotCreate ==
  /\ pc = "add" /\ cur.link.kind = "physical"
  /\ pc' = "next"
  /\ UNCHANGED <<config, kernel, bindfile, nextidx, registry, todo, cur, pos, left,
                 failed, runs>>

Bound == cur.link.kind \in BindKinds /\ cur.link.bind # cur.link.ns

AddLink ==
  LET c  == cur.link
      ns == IF Bound THEN c.bind ELSE c.ns
      n  == IF Bound THEN <<c.name, nextidx>> ELSE c.name
  IN
  /\ pc = "add" /\ c.kind # "physical"
  /\ nextidx < MaxIdx
  /\ ~ Taken(ns, n, c)
  /\ kernel' = Added(ns, n, c)
  /\ nextidx' = IF c.kind = "veth" THEN nextidx + 2 ELSE nextidx + 1
  /\ registry' = Append(registry,
       Item(NewLink(nextidx, ns, n, c)))
  /\ cur' = [cur EXCEPT !.idx = nextidx, !.item = Len(registry) + 1]
  /\ pc' = IF Bound THEN "movein" ELSE IF c.kind \in BindKinds THEN "bind" ELSE "master"
  /\ UNCHANGED <<config, bindfile, todo, pos, left, failed, runs>>

\* (mutant of NotAdded: create goes on without looking whether the link is there)
NotAddedGoOn(c) == pc' = "bind"

\* the link could not be added, or not be moved and renamed
NotAdded(c) == pc' = IF c.kind = "veth" THEN "peer" ELSE "next"

\* the name exists already, or the call fails
AddFails ==
  LET c  == cur.link
      ns == IF Bound THEN c.bind ELSE c.ns
      n  == IF Bound THEN <<c.name, nextidx>> ELSE c.name
  IN
  /\ pc = "add" /\ c.kind # "physical"
  /\ IF Taken(ns, n, c) THEN Refused ELSE Failure
  /\ NotAdded(c)
  /\ UNCHANGED <<config, kernel, bindfile, nextidx, registry, todo, cur, pos, runs>>

\* update_netns and update_ifname of a link that was created in its bind_netns
MoveIn ==
  LET c == cur.link IN
  /\ pc = "movein"
  /\ \/ /\ kernel' = Changed(cur.idx, [At(cur.idx) EXCEPT !.ns = c.ns])
        /\ registry' = [registry EXCEPT ![cur.item].ns = c.ns]
        /\ pc' = "renamein" /\ NoFailure
     \/ UNCHANGED <<kernel, registry>> /\ NotAdded(c) /\ Failure
  /\ UNCHANGED <<config, bindfile, nextidx, todo, cur, pos, runs>>

RenameIn ==
  LET c == cur.link
      free == Named(c.ns, c.name) = {}
  IN
  /\ pc = "renamein"
  /\ registry' = [registry EXCEPT ![cur.item].name = c.name]
  /\ \/ /\ free
        /\ kernel' = Changed(cur.idx, [At(cur.idx) EXCEPT !.name = c.name])
        /\ pc' = "bind" /\ NoFailure
     \/ /\ kernel' = kernel /\ NotAdded(c)
        /\ IF free THEN Failure ELSE Refused
  /\ UNCHANGED <<config, bindfile, nextidx, todo, cur, pos, runs>>

\* set_bind_state; VethLink.set_bind_state does it for the peer, too
SetBindState ==
  LET c    == cur.link
      peer == IF c.kind = "veth" THEN <<c.bind, At(cur.idx).peer>> ELSE <<c.ns, cur.idx>>
  IN
  /\ pc = "bind"
  /\ pc' = "master"
  /\ \/ /\ bindfile' = [bindfile EXCEPT ![peer] = IF c.kind = "veth" THEN c.ns ELSE c.bind,
                                         ![<<c.ns, cur.idx>>] = c.bind]
        /\ NoFailure
     \/ UNCHANGED bindfile /\ Failure
  /\ UNCHANGED <<config, kernel, nextidx, registry, todo, cur, pos, runs>>

SetMaster ==
  /\ pc = "master"
  /\ pc' = "newstate"
  /\ \/ /\ kernel' = IF cur.master = None THEN kernel
                     ELSE Changed(cur.idx, [At(cur.idx) EXCEPT !.master = cur.master])
        /\ NoFailure
     \/ cur.master # None /\ kernel' = kernel /\ Failure
  /\ UNCHANGED <<config, bindfile, nextidx, registry, todo, cur, pos, runs>>

NewState ==
  /\ pc = "newstate"
  /\ pc' = IF cur.link.kind = "veth" THEN "peer" ELSE "next"
  /\ \/ kernel' = (IF cur.up = None THEN kernel ELSE SetUp(cur.idx, cur.up)) /\ NoFailure
     \/ cur.up # None /\ kernel' = kernel /\ Failure
  /\ UNCHANGED <<config, bindfile, nextidx, registry, todo, cur, pos, runs>>

\* VethLink.create appends the peer to the registry, also when the link could
\* not be added; without a peer that raises an exception nobody catches
AddPeer ==
  LET peers == Named(cur.link.bind, cur.link.peer) IN
  /\ pc = "peer"
  /\ IF peers = {}
       THEN pc' = "idle" /\ UNCHANGED registry
       ELSE /\ registry' = Append(registry, Item(CHOOSE l \in peers : TRUE))
            /\ pc' = "next"
  /\ UNCHANGED <<config, kernel, bindfile, nextidx, todo, cur, pos, left, failed,
                 runs>>

-----------------------------------------------------------------------------
LinkStep ==
  \/ BeginLink \/ MoveLink \/ ClearName \/ Compare \/ ShutDown \/ SetLink \/ SetState
  \/ Updated \/ DeleteLink \/ CannotCreate \/ AddLink \/ AddFails \/ MoveIn
  \/ RenameIn \/ SetBindState \/ SetMaster \/ NewState \/ AddPeer

CleanUpStep ==
  \/ \E p \in 1 .. Len(registry) :
       KeepItem(registry[p]) \/ RemoveOrphan(registry[p]) \/ ShutdownOrphan(registry[p])
  \/ CleanUpDone

Next == StartRun \/ CleanUpStep \/ LinkStep \/ Finished \/ Abort

Spec == Init /\ [][Next]_vars

-----------------------------------------------------------------------------
(* Properties                                                              *)

\* The types; a name is given once in a namespace and an index once; a call in
\* the middle of Link.apply is made on a link that exists.
TypeOK ==
  /\ kernel \subseteq KernelLink
  /\ bindfile \in [Ns \X Idx -> Ns \cup {None}]
  /\ registry \in Seq(RegistryItem)
  /\ pc \in PC
  /\ \A l, m \in kernel : l.idx = m.idx \/ (l.ns = m.ns /\ l.name = m.name) => l = m
  /\ pc \in PC \ {"idle", "cleanup", "next", "updated", "del", "add", "peer", "done"}
       => Exists(cur.idx)

\* kernel link l is what the configuration says of c; a master that is not there
\* is left out, and then the link is down
HasMaster(c) == c.master # None /\ IndexOf(c.ns, c.master) # None
Right(c, l) ==
  /\ l.name = c.name /\ l.ns = c.ns /\ l.kind = c.kind /\ l.attr = c.attr
  /\ c.hw # None => l.hw = c.hw
  /\ HasMaster(c) => l.master = IndexOf(c.ns, c.master)
  /\ c.kind = "veth" => l.peer \in {m.idx : m \in Named(c.bind, c.peer)}
  /\ IF c.master # None /\ ~ HasMaster(c) THEN ~ l.up ELSE c.up \in {None, l.up}

\* a physical link has to be there, and where it is looked for if it is known by its
\* name only: in its namespace, or among what the clean-up shuts down anywhere
Creatable(c) == c.kind = "physical" =>
  \E l \in kernel : /\ l.kind = "physical"
                    /\ IF c.hw # None THEN l.hw = c.hw
                       ELSE /\ l.name = c.name
                            /\ \/ l.ns = c.ns
                               \/ c.name \notin IgnoredName /\ (ManagesNs \/ l.ns = Root)

\* the registry does not find the link any more that c is about (MoveLink)
Lost(c) == \E p \in 1 .. Len(registry) : p = Search(registry, c) /\ registry[p].idx = None

AllRight == \A c \in config : Creatable(c) => \E l \in kernel : Right(c, l)

\* A run in which no call fails leaves every configured link in the kernel as it
\* is configured, whatever the kernel held, an earlier run that failed or was
\* killed left behind, and the order within a stage was; but for links that were
\* in the way of another one and had then to be moved.
RunTakesEffect ==
  pc = "done" /\ ~ failed =>
    \A c \in config : Creatable(c) => Lost(c) \/ \E l \in kernel : Right(c, l)

\* It leaves no virtual link that is neither configured nor ignored nor a peer,
\* and no such physical link up.  A link of an ignored name that was in the way of
\* a configured one has the name it was given since.
IsConfigured(l) == \E c \in config : c.kind = l.kind /\ c.ns = l.ns /\ c.name = l.name
IsPermitted(l) ==
  \/ IsConfigured(l) \/ l.peer # None
  \/ l.name \in IgnoredName \cup (IgnoredName \X {0})
  \/ ~ ManagesNs /\ l.ns # Root
  \/ l.kind = "physical" /\ ~ l.up
OrphansGone == pc = "done" /\ ~ failed => \A l \in kernel : IsPermitted(l)

\* Once everything is as configured, and what the links were bound to is known,
\* a run in which no call fails neither replaces a link nor undoes a setting,
\* not even for a moment: apply is idempotent.
AllKnown == \A c \in config : c.kind \in BindKinds =>
  \A l \in Named(c.ns, c.name) : bindfile[<<c.ns, l.idx>>] = c.bind
Settled == AllRight /\ AllKnown
Indices == {l.idx : l \in {k \in kernel : IsConfigured(k)}}
Idempotent == [][Settled /\ ~ failed' => AllRight' /\ Indices \subseteq Indices']_vars
=============================================================================
