---------------------------- MODULE Parts_proofs ----------------------------
(* Theorems about Parts: one interface with its traffic control, XDP and BPF   *)
(* programs beside what Interface has, for every setup.  That the steps of     *)
(* Interface keep its invariant is proved in Interface_proofs; here are those  *)
(* of Tc and Xdp, and that none of the parts disturbs another one.             *)
EXTENDS Parts, Interface_proofs

-----------------------------------------------------------------------------
(* The inductive invariant                                                 *)

\* the filter that entry m of the configured list asks for
FilterOf(m) ==
  [parent |-> T!ParentOf(tcwish.filter[m]), prio |-> T!Prio(m), rule |-> tcwish.filter[m].rule]

NamedBy(m, f) == tcwish.filter[m].parent = f.parent /\ T!Prio(m) = f.prio

\* the entries before k are done in F: it has their filters, and all others are such that
\* a later entry names
DoneBefore(k, F) ==
  /\ \A f \in F :
       \/ \E m \in T!TcFilters : m < k /\ f = FilterOf(m)
       \/ \E m \in T!TcFilters : m >= k /\ NamedBy(m, f)
  /\ \A m \in T!TcFilters : m < k => FilterOf(m) \in F

FiltersDone == DoneBefore(j, tc.filters)

TcBase == T!TcTypeOK /\ tcwish \in T!TcWish /\ T!TcDistinct(tcwish)

TcInv ==
  /\ TcBase
  /\ tpc = "addqdisc" =>
       tcwish.qdisc \notin {NotSet, None} /\ (~ failed => tc.root = None)
  /\ tpc \in {"delfilter", "setfilter", "addfilter"} => tcwish.filter # NotSet
  /\ tpc = "delfilter" =>
       /\ j = 1
       /\ ~ failed => \A f \in tc.filters : T!Referenced(f) \/ <<f.parent, f.prio>> \in todo
  /\ tpc \in {"setfilter", "addfilter"} =>
       j \in 1 .. Len(tcwish.filter) + 1 /\ (~ failed => FiltersDone)
  /\ tpc = "addfilter" =>
       /\ j \in T!TcFilters /\ T!HasQdisc(T!ParentOf(tcwish.filter[j]))
       /\ T!OldFilters = {}
  /\ ~ failed =>
       /\ tpc \in {"qdisc", "addqdisc", "filters", "delfilter", "setfilter", "addfilter", "done"} =>
            tcwish.ingress \in {NotSet, tc.ingress}
       /\ tpc \in {"filters", "delfilter", "setfilter", "addfilter", "done"} =>
            tcwish.qdisc \in {NotSet, tc.root}
       /\ tpc = "done" => T!TcRight

\* the program that is attached is the configured one, or none is configured
Attached ==
  xdpwish.from \in {"pinned", "bpf"} /\ X!WantedProg # None =>
    xdp.prog = X!WantedProg /\ xdpwish.mode \in {"auto", xdp.mode}

Pinned == xdp.pin = xdpwish.object

XdpBase == X!XdpTypeOK /\ xdpwish \in X!XdpWish /\ XdpDistinct(xdpwish)

XdpInv ==
  /\ XdpBase
  /\ bpc = "load" => ~ xdpwish.vrrp /\ xdpwish.object # NotSet /\ (~ failed => tag = xdp.pin)
  /\ bpc \in {"unlink", "pin", "rmmaps", "maps"} => tag = xdpwish.object /\ xdpwish.object \in Prog
  /\ bpc \in {"rmmaps", "maps"} /\ ~ failed => Pinned
  /\ bpc = "done" /\ ~ failed /\ ~ xdpwish.vrrp /\ xdpwish.object \notin {None, NotSet} =>
       tag = xdpwish.object /\ Pinned
  /\ xpc \in {"set", "detach", "setagain"} =>
       /\ xdpwish.from \in {"pinned", "bpf"}
       /\ ~ failed => ~ X!SameProgram(xdp.prog, new)
       /\ ~ failed /\ X!WantedProg # None => new = X!WantedProg
  /\ xpc = "done" /\ ~ failed => Attached

\* what comes before the addresses is done when they are begun
Order == pc \notin {"idle", "sysctl"} => bpc = "done" /\ tpc = "done" /\ xpc = "done"

PartsInv == IInv /\ TcInv /\ XdpInv /\ Order

-----------------------------------------------------------------------------
(* Traffic control: qdiscs                                                 *)

LEMMA TcFacts ==
  ASSUME TcBase
  PROVE  /\ tc = [ingress |-> tc.ingress, root |-> tc.root, filters |-> tc.filters]
         /\ tc.ingress \in BOOLEAN /\ tc.root \in {None} \cup T!Qdisc
         /\ \A f \in tc.filters : T!QdiscIn(tc, f.parent) /\ f.parent # NotSet
         /\ \A f, g \in tc.filters : f.parent = g.parent /\ f.prio = g.prio => f = g
         /\ tcwish.ingress \in {NotSet} \cup BOOLEAN
         /\ tcwish.qdisc \in {None, NotSet} \cup T!Qdisc
<1>1. T!TcCoherent(tc) /\ tcwish \in T!TcWish
  BY DEF TcBase, T!TcTypeOK
<1>2. /\ tc = [ingress |-> tc.ingress, root |-> tc.root, filters |-> tc.filters]
      /\ tc.ingress \in BOOLEAN /\ tc.root \in {None} \cup T!Qdisc
  BY <1>1 DEF T!TcCoherent
<1>3. /\ \A f \in tc.filters : T!QdiscIn(tc, f.parent)
      /\ \A f, g \in tc.filters : f.parent = g.parent /\ f.prio = g.prio => f = g
  BY <1>1 DEF T!TcCoherent
<1>4. \A h : T!QdiscIn(tc, h) => h # NotSet
  BY <1>2, PartsConstantsAssumption DEF T!QdiscIn, T!Qdisc
<1>5. tcwish.ingress \in {NotSet} \cup BOOLEAN /\ tcwish.qdisc \in {None, NotSet} \cup T!Qdisc
  BY <1>1 DEF T!TcWish
<1> QED BY <1>2, <1>3, <1>4, <1>5

\* the kernel's state after a call
LEMMA TcBecomes ==
  ASSUME TcBase, tcwish' = tcwish,
         NEW on \in BOOLEAN, NEW q \in {None} \cup T!Qdisc, NEW F,
         tc' = [ingress |-> on, root |-> q, filters |-> F],
         \A f \in F : IF f.parent = Ingress THEN on ELSE q # None /\ q.handle = f.parent,
         \A f, g \in F : f.parent = g.parent /\ f.prio = g.prio => f = g
  PROVE  TcBase' /\ tc'.ingress = on /\ tc'.root = q /\ tc'.filters = F
<1>1. PICK t : t = [ingress |-> on, root |-> q, filters |-> F]
  OBVIOUS
<1>2. t.ingress = on /\ t.root = q /\ t.filters = F
  BY <1>1
<1>3. \A f \in F : T!QdiscIn(t, f.parent)
  BY <1>2 DEF T!QdiscIn
<1>4. t \in [ingress : BOOLEAN, root : {None} \cup T!Qdisc, filters : SUBSET F]
  BY <1>1
<1>5. T!TcCoherent(t)
  BY <1>2, <1>3, <1>4 DEF T!TcCoherent
<1>6. tc' = t
  BY <1>1
<1> QED BY <1>2, <1>5, <1>6 DEF TcBase, T!TcTypeOK

LEMMA TcSame ==
  ASSUME TcBase, tc' = tc, tcwish' = tcwish
  PROVE  TcBase' /\ T!TcKeeps
<1>1. TcBase'
  BY DEF TcBase, T!TcTypeOK
<1>2. tc.root # None => [tc.root EXCEPT !.opt = tc.root.opt] = tc.root
  BY TcFacts DEF T!Qdisc
<1>3. tcwish.filter = NotSet =>
        \A f \in tc.filters :
          (IF f.parent = Ingress THEN T!IngressKept ELSE T!RootKept) => f \in tc'.filters
  OBVIOUS
<1>4. T!TcKeeps
  BY <1>2, <1>3 DEF T!TcKeeps
<1> QED BY <1>1, <1>4

LEMMA IngressKeeps ==
  ASSUME TcInv, T!BeginTc \/ T!LeaveIngress \/ T!ApplyIngress
  PROVE  TcInv' /\ T!TcKeeps
<1>0. TcBase /\ tcwish' = tcwish
  BY DEF TcInv, T!BeginTc, T!LeaveIngress, T!ApplyIngress, T!rest
<1>1. CASE T!BeginTc
  <2>1. tc' = tc /\ tpc' = "ingress"
    BY <1>1 DEF T!BeginTc
  <2> QED BY <1>0, <2>1, TcSame DEF TcInv
<1>2. CASE T!LeaveIngress
  <2>1. tc' = tc /\ tpc' = "qdisc" /\ tcwish.ingress \in {NotSet, tc.ingress}
    BY <1>2 DEF T!LeaveIngress
  <2> QED BY <1>0, <2>1, TcSame DEF TcInv
<1>3. CASE T!ApplyIngress
  <2>1. /\ tpc' = "qdisc" /\ tcwish.ingress \notin {NotSet, tc.ingress}
        /\ \/ tc' = T!WithIngress(tc, tcwish.ingress)
           \/ tc' = tc /\ failed' = TRUE
    BY <1>3 DEF T!ApplyIngress, T!TcFailure
  <2>2. CASE tc' = tc /\ failed' = TRUE
    BY <1>0, <2>1, <2>2, TcSame DEF TcInv
  <2>3. CASE tc' = T!WithIngress(tc, tcwish.ingress)
    <3>1. PICK on \in BOOLEAN : on = tcwish.ingress
      BY <1>0, <2>1, TcFacts
    <3>2. PICK F : F = IF on THEN tc.filters ELSE {f \in tc.filters : f.parent # Ingress}
      OBVIOUS
    <3>3. tc' = [ingress |-> on, root |-> tc.root, filters |-> F]
      BY <1>0, <2>3, <3>1, <3>2, TcFacts DEF T!WithIngress
    <3>4. \A f \in F : f \in tc.filters /\ (f.parent = Ingress => on)
      BY <3>2
    <3>5. \A f \in F : IF f.parent = Ingress THEN on ELSE tc.root # None /\ tc.root.handle = f.parent
      BY <1>0, <3>4, TcFacts DEF T!QdiscIn
    <3>6. \A f, g \in F : f.parent = g.parent /\ f.prio = g.prio => f = g
      BY <1>0, <3>4, TcFacts
    <3>7. TcBase' /\ tc'.ingress = on /\ tc'.root = tc.root /\ tc'.filters = F
      BY <1>0, <3>3, <3>5, <3>6, TcFacts, TcBecomes
    <3>8. TcInv'
      BY <1>0, <2>1, <3>1, <3>7 DEF TcInv
    <3>9. tc.root # None => [tc.root EXCEPT !.opt = tc.root.opt] = tc.root
      BY <1>0, TcFacts DEF T!Qdisc
    <3>10. T!IngressKept => on
      BY <2>1, <3>1 DEF T!IngressKept
    <3>11. \A f \in tc.filters : f.parent # Ingress \/ on => f \in F
      BY <3>2
    <3>12. T!TcKeeps
      BY <3>7, <3>9, <3>10, <3>11 DEF T!TcKeeps
    <3> QED BY <3>8, <3>12
  <2> QED BY <2>1, <2>2, <2>3
<1> QED BY <1>1, <1>2, <1>3

\* the root qdisc goes, and its filters
LEMMA WithoutRootFacts ==
  ASSUME TcBase, tcwish' = tcwish, tc' = T!WithoutRoot(tc), ~ T!RootKept \/ tc.root = None
  PROVE  /\ TcBase' /\ T!TcKeeps /\ tc'.ingress = tc.ingress /\ tc'.root = None
<1>1. PICK F : F = {f \in tc.filters : f.parent = Ingress}
  OBVIOUS
<1>2. tc' = [ingress |-> tc.ingress, root |-> None, filters |-> F]
  BY <1>1, TcFacts DEF T!WithoutRoot
<1>3. \A f \in F : f \in tc.filters /\ f.parent = Ingress /\ tc.ingress
  BY <1>1, TcFacts DEF T!QdiscIn
<1>4. TcBase' /\ tc'.ingress = tc.ingress /\ tc'.root = None /\ tc'.filters = F
  <2>1. \A f \in F : IF f.parent = Ingress THEN tc.ingress ELSE None # None /\ None.handle = f.parent
    BY <1>3
  <2>2. \A f, g \in F : f.parent = g.parent /\ f.prio = g.prio => f = g
    BY <1>3, TcFacts
  <2> QED BY <1>2, <2>1, <2>2, TcFacts, TcBecomes
<1>5. \A f \in tc.filters : f.parent = Ingress \/ tc.root # None
  BY TcFacts DEF T!QdiscIn
<1>6. T!TcKeeps
  BY <1>1, <1>4, <1>5 DEF T!TcKeeps
<1> QED BY <1>4, <1>6

LEMMA QdiscKeeps ==
  ASSUME TcInv, T!LeaveQdisc \/ T!ClearQdisc \/ T!ChangeQdisc \/ T!DeleteQdisc
  PROVE  TcInv' /\ T!TcKeeps
<1>0. TcBase /\ tcwish' = tcwish /\ tpc = "qdisc" /\ (~ failed => tcwish.ingress \in {NotSet, tc.ingress})
  BY DEF TcInv, T!LeaveQdisc, T!ClearQdisc, T!ChangeQdisc, T!DeleteQdisc, T!rest
<1>1. CASE T!LeaveQdisc
  <2>1. tc' = tc /\ tpc' = "filters" /\ tcwish.qdisc = NotSet /\ failed' = failed
    BY <1>1 DEF T!LeaveQdisc, T!rest
  <2> QED BY <1>0, <2>1, TcSame DEF TcInv
<1>2. CASE T!ClearQdisc
  <2>1. /\ tpc' = "filters" /\ tcwish.qdisc = None
        /\ \/ tc' = T!WithoutRoot(tc) /\ failed' = failed
           \/ tc' = tc /\ failed' = TRUE
    BY <1>2 DEF T!ClearQdisc, T!TcFailure, T!TcNoFailure
  <2>2. CASE tc' = tc /\ failed' = TRUE
    BY <1>0, <2>1, <2>2, TcSame DEF TcInv
  <2>3. CASE tc' = T!WithoutRoot(tc) /\ failed' = failed
    <3>1. ~ T!RootKept
      BY <2>1, PartsConstantsAssumption DEF T!RootKept
    <3>2. TcBase' /\ T!TcKeeps /\ tc'.ingress = tc.ingress /\ tc'.root = None
      BY <1>0, <2>3, <3>1, WithoutRootFacts
    <3> QED BY <1>0, <2>1, <2>3, <3>2 DEF TcInv
  <2> QED BY <2>1, <2>2, <2>3
<1>3. CASE T!ChangeQdisc
  <2>1. /\ tpc' = "filters" /\ tcwish.qdisc \notin {NotSet, None} /\ T!SameQdisc
        /\ \/ tc' = [tc EXCEPT !.root.opt = tcwish.qdisc.opt] /\ failed' = failed
           \/ tc' = tc /\ failed' = TRUE
    BY <1>3 DEF T!ChangeQdisc, T!TcFailure, T!TcNoFailure
  <2>2. CASE tc' = tc /\ failed' = TRUE
    BY <1>0, <2>1, <2>2, TcSame DEF TcInv
  <2>3. CASE tc' = [tc EXCEPT !.root.opt = tcwish.qdisc.opt] /\ failed' = failed
    <3>1. tc.root \in T!Qdisc /\ tcwish.qdisc \in T!Qdisc /\ tc.root # None
      BY <1>0, <2>1, TcFacts DEF T!SameQdisc
    <3>2. tc.root.kind = tcwish.qdisc.kind /\ tc.root.handle = tcwish.qdisc.handle
      BY <2>1 DEF T!SameQdisc
    <3>3. [tc.root EXCEPT !.opt = tcwish.qdisc.opt] = tcwish.qdisc
      BY <3>1, <3>2 DEF T!Qdisc
    <3>4. tc' = [ingress |-> tc.ingress, root |-> [tc.root EXCEPT !.opt = tcwish.qdisc.opt], filters |-> tc.filters]
      BY <1>0, <2>3, TcFacts
    <3>5. tc' = [ingress |-> tc.ingress, root |-> tcwish.qdisc, filters |-> tc.filters]
      BY <3>3, <3>4
    <3>6. tcwish.qdisc # None
      BY <2>1
    <3>7. \A f \in tc.filters : IF f.parent = Ingress THEN tc.ingress
                                ELSE tcwish.qdisc # None /\ tcwish.qdisc.handle = f.parent
      BY <1>0, <3>2, <3>6, TcFacts DEF T!QdiscIn
    <3>8. TcBase' /\ tc'.ingress = tc.ingress /\ tc'.root = tcwish.qdisc /\ tc'.filters = tc.filters
      BY <1>0, <3>1, <3>5, <3>7, TcFacts, TcBecomes
    <3>9. TcInv'
      BY <1>0, <2>1, <2>3, <3>8 DEF TcInv
    <3>10. [tcwish.qdisc EXCEPT !.opt = tc.root.opt] = tc.root
      BY <3>1, <3>2 DEF T!Qdisc
    <3>11. T!TcKeeps
      BY <3>6, <3>8, <3>10 DEF T!TcKeeps
    <3> QED BY <3>9, <3>11
  <2> QED BY <2>1, <2>2, <2>3
<1>4. CASE T!DeleteQdisc
  <2>1. /\ tpc' = "addqdisc" /\ tcwish.qdisc \notin {NotSet, None} /\ ~ T!SameQdisc
        /\ \/ tc' = T!WithoutRoot(tc) /\ failed' = failed
           \/ tc' = tc /\ failed' = TRUE
    BY <1>4 DEF T!DeleteQdisc, T!TcFailure, T!TcNoFailure
  <2>2. CASE tc' = tc /\ failed' = TRUE
    BY <1>0, <2>1, <2>2, TcSame DEF TcInv
  <2>3. CASE tc' = T!WithoutRoot(tc) /\ failed' = failed
    <3>1. ~ T!RootKept \/ tc.root = None
      <4> SUFFICES ASSUME T!RootKept, tc.root # None PROVE FALSE
        OBVIOUS
      <4>1. [tc.root EXCEPT !.opt = tcwish.qdisc.opt] = tcwish.qdisc
        BY <2>1 DEF T!RootKept
      <4>2. tc.root \in T!Qdisc
        BY <1>0, TcFacts
      <4>3. tcwish.qdisc.kind = tc.root.kind /\ tcwish.qdisc.handle = tc.root.handle
        BY <4>1, <4>2 DEF T!Qdisc
      <4> QED BY <2>1, <4>3 DEF T!SameQdisc
    <3>2. TcBase' /\ T!TcKeeps /\ tc'.ingress = tc.ingress /\ tc'.root = None
      BY <1>0, <2>3, <3>1, WithoutRootFacts
    <3> QED BY <1>0, <2>1, <2>3, <3>2 DEF TcInv
  <2> QED BY <2>1, <2>2, <2>3
<1> QED BY <1>1, <1>2, <1>3, <1>4

LEMMA AddQdiscKeeps ==
  ASSUME TcInv, T!AddQdisc
  PROVE  TcInv' /\ T!TcKeeps
<1>0. /\ TcBase /\ tcwish' = tcwish /\ tpc = "addqdisc" /\ tpc' = "filters"
      /\ tcwish.qdisc \notin {NotSet, None}
      /\ ~ failed => tc.root = None /\ tcwish.ingress \in {NotSet, tc.ingress}
      /\ \/ tc.root = None /\ tc' = [tc EXCEPT !.root = tcwish.qdisc] /\ failed' = failed
         \/ tc.root # None /\ tc' = tc /\ failed' = failed
         \/ tc' = tc /\ failed' = TRUE
  BY DEF TcInv, T!AddQdisc, T!TcFailure, T!TcNoFailure
<1>1. CASE tc' = tc /\ failed'
  BY <1>0, <1>1, TcSame DEF TcInv
<1>2. CASE tc.root # None /\ tc' = tc /\ failed' = failed
  BY <1>0, <1>2, TcSame DEF TcInv
<1>3. CASE tc.root = None /\ tc' = [tc EXCEPT !.root = tcwish.qdisc] /\ failed' = failed
  <2>1. tcwish.qdisc \in T!Qdisc
    BY <1>0, TcFacts
  <2>2. tc' = [ingress |-> tc.ingress, root |-> tcwish.qdisc, filters |-> tc.filters]
    BY <1>0, <1>3, TcFacts
  <2>3. \A f \in tc.filters : f.parent = Ingress /\ tc.ingress
    BY <1>0, <1>3, TcFacts DEF T!QdiscIn
  <2>4. \A f \in tc.filters : IF f.parent = Ingress THEN tc.ingress
                              ELSE tcwish.qdisc # None /\ tcwish.qdisc.handle = f.parent
    BY <2>3
  <2>5. TcBase' /\ tc'.ingress = tc.ingress /\ tc'.root = tcwish.qdisc /\ tc'.filters = tc.filters
    BY <1>0, <2>1, <2>2, <2>4, TcFacts, TcBecomes
  <2>6. TcInv'
    BY <1>0, <1>3, <2>5 DEF TcInv
  <2>7. T!TcKeeps
    BY <1>3, <2>5 DEF T!TcKeeps
  <2> QED BY <2>6, <2>7
<1> QED BY <1>0, <1>1, <1>2, <1>3

-----------------------------------------------------------------------------
(* Traffic control: filters                                                *)

LEMMA FilterFacts ==
  ASSUME TcBase, tcwish.filter # NotSet
  PROVE  /\ tcwish.filter \in Seq(T!FilterWish) /\ Len(tcwish.filter) \in Nat
         /\ DOMAIN tcwish.filter = 1 .. Len(tcwish.filter)
         /\ T!TcFilters \subseteq 1 .. Len(tcwish.filter)
         /\ \A m \in T!TcFilters : tcwish.filter[m].parent \in {Ingress, NotSet} \cup Handle
<1>1. tcwish.filter \in Seq(T!FilterWish)
  BY DEF TcBase, T!TcWish
<1>2. Len(tcwish.filter) \in Nat /\ DOMAIN tcwish.filter = 1 .. Len(tcwish.filter)
  BY <1>1
<1>3. T!TcFilters \subseteq 1 .. Len(tcwish.filter)
  BY <1>2 DEF T!TcFilters
<1>4. \A m \in 1 .. Len(tcwish.filter) : tcwish.filter[m] \in T!FilterWish
  BY <1>1, <1>2
<1>5. \A m \in T!TcFilters : tcwish.filter[m].parent \in {Ingress, NotSet} \cup Handle
  BY <1>3, <1>4 DEF T!FilterWish
<1> QED BY <1>1, <1>2, <1>3, <1>5

\* two entries of the list never ask for the same parent and priority
LEMMA FiltersDiffer ==
  ASSUME TcBase, tcwish.filter # NotSet,
         NEW m \in T!TcFilters, NEW n \in T!TcFilters,
         FilterOf(m).parent = FilterOf(n).parent, FilterOf(m).prio = FilterOf(n).prio
  PROVE  m = n
<1>1. T!ParentOf(tcwish.filter[m]) = T!ParentOf(tcwish.filter[n]) /\ T!Prio(m) = T!Prio(n)
  BY DEF FilterOf
<1>2. m \in 1 .. Len(tcwish.filter) /\ n \in 1 .. Len(tcwish.filter) /\ Len(tcwish.filter) \in Nat
  BY FilterFacts
<1>3. CASE tcwish.filter[m].parent = tcwish.filter[n].parent
  <2>1. ~ m < n
    <3>1. m < n => n \in m + 1 .. Len(tcwish.filter)
      BY <1>2
    <3> QED BY <1>1, <1>3, <3>1 DEF T!TcFilters
  <2>2. ~ n < m
    <3>1. n < m => m \in n + 1 .. Len(tcwish.filter)
      BY <1>2
    <3> QED BY <1>1, <1>3, <3>1 DEF T!TcFilters
  <2> QED BY <1>2, <2>1, <2>2
<1>4. CASE tcwish.filter[m].parent # tcwish.filter[n].parent
  <2>1. /\ tc.root \in T!Qdisc
        /\ \/ tcwish.filter[m].parent = NotSet /\ tcwish.filter[n].parent = tc.root.handle
           \/ tcwish.filter[n].parent = NotSet /\ tcwish.filter[m].parent = tc.root.handle
    BY <1>1, <1>4, TcFacts DEF T!ParentOf
  <2>2. tc.root.handle \in Handle
    BY <2>1 DEF T!Qdisc
  <2>3. m \in DOMAIN tcwish.filter /\ n \in DOMAIN tcwish.filter
    BY <1>2, FilterFacts
  <2>4. T!PrioIn(tcwish.filter, m) = T!PrioIn(tcwish.filter, n)
    BY <1>1 DEF T!Prio
  <2> QED BY <2>1, <2>2, <2>3, <2>4 DEF TcBase, T!TcDistinct
<1> QED BY <1>3, <1>4

\* an entry that names a filter the kernel has asks for its parent and priority
LEMMA NamedIsAsked ==
  ASSUME TcBase, NEW f \in tc.filters, NEW m, NamedBy(m, f)
  PROVE  FilterOf(m).parent = f.parent /\ FilterOf(m).prio = f.prio
BY TcFacts DEF NamedBy, FilterOf, T!ParentOf

\* while the filters are applied, the qdiscs are left alone
LEMMA FiltersBecome ==
  ASSUME TcBase, tcwish' = tcwish, tcwish.filter # NotSet, NEW F, NEW k,
         tc' = [tc EXCEPT !.filters = F], j' = k,
         \A f \in F : T!QdiscIn(tc, f.parent),
         \A f, g \in F : f.parent = g.parent /\ f.prio = g.prio => f = g
  PROVE  /\ TcBase' /\ T!TcKeeps
         /\ tc'.ingress = tc.ingress /\ tc'.root = tc.root /\ tc'.filters = F
         /\ T!TcFilters' = T!TcFilters
         /\ DoneBefore(k, F) => FiltersDone'
<1>1. tc' = [ingress |-> tc.ingress, root |-> tc.root, filters |-> F]
  BY TcFacts
<1>2. \A f \in F : IF f.parent = Ingress THEN tc.ingress ELSE tc.root # None /\ tc.root.handle = f.parent
  BY DEF T!QdiscIn
<1>3. TcBase' /\ tc'.ingress = tc.ingress /\ tc'.root = tc.root /\ tc'.filters = F
  BY <1>1, <1>2, TcFacts, TcBecomes
<1>4. tc.root # None => [tc.root EXCEPT !.opt = tc.root.opt] = tc.root
  BY TcFacts DEF T!Qdisc
<1>5. T!TcKeeps
  BY <1>3, <1>4 DEF T!TcKeeps
<1>6. \A m : T!Prio(m)' = T!Prio(m)
  BY DEF T!Prio
<1>7. T!TcFilters' = T!TcFilters
  BY <1>6 DEF T!TcFilters, T!Prio
<1>8. \A m : FilterOf(m)' = FilterOf(m)
  BY <1>3, <1>6 DEF FilterOf, T!ParentOf, T!Prio
<1>9. \A m, f : NamedBy(m, f)' = NamedBy(m, f)
  BY <1>6 DEF NamedBy, T!Prio
<1>10. ASSUME DoneBefore(k, F) PROVE FiltersDone'
  <2>1. \A f \in F :
          \/ \E m \in T!TcFilters' : m < k /\ f = FilterOf(m)'
          \/ \E m \in T!TcFilters' : m >= k /\ NamedBy(m, f)'
    BY <1>7, <1>8, <1>9, <1>10 DEF DoneBefore
  <2>2. \A m \in T!TcFilters' : m < k => FilterOf(m)' \in F
    BY <1>7, <1>8, <1>10 DEF DoneBefore
  <2>3. \A f \in tc'.filters :
          \/ \E m \in T!TcFilters' : m < j' /\ f = FilterOf(m)'
          \/ \E m \in T!TcFilters' : m >= j' /\ NamedBy(m, f)'
    BY <1>3, <2>1
  <2>4. \A m \in T!TcFilters' : m < j' => FilterOf(m)' \in tc'.filters
    BY <1>3, <2>2
  <2> QED BY <2>3, <2>4 DEF FiltersDone, DoneBefore
<1> QED BY <1>3, <1>5, <1>7, <1>10

\* an entry that is not applied
LEMMA DonePastSkipped ==
  ASSUME TcBase, tcwish.filter # NotSet, NEW k \in 1 .. Len(tcwish.filter) + 1, NEW F,
         DoneBefore(k, F), k \notin T!TcFilters
  PROVE  DoneBefore(k + 1, F)
<1>1. \A m \in T!TcFilters : (m < k + 1 <=> m < k) /\ (m >= k + 1 <=> m >= k)
  BY FilterFacts
<1> QED BY <1>1 DEF DoneBefore

\* an entry whose filter is put where no other one is
LEMMA DonePastAdded ==
  ASSUME TcBase, tcwish.filter # NotSet, NEW k \in T!TcFilters,
         DoneBefore(k, tc.filters),
         \A f \in tc.filters : ~ (f.parent = FilterOf(k).parent /\ f.prio = FilterOf(k).prio)
  PROVE  DoneBefore(k + 1, tc.filters \cup {FilterOf(k)})
<1>1. \A m \in T!TcFilters : (m < k + 1 <=> m < k \/ m = k) /\ (m >= k <=> m >= k + 1 \/ m = k)
  BY FilterFacts
<1>2. \A f \in tc.filters : ~ NamedBy(k, f)
  BY NamedIsAsked
<1>3. ASSUME NEW f \in tc.filters \cup {FilterOf(k)}
      PROVE  \/ \E m \in T!TcFilters : m < k + 1 /\ f = FilterOf(m)
             \/ \E m \in T!TcFilters : m >= k + 1 /\ NamedBy(m, f)
  BY <1>1, <1>2, <1>3 DEF DoneBefore
<1>4. \A m \in T!TcFilters : m < k + 1 => FilterOf(m) \in tc.filters \cup {FilterOf(k)}
  BY <1>1 DEF DoneBefore
<1> QED BY <1>3, <1>4 DEF DoneBefore

\* the filter that is in the way of an entry is not the one of an earlier entry
LEMMA DoneWithoutOld ==
  ASSUME TcBase, tcwish.filter # NotSet, NEW k \in T!TcFilters,
         DoneBefore(k, tc.filters), NEW F,
         F = {f \in tc.filters : ~ (f.parent = FilterOf(k).parent /\ f.prio = FilterOf(k).prio)}
  PROVE  DoneBefore(k, F)
<1>1. \A f \in F : f \in tc.filters
  OBVIOUS
<1>2. \A m \in T!TcFilters : m < k => FilterOf(m) \in F
  <2> SUFFICES ASSUME NEW m \in T!TcFilters, m < k PROVE FilterOf(m) \in F
    OBVIOUS
  <2>1. m # k
    BY FilterFacts
  <2>2. ~ (FilterOf(m).parent = FilterOf(k).parent /\ FilterOf(m).prio = FilterOf(k).prio)
    BY <2>1, FiltersDiffer
  <2> QED BY <2>2 DEF DoneBefore
<1> QED BY <1>1, <1>2 DEF DoneBefore

LEMMA DoneAtEnd ==
  ASSUME TcBase, tcwish.filter # NotSet, NEW k \in 1 .. Len(tcwish.filter) + 1,
         k > Len(tcwish.filter), DoneBefore(k, tc.filters)
  PROVE  tc.filters = {[parent |-> T!ParentOf(tcwish.filter[m]), prio |-> T!Prio(m),
                        rule |-> tcwish.filter[m].rule] : m \in T!TcFilters}
<1>1. \A m \in T!TcFilters : m < k /\ ~ m >= k
  BY FilterFacts
<1>2. \A f \in tc.filters : \E m \in T!TcFilters : f = FilterOf(m)
  BY <1>1 DEF DoneBefore
<1>3. \A m \in T!TcFilters : FilterOf(m) \in tc.filters
  BY <1>1 DEF DoneBefore
<1> QED BY <1>2, <1>3 DEF FilterOf

LEMMA DumpKeeps ==
  ASSUME TcInv, T!LeaveFilters \/ T!DumpFilters
  PROVE  TcInv' /\ T!TcKeeps
<1>0. /\ TcBase /\ tcwish' = tcwish /\ tc' = tc /\ failed' = failed
      /\ ~ failed => tcwish.ingress \in {NotSet, tc.ingress} /\ tcwish.qdisc \in {NotSet, tc.root}
  BY DEF TcInv, T!LeaveFilters, T!DumpFilters, T!rest
<1>1. TcBase' /\ T!TcKeeps
  BY <1>0, TcSame
<1>2. CASE T!LeaveFilters
  <2>1. tpc' = "done" /\ tcwish.filter = NotSet
    BY <1>2 DEF T!LeaveFilters
  <2>2. ~ failed => T!TcRight'
    BY <1>0, <2>1 DEF T!TcRight
  <2> QED BY <1>0, <1>1, <2>1, <2>2 DEF TcInv
<1>3. CASE T!DumpFilters
  <2>1. /\ tpc' = "delfilter" /\ j' = 1 /\ tcwish.filter # NotSet
        /\ todo' = {<<f.parent, f.prio>> : f \in {f \in tc.filters : ~ T!Referenced(f)}}
    BY <1>3 DEF T!DumpFilters
  <2>2. \A f : T!Referenced(f)' = T!Referenced(f)
    BY <1>0 DEF T!Referenced, T!TcFilters, T!Prio
  <2>3. \A f \in tc'.filters : T!Referenced(f)' \/ <<f.parent, f.prio>> \in todo'
    BY <1>0, <2>1, <2>2
  <2> QED BY <1>0, <1>1, <2>1, <2>3 DEF TcInv
<1> QED BY <1>2, <1>3

LEMMA DeleteFiltersKeeps ==
  ASSUME TcInv, T!DeleteFilters
  PROVE  TcInv' /\ T!TcKeeps
<1>0. /\ TcBase /\ tcwish' = tcwish /\ tpc = "delfilter" /\ tpc' = tpc /\ j = 1 /\ j' = 1
      /\ tcwish.filter # NotSet
      /\ ~ failed =>
           /\ tcwish.ingress \in {NotSet, tc.ingress} /\ tcwish.qdisc \in {NotSet, tc.root}
           /\ \A f \in tc.filters : T!Referenced(f) \/ <<f.parent, f.prio>> \in todo
  BY DEF TcInv, T!DeleteFilters
<1>1. PICK x \in todo :
        /\ todo' = todo \ {x}
        /\ \/ tc' = [tc EXCEPT !.filters = @ \ T!FiltersAt(x[1], x[2])] /\ failed' = failed
           \/ tc' = tc /\ failed' = TRUE
  BY DEF T!DeleteFilters, T!TcFailure, T!TcNoFailure
<1>2. CASE tc' = tc /\ failed' = TRUE
  BY <1>0, <1>2, TcSame DEF TcInv
<1>3. CASE tc' = [tc EXCEPT !.filters = @ \ T!FiltersAt(x[1], x[2])] /\ failed' = failed
  <2>1. PICK F : F = tc.filters \ T!FiltersAt(x[1], x[2])
    OBVIOUS
  <2>2. tc' = [tc EXCEPT !.filters = F]
    BY <1>3, <2>1
  <2>3. \A f \in F : f \in tc.filters /\ ~ (f.parent = x[1] /\ f.prio = x[2])
    BY <2>1 DEF T!FiltersAt
  <2>4. \A f \in F : T!QdiscIn(tc, f.parent)
    BY <1>0, <2>3, TcFacts
  <2>5. \A f, g \in F : f.parent = g.parent /\ f.prio = g.prio => f = g
    BY <1>0, <2>3, TcFacts
  <2>6. /\ TcBase' /\ T!TcKeeps
        /\ tc'.ingress = tc.ingress /\ tc'.root = tc.root /\ tc'.filters = F
    BY <1>0, <2>2, <2>4, <2>5, FiltersBecome
  <2>7. \A f : T!Referenced(f)' = T!Referenced(f)
    BY <1>0 DEF T!Referenced, T!TcFilters, T!Prio
  <2>8. \A f \in F : <<f.parent, f.prio>> # x
    BY <2>3
  <2>9. ~ failed => \A f \in tc'.filters : T!Referenced(f)' \/ <<f.parent, f.prio>> \in todo'
    BY <1>0, <1>1, <2>3, <2>6, <2>7, <2>8
  <2> QED BY <1>0, <1>3, <2>6, <2>9 DEF TcInv
<1> QED BY <1>1, <1>2, <1>3

\* every filter that is left is one that an entry names
LEMMA SetFiltersKeeps ==
  ASSUME TcInv, T!SetFilters
  PROVE  TcInv' /\ T!TcKeeps
<1>0. /\ TcBase /\ tcwish' = tcwish /\ tc' = tc /\ failed' = failed
      /\ tpc' = "setfilter" /\ j = 1 /\ j' = 1
      /\ tcwish.filter # NotSet
      /\ ~ failed =>
           /\ tcwish.ingress \in {NotSet, tc.ingress} /\ tcwish.qdisc \in {NotSet, tc.root}
           /\ \A f \in tc.filters : T!Referenced(f)
  BY DEF TcInv, T!SetFilters, T!rest
<1>1. TcBase' /\ T!TcKeeps
  BY <1>0, TcSame
<1>2. \A m \in T!TcFilters : m >= 1 /\ ~ m < 1
  BY <1>0, FilterFacts
<1>3. ~ failed => DoneBefore(1, tc.filters)
  BY <1>0, <1>2 DEF DoneBefore, T!Referenced, NamedBy
<1>4. tc' = [tc EXCEPT !.filters = tc.filters]
  BY <1>0, TcFacts
<1>5. ~ failed => FiltersDone'
  BY <1>0, <1>3, <1>4, TcFacts, FiltersBecome
<1>6. j' \in 1 .. Len(tcwish'.filter) + 1
  BY <1>0, FilterFacts
<1> QED BY <1>0, <1>1, <1>5, <1>6 DEF TcInv

\* what holds while the entries of the list are gone through
LEMMA AtFilter ==
  ASSUME TcInv, tpc \in {"setfilter", "addfilter"}
  PROVE  /\ TcBase /\ tcwish.filter # NotSet /\ j \in 1 .. Len(tcwish.filter) + 1
         /\ Len(tcwish.filter) \in Nat
         /\ ~ failed => tcwish.ingress \in {NotSet, tc.ingress} /\ tcwish.qdisc \in {NotSet, tc.root}
         /\ ~ failed => DoneBefore(j, tc.filters)
<1>1. /\ TcBase /\ tcwish.filter # NotSet /\ j \in 1 .. Len(tcwish.filter) + 1
      /\ ~ failed => tcwish.ingress \in {NotSet, tc.ingress} /\ tcwish.qdisc \in {NotSet, tc.root}
      /\ ~ failed => DoneBefore(j, tc.filters)
  BY DEF TcInv, FiltersDone
<1>2. Len(tcwish.filter) \in Nat
  BY <1>1, FilterFacts
<1> QED BY <1>1, <1>2

\* a step that goes on with the list keeps the invariant when it has done its entry
LEMMA GoesOn ==
  ASSUME TcInv, tpc \in {"setfilter", "addfilter"}, tcwish' = tcwish, tpc' = "setfilter",
         NEW k \in 1 .. Len(tcwish.filter) + 1, j' = k,
         TcBase', tc'.ingress = tc.ingress, tc'.root = tc.root,
         ~ failed' => ~ failed /\ FiltersDone'
  PROVE  TcInv'
BY AtFilter DEF TcInv

LEMMA SkipFilterKeeps ==
  ASSUME TcInv, T!SkipFilter \/ T!RefuseFilter
  PROVE  TcInv' /\ T!TcKeeps
<1>0. /\ tpc = "setfilter" /\ tcwish' = tcwish /\ tc' = tc /\ tpc' = "setfilter"
      /\ j \in DOMAIN tcwish.filter /\ j' = j + 1
      /\ \/ failed' = failed /\ j \notin T!TcFilters
         \/ failed' = TRUE
  BY DEF T!SkipFilter, T!RefuseFilter, T!rest, T!TcFilters
<1>1. PICK k : k = j + 1
  OBVIOUS
<1>2. k \in 1 .. Len(tcwish.filter) + 1
  BY <1>0, <1>1, AtFilter, FilterFacts
<1>3. TcBase' /\ T!TcKeeps
  BY <1>0, AtFilter, TcSame
<1>4. ~ failed' => FiltersDone'
  <2> SUFFICES ASSUME ~ failed' PROVE FiltersDone'
    OBVIOUS
  <2>1. DoneBefore(j + 1, tc.filters)
    BY <1>0, AtFilter, DonePastSkipped
  <2>2. DoneBefore(k, tc.filters)
    BY <1>1, <2>1
  <2>3. tc' = [tc EXCEPT !.filters = tc.filters] /\ j' = k
    BY <1>0, <1>1, AtFilter, TcFacts
  <2> QED BY <1>0, <2>2, <2>3, AtFilter, TcFacts, FiltersBecome
<1> QED BY <1>0, <1>1, <1>2, <1>3, <1>4, GoesOn

LEMMA NewFilterIs == T!NewFilter = FilterOf(j)
BY DEF T!NewFilter, FilterOf

LEMMA OldFiltersAre ==
  T!OldFilters = {f \in tc.filters : f.parent = FilterOf(j).parent /\ f.prio = FilterOf(j).prio}
BY NewFilterIs DEF T!OldFilters, T!FiltersAt

\* `replace-filter' and `add-filter', where there is none of that parent and priority
LEMMA PutFilterKeeps ==
  ASSUME TcInv, T!ReplaceFilter \/ T!AddFilter
  PROVE  TcInv' /\ T!TcKeeps
<1>0. /\ tpc \in {"setfilter", "addfilter"} /\ tcwish' = tcwish /\ tpc' = "setfilter"
      /\ j \in T!TcFilters /\ T!HasQdisc(T!ParentOf(tcwish.filter[j])) /\ T!OldFilters = {}
      /\ j' = j + 1
      /\ \/ tc' = [tc EXCEPT !.filters = @ \cup {T!NewFilter}] /\ failed' = failed
         \/ tc' = tc /\ failed' = TRUE
  BY DEF TcInv, T!ReplaceFilter, T!AddFilter, T!TcFailure, T!TcNoFailure
<1>1. PICK k : k = j + 1
  OBVIOUS
<1>2. k \in 1 .. Len(tcwish.filter) + 1 /\ j' = k
  BY <1>0, <1>1, AtFilter, FilterFacts
<1>3. CASE tc' = tc /\ failed' = TRUE
  <2>1. TcBase' /\ T!TcKeeps
    BY <1>0, <1>3, AtFilter, TcSame
  <2> QED BY <1>0, <1>2, <1>3, <2>1, GoesOn
<1>4. CASE tc' = [tc EXCEPT !.filters = @ \cup {T!NewFilter}] /\ failed' = failed
  <2>1. PICK F : F = tc.filters \cup {FilterOf(j)}
    OBVIOUS
  <2>2. tc' = [tc EXCEPT !.filters = F]
    BY <1>4, <2>1, NewFilterIs
  <2>3. \A f \in tc.filters : ~ (f.parent = FilterOf(j).parent /\ f.prio = FilterOf(j).prio)
    BY <1>0, OldFiltersAre
  <2>4. T!QdiscIn(tc, FilterOf(j).parent)
    BY <1>0 DEF T!HasQdisc, FilterOf
  <2>5. \A f \in F : T!QdiscIn(tc, f.parent)
    BY <1>0, <2>1, <2>4, AtFilter, TcFacts
  <2>6. \A f, g \in F : f.parent = g.parent /\ f.prio = g.prio => f = g
    BY <1>0, <2>1, <2>3, AtFilter, TcFacts
  <2>7. /\ TcBase' /\ T!TcKeeps /\ tc'.ingress = tc.ingress /\ tc'.root = tc.root
        /\ DoneBefore(k, F) => FiltersDone'
    BY <1>0, <1>2, <2>2, <2>5, <2>6, AtFilter, FiltersBecome
  <2>8. ~ failed => DoneBefore(k, F)
    BY <1>0, <1>1, <2>1, <2>3, AtFilter, DonePastAdded
  <2> QED BY <1>0, <1>2, <1>4, <2>7, <2>8, GoesOn
<1> QED BY <1>0, <1>3, <1>4

LEMMA DeleteOldKeeps ==
  ASSUME TcInv, T!DeleteOldFilter
  PROVE  TcInv' /\ T!TcKeeps
<1>0. /\ tpc = "setfilter" /\ tcwish' = tcwish
      /\ j \in T!TcFilters /\ T!HasQdisc(T!ParentOf(tcwish.filter[j]))
      /\ \/ /\ tc' = [tc EXCEPT !.filters = @ \ T!OldFilters]
            /\ tpc' = "addfilter" /\ j' = j /\ failed' = failed
         \/ tc' = tc /\ failed' = TRUE /\ tpc' = tpc /\ j' = j + 1
  BY DEF T!DeleteOldFilter, T!TcFailure, T!TcNoFailure
<1>1. CASE tc' = tc /\ failed' = TRUE /\ tpc' = tpc /\ j' = j + 1
  <2>1. PICK k : k = j + 1
    OBVIOUS
  <2>2. k \in 1 .. Len(tcwish.filter) + 1 /\ j' = k
    BY <1>0, <1>1, <2>1, AtFilter, FilterFacts
  <2>3. TcBase' /\ T!TcKeeps
    BY <1>0, <1>1, AtFilter, TcSame
  <2> QED BY <1>0, <1>1, <2>2, <2>3, GoesOn
<1>2. CASE /\ tc' = [tc EXCEPT !.filters = @ \ T!OldFilters]
           /\ tpc' = "addfilter" /\ j' = j /\ failed' = failed
  <2>1. PICK k, F : /\ k = j
                    /\ F = {f \in tc.filters : ~ (f.parent = FilterOf(k).parent /\ f.prio = FilterOf(k).prio)}
    OBVIOUS
  <2>2. F = tc.filters \ T!OldFilters
    BY <2>1, OldFiltersAre
  <2>3. tc' = [tc EXCEPT !.filters = F] /\ j' = k
    BY <1>2, <2>1, <2>2
  <2>4. \A f \in F : f \in tc.filters
    BY <2>1
  <2>5. \A f \in F : T!QdiscIn(tc, f.parent)
    BY <1>0, <2>4, AtFilter, TcFacts
  <2>6. \A f, g \in F : f.parent = g.parent /\ f.prio = g.prio => f = g
    BY <1>0, <2>4, AtFilter, TcFacts
  <2>7. /\ TcBase' /\ T!TcKeeps
        /\ tc'.ingress = tc.ingress /\ tc'.root = tc.root /\ tc'.filters = F
        /\ T!TcFilters' = T!TcFilters
        /\ DoneBefore(k, F) => FiltersDone'
    BY <1>0, <2>3, <2>5, <2>6, AtFilter, FiltersBecome
  <2>8. ~ failed => DoneBefore(k, F)
    BY <1>0, <2>1, AtFilter, DoneWithoutOld
  <2>9. T!HasQdisc(T!ParentOf(tcwish.filter[j]))'
    BY <1>0, <1>2, <2>7 DEF T!HasQdisc, T!QdiscIn, T!ParentOf
  <2>10. FilterOf(k)' = FilterOf(k)
    BY <1>0, <2>7 DEF FilterOf, T!ParentOf, T!Prio
  <2>11. T!OldFilters' = {f \in F : f.parent = FilterOf(k).parent /\ f.prio = FilterOf(k).prio}
    <3>1. T!OldFilters' = {f \in tc'.filters : f.parent = FilterOf(j)'.parent /\ f.prio = FilterOf(j)'.prio}
      BY DEF T!OldFilters, T!FiltersAt, T!NewFilter, FilterOf, T!ParentOf, T!Prio
    <3>2. FilterOf(j)' = FilterOf(k)
      BY <1>0, <1>2, <2>1, <2>7 DEF FilterOf, T!ParentOf, T!Prio
    <3> QED BY <2>7, <3>1, <3>2
  <2>12. T!OldFilters' = {}
    BY <2>1, <2>11
  <2>13. j' \in T!TcFilters' /\ j' \in 1 .. Len(tcwish'.filter) + 1
    BY <1>0, <1>2, <2>7, AtFilter
  <2> QED BY <1>0, <1>2, <2>7, <2>8, <2>9, <2>12, <2>13, AtFilter DEF TcInv
<1> QED BY <1>0, <1>1, <1>2

LEMMA FinishTcKeeps ==
  ASSUME TcInv, T!FinishTc
  PROVE  TcInv' /\ T!TcKeeps
<1>0. /\ tpc = "setfilter" /\ tcwish' = tcwish /\ tc' = tc /\ failed' = failed
      /\ tpc' = "done" /\ j > Len(tcwish.filter)
  BY DEF T!FinishTc, T!rest
<1>1. TcBase' /\ T!TcKeeps
  BY <1>0, AtFilter, TcSame
<1>2. ~ failed => T!TcRight
  BY <1>0, AtFilter, DoneAtEnd DEF T!TcRight
<1>3. ~ failed' => T!TcRight'
  BY <1>0, <1>2 DEF T!TcRight, T!ParentOf, T!TcFilters, T!Prio
<1> QED BY <1>0, <1>1, <1>3, AtFilter DEF TcInv

\* No step of traffic control leaves the invariant or removes what is to stay.
LEMMA TcStepKeeps ==
  ASSUME TcInv, T!TcStep
  PROVE  TcInv' /\ T!TcKeeps
BY IngressKeeps, QdiscKeeps, AddQdiscKeeps, DumpKeeps, DeleteFiltersKeeps, SetFiltersKeeps,
   SkipFilterKeeps, PutFilterKeeps, DeleteOldKeeps, FinishTcKeeps DEF T!TcStep

-----------------------------------------------------------------------------
(* BPF and XDP programs                                                    *)

LEMMA XdpFacts ==
  ASSUME XdpBase
  PROVE  /\ xdp \in X!XdpState /\ tag \in Prog \cup {None} /\ new \in Prog \cup {None}
         /\ xdp.prog \in Prog \cup {None} /\ xdp.pinned \in Prog \cup {None}
         /\ xdp.pin \in Prog \cup {None} /\ xdp.mode \in X!Modes /\ xdp.native \in BOOLEAN
         /\ xdpwish.object \in Prog \cup {None, NotSet}
         /\ xdpwish.mode \in X!Modes \cup {"auto"}
         /\ xdpwish.from \in {"pinned", "bpf", "false", NotSet}
         /\ xdpwish.from = "bpf" => xdpwish.object # NotSet /\ ~ xdpwish.vrrp
BY DEF XdpBase, XdpDistinct, X!XdpTypeOK, X!XdpState, X!XdpWish

\* the steps of the BPF section leave what is attached alone
LEMMA ProgramLeft ==
  ASSUME XdpBase, xdpwish' = xdpwish, tag' \in Prog \cup {None}, new' = new,
         xdp' \in X!XdpState, xdp'.prog = xdp.prog, xdp'.mode = xdp.mode,
         xdp'.pinned = xdp.pinned
  PROVE  /\ XdpBase' /\ X!XdpKeeps /\ Attached' = Attached
         /\ X!SameProgram(xdp.prog, new)' = X!SameProgram(xdp.prog, new) /\ X!WantedProg' = X!WantedProg
<1>1. XdpBase'
  BY XdpFacts DEF XdpBase, XdpDistinct, X!XdpTypeOK
<1>2. X!SameProgram(xdp.prog, new)' = X!SameProgram(xdp.prog, new) /\ X!WantedProg' = X!WantedProg
  BY DEF X!SameProgram, X!WantedProg
<1>3. Attached' = Attached
  BY <1>2 DEF Attached
<1>4. X!XdpKeeps
  BY DEF X!XdpKeeps
<1> QED BY <1>1, <1>2, <1>3, <1>4

LEMMA BpfStepKeeps ==
  ASSUME XdpInv, X!BpfStep
  PROVE  XdpInv' /\ X!XdpKeeps
<1>0. XdpBase /\ xdpwish' = xdpwish /\ xpc' = xpc /\ new' = new
  BY DEF XdpInv, X!BpfStep, X!SkipBpf, X!OpenPin, X!LoadObject, X!UnlinkPin, X!Pin,
         X!RemoveMaps, X!PinMaps
<1>2. failed' = failed \/ failed' = TRUE
  BY DEF X!BpfStep, X!SkipBpf, X!OpenPin, X!LoadObject, X!UnlinkPin, X!Pin,
         X!RemoveMaps, X!PinMaps, X!XdpFailure, X!XdpNoFailure
<1>3. /\ xdp' \in X!XdpState /\ tag' \in Prog \cup {None}
      /\ xdp'.prog = xdp.prog /\ xdp'.mode = xdp.mode /\ xdp'.pinned = xdp.pinned
  <2>1. CASE X!SkipBpf
    BY <1>0, <2>1, XdpFacts DEF X!SkipBpf
  <2>2. CASE X!OpenPin
    BY <1>0, <2>2, XdpFacts DEF X!OpenPin
  <2>3. CASE X!LoadObject
    <3>1. bpc = "load" => xdpwish.object # NotSet
      BY DEF XdpInv
    <3> QED BY <1>0, <2>3, <3>1, XdpFacts DEF X!LoadObject
  <2>4. CASE X!UnlinkPin
    BY <1>0, <2>4, XdpFacts DEF X!UnlinkPin, X!XdpState
  <2>5. CASE X!Pin
    BY <1>0, <2>5, XdpFacts DEF X!Pin, X!XdpState
  <2>6. CASE X!RemoveMaps
    BY <1>0, <2>6, XdpFacts DEF X!RemoveMaps, X!XdpState
  <2>7. CASE X!PinMaps
    BY <1>0, <2>7, XdpFacts DEF X!PinMaps, X!XdpState
  <2> QED BY <2>1, <2>2, <2>3, <2>4, <2>5, <2>6, <2>7 DEF X!BpfStep
<1>4. /\ XdpBase' /\ X!XdpKeeps /\ Attached' = Attached
      /\ X!SameProgram(xdp.prog, new)' = X!SameProgram(xdp.prog, new) /\ X!WantedProg' = X!WantedProg
  BY <1>0, <1>3, ProgramLeft
<1>5. /\ xpc' \in {"set", "detach", "setagain"} =>
           /\ xdpwish'.from \in {"pinned", "bpf"}
           /\ ~ failed' => ~ X!SameProgram(xdp.prog, new)'
           /\ ~ failed' /\ X!WantedProg' # None => new' = X!WantedProg'
      /\ xpc' = "done" /\ ~ failed' => Attached'
  BY <1>0, <1>2, <1>4 DEF XdpInv
<1>6. /\ bpc' = "load" =>
           ~ xdpwish'.vrrp /\ xdpwish'.object # NotSet /\ (~ failed' => tag' = xdp'.pin)
      /\ bpc' \in {"unlink", "pin", "rmmaps", "maps"} =>
           tag' = xdpwish'.object /\ xdpwish'.object \in Prog
      /\ bpc' \in {"rmmaps", "maps"} /\ ~ failed' => xdp'.pin = xdpwish'.object
      /\ bpc' = "done" /\ ~ failed' /\ ~ xdpwish'.vrrp /\ xdpwish'.object \notin {None, NotSet} =>
           tag' = xdpwish'.object /\ xdp'.pin = xdpwish'.object
  <2>1. CASE X!SkipBpf
    BY <1>0, <2>1 DEF X!SkipBpf
  <2>2. CASE X!OpenPin
    BY <1>0, <2>2 DEF X!OpenPin, X!XdpFailure
  <2>3. CASE X!LoadObject
    BY <1>0, <2>3, XdpFacts DEF X!LoadObject, X!XdpFailure, X!XdpNoFailure, XdpInv
  <2>4. CASE X!UnlinkPin
    BY <1>0, <2>4 DEF X!UnlinkPin, XdpInv
  <2>5. CASE X!Pin
    BY <1>0, <2>5, XdpFacts DEF X!Pin, X!XdpState, X!XdpFailure, XdpInv
  <2>6. CASE X!RemoveMaps
    BY <1>0, <2>6, XdpFacts DEF X!RemoveMaps, X!XdpState, XdpInv, Pinned
  <2>7. CASE X!PinMaps
    BY <1>0, <2>7, XdpFacts DEF X!PinMaps, X!XdpState, X!XdpFailure, X!XdpNoFailure, XdpInv, Pinned
  <2> QED BY <2>1, <2>2, <2>3, <2>4, <2>5, <2>6, <2>7 DEF X!BpfStep
<1> QED BY <1>4, <1>5, <1>6 DEF XdpInv, Pinned

\* what the BPF section has done stays while the XDP program is set
LEMMA BpfLeft ==
  ASSUME XdpInv, xdpwish' = xdpwish, bpc' = bpc, tag' = tag, xdp'.pin = xdp.pin,
         ~ failed' => ~ failed, XdpBase',
         xpc' \in {"set", "detach", "setagain"} =>
           /\ xdpwish.from \in {"pinned", "bpf"}
           /\ ~ failed' => ~ X!SameProgram(xdp.prog, new)'
           /\ ~ failed' /\ X!WantedProg' # None => new' = X!WantedProg',
         xpc' = "done" /\ ~ failed' => Attached'
  PROVE  XdpInv'
BY DEF XdpInv, Pinned

LEMMA CompareKeeps ==
  ASSUME XdpInv, bpc = "done", X!SkipXdp \/ X!CompareXdp \/ X!RaiseXdp
  PROVE  XdpInv' /\ X!XdpKeeps
<1>0. XdpBase /\ xdpwish' = xdpwish /\ bpc' = bpc /\ tag' = tag /\ xdp' = xdp
  BY DEF XdpInv, X!SkipXdp, X!CompareXdp, X!RaiseXdp
<1>1. X!XdpKeeps
  BY <1>0 DEF X!XdpKeeps
<1>2. CASE X!SkipXdp
  <2>1. xpc' = "done" /\ xdpwish.from = NotSet /\ failed' = failed /\ new' = new
    BY <1>2 DEF X!SkipXdp
  <2>2. XdpBase'
    BY <1>0, <2>1 DEF XdpBase, X!XdpTypeOK
  <2>3. xpc' = "done" => Attached'
    BY <1>0, <2>1, PartsConstantsAssumption DEF Attached
  <2> QED BY <1>0, <1>1, <2>1, <2>2, <2>3, BpfLeft
<1>3. CASE X!RaiseXdp
  <2>1. xpc' = "raised" /\ failed' = failed /\ new' = new
    BY <1>3 DEF X!RaiseXdp
  <2>2. XdpBase'
    BY <1>0, <2>1 DEF XdpBase, X!XdpTypeOK
  <2> QED BY <1>0, <1>1, <2>1, <2>2, BpfLeft
<1>4. CASE X!CompareXdp
  <2>1. xdpwish.from \in {"pinned", "bpf"}
    BY <1>4 DEF X!CompareXdp
  <2>2. PICK p, read, seen :
          /\ p \in {X!NamedProg, None} /\ new' = p
          /\ xpc' = IF X!SameProgram(seen, read) THEN "done" ELSE "set"
          /\ \/ failed' = failed /\ seen = xdp.prog /\ read = X!NamedProg /\ p \in {read, None}
                /\ (read = p \/ read = None)
             \/ failed' = TRUE
    BY <1>4 DEF X!CompareXdp, X!XdpNoFailure, X!XdpFailure
  <2>8. X!NamedProg \in Prog \cup {None} /\ (~ failed' => p = X!NamedProg /\ read = p /\ seen = xdp.prog)
    BY <1>0, <2>1, <2>2, XdpFacts DEF X!NamedProg
  <2>3. XdpBase'
    BY <1>0, <2>2, <2>8 DEF XdpBase, X!XdpTypeOK
  <2>4. ~ failed' /\ X!WantedProg # None => p = X!WantedProg
    BY <1>0, <2>1, <2>2, <2>8, XdpFacts DEF X!WantedProg, X!NamedProg, XdpInv
  <2>5. /\ X!WantedProg' = X!WantedProg
        /\ X!SameProgram(xdp.prog, new)' = X!SameProgram(xdp.prog, p)
    BY <1>0, <2>2 DEF X!WantedProg, X!SameProgram
  <2>6. X!SameProgram(xdp.prog, p) /\ ~ failed' => Attached'
    BY <1>0, <2>4, <2>5 DEF Attached, X!SameProgram
  <2>7. failed' = failed \/ failed' = TRUE
    BY <2>2
  <2> QED BY <1>0, <1>1, <2>1, <2>2, <2>3, <2>4, <2>5, <2>6, <2>7, <2>8, BpfLeft
<1> QED BY <1>2, <1>3, <1>4

\* a program that is as configured is not replaced
LEMMA NotSame ==
  ASSUME XdpInv, xpc \in {"set", "detach", "setagain"}, ~ failed
  PROVE  ~ X!SameProgram(xdp.prog, X!WantedProg)
BY DEF XdpInv, X!SameProgram

LEMMA SetKeeps ==
  ASSUME XdpInv, X!SetXdp \/ X!SetXdpAgain
  PROVE  XdpInv' /\ (~ failed' => X!XdpKeeps)
<1>0. /\ XdpBase /\ xdpwish' = xdpwish /\ bpc' = bpc /\ tag' = tag /\ new' = new
      /\ xpc \in {"set", "setagain"} /\ X!Set(X!ModeFor(xdpwish.mode))
      /\ xdpwish.from \in {"pinned", "bpf"} /\ (~ failed => ~ X!SameProgram(xdp.prog, new))
      /\ ~ failed /\ X!WantedProg # None => new = X!WantedProg
  BY DEF XdpInv, X!SetXdp, X!SetXdpAgain
<1>1. PICK m : m = X!ModeFor(xdpwish.mode)
  OBVIOUS
<1>2. m \in X!Modes /\ xdpwish.mode \in {"auto", m}
  BY <1>0, <1>1, XdpFacts DEF X!ModeFor, X!Modes
<1>3. ~ failed' => ~ failed
  BY <1>0 DEF X!Set, X!XdpFailure, X!XdpNoFailure, XdpInv
<1>4. CASE X!Accepts(new, m) /\ xdp' = X!Attached(new, m) /\ xpc' = "done" /\ failed' = failed
  <2>1. /\ xdp' \in X!XdpState /\ xdp'.pin = xdp.pin /\ xdp'.pinned = xdp.pinned
        /\ new # None => xdp'.prog = new /\ xdp'.mode = m
    BY <1>0, <1>2, <1>4, XdpFacts DEF X!Attached, X!XdpState
  <2>2. XdpBase'
    BY <1>0, <2>1 DEF XdpBase, X!XdpTypeOK
  <2>3. ~ failed' => Attached'
    BY <1>0, <1>2, <1>4, <2>1 DEF Attached, X!WantedProg
  <2>4. XdpInv'
    BY <1>0, <1>3, <1>4, <2>1, <2>2, <2>3, BpfLeft
  <2>5. ~ failed' => X!XdpKeeps
    BY <1>0, <1>4, NotSame DEF X!XdpKeeps
  <2> QED BY <2>4, <2>5
<1>5. CASE /\ xdp' = xdp /\ (xpc' = IF xpc = "set" THEN "detach" ELSE "done")
           /\ xpc = "setagain" => failed'
  <2>1. XdpBase' /\ X!XdpKeeps
    BY <1>0, <1>5 DEF XdpBase, X!XdpTypeOK, X!XdpKeeps
  <2>2. X!SameProgram(xdp.prog, new)' = X!SameProgram(xdp.prog, new) /\ X!WantedProg' = X!WantedProg
    BY <1>0, <1>5 DEF X!SameProgram, X!WantedProg
  <2>3. xpc' = "done" => failed'
    BY <1>0, <1>5
  <2>4. XdpInv'
    BY <1>0, <1>3, <1>5, <2>1, <2>2, <2>3, BpfLeft
  <2> QED BY <2>1, <2>4
<1>6. \/ X!Accepts(new, m) /\ xdp' = X!Attached(new, m) /\ xpc' = "done" /\ failed' = failed
      \/ /\ xdp' = xdp /\ (xpc' = IF xpc = "set" THEN "detach" ELSE "done")
         /\ xpc = "setagain" => failed'
  BY <1>0, <1>1 DEF X!Set, X!XdpFailure, X!XdpNoFailure
<1> QED BY <1>4, <1>5, <1>6

LEMMA DetachKeeps ==
  ASSUME XdpInv, X!DetachXdp
  PROVE  XdpInv' /\ (~ failed' => X!XdpKeeps)
<1>0. /\ XdpBase /\ xdpwish' = xdpwish /\ bpc' = bpc /\ tag' = tag /\ new' = new
      /\ xpc = "detach"
      /\ \/ xdp' = X!Attached(None, X!ModeFor("auto")) /\ xpc' = "setagain" /\ failed' = failed
         \/ xdp' = xdp /\ xpc' = "done" /\ failed' = TRUE
      /\ xdpwish.from \in {"pinned", "bpf"} /\ (~ failed => ~ X!SameProgram(xdp.prog, new))
      /\ ~ failed /\ X!WantedProg # None => new = X!WantedProg
  BY DEF XdpInv, X!DetachXdp, X!XdpFailure, X!XdpNoFailure
<1>1. CASE xdp' = X!Attached(None, X!ModeFor("auto")) /\ xpc' = "setagain" /\ failed' = failed
  <2>1. /\ xdp' \in X!XdpState /\ xdp'.pin = xdp.pin /\ xdp'.pinned = xdp.pinned
        /\ xdp'.prog \in {None, xdp.prog} /\ xdp'.mode = xdp.mode
    BY <1>0, <1>1, XdpFacts DEF X!Attached, X!XdpState
  <2>2. XdpBase'
    BY <1>0, <2>1 DEF XdpBase, X!XdpTypeOK
  <2>3. (~ failed => ~ X!SameProgram(xdp.prog, new)') /\ X!WantedProg' = X!WantedProg
    BY <1>0, <2>1 DEF X!SameProgram, X!WantedProg
  <2>4. XdpInv'
    BY <1>0, <1>1, <2>1, <2>2, <2>3, BpfLeft
  <2>5. ~ failed' => X!XdpKeeps
    BY <1>0, <1>1, NotSame DEF X!XdpKeeps
  <2> QED BY <2>4, <2>5
<1>2. CASE xdp' = xdp /\ xpc' = "done" /\ failed' = TRUE
  <2>1. XdpBase' /\ X!XdpKeeps
    BY <1>0, <1>2 DEF XdpBase, X!XdpTypeOK, X!XdpKeeps
  <2>2. XdpInv'
    BY <1>0, <1>2, <2>1, BpfLeft
  <2> QED BY <2>1, <2>2
<1> QED BY <1>0, <1>1, <1>2

\* No step of the XDP section leaves the invariant or, unless something has failed,
\* detaches a program that is as configured.
LEMMA XdpStepKeeps ==
  ASSUME XdpInv, bpc = "done", X!XdpStep \/ X!RaiseXdp
  PROVE  XdpInv' /\ (~ failed' => X!XdpKeeps)
BY CompareKeeps, SetKeeps, DetachKeeps DEF X!XdpStep

-----------------------------------------------------------------------------
(* The parts beside each other                                             *)

LEMMA PartsInitInv == PartsInit => PartsInv
<1> SUFFICES ASSUME PartsInit PROVE PartsInv
  OBVIOUS
<1>1. PICK s \in Setup :
        /\ config = s.iface[1] /\ kernel = s.iface[2] /\ left = s.iface[3]
        /\ tcwish = s.tcwish /\ tc = s.tc /\ xdpwish = s.xdpwish /\ xdp = s.xdp
  BY DEF PartsInit
<1>2. SetupOK(s)
  BY SetupAssumption
<1>3. ScenarioOK(s.iface)
  BY <1>2 DEF SetupOK
<1>4. /\ config \in Configuration /\ kernel \in KernelState /\ left \in Nat
      /\ Distinct(config) /\ Coherent(kernel) /\ Regular(config, kernel)
      /\ kernel.promote \/ left = 0
  BY <1>1, <1>3 DEF ScenarioOK
<1>5. pc = "idle" /\ i = 1 /\ tpc = "off" /\ bpc = "off" /\ xpc = "off" /\ tag = None /\ new = None
  BY DEF PartsInit
<1>6. Base /\ AtSetting
  BY <1>4, <1>5 DEF Base, TypeOK, PC, AtSetting
<1>7. IInv
  BY <1>5, <1>6 DEF IInv, AddrInv, Comparing, Changing, LaterPC, FdbInv, Appending, Clearing,
         NeighInv, Neighbouring, PeerInv, Peering, Removing
<1>8. TcBase /\ XdpBase
  BY <1>1, <1>2, <1>5 DEF SetupOK, TcBase, T!TcTypeOK, XdpBase, X!XdpTypeOK
<1>9. TcInv /\ XdpInv /\ Order
  BY <1>5, <1>8 DEF TcInv, XdpInv, Order
<1> QED BY <1>7, <1>9 DEF PartsInv

\* the invariants of traffic control and XDP speak of nothing else
LEMMA TcLeft ==
  ASSUME TcInv, UNCHANGED TcVars, ~ failed' => ~ failed
  PROVE  TcInv' /\ T!TcKeeps
<1>1. tc' = tc /\ tcwish' = tcwish /\ tpc' = tpc /\ todo' = todo /\ j' = j
  BY DEF TcVars
<1>2. TcBase /\ TcBase' /\ T!TcKeeps
  BY <1>1, TcSame DEF TcInv
<1>3. /\ T!TcRight' = T!TcRight /\ T!OldFilters' = T!OldFilters /\ T!TcFilters' = T!TcFilters
      /\ T!HasQdisc(T!ParentOf(tcwish.filter[j]))' = T!HasQdisc(T!ParentOf(tcwish.filter[j]))
  BY <1>1 DEF T!TcRight, T!OldFilters, T!FiltersAt, T!NewFilter, T!TcFilters, T!Prio,
              T!ParentOf, T!HasQdisc
<1>4. FiltersDone' = FiltersDone
  BY <1>1 DEF FiltersDone, DoneBefore, T!TcFilters, T!Prio, FilterOf, NamedBy, T!ParentOf
<1>5. \A f : T!Referenced(f)' = T!Referenced(f)
  BY <1>1 DEF T!Referenced, T!TcFilters, T!Prio
<1>6. /\ tpc' = "addqdisc" => tcwish'.qdisc \notin {NotSet, None} /\ (~ failed' => tc'.root = None)
      /\ tpc' \in {"delfilter", "setfilter", "addfilter"} => tcwish'.filter # NotSet
  BY <1>1 DEF TcInv
<1>7. tpc' = "delfilter" =>
        /\ j' = 1
        /\ ~ failed' => \A f \in tc'.filters : T!Referenced(f)' \/ <<f.parent, f.prio>> \in todo'
  BY <1>1, <1>5 DEF TcInv
<1>8. /\ tpc' \in {"setfilter", "addfilter"} =>
           j' \in 1 .. Len(tcwish'.filter) + 1 /\ (~ failed' => FiltersDone')
      /\ tpc' = "addfilter" =>
           /\ j' \in T!TcFilters' /\ T!HasQdisc(T!ParentOf(tcwish.filter[j]))'
           /\ T!OldFilters' = {}
  BY <1>1, <1>3, <1>4 DEF TcInv
<1>9. ~ failed' =>
        /\ tpc' \in {"qdisc", "addqdisc", "filters", "delfilter", "setfilter", "addfilter", "done"} =>
             tcwish'.ingress \in {NotSet, tc'.ingress}
        /\ tpc' \in {"filters", "delfilter", "setfilter", "addfilter", "done"} =>
             tcwish'.qdisc \in {NotSet, tc'.root}
        /\ tpc' = "done" => T!TcRight'
  BY <1>1, <1>3 DEF TcInv
<1> QED BY <1>2, <1>6, <1>7, <1>8, <1>9 DEF TcInv

LEMMA XdpLeft ==
  ASSUME XdpInv, UNCHANGED XdpVars, ~ failed' => ~ failed
  PROVE  XdpInv' /\ X!XdpKeeps
<1>1. /\ xdp' = xdp /\ xdpwish' = xdpwish /\ bpc' = bpc /\ xpc' = xpc /\ tag' = tag
      /\ new' = new
  BY DEF XdpVars
<1>2. XdpBase' /\ X!XdpKeeps
  BY <1>1 DEF XdpInv, XdpBase, X!XdpTypeOK, X!XdpKeeps
<1>3. /\ X!SameProgram(xdp.prog, new)' = X!SameProgram(xdp.prog, new) /\ X!WantedProg' = X!WantedProg
      /\ Attached' = Attached
  BY <1>1 DEF X!SameProgram, X!WantedProg, Attached
<1> QED BY <1>1, <1>2, <1>3 DEF XdpInv, Pinned

\* before the addresses are begun, the parts of Interface have nothing to keep
LEMMA IfaceLeft ==
  ASSUME IInv, UNCHANGED <<config, kernel, i>>, pc' \in {"idle", "sysctl"},
         pc' = "sysctl" => pc = "sysctl", left' = left \/ (left > 0 /\ left' = left - 1)
  PROVE  IInv'
<1>1. left' \in Nat /\ (left = 0 => left' = 0)
  BY DEF IInv, Base
<1>2. i' \in Nat /\ AtSetting'
  BY DEF IInv, Base, TypeOK, AtSetting
<1>3. Base'
  BY <1>1, <1>2, BaseKept, KernelBaseNow DEF IInv, PC
<1> QED BY <1>2, <1>3, NotBegun DEF IInv, AddrPC, LaterPC

LEMMA TcCalls ==
  ASSUME T!TcStep
  PROVE  /\ left' = left \/ (left > 0 /\ left' = left - 1)
         /\ failed' = failed \/ failed' = TRUE
<1>1. CASE T!BeginTc \/ T!LeaveIngress \/ T!LeaveQdisc \/ T!LeaveFilters \/ T!DumpFilters
           \/ T!SetFilters \/ T!SkipFilter \/ T!FinishTc
  BY <1>1 DEF T!BeginTc, T!LeaveIngress, T!LeaveQdisc, T!LeaveFilters, T!DumpFilters,
              T!SetFilters, T!SkipFilter, T!FinishTc, T!rest
<1>2. CASE T!RefuseFilter
  BY <1>2 DEF T!RefuseFilter
<1>3. CASE T!ApplyIngress \/ T!ClearQdisc \/ T!ChangeQdisc \/ T!DeleteQdisc \/ T!AddQdisc
  BY <1>3 DEF T!ApplyIngress, T!ClearQdisc, T!ChangeQdisc, T!DeleteQdisc, T!AddQdisc,
              T!TcFailure, T!TcNoFailure
<1>4. CASE T!DeleteFilters \/ T!ReplaceFilter \/ T!DeleteOldFilter \/ T!AddFilter
  BY <1>4 DEF T!DeleteFilters, T!ReplaceFilter, T!DeleteOldFilter, T!AddFilter,
              T!TcFailure, T!TcNoFailure
<1> QED BY <1>1, <1>2, <1>3, <1>4 DEF T!TcStep

LEMMA XdpCalls ==
  ASSUME XdpInv, X!BpfStep \/ X!XdpStep \/ X!RaiseXdp
  PROVE  /\ left' = left \/ (left > 0 /\ left' = left - 1)
         /\ ~ failed' => ~ failed
<1>1. CASE X!BpfStep
  BY <1>1 DEF X!BpfStep, X!SkipBpf, X!OpenPin, X!LoadObject, X!UnlinkPin, X!Pin,
         X!RemoveMaps, X!PinMaps, X!XdpFailure, X!XdpNoFailure
<1>2. CASE X!SkipXdp \/ X!CompareXdp \/ X!RaiseXdp \/ X!DetachXdp
  BY <1>2 DEF X!SkipXdp, X!CompareXdp, X!RaiseXdp, X!DetachXdp, X!XdpFailure, X!XdpNoFailure
<1>3. CASE X!SetXdp \/ X!SetXdpAgain
  <2>1. PICK m : X!Set(m)
    BY <1>3 DEF X!SetXdp, X!SetXdpAgain
  <2>2. left' = left \/ (left > 0 /\ left' = left - 1)
    BY <2>1 DEF X!Set, X!XdpFailure, X!XdpNoFailure
  <2>3. ~ failed' => ~ failed
    BY <2>1 DEF X!Set, X!XdpFailure, X!XdpNoFailure
  <2> QED BY <2>2, <2>3
<1> QED BY <1>1, <1>2, <1>3 DEF X!XdpStep

LEMMA IfaceCalls ==
  ASSUME \/ SkipSetting \/ SetSysctl \/ Abort
         \/ BeginAddresses \/ ExamineAddress \/ DeleteAddresses \/ DeleteAddress
         \/ AddAddresses \/ AddAddress
         \/ BeginFdb \/ AppendFdb \/ DeleteFdb \/ DeleteFdbEntry
         \/ BeginNeighbours \/ DeleteNeighbour \/ AddNeighbours \/ SetNeighbour
         \/ BeginWireGuard \/ SetInterface \/ SetPeer \/ RemovePeers \/ RemovePeer \/ Finish
  PROVE  failed' = failed \/ failed' = TRUE
<1>1. CASE SkipSetting \/ SetSysctl \/ Abort
  BY <1>1 DEF SkipSetting, SetSysctl, Abort, Failure, NoFailure
<1>2. CASE BeginAddresses \/ ExamineAddress \/ DeleteAddresses \/ DeleteAddress \/ AddAddresses \/ AddAddress
  BY <1>2 DEF BeginAddresses, ExamineAddress, DeleteAddresses, DeleteAddress, AddAddresses,
              AddAddress, Failure, NoFailure
<1>3. CASE BeginFdb \/ AppendFdb \/ DeleteFdb \/ DeleteFdbEntry
  BY <1>3 DEF BeginFdb, AppendFdb, DeleteFdb, DeleteFdbEntry, Failure, NoFailure
<1>4. CASE BeginNeighbours \/ DeleteNeighbour \/ AddNeighbours \/ SetNeighbour
  BY <1>4 DEF BeginNeighbours, DeleteNeighbour, AddNeighbours, SetNeighbour, Failure, NoFailure
<1>5. CASE BeginWireGuard \/ SetInterface \/ SetPeer \/ RemovePeers \/ RemovePeer \/ Finish
  BY <1>5 DEF BeginWireGuard, SetInterface, SetPeer, RemovePeers, RemovePeer, Finish,
              Failure, NoFailure
<1> QED BY <1>1, <1>2, <1>3, <1>4, <1>5

LEMMA InterfaceStep ==
  ASSUME PartsInv, ApplySysctl \/ ApplyAddresses \/ ApplyFdb \/ ApplyNeighbours
                   \/ ApplyWireGuard \/ AbortParts
  PROVE  PartsInv' /\ T!TcKeeps /\ X!XdpKeeps
<1>1. Next /\ UNCHANGED PartVars
  BY DEF ApplySysctl, ApplyAddresses, ApplyFdb, ApplyNeighbours, ApplyWireGuard, AbortParts, Next
<1>2. failed' = failed \/ failed' = TRUE
  BY IfaceCalls DEF ApplySysctl, ApplyAddresses, ApplyFdb, ApplyNeighbours, ApplyWireGuard, AbortParts
<1>3. UNCHANGED TcVars /\ UNCHANGED XdpVars
  BY <1>1 DEF PartVars
<1>4. IInv'
  BY <1>1, NextInv DEF PartsInv
<1>5. TcInv' /\ T!TcKeeps /\ XdpInv' /\ X!XdpKeeps
  BY <1>2, <1>3, TcLeft, XdpLeft DEF PartsInv
<1>6. Order'
  <2>1. bpc' = bpc /\ tpc' = tpc /\ xpc' = xpc
    BY <1>3 DEF TcVars, XdpVars
  <2>2. CASE ApplySysctl
    BY <2>1, <2>2 DEF PartsInv, Order, ApplySysctl, Settings, SkipSetting, SetSysctl
  <2>3. CASE AbortParts
    BY <2>1, <2>3 DEF PartsInv, Order, AbortParts, Abort
  <2>4. CASE ApplyAddresses
    <3>1. pc # "idle"
      BY <2>4 DEF ApplyAddresses, BeginAddresses, ExamineAddress, DeleteAddresses, DeleteAddress,
                  AddAddresses, AddAddress
    <3> QED BY <2>1, <2>4, <3>1 DEF PartsInv, Order, ApplyAddresses
  <2>5. CASE ApplyFdb \/ ApplyNeighbours \/ ApplyWireGuard
    <3>1. pc \notin {"idle", "sysctl"}
      BY <2>5 DEF ApplyFdb, BeginFdb, AppendFdb, DeleteFdb, DeleteFdbEntry, ApplyNeighbours,
                  BeginNeighbours, DeleteNeighbour, AddNeighbours, SetNeighbour, ApplyWireGuard,
                  BeginWireGuard, SetInterface, SetPeer, RemovePeers, RemovePeer, Finish
    <3> QED BY <2>1, <3>1 DEF PartsInv, Order
  <2> QED BY <2>2, <2>3, <2>4, <2>5
<1> QED BY <1>4, <1>5, <1>6 DEF PartsInv

LEMMA StartStep ==
  ASSUME PartsInv, StartParts
  PROVE  PartsInv' /\ T!TcKeeps /\ X!XdpKeeps
<1>1. /\ StartRun /\ tc' = tc /\ tcwish' = tcwish /\ xdp' = xdp /\ xdpwish' = xdpwish
      /\ tag' = tag /\ new' = new /\ tpc' = "off" /\ bpc' = "off" /\ xpc' = "off"
  BY DEF StartParts
<1>2. IInv'
  BY <1>1, OtherStepsKeep DEF PartsInv
<1>3. TcBase' /\ T!TcKeeps
  BY <1>1, TcSame DEF PartsInv, TcInv
<1>4. XdpBase' /\ X!XdpKeeps
  BY <1>1 DEF PartsInv, XdpInv, XdpBase, X!XdpTypeOK, X!XdpKeeps
<1>5. pc' = "sysctl"
  BY <1>1 DEF StartRun
<1> QED BY <1>1, <1>2, <1>3, <1>4, <1>5 DEF PartsInv, TcInv, XdpInv, Order

LEMMA TcPart ==
  ASSUME PartsInv, ApplyTc
  PROVE  PartsInv' /\ T!TcKeeps /\ X!XdpKeeps
<1>1. /\ pc = "sysctl" /\ T!TcStep /\ UNCHANGED XdpVars
      /\ config' = config /\ kernel' = kernel /\ pc' = pc /\ i' = i
  BY DEF ApplyTc, LinkDone, IfaceVars
<1>2. /\ left' = left \/ (left > 0 /\ left' = left - 1)
      /\ failed' = failed \/ failed' = TRUE
  BY <1>1, TcCalls
<1>3. IInv'
  BY <1>1, <1>2, IfaceLeft DEF PartsInv
<1>4. TcInv' /\ T!TcKeeps
  BY <1>1, TcStepKeeps DEF PartsInv
<1>5. XdpInv' /\ X!XdpKeeps
  BY <1>1, <1>2, XdpLeft DEF PartsInv
<1> QED BY <1>1, <1>3, <1>4, <1>5 DEF PartsInv, Order

LEMMA XdpPart ==
  ASSUME PartsInv, LoadBpf \/ ApplyXdp \/ RaiseInXdp
  PROVE  PartsInv' /\ T!TcKeeps /\ (~ failed' => X!XdpKeeps)
<1>1. /\ pc = "sysctl" /\ pc' \in {"idle", "sysctl"} /\ UNCHANGED TcVars
      /\ config' = config /\ kernel' = kernel /\ i' = i
      /\ X!BpfStep \/ (bpc = "done" /\ (X!XdpStep \/ X!RaiseXdp))
  BY DEF LoadBpf, ApplyXdp, RaiseInXdp, Loading, LinkDone, IfaceVars, world
<1>2. /\ left' = left \/ (left > 0 /\ left' = left - 1)
      /\ ~ failed' => ~ failed
  BY <1>1, XdpCalls DEF PartsInv
<1>3. IInv'
  BY <1>1, <1>2, IfaceLeft DEF PartsInv
<1>4. TcInv' /\ T!TcKeeps
  BY <1>1, <1>2, TcLeft DEF PartsInv
<1>5. XdpInv' /\ (~ failed' => X!XdpKeeps)
  BY <1>1, BpfStepKeeps, XdpStepKeeps DEF PartsInv
<1> QED BY <1>1, <1>3, <1>4, <1>5 DEF PartsInv, Order

LEMMA PartsNextInv ==
  PartsInv /\ [PartsNext]_partsvars => PartsInv' /\ T!TcKeeps /\ (~ failed' => X!XdpKeeps)
<1> SUFFICES ASSUME PartsInv, [PartsNext]_partsvars
             PROVE  PartsInv' /\ T!TcKeeps /\ (~ failed' => X!XdpKeeps)
  OBVIOUS
<1>1. CASE StartParts
  BY <1>1, StartStep
<1>2. CASE LoadBpf \/ ApplyXdp \/ RaiseInXdp
  BY <1>2, XdpPart
<1>3. CASE ApplyTc
  BY <1>3, TcPart
<1>4. CASE ApplySysctl \/ ApplyAddresses \/ ApplyFdb \/ ApplyNeighbours \/ ApplyWireGuard \/ AbortParts
  BY <1>4, InterfaceStep
<1>5. CASE UNCHANGED partsvars
  <2>1. UNCHANGED vars /\ UNCHANGED TcVars /\ UNCHANGED XdpVars
    BY <1>5 DEF partsvars, PartVars
  <2>2. failed' = failed /\ pc' = pc
    BY <2>1 DEF vars
  <2>3. IInv'
    BY <2>1, NextInv DEF PartsInv
  <2>4. TcInv' /\ T!TcKeeps /\ XdpInv' /\ X!XdpKeeps
    BY <2>1, <2>2, TcLeft, XdpLeft DEF PartsInv
  <2>5. Order'
    BY <2>1, <2>2 DEF PartsInv, Order, TcVars, XdpVars
  <2> QED BY <2>3, <2>4, <2>5 DEF PartsInv
<1> QED BY <1>1, <1>2, <1>3, <1>4, <1>5 DEF PartsNext

\* The invariant holds of every run of all parts together.
THEOREM PartsInvariance == PartsSpec => []PartsInv
BY PartsInitInv, PartsNextInv, PTL DEF PartsSpec

\* The types of every part.  No qdisc goes without its filters, and no parent gets two
\* filters of one priority, in whatever order calls fail and runs are interrupted.
THEOREM PartsTypeCorrect == PartsSpec => []PartsTypeOK
<1>1. PartsInv => PartsTypeOK
  BY DEF PartsInv, IInv, Base, TcInv, TcBase, XdpInv, XdpBase, PartsTypeOK
<1> QED BY <1>1, PartsInvariance, PTL

\* A run in which no call fails leaves the qdiscs, the filters, the XDP program and the
\* pinned BPF program as configured.
THEOREM PartsTakeEffectHolds == PartsSpec => []PartsTakeEffect
<1>1. PartsInv => PartsTakeEffect
  <2> SUFFICES ASSUME PartsInv, pc = "done", ~ failed PROVE T!TcRight /\ X!XdpRight
    BY DEF PartsTakeEffect
  <2>1. bpc = "done" /\ tpc = "done" /\ xpc = "done"
    BY DEF PartsInv, Order
  <2>2. T!TcRight
    BY <2>1 DEF PartsInv, TcInv
  <2>3. X!XdpRight
    BY <2>1 DEF PartsInv, XdpInv, Attached, Pinned, X!XdpRight
  <2> QED BY <2>2, <2>3
<1> QED BY <1>1, PartsInvariance, PTL

\* And so it does the addresses and what follows them, with the other parts beside them.
THEOREM RunTakesEffectInParts == PartsSpec => []RunTakesEffect
<1>1. PartsInv => RunTakesEffect
  BY InvRight DEF PartsInv
<1> QED BY <1>1, PartsInvariance, PTL

\* No step removes a qdisc or a filter that is to stay, nor, unless something failed,
\* an XDP program that is as configured.
THEOREM PartsKeepHolds == PartsSpec => PartsKeep
<1>1. PartsInv /\ [PartsNext]_partsvars => [T!TcKeeps /\ (~ failed' => X!XdpKeeps)]_partsvars
  BY PartsNextInv
<1> QED BY <1>1, PartsInvariance, PTL DEF PartsSpec, PartsKeep

\* No step of any part removes an address, a forwarding entry, a neighbour or a peer
\* that is as configured.
THEOREM KeepsWhatIsRightInParts == PartsSpec => KeepsWhatIsRight
<1>1. PartsInv /\ [PartsNext]_partsvars => KeepsAddrs /\ KeepsFdb /\ KeepsNeigh /\ KeepsPeers
  <2> SUFFICES ASSUME PartsInv, [PartsNext]_partsvars
               PROVE  KeepsAddrs /\ KeepsFdb /\ KeepsNeigh /\ KeepsPeers
    OBVIOUS
  <2>1. [Next]_vars \/ kernel' = kernel
    BY DEF PartsNext, StartParts, LoadBpf, ApplySysctl, ApplyTc, ApplyXdp, RaiseInXdp,
           ApplyAddresses, ApplyFdb, ApplyNeighbours, ApplyWireGuard, AbortParts, Next,
           IfaceVars, partsvars
  <2> QED BY <2>1, NextKeepsRight, SameKeeps DEF PartsInv
<1>2. PartsInv /\ [PartsNext]_partsvars =>
        [/\ \A k \in kernel.addrs : KeptAddress(k) => \E l \in kernel'.addrs : Addr(l) = Addr(k)
         /\ \A e \in kernel.fdb : KeptFdb(e) => e \in kernel'.fdb
         /\ \A n \in kernel.neigh : KeptNeighbour(n) => n \in kernel'.neigh
         /\ \A p \in kernel.peers : KeptPeer(p) => p \in kernel'.peers]_vars
  BY <1>1 DEF KeepsAddrs, KeepsFdb, KeepsNeigh, KeepsPeers
<1> QED BY <1>2, PartsInvariance, PTL DEF PartsSpec, KeepsWhatIsRight
=============================================================================
