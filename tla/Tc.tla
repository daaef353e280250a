--------------------------------- MODULE Tc ---------------------------------
(***************************************************************************)
(* TC.apply (libifstate/tc/__init__.py): traffic control of one interface. *)
(* First the ingress qdisc, then the root qdisc, then the filters of both. *)
(* Parts composes it with the other parts of an interface.                 *)
(***************************************************************************)
EXTENDS Integers, Sequences, FiniteSets

CONSTANTS
  QKind, Handle, QOption,  \* kind, handle and TCA_OPTIONS of a qdisc
  Ingress,                 \* the handle ffff: of the ingress qdisc
  Rule,                    \* what a filter matches and does
  NotSet,                  \* a key that the configuration leaves out
  None,                    \* `qdisc: None', and the kernel's default root qdisc
  AutoPrio                 \* 0xc001: automatic priorities end below it

VARIABLES
  tc,        \* the kernel's qdiscs and filters of the interface
  tcwish,    \* TC.tc: the configuration
  tpc,
  todo,      \* parents and priorities of filters still to be deleted
  j,         \* the position in tc_filters the run is at
  left, failed

rest == <<tcwish, left, failed>>

Qdisc   == [kind : QKind, handle : Handle, opt : QOption]
Filter  == [parent : Handle \cup {Ingress}, prio : Nat, rule : Rule]
TcState == [ingress : BOOLEAN, root : Qdisc \cup {None}, filters : SUBSET Filter]

\* a filter that names no parent, or no priority, has NotSet there
FilterWish == [parent : {Ingress, NotSet} \cup Handle, prio : {NotSet} \cup Nat, rule : Rule]
TcWish == [ingress : {NotSet} \cup BOOLEAN, qdisc : {None, NotSet} \cup Qdisc,
           filter : {NotSet} \cup Seq(FilterWish)]

TcFailure   == left > 0 /\ left' = left - 1 /\ failed' = TRUE
TcNoFailure == UNCHANGED <<left, failed>>

-----------------------------------------------------------------------------
(* The kernel                                                              *)

\* with a qdisc go its filters
WithoutRoot(t) ==
  [t EXCEPT !.root = None, !.filters = {f \in @ : f.parent = Ingress}]

WithIngress(t, on) ==
  [t EXCEPT !.ingress = on, !.filters = IF on THEN @ ELSE {f \in @ : f.parent # Ingress}]

\* a filter without a parent is one of the root qdisc; the default one has none
ParentOf(w) == IF w.parent = NotSet /\ tc.root # None THEN tc.root.handle ELSE w.parent

QdiscIn(t, h) == IF h = Ingress THEN t.ingress ELSE t.root # None /\ t.root.handle = h
HasQdisc(h)   == QdiscIn(tc, h)

FiltersAt(h, p) == {f \in tc.filters : f.parent = h /\ f.prio = p}

-----------------------------------------------------------------------------
(* apply_ingress                                                           *)

BeginTc ==
  /\ tpc = "off"
  /\ tpc' = "ingress"
  /\ UNCHANGED <<tc, todo, j, rest>>

LeaveIngress ==
  /\ tpc = "ingress"
  /\ tcwish.ingress \in {NotSet, tc.ingress}
  /\ tpc' = "qdisc"
  /\ UNCHANGED <<tc, todo, j, rest>>

ApplyIngress ==
  /\ tpc = "ingress"
  /\ tcwish.ingress \notin {NotSet, tc.ingress}
  /\ \/ tc' = WithIngress(tc, tcwish.ingress) /\ TcNoFailure
     \/ tc' = tc /\ TcFailure
  /\ tpc' = "qdisc"
  /\ UNCHANGED <<tcwish, todo, j>>

-----------------------------------------------------------------------------
(* apply_qtree                                                             *)

LeaveQdisc ==
  /\ tpc = "qdisc"
  /\ tcwish.qdisc = NotSet
  /\ tpc' = "filters"
  /\ UNCHANGED <<tc, todo, j, rest>>

\* the qdisc tree is cleaned up; that there is only the default one is ignored
ClearQdisc ==
  /\ tpc = "qdisc"
  /\ tcwish.qdisc = None
  /\ \/ tc' = WithoutRoot(tc) /\ TcNoFailure
     \/ tc.root # None /\ tc' = tc /\ TcFailure
  /\ tpc' = "filters"
  /\ UNCHANGED <<tcwish, todo, j>>

\* (mutant of SameQdisc: a qdisc with other options is created anew)
SameQdiscAndOptions == tc.root # None /\ tc.root = tcwish.qdisc

\* neither the kind nor the handle differs
SameQdisc ==
  /\ tc.root # None
  /\ tc.root.kind = tcwish.qdisc.kind
  /\ tc.root.handle = tcwish.qdisc.handle

ChangeQdisc ==
  /\ tpc = "qdisc"
  /\ tcwish.qdisc \notin {NotSet, None}
  /\ SameQdisc
  /\ \/ tc' = [tc EXCEPT !.root.opt = tcwish.qdisc.opt] /\ TcNoFailure
     \/ tc' = tc /\ TcFailure
  /\ tpc' = "filters"
  /\ UNCHANGED <<tcwish, todo, j>>

\* recreate: the old one is deleted, and in any case the new one is added
DeleteQdisc ==
  /\ tpc = "qdisc"
  /\ tcwish.qdisc \notin {NotSet, None}
  /\ ~ SameQdisc
  /\ \/ tc' = WithoutRoot(tc) /\ TcNoFailure
     \/ tc.root # None /\ tc' = tc /\ TcFailure
  /\ tpc' = "addqdisc"
  /\ UNCHANGED <<tcwish, todo, j>>

\* it is refused while the old one is still there
AddQdisc ==
  /\ tpc = "addqdisc"
  /\ \/ tc.root = None /\ tc' = [tc EXCEPT !.root = tcwish.qdisc] /\ TcNoFailure
     \/ tc.root = None /\ tc' = tc /\ TcFailure
     \/ tc.root # None /\ tc' = tc /\ TcNoFailure
  /\ tpc' = "filters"
  /\ UNCHANGED <<tcwish, todo, j>>

-----------------------------------------------------------------------------
(* apply_filter                                                            *)

\* filters without a priority get one by their position
PrioIn(filters, i) ==
  IF filters[i].prio = NotSet THEN AutoPrio - Len(filters) + i - 1 ELSE filters[i].prio
Prio(i) == PrioIn(tcwish.filter, i)

\* tc_filters: of filters with the same parent and priority the last one is left
TcFilters ==
  {i \in DOMAIN tcwish.filter :
     \A k \in i + 1 .. Len(tcwish.filter) :
       tcwish.filter[k].parent # tcwish.filter[i].parent \/ Prio(k) # Prio(i)}

\* (mutant of Referenced: parents are not told apart)
ReferencedPrio(f) == \E i \in TcFilters : Prio(i) = f.prio

\* the dump gives every filter its parent, so that one configured without is not found
Referenced(f) == \E i \in TcFilters : tcwish.filter[i].parent = f.parent /\ Prio(i) = f.prio

LeaveFilters ==
  /\ tpc = "filters"
  /\ tcwish.filter = NotSet
  /\ tpc' = "done"
  /\ UNCHANGED <<tc, todo, j, rest>>

DumpFilters ==
  /\ tpc = "filters"
  /\ tcwish.filter # NotSet
  /\ todo' = {<<f.parent, f.prio>> : f \in {f \in tc.filters : ~ Referenced(f)}}
  /\ tpc' = "delfilter" /\ j' = 1
  /\ UNCHANGED <<tc, rest>>

DeleteFilters ==
  /\ tpc = "delfilter"
  /\ \E x \in todo :
       /\ todo' = todo \ {x}
       /\ \/ tc' = [tc EXCEPT !.filters = @ \ FiltersAt(x[1], x[2])] /\ TcNoFailure
          \/ tc' = tc /\ TcFailure
  /\ UNCHANGED <<tcwish, tpc, j>>

SetFilters ==
  /\ tpc = "delfilter" /\ todo = {}
  /\ tpc' = "setfilter"
  /\ UNCHANGED <<tc, todo, j, rest>>

NewFilter == [parent |-> ParentOf(tcwish.filter[j]), prio |-> Prio(j), rule |-> tcwish.filter[j].rule]
OldFilters == FiltersAt(NewFilter.parent, NewFilter.prio)

SkipFilter ==
  /\ tpc = "setfilter" /\ j \in DOMAIN tcwish.filter \ TcFilters
  /\ j' = j + 1
  /\ UNCHANGED <<tc, tpc, todo, rest>>

\* there is no qdisc to take it
RefuseFilter ==
  /\ tpc = "setfilter" /\ j \in TcFilters
  /\ ~ HasQdisc(ParentOf(tcwish.filter[j]))
  /\ j' = j + 1
  /\ failed' = TRUE
  /\ UNCHANGED <<tc, tcwish, tpc, todo, left>>

\* `replace-filter' works if there is none
ReplaceFilter ==
  /\ tpc = "setfilter" /\ j \in TcFilters
  /\ HasQdisc(ParentOf(tcwish.filter[j]))
  /\ OldFilters = {}
  /\ \/ tc' = [tc EXCEPT !.filters = @ \cup {NewFilter}] /\ TcNoFailure
     \/ tc' = tc /\ TcFailure
  /\ j' = j + 1
  /\ UNCHANGED <<tcwish, tpc, todo>>

\* (mutant of DeleteOldFilter: it is added beside the old one)
KeepOldFilter ==
  /\ tpc = "setfilter" /\ j \in TcFilters
  /\ HasQdisc(ParentOf(tcwish.filter[j]))
  /\ OldFilters # {}
  /\ tpc' = "addfilter"
  /\ UNCHANGED <<tc, todo, j, rest>>

\* otherwise the old one is deleted first
DeleteOldFilter ==
  /\ tpc = "setfilter" /\ j \in TcFilters
  /\ HasQdisc(ParentOf(tcwish.filter[j]))
  /\ OldFilters # {}
  /\ \/ /\ tc' = [tc EXCEPT !.filters = @ \ OldFilters]
        /\ tpc' = "addfilter" /\ j' = j
        /\ TcNoFailure
     \/ tc' = tc /\ tpc' = tpc /\ j' = j + 1 /\ TcFailure
  /\ UNCHANGED <<tcwish, todo>>

AddFilter ==
  /\ tpc = "addfilter"
  /\ \/ tc' = [tc EXCEPT !.filters = @ \cup {NewFilter}] /\ TcNoFailure
     \/ tc' = tc /\ TcFailure
  /\ tpc' = "setfilter" /\ j' = j + 1
  /\ UNCHANGED <<tcwish, todo>>

FinishTc ==
  /\ tpc = "setfilter" /\ j > Len(tcwish.filter)
  /\ tpc' = "done"
  /\ UNCHANGED <<tc, todo, j, rest>>

-----------------------------------------------------------------------------
TcStep ==
  \/ BeginTc \/ LeaveIngress \/ ApplyIngress
  \/ LeaveQdisc \/ ClearQdisc \/ ChangeQdisc \/ DeleteQdisc \/ AddQdisc
  \/ LeaveFilters \/ DumpFilters \/ DeleteFilters \/ SetFilters
  \/ SkipFilter \/ RefuseFilter \/ ReplaceFilter \/ DeleteOldFilter \/ AddFilter
  \/ FinishTc

-----------------------------------------------------------------------------
(* What the configuration asks for                                         *)

\* what the kernel's state is: filters belong to a qdisc that is there, and one parent
\* has one filter of a priority
TcCoherent(t) ==
  /\ t \in [ingress : BOOLEAN, root : {None} \cup Qdisc, filters : SUBSET t.filters]
  /\ \A f \in t.filters : QdiscIn(t, f.parent)
  /\ \A f, g \in t.filters : f.parent = g.parent /\ f.prio = g.prio => f = g

\* a filter without a parent and one with a handle can be told apart by their priorities
TcDistinct(w) ==
  w.filter # NotSet =>
    \A m, n \in DOMAIN w.filter :
      w.filter[m].parent = NotSet /\ w.filter[n].parent \in Handle =>
        PrioIn(w.filter, m) # PrioIn(w.filter, n)

TcTypeOK == TcCoherent(tc)

TcRight ==
  /\ tcwish.ingress \in {NotSet, tc.ingress}
  /\ tcwish.qdisc \in {NotSet, tc.root}
  /\ tcwish.filter # NotSet =>
       tc.filters = {[parent |-> ParentOf(tcwish.filter[i]), prio |-> Prio(i),
                      rule |-> tcwish.filter[i].rule] : i \in TcFilters}

IngressKept == tcwish.ingress \in {NotSet, TRUE}
RootKept ==
  \/ tcwish.qdisc = NotSet
  \/ /\ None \notin {tc.root, tcwish.qdisc}
     /\ [tc.root EXCEPT !.opt = tcwish.qdisc.opt] = tcwish.qdisc

\* a qdisc of the configured kind and handle stays, and with it the filters if
\* they are not configured
TcKeeps ==
  /\ IngressKept /\ tc.ingress => tc'.ingress
  /\ RootKept /\ tc.root # None =>
       tc'.root # None /\ [tc'.root EXCEPT !.opt = tc.root.opt] = tc.root
  /\ tcwish.filter = NotSet =>
       \A f \in tc.filters :
         (IF f.parent = Ingress THEN IngressKept ELSE RootKept) => f \in tc'.filters
=============================================================================
