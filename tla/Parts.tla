-------------------------------- MODULE Parts --------------------------------
(***************************************************************************)
(* One interface as a whole, in the order of IfState._apply and            *)
(* _apply_iface (libifstate/__init__.py): the BPF program, the sysctl      *)
(* settings that Link.apply makes, traffic control, XDP, and then the      *)
(* addresses and what follows them.  Interface, Tc and Xdp are the parts.  *)
(***************************************************************************)
EXTENDS Interface

CONSTANTS QKind, Handle, QOption, Ingress, Rule, NotSet, AutoPrio, Prog,
          Setup  \* <<traffic control, XDP and BPF: configured, in the kernel>>

VARIABLES tc, tcwish, tpc, todo, j, xdp, xdpwish, bpc, xpc, tag, new

T == INSTANCE Tc
X == INSTANCE Xdp

TcVars    == <<tc, tcwish, tpc, todo, j>>
XdpVars   == <<xdp, xdpwish, bpc, xpc, tag, new>>
PartVars  == <<TcVars, XdpVars>>
IfaceVars == <<config, kernel, pc, i, dump, renew, add, changes, runs>>
partsvars == <<vars, PartVars>>

PartsInit ==
  /\ \E s \in Setup :
       /\ config = s.iface[1] /\ kernel = s.iface[2] /\ left = s.iface[3]
       /\ tcwish = s.tcwish /\ tc = s.tc /\ xdpwish = s.xdpwish /\ xdp = s.xdp
  /\ pc = "idle" /\ i = 1 /\ dump = {} /\ renew = {} /\ add = <<>>
  /\ changes = FALSE /\ failed = FALSE /\ runs = 0
  /\ tpc = "off" /\ todo = {} /\ j = 1
  /\ bpc = "off" /\ xpc = "off" /\ tag = None /\ new = None

StartParts ==
  /\ StartRun
  /\ tpc' = "off" /\ bpc' = "off" /\ xpc' = "off"
  /\ UNCHANGED <<tc, tcwish, todo, j, xdp, xdpwish, tag, new>>

Loading  == pc = "sysctl" /\ bpc # "done"
Settings == pc = "sysctl" /\ bpc = "done" /\ i <= Len(config.sysctl)
LinkDone == pc = "sysctl" /\ bpc = "done" /\ i > Len(config.sysctl)

LoadBpf      == Loading /\ X!BpfStep /\ UNCHANGED <<IfaceVars, TcVars>>
ApplySysctl  == Settings /\ (SkipSetting \/ SetSysctl) /\ UNCHANGED PartVars
ApplyTc      == LinkDone /\ tpc # "done" /\ T!TcStep /\ UNCHANGED <<IfaceVars, XdpVars>>
ApplyXdp     == LinkDone /\ tpc = "done" /\ X!XdpStep /\ UNCHANGED <<IfaceVars, TcVars>>

\* nothing catches the exception: it ends the run
RaiseInXdp ==
  /\ LinkDone /\ tpc = "done"
  /\ X!RaiseXdp
  /\ pc' = "idle"
  /\ UNCHANGED <<world, kernel, i, dump, renew, add, changes, TcVars>>

ApplyAddresses ==
  /\ pc = "sysctl" => bpc = "done" /\ tpc = "done" /\ xpc = "done"
  /\ \/ BeginAddresses \/ ExamineAddress \/ DeleteAddresses \/ DeleteAddress
     \/ AddAddresses \/ AddAddress
  /\ UNCHANGED PartVars

ApplyFdb ==
  (BeginFdb \/ AppendFdb \/ DeleteFdb \/ DeleteFdbEntry) /\ UNCHANGED PartVars

ApplyNeighbours ==
  (BeginNeighbours \/ DeleteNeighbour \/ AddNeighbours \/ SetNeighbour) /\ UNCHANGED PartVars

ApplyWireGuard ==
  /\ BeginWireGuard \/ SetInterface \/ SetPeer \/ RemovePeers \/ RemovePeer \/ Finish
  /\ UNCHANGED PartVars

AbortParts == Abort /\ UNCHANGED PartVars

PartsNext ==
  \/ StartParts \/ LoadBpf \/ ApplySysctl \/ ApplyTc \/ ApplyXdp \/ RaiseInXdp
  \/ ApplyAddresses \/ ApplyFdb \/ ApplyNeighbours \/ ApplyWireGuard
  \/ AbortParts

PartsSpec == PartsInit /\ [][PartsNext]_partsvars

-----------------------------------------------------------------------------
(* Configurations and kernels                                              *)

\* what a configuration leaves out, and what there is none of, is told apart from
\* everything else; the handle of the ingress qdisc is no other one's
ASSUME PartsConstantsAssumption ==
  /\ NotSet # None /\ NotSet \notin T!Qdisc /\ None \notin T!Qdisc /\ NotSet \notin BOOLEAN
  /\ Ingress \notin Handle /\ NotSet \notin {Ingress} \cup Handle
  /\ NotSet \notin Prog /\ None \notin Prog /\ NotSet \notin {"pinned", "bpf"}

\* the XDP program of the section `bpf' is configured there, and the apply loads it
XdpDistinct(w) == w.from = "bpf" => w.object # NotSet /\ ~ w.vrrp

SetupOK(s) ==
  /\ ScenarioOK(s.iface)
  /\ s.tcwish \in T!TcWish /\ T!TcDistinct(s.tcwish) /\ T!TcCoherent(s.tc)
  /\ s.xdpwish \in X!XdpWish /\ XdpDistinct(s.xdpwish) /\ s.xdp \in X!XdpState

ASSUME SetupAssumption == \A s \in Setup : SetupOK(s)

-----------------------------------------------------------------------------
(* Properties                                                              *)

\* The types of every part; filters belong to a qdisc that is there, and one parent has
\* one filter of a priority.
PartsTypeOK == TypeOK /\ T!TcTypeOK /\ X!XdpTypeOK

\* A run in which no call fails leaves the qdiscs, the filters and the XDP program as
\* configured, and the BPF program pinned, from whatever was there and whatever an
\* earlier run, interrupted between any two calls, left behind.
PartsTakeEffect == pc = "done" /\ ~ failed => T!TcRight /\ X!XdpRight

\* No step, failing or not, removes an ingress or root qdisc that is as configured but
\* for its options, nor filters the configuration does not speak of; and an XDP program
\* that is as configured is not detached unless something failed before.
PartsKeep == [][T!TcKeeps /\ (~ failed' => X!XdpKeeps)]_partsvars
=============================================================================
