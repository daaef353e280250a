--------------------------------- MODULE Xdp ---------------------------------
(***************************************************************************)
(* BPF.apply (libifstate/bpf/__init__.py) for one program of the           *)
(* configuration, and XDP.apply (libifstate/xdp/__init__.py) of one        *)
(* interface, which may use it.  Parts composes them with the other parts. *)
(***************************************************************************)
EXTENDS Naturals

CONSTANTS
  Prog,    \* BPF programs, told apart by their tags
  NotSet,  \* no program, or no XDP setting, is configured
  None     \* no program, or a file descriptor of -1

VARIABLES
  xdp,      \* what the kernel has: attached program, driver, pinned objects
  xdpwish,  \* the sections `bpf' and `xdp' of the configuration
  bpc, xpc,
  tag,      \* bpf_tags: the tag of the program the BPF object holds open
  new,      \* new_prog_tag
  left, failed

Modes == {"drv", "skb"}

\* native: the driver can run XDP programs; pin and maps belong to the
\* configured BPF program, pinned is the object another program pinned
XdpState == [prog : Prog \cup {None}, mode : Modes, native : BOOLEAN,
             pin : Prog \cup {None}, maps : Prog \cup {None}, pinned : Prog \cup {None}]

\* object: what the object file loads as; from: `pinned', `bpf' or FALSE; mode:
\* "auto" or one mode; vrrp: the apply is one of a VRRP state change
XdpWish == [object : Prog \cup {None, NotSet}, from : {"pinned", "bpf", "false", NotSet},
            mode : Modes \cup {"auto"}, vrrp : BOOLEAN]

XdpFailure   == left > 0 /\ left' = left - 1 /\ failed' = TRUE
XdpNoFailure == UNCHANGED <<left, failed>>

-----------------------------------------------------------------------------
(* The kernel                                                              *)

\* without flags the mode is the driver's, if it has one
ModeFor(m) == IF m # "auto" THEN m ELSE IF xdp.native THEN "drv" ELSE "skb"

\* one mode excludes the other; a driver may have none
Accepts(p, m) == p # None =>
  /\ m = "drv" => xdp.native
  /\ xdp.prog # None => xdp.mode = m

\* no program means to detach what is attached in that mode
Attached(p, m) ==
  IF p = None THEN [xdp EXCEPT !.prog = IF xdp.mode = m THEN None ELSE @]
              ELSE [xdp EXCEPT !.prog = p, !.mode = m]

-----------------------------------------------------------------------------
(* BPF.apply                                                               *)

\* a worker of vrrp-fifo never calls it
SkipBpf ==
  /\ bpc = "off"
  /\ xdpwish.vrrp \/ xdpwish.object = NotSet
  /\ bpc' = "done" /\ tag' = None
  /\ UNCHANGED <<xdp, xdpwish, xpc, new, left, failed>>

\* the pinned program, if there is one and it can be opened
OpenPin ==
  /\ bpc = "off"
  /\ ~ xdpwish.vrrp /\ xdpwish.object # NotSet
  /\ bpc' = "load"
  /\ \/ tag' = xdp.pin /\ XdpNoFailure
     \/ xdp.pin # None /\ tag' = None /\ XdpFailure
  /\ UNCHANGED <<xdp, xdpwish, xpc, new>>

\* an object that does not load leaves the pinned program in use; another program
\* than the pinned one takes its place
LoadObject ==
  /\ bpc = "load"
  /\ \/ /\ IF xdpwish.object \in {None, tag}
             THEN bpc' = "done" /\ UNCHANGED tag
             ELSE bpc' = "unlink" /\ tag' = xdpwish.object
        /\ XdpNoFailure
     \/ bpc' = "done" /\ UNCHANGED tag /\ XdpFailure
  /\ UNCHANGED <<xdp, xdpwish, xpc, new>>

UnlinkPin ==
  /\ bpc = "unlink"
  /\ xdp' = [xdp EXCEPT !.pin = None]
  /\ bpc' = "pin"
  /\ UNCHANGED <<xdpwish, xpc, tag, new, left, failed>>

\* the results of this and of the pinning of the maps are ignored
Pin ==
  /\ bpc = "pin"
  /\ \/ xdp' = [xdp EXCEPT !.pin = tag] /\ XdpNoFailure
     \/ xdp' = xdp /\ XdpFailure
  /\ bpc' = "rmmaps"
  /\ UNCHANGED <<xdpwish, xpc, tag, new>>

RemoveMaps ==
  /\ bpc = "rmmaps"
  /\ xdp' = [xdp EXCEPT !.maps = None]
  /\ bpc' = "maps"
  /\ UNCHANGED <<xdpwish, xpc, tag, new, left, failed>>

PinMaps ==
  /\ bpc = "maps"
  /\ \/ xdp' = [xdp EXCEPT !.maps = tag] /\ XdpNoFailure
     \/ xdp' = xdp /\ XdpFailure
  /\ bpc' = "done"
  /\ UNCHANGED <<xdpwish, xpc, tag, new>>

-----------------------------------------------------------------------------
(* XDP.apply                                                               *)

SkipXdp ==
  /\ xpc = "off"
  /\ xdpwish.from = NotSet
  /\ xpc' = "done"
  /\ UNCHANGED <<xdp, xdpwish, bpc, tag, new, left, failed>>

\* `self.xdp.get("mode", "auto")' of False raises an AttributeError
RaiseXdp ==
  /\ xpc = "off"
  /\ xdpwish.from = "false"
  /\ xpc' = "raised"
  /\ UNCHANGED <<xdp, xdpwish, bpc, tag, new, left, failed>>

\* neither the tags nor the attach mode differ; nothing is attached in no mode
SameProgram(seen, read) ==
  /\ seen = read /\ xdp.prog # None
  /\ xdpwish.mode \in {"auto", xdp.mode}

\* the pinned program, or the one the BPF object holds open
NamedProg == IF xdpwish.from = "bpf" THEN tag ELSE xdp.pinned

\* The new program is p, None if it cannot be opened or was not loaded.  Its tag, which
\* get_bpf knows of the ones it has, is read as that of the attached program is; what
\* cannot be read is None.  Calls that fail here count as one.
CompareXdp ==
  /\ xpc = "off"
  /\ xdpwish.from \in {"pinned", "bpf"}
  /\ \E p \in {NamedProg} \cup (IF xdpwish.from = "pinned" THEN {None} ELSE {}) :
       \E read \in {p} \cup (IF xdpwish.from = "pinned" THEN {None} ELSE {}),
          seen \in {xdp.prog, None} :
         /\ new' = p
         /\ xpc' = IF SameProgram(seen, read) THEN "done" ELSE "set"
         /\ IF seen = xdp.prog /\ read = NamedProg THEN XdpNoFailure ELSE XdpFailure
  /\ UNCHANGED <<xdp, xdpwish, bpc, tag>>

\* the call takes effect, is refused, or fails
Set(m) ==
  \/ Accepts(new, m) /\ xdp' = Attached(new, m) /\ xpc' = "done" /\ XdpNoFailure
  \/ /\ xdp' = xdp
     /\ xpc' = IF xpc = "set" THEN "detach" ELSE "done"
     /\ IF Accepts(new, m) THEN XdpFailure
        ELSE failed' = (failed \/ xpc = "setagain") /\ UNCHANGED left

SetXdp ==
  /\ xpc = "set"
  /\ Set(ModeFor(xdpwish.mode))
  /\ UNCHANGED <<xdpwish, bpc, tag, new>>

\* whatever the reason, it is detached and tried again, once
DetachXdp ==
  /\ xpc = "detach"
  /\ \/ xdp' = Attached(None, ModeFor("auto")) /\ xpc' = "setagain" /\ XdpNoFailure
     \/ xdp' = xdp /\ xpc' = "done" /\ XdpFailure
  /\ UNCHANGED <<xdpwish, bpc, tag, new>>

SetXdpAgain ==
  /\ xpc = "setagain"
  /\ Set(ModeFor(xdpwish.mode))
  /\ UNCHANGED <<xdpwish, bpc, tag, new>>

-----------------------------------------------------------------------------
BpfStep == SkipBpf \/ OpenPin \/ LoadObject \/ UnlinkPin \/ Pin \/ RemoveMaps \/ PinMaps
XdpStep == SkipXdp \/ CompareXdp \/ SetXdp \/ DetachXdp \/ SetXdpAgain

-----------------------------------------------------------------------------
(* What the configuration asks for                                         *)

XdpTypeOK == xdp \in XdpState /\ tag \in Prog \cup {None} /\ new \in Prog \cup {None}

\* the program the configuration names, if there is one
WantedProg == IF xdpwish.from = "pinned" THEN xdp.pinned ELSE xdpwish.object

XdpRight ==
  /\ xdpwish.from \in {"pinned", "bpf"} /\ WantedProg # None =>
       xdp.prog = WantedProg /\ xdpwish.mode \in {"auto", xdp.mode}
  /\ ~ xdpwish.vrrp /\ xdpwish.object \notin {None, NotSet} => xdp.pin = xdpwish.object

\* a program that is as configured is not detached
XdpKeeps ==
  /\ xdpwish.from \in {"pinned", "bpf"} /\ SameProgram(xdp.prog, WantedProg) =>
       xdp'.prog = xdp.prog /\ xdp'.mode = xdp.mode
=============================================================================
