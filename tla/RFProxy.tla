-------------------------------- MODULE RFProxy --------------------------------
(***************************************************************************)
(* rfproxy (rfproxy/rfproxy.cc, rfproxy.hh): the controller component that *)
(* keeps the table of which virtual switch port stands for which datapath  *)
(* port, and reports datapaths, ports and mapping packets to rfserver.     *)
(*                                                                         *)
(* Two threads use the table and no lock guards it: `ipc', the listener    *)
(* that runs process() for every message of rfserver, and `nox', which     *)
(* runs the handlers of the controller's events one after the other.  An   *)
(* operation of the table is a step per map it touches; what two           *)
(* simultaneous accesses to one std::map do to its memory is not modelled. *)
(*                                                                         *)
(* An operator named after another with a suffix is that operator with a   *)
(* bug in it, kept to show that a property notices.                        *)
(***************************************************************************)
EXTENDS Naturals, Sequences

CONSTANTS
    VmPort, DpPort, Dp, VsPort,
    NULL,       \* no port: NONE of rfproxy.hh, or a key that is not in a map
    DpOf,       \* the datapath of a port
    MaxQueue    \* bound: unread messages rfserver may be behind

ASSUME ProxyNullAssumption == NULL \notin VmPort \cup DpPort \cup VsPort \cup Dp

(* The datapath identifier tells a port of the virtual switch (IS_RFVS).   *)
ASSUME ProxyPortsAssumption == DpPort \cap VsPort = {}

ASSUME ProxyDpOfAssumption == DpOf \in [DpPort -> Dp]

VARIABLES
    dp_to_vs,   \* the table, from datapath ports to virtual switch ports
    vs_to_dp,   \* and back
    ipc,        \* process() on the listener's thread
    nox,        \* the event handler that runs
    p2s         \* messages rfserver has not read

proxyVars == <<dp_to_vs, vs_to_dp, ipc, nox, p2s>>

Message ==
    [type : {"DatapathPortRegister"}, port : DpPort]
    \cup [type : {"Reconfigure"}, dp : Dp]
    \cup [type : {"DatapathDown"}, dp : Dp]
    \cup [type : {"VirtualPlaneMap"}, vm : VmPort, vs : VsPort]

IdleIpc == [pc |-> "idle", dp |-> NULL, vs |-> NULL]

IdleNox == [pc |-> "idle", x |-> NULL, vs |-> NULL, todo |-> {}]

PortsOf(x) == {d \in DpPort : DpOf[d] = x}

Send(m) == Len(p2s) < MaxQueue /\ p2s' = Append(p2s, m)

-------------------------------------------------------------------------------
(* process(): a DataPlaneMap is an update_dp_port.                         *)

ProcessMap_KeepsReverse(d, s) ==
    /\ ipc.pc = "idle"
    /\ ipc' = [pc |-> "forward", dp |-> d, vs |-> s]
    /\ UNCHANGED <<dp_to_vs, vs_to_dp, nox, p2s>>

(* What the datapath port was mapped to before loses its way back. *)
ProcessMap(d, s) ==
    /\ ipc.pc = "idle"
    /\ vs_to_dp' = IF dp_to_vs[d] # NULL THEN [vs_to_dp EXCEPT ![dp_to_vs[d]] = NULL]
                                         ELSE vs_to_dp
    /\ ipc' = [pc |-> "forward", dp |-> d, vs |-> s]
    /\ UNCHANGED <<dp_to_vs, nox, p2s>>

WriteForward ==
    /\ ipc.pc = "forward"
    /\ dp_to_vs' = [dp_to_vs EXCEPT ![ipc.dp] = ipc.vs]
    /\ ipc' = [ipc EXCEPT !.pc = "reverse"]
    /\ UNCHANGED <<vs_to_dp, nox, p2s>>

WriteReverse_Itself ==
    /\ ipc.pc = "reverse"
    /\ vs_to_dp' = [vs_to_dp EXCEPT ![ipc.vs] = ipc.vs]
    /\ ipc' = IdleIpc
    /\ UNCHANGED <<dp_to_vs, nox, p2s>>

WriteReverse ==
    /\ ipc.pc = "reverse"
    /\ vs_to_dp' = [vs_to_dp EXCEPT ![ipc.vs] = ipc.dp]
    /\ ipc' = IdleIpc
    /\ UNCHANGED <<dp_to_vs, nox, p2s>>

-------------------------------------------------------------------------------
(* on_datapath_down: delete_dp, then the message.                          *)

OnDatapathDown(x) ==
    /\ nox.pc = "idle"
    /\ dp_to_vs' = [d \in DpPort |-> IF DpOf[d] = x THEN NULL ELSE dp_to_vs[d]]
    /\ nox' = [IdleNox EXCEPT !.pc = "down_reverse", !.x = x]
    /\ UNCHANGED <<vs_to_dp, ipc, p2s>>

DownReverse_Skipped ==
    /\ nox.pc = "down_reverse"
    /\ nox' = [nox EXCEPT !.pc = "down_send"]
    /\ UNCHANGED <<dp_to_vs, vs_to_dp, ipc, p2s>>

DownReverse ==
    /\ nox.pc = "down_reverse"
    /\ vs_to_dp' = [s \in VsPort |->
                      IF vs_to_dp[s] \in PortsOf(nox.x) THEN NULL ELSE vs_to_dp[s]]
    /\ nox' = [nox EXCEPT !.pc = "down_send"]
    /\ UNCHANGED <<dp_to_vs, ipc, p2s>>

DownSend ==
    /\ nox.pc = "down_send"
    /\ Send([type |-> "DatapathDown", dp |-> nox.x])
    /\ nox' = IdleNox
    /\ UNCHANGED <<dp_to_vs, vs_to_dp, ipc>>

-------------------------------------------------------------------------------
(* on_port_status_in, a port of the virtual switch is deleted: rfserver is *)
(* asked to reconfigure the datapath it stood for, then delete_vs_port.    *)

OnVsPortDeleted(s) ==
    /\ nox.pc = "idle"
    /\ vs_to_dp[s] # NULL
    /\ Send([type |-> "Reconfigure", dp |-> DpOf[vs_to_dp[s]]])
    /\ nox' = [IdleNox EXCEPT !.pc = "vs_forward", !.vs = s]
    /\ UNCHANGED <<dp_to_vs, vs_to_dp, ipc>>

VsForward_Skipped ==
    /\ nox.pc = "vs_forward"
    /\ nox' = [nox EXCEPT !.pc = "vs_reverse"]
    /\ UNCHANGED <<dp_to_vs, vs_to_dp, ipc, p2s>>

VsForward ==
    /\ nox.pc = "vs_forward"
    /\ dp_to_vs' = [d \in DpPort |-> IF dp_to_vs[d] = nox.vs THEN NULL ELSE dp_to_vs[d]]
    /\ nox' = [nox EXCEPT !.pc = "vs_reverse"]
    /\ UNCHANGED <<vs_to_dp, ipc, p2s>>

VsReverse ==
    /\ nox.pc = "vs_reverse"
    /\ vs_to_dp' = [vs_to_dp EXCEPT ![nox.vs] = NULL]
    /\ nox' = IdleNox
    /\ UNCHANGED <<dp_to_vs, ipc, p2s>>

-------------------------------------------------------------------------------
(* on_port_description_in: a registration per port the switch lists, up to *)
(* OFPP_MAX.  on_packet_in: a mapping packet is reported.                  *)

OnPortDescription(ports) ==
    /\ nox.pc = "idle"
    /\ nox' = [IdleNox EXCEPT !.pc = "register", !.todo = ports]
    /\ UNCHANGED <<dp_to_vs, vs_to_dp, ipc, p2s>>

RegisterPort ==
    /\ nox.pc = "register"
    /\ \/ nox.todo = {} /\ nox' = IdleNox /\ UNCHANGED p2s
       \/ \E d \in nox.todo :
            /\ Send([type |-> "DatapathPortRegister", port |-> d])
            /\ nox' = [nox EXCEPT !.todo = @ \ {d}]
    /\ UNCHANGED <<dp_to_vs, vs_to_dp, ipc>>

OnMappingPacket(v, s) ==
    /\ nox.pc = "idle"
    /\ Send([type |-> "VirtualPlaneMap", vm |-> v, vs |-> s])
    /\ UNCHANGED <<dp_to_vs, vs_to_dp, ipc, nox>>

(* on_packet_in: the port any other packet from a port goes out of, NULL   *)
(* if it is dropped.                                                       *)
Redirect(port) == IF port \in VsPort THEN vs_to_dp[port] ELSE dp_to_vs[port]

-------------------------------------------------------------------------------
(* rfserver reads a message. *)
ServerReads ==
    /\ p2s # <<>>
    /\ p2s' = Tail(p2s)
    /\ UNCHANGED <<dp_to_vs, vs_to_dp, ipc, nox>>

ProxyInit ==
    /\ dp_to_vs = [d \in DpPort |-> NULL]
    /\ vs_to_dp = [s \in VsPort |-> NULL]
    /\ ipc = IdleIpc
    /\ nox = IdleNox
    /\ p2s = <<>>

IpcNext ==
    \/ \E d \in DpPort, s \in VsPort : ProcessMap(d, s)
    \/ WriteForward
    \/ WriteReverse

NoxNext ==
    \/ \E x \in Dp : OnDatapathDown(x)
    \/ DownReverse
    \/ DownSend
    \/ \E s \in VsPort : OnVsPortDeleted(s)
    \/ VsForward
    \/ VsReverse
    \/ \E x \in Dp : OnPortDescription(PortsOf(x))
    \/ RegisterPort
    \/ \E v \in VmPort, s \in VsPort : OnMappingPacket(v, s)

(* Which thread is between two steps of an operation of the table.         *)
ListenerInside == ipc.pc # "idle"

ControllerInside == nox.pc \in {"down_reverse", "vs_reverse"}

ProxyNext == IpcNext \/ NoxNext \/ ServerReads

ProxySpec == ProxyInit /\ [][ProxyNext]_proxyVars

-------------------------------------------------------------------------------
(* Properties. *)

IpcState ==
    [pc : {"idle", "forward", "reverse"}, dp : DpPort \cup {NULL}, vs : VsPort \cup {NULL}]

NoxState ==
    [pc : {"idle", "down_reverse", "down_send", "vs_forward", "vs_reverse", "register"},
     x : Dp \cup {NULL}, vs : VsPort \cup {NULL}, todo : SUBSET DpPort]

(* The type invariant: the table is two partial maps between known ports,  *)
(* and the channel holds messages of rfproxy.                              *)
ProxyTypeOK ==
    /\ dp_to_vs \in [DpPort -> VsPort \cup {NULL}]
    /\ vs_to_dp \in [VsPort -> DpPort \cup {NULL}]
    /\ ipc \in IpcState
    /\ nox \in NoxState
    /\ p2s \in Seq(Message)
===============================================================================
