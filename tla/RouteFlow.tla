------------------------------- MODULE RouteFlow -------------------------------
(***************************************************************************)
(* RFServer and RFProxy together with the channels between them and with   *)
(* what surrounds them: the virtual machines and their clients, the        *)
(* virtual switch the machines are attached to, and the datapaths.         *)
(*                                                                         *)
(* A channel is the queue of the unread messages of one receiver.  The     *)
(* virtual switch and each datapath reach rfproxy by a connection of their *)
(* own.  rfclient, the virtual switch and the datapaths are external: they *)
(* do here what the handlers of rfserver and rfproxy expect of them.       *)
(* A table operation of rfproxy is not interrupted by its other thread, as *)
(* in RFProxyTurns, and nothing here crashes.                              *)
(***************************************************************************)
EXTENDS RFServer, Sequences

CONSTANTS
    MaxQueue,       \* bound of RFProxy, never reached here
    MaxVmStops,     \* bound: how often a virtual machine stops
    MaxDpDowns,     \* bound: how often a datapath goes down
    SwitchesLast,   \* whether datapaths come up only after every VM registered
    OneAtATime,     \* whether rfserver's two threads never overlap
    StopsMapped     \* whether a machine stops only when it is mapped and all is quiet

(* The datapath identifier tells a port of the virtual switch (IS_RFVS).   *)
ASSUME PortsAssumption == DpPort \cap VsPort = {}

ASSUME BoundsAssumption ==
    MaxQueue \in Nat /\ MaxVmStops \in Nat /\ MaxDpDowns \in Nat

ASSUME OrderAssumption ==
    SwitchesLast \in BOOLEAN /\ OneAtATime \in BOOLEAN /\ StopsMapped \in BOOLEAN

VARIABLES
    dp_to_vs, vs_to_dp, ipc, nox, p2s,  \* of RFProxy
    c2s,        \* PortRegister messages rfserver has not read
    s2c,        \* PortConfig messages a VM port's client has not read
    s2p,        \* DataPlaneMap messages rfproxy has not read
    vsQueue,    \* events of the virtual switch rfproxy has not handled
    vmAt,       \* the virtual switch port a VM port is attached to, if it is up
    dpState,    \* "down", "joined" (its ports are being asked for) or "up"
    vmStops, dpDowns    \* the failures so far

Proxy == INSTANCE RFProxy

proxyTable == <<dp_to_vs, vs_to_dp, ipc, nox>>
channels == <<p2s, c2s, s2c, s2p, vsQueue>>
environment == <<vmAt, dpState, vmStops, dpDowns>>

allVars == <<vars, proxyTable, channels, environment>>

(* Nothing is left to be done.                                             *)
Settled ==
    /\ Quiet
    /\ nox.pc = "idle" /\ ipc.pc = "idle"
    /\ p2s = <<>> /\ c2s = <<>> /\ s2p = <<>> /\ vsQueue = <<>>
    /\ \A v \in VmPort : vmAt[v] # NULL => s2c[v] = <<>>

-------------------------------------------------------------------------------
(* The virtual machines. *)

(* A machine starts: its port is attached to a free port of the virtual    *)
(* switch and rfclient registers it.                                       *)
VmStart(v, s) ==
    /\ vmAt[v] = NULL
    /\ \A w \in VmPort : vmAt[w] # s
    /\ vmAt' = [vmAt EXCEPT ![v] = s]
    /\ c2s' = Append(c2s, v)
    /\ UNCHANGED <<vars, proxyTable, p2s, s2c, s2p, vsQueue, dpState, vmStops, dpDowns>>

(* A machine stops: the virtual switch reports that the port is gone.      *)
VmStop(v) ==
    /\ vmAt[v] # NULL
    /\ vmStops < MaxVmStops
    /\ StopsMapped => Settled /\ \E d \in DpPort : dp_to_vs[d] = vmAt[v]
    /\ vmStops' = vmStops + 1
    /\ vmAt' = [vmAt EXCEPT ![v] = NULL]
    /\ vsQueue' = Append(vsQueue, [type |-> "deleted", vm |-> NULL, vs |-> vmAt[v]])
    /\ UNCHANGED <<vars, proxyTable, p2s, c2s, s2c, s2p, dpState, dpDowns>>

(* rfclient reads a PortConfig; asked to map itself, it sends a mapping    *)
(* packet through its port, which the virtual switch sends to rfproxy.     *)
VmReads(v) ==
    /\ vmAt[v] # NULL
    /\ s2c[v] # <<>>
    /\ s2c' = [s2c EXCEPT ![v] = Tail(@)]
    /\ vsQueue' = IF Head(s2c[v]) = "map"
                  THEN Append(vsQueue, [type |-> "mapping", vm |-> v, vs |-> vmAt[v]])
                  ELSE vsQueue
    /\ UNCHANGED <<vars, proxyTable, p2s, c2s, s2p, environment>>

-------------------------------------------------------------------------------
(* The datapaths. *)

(* A datapath joins and rfproxy asks it for its ports (on_datapath_up).    *)
DatapathUp(x) ==
    /\ dpState[x] = "down"
    /\ SwitchesLast => \A v \in VmPort : RowsOfVm(v) # {}
    /\ dpState' = [dpState EXCEPT ![x] = "joined"]
    /\ UNCHANGED <<vars, proxyTable, channels, vmAt, vmStops, dpDowns>>

PortDescription(x) ==
    /\ dpState[x] = "joined"
    /\ dpState' = [dpState EXCEPT ![x] = "up"]
    /\ Proxy!OnPortDescription(Proxy!PortsOf(x))
    /\ UNCHANGED <<vars, c2s, s2c, s2p, vsQueue, vmAt, vmStops, dpDowns>>

DatapathDown(x) ==
    /\ dpState[x] # "down"
    /\ dpDowns < MaxDpDowns
    /\ dpDowns' = dpDowns + 1
    /\ dpState' = [dpState EXCEPT ![x] = "down"]
    /\ ~Proxy!ListenerInside
    /\ Proxy!OnDatapathDown(x)
    /\ UNCHANGED <<vars, c2s, s2c, s2p, vsQueue, vmAt, vmStops>>

-------------------------------------------------------------------------------
(* rfproxy. *)

VsEvent ==
    /\ vsQueue # <<>>
    /\ nox.pc = "idle"
    /\ LET e == Head(vsQueue) IN
         \/ e.type = "mapping" /\ Proxy!OnMappingPacket(e.vm, e.vs)
         \/ /\ e.type = "deleted"
            /\ ~Proxy!ListenerInside
            /\ \/ Proxy!OnVsPortDeleted(e.vs)
               \/ vs_to_dp[e.vs] = NULL /\ UNCHANGED <<proxyTable, p2s>>
    /\ vsQueue' = Tail(vsQueue)
    /\ UNCHANGED <<vars, c2s, s2c, s2p, environment>>

NoxStep ==
    /\ \/ Proxy!DownReverse \/ Proxy!DownSend
       \/ ~Proxy!ListenerInside /\ Proxy!VsForward
       \/ Proxy!VsReverse
       \/ Proxy!RegisterPort
    /\ UNCHANGED <<vars, c2s, s2c, s2p, vsQueue, environment>>

IpcReads ==
    /\ s2p # <<>>
    /\ ~Proxy!ControllerInside
    /\ Proxy!ProcessMap(Head(s2p).dp, Head(s2p).vs)
    /\ s2p' = Tail(s2p)
    /\ UNCHANGED <<vars, c2s, s2c, vsQueue, environment>>

IpcStep ==
    /\ Proxy!WriteForward \/ Proxy!WriteReverse
    /\ UNCHANGED <<vars, c2s, s2c, s2p, vsQueue, environment>>

-------------------------------------------------------------------------------
(* rfserver: each thread reads the head of its channel when it is idle.    *)

(* Messages on which a handler returns at once.                            *)
AlreadyIdle(v) ==
    \E c \in Config : c[1] = v /\ \E i \in RowsOfVm(v) : IsIdleVmPort(rftable[i])

NothingToMap(v) == RowsOfVm(v) = {} \/ \E i \in RowsOfVm(v) : IsIdleVmPort(rftable[i])

ClientThreadReads ==
    /\ c2s # <<>>
    /\ cthread.pc = "idle"
    /\ OneAtATime => pthread.pc = "idle"
    /\ \/ RegisterVmPort(Head(c2s))
       \/ AlreadyIdle(Head(c2s)) /\ UNCHANGED vars
    /\ c2s' = Tail(c2s)
    /\ UNCHANGED <<proxyTable, p2s, s2c, s2p, vsQueue, environment>>

ClientThreadStep ==
    /\ \/ /\ VmLookupDp \/ VmInsert \/ VmSave
          /\ UNCHANGED s2c
       \/ /\ VmAskMap
          /\ s2c' = [s2c EXCEPT ![cthread.vm] = Append(@, "map")]
    /\ UNCHANGED <<proxyTable, p2s, c2s, s2p, vsQueue, environment>>

ProxyThreadReads ==
    /\ pthread.pc = "idle"
    /\ OneAtATime => cthread.pc = "idle"
    /\ Proxy!ServerReads
    /\ LET m == Head(p2s) IN
         \/ m.type = "DatapathPortRegister" /\ RegisterDpPort(m.port)
         \/ m.type = "Reconfigure" /\ ReconfigureDp(m.dp)
         \/ m.type = "Reconfigure" /\ RowsOfDp(m.dp) = {} /\ UNCHANGED vars
         \/ m.type = "DatapathDown" /\ SetDpDown(m.dp)
         \/ m.type = "VirtualPlaneMap" /\ MapPort(m.vm, m.vs)
         \/ m.type = "VirtualPlaneMap" /\ NothingToMap(m.vm) /\ UNCHANGED vars
    /\ UNCHANGED <<c2s, s2c, s2p, vsQueue, environment>>

ProxyThreadStep ==
    /\ \/ /\ ConfigDp \/ DpLookupVm \/ DpInsert \/ DpSave
             \/ DownLookup \/ DownSave \/ MapSave
          /\ UNCHANGED <<s2c, s2p>>
       \/ /\ DpAskMap
          /\ s2c' = [s2c EXCEPT ![pthread.entry.vm] = Append(@, "map")]
          /\ UNCHANGED s2p
       \/ /\ DownReset
          /\ s2c' = [s2c EXCEPT ![pthread.entry.vm] = Append(@, "reset")]
          /\ UNCHANGED s2p
       \/ /\ MapSend
          /\ s2p' = Append(s2p, [dp |-> pthread.entry.dp, vs |-> pthread.entry.vs])
          /\ UNCHANGED s2c
    /\ UNCHANGED <<proxyTable, p2s, c2s, vsQueue, environment>>

-------------------------------------------------------------------------------
SystemInit ==
    /\ Init
    /\ Proxy!ProxyInit
    /\ c2s = <<>>
    /\ s2c = [v \in VmPort |-> <<>>]
    /\ s2p = <<>>
    /\ vsQueue = <<>>
    /\ vmAt = [v \in VmPort |-> NULL]
    /\ dpState = [x \in Dp |-> "down"]
    /\ vmStops = 0 /\ dpDowns = 0

SystemNext ==
    \/ \E v \in VmPort, s \in VsPort : VmStart(v, s)
    \/ \E v \in VmPort : VmStop(v)
    \/ \E v \in VmPort : VmReads(v)
    \/ \E x \in Dp : DatapathUp(x)
    \/ \E x \in Dp : PortDescription(x)
    \/ \E x \in Dp : DatapathDown(x)
    \/ VsEvent
    \/ NoxStep
    \/ IpcReads
    \/ IpcStep
    \/ ClientThreadReads
    \/ ClientThreadStep
    \/ ProxyThreadReads
    \/ ProxyThreadStep

(* Every thread of the programs, every client and every connection keeps   *)
(* going; machines that are down are started and datapaths that are down   *)
(* come back.                                                              *)
Fairness ==
    /\ \A v \in VmPort : WF_allVars(\E s \in VsPort : VmStart(v, s))
    /\ \A v \in VmPort : WF_allVars(VmReads(v))
    /\ \A x \in Dp : WF_allVars(DatapathUp(x)) /\ WF_allVars(PortDescription(x))
    /\ WF_allVars(VsEvent)
    /\ WF_allVars(NoxStep)
    /\ WF_allVars(IpcReads)
    /\ WF_allVars(IpcStep)
    /\ WF_allVars(ClientThreadReads)
    /\ WF_allVars(ClientThreadStep)
    /\ WF_allVars(ProxyThreadReads)
    /\ WF_allVars(ProxyThreadStep)

SystemSpec == SystemInit /\ [][SystemNext]_allVars /\ Fairness

-------------------------------------------------------------------------------
(* Properties. *)

(* Traffic of a datapath port that is up reaches the VM port configured    *)
(* for it and comes back, in the table of rfproxy.                         *)
Mapped(v, d) ==
    vmAt[v] # NULL /\ dp_to_vs[d] = vmAt[v] /\ vs_to_dp[vmAt[v]] = d

(* Every configured pair is mapped in the end and stays so, once machines  *)
(* and datapaths stop failing: no order of registrations, downs, mapping   *)
(* packets and resets leaves a pair unmapped for good.                     *)
EventuallyMapped == \A c \in Config : <>[]Mapped(c[1], c[2])

(* A second document of a VM port: set_dp_down makes its entry idle after  *)
(* register_vm_port found it active and before that looks for the          *)
(* datapath's (rfserver.py:92 to 112).                                     *)
Duplicated(v) == \E i, j \in RowsOfVm(v) : i # j

(* Every configured pair is mapped in the end and stays so, or its VM port *)
(* has two documents, of which register_dp_port associates either and      *)
(* map_port finds either: nothing else leaves a pair unmapped for good.    *)
MappedUnlessDuplicated ==
    \A c \in Config : <>[](Mapped(c[1], c[2]) \/ Duplicated(c[1]))

(* The table never holds a pair the configuration does not have, when      *)
(* nothing is left to be done: "redirect it to the right switch port" and  *)
(* "redirect it to the right RFVS port" (on_packet_in).                    *)
RightPorts ==
    Settled => \A d \in DpPort : dp_to_vs[d] # NULL =>
        \E v \in VmPort : vmAt[v] = dp_to_vs[d] /\ <<v, d>> \in Config

(* When nothing is left to be done, rfproxy and rfserver agree on every    *)
(* datapath that is up: what the table maps (update_dp_port) is an active  *)
(* entry of a configured pair (map_port); and until a machine stops, which *)
(* rfserver is not told, an active entry is mapped in both directions.     *)
Agreement ==
    Settled => \A v \in VmPort, s \in VsPort : \A d \in {p \in DpPort : dpState[DpOf[p]] = "up"} :
        LET entered == \E i \in Rows : rftable[i] = [vm |-> v, dp |-> d, vs |-> s]
            redirected == dp_to_vs[d] = s /\ vs_to_dp[s] = d
        IN /\ redirected /\ vmAt[v] = s => entered /\ <<v, d>> \in Config
           /\ entered /\ vmStops = 0 => redirected

(* A VM port and a datapath port have at most one document each (the       *)
(* TODO of set_entry: "enforce uniqueness restriction").                   *)
OneDocumentEach ==
    \A i, j \in Rows : i # j =>
        /\ rftable[i].vm # NULL => rftable[i].vm # rftable[j].vm
        /\ rftable[i].dp # NULL => rftable[i].dp # rftable[j].dp
===============================================================================
