------------------------------- MODULE FlowTable -------------------------------
(***************************************************************************)
(* The flow table of one datapath: what rfserver sends it (the default     *)
(* flows of config_dp, the routes of register_route_mod), what rfproxy     *)
(* makes of that (FlowMod), and what is installed in the end.              *)
(*                                                                         *)
(* The association core is RFServer, in the state it is in once every VM   *)
(* port has registered.  Its client thread handles RouteMods here; that    *)
(* handler keeps its locals in `rthread'.  The datapath and its OpenFlow   *)
(* table are external: adding a flow replaces the one with the same match  *)
(* and priority, a delete that is not strict removes every flow its match  *)
(* covers.  rfclient is external: it announces and withdraws routes.       *)
(***************************************************************************)
EXTENDS RFServer, SequencesExt

CONSTANTS
    IP, DefaultPriority, Permanent,     \* of FlowMod
    dp0,            \* the datapath
    Route,          \* routes: [match, vm, options], vm the VM port they leave by
    Covers,         \* pairs <<p, q>> of destinations: q is within p
    Protocols,      \* the operations of config_dp that follow the first two
    ProtocolMatch,  \* the matches of such an operation
    AttachedAt,     \* where each VM port is attached to the virtual switch
    MaxQueue,       \* bound: RouteMods on their way to rfproxy
    MaxLeaves,      \* bound: how often the datapath leaves
    OneAtATime,     \* whether rfserver's two threads never overlap
    RoutesLast      \* whether routes are announced only once all ports are mapped

ASSUME FlowTableAssumption ==
    /\ Dp = {dp0} /\ IsFiniteSet(DpPort) /\ AttachedAt \in [VmPort -> VsPort]
    /\ \A d \in DpPort : \E c \in Config : c[2] = d
    /\ \A r \in Route : r.vm \in VmPort \cup {NULL}
    /\ \A r \in Route : /\ r.match.type \in {"IPV4", "IPV6"} /\ r.match.value # NULL
                        /\ r.options \in Seq(ToSet(r.options))
    /\ Protocols \in Seq(ToSet(Protocols))
    /\ MaxQueue \in Nat /\ MaxLeaves \in Nat
    /\ OneAtATime \in BOOLEAN /\ RoutesLast \in BOOLEAN

VARIABLES
    announced,  \* routes with an output the client has announced and not withdrawn
    rthread,    \* the RouteMod handler of the client channel's thread
    sending,    \* operations of config_dp still to be sent
    p2s,        \* messages of rfproxy that rfserver has not read
    s2p,        \* RouteMods rfproxy has not read
    up,         \* whether the datapath is connected
    flows,      \* its flow table
    alive,      \* whether rfproxy still runs
    leaves      \* how often the datapath has left

FM == INSTANCE FlowMod

ftvars == <<vars, announced, rthread, sending, p2s, s2p, up, flows, alive, leaves>>

IdleR == [pc |-> "idle", rm |-> NULL, out |-> NULL, todo |-> {}]

Active(v) == \E i \in RowsOfVm(v) : IsActive(rftable[i])

Settled == Quiet /\ rthread.pc = "idle" /\ p2s = <<>> /\ s2p = <<>>

AllMapped == Settled /\ up /\ \A v \in VmPort : Active(v)

Turn(thread) == OneAtATime => thread.pc = "idle"

-------------------------------------------------------------------------------
(* The client thread: register_route_mod.                                  *)

RouteMod(mod, r) ==
    [mod |-> mod, matches |-> <<r.match>>, options |-> r.options,
     actions |-> IF r.vm = NULL THEN <<>> ELSE <<FM!Tlv("OUTPUT", r.vm)>>]

(* Deleting a route takes no action; otherwise the VM port is replaced.    *)
Translate(rm, port) ==
    [rm EXCEPT !.actions = IF rm.mod = "DELETE" THEN <<>>
                                                ELSE <<FM!Tlv("OUTPUT", port)>>,
               !.options = Append(@, FM!Tlv("CT_ID", NULL))]

(* A RouteMod without an output, or whose VM port has no datapath port, is *)
(* dropped.                                                                *)
RegisterRouteMod(mod, r) ==
    /\ rthread.pc = "idle"
    /\ Turn(pthread)
    /\ RoutesLast => AllMapped
    /\ announced' = {x \in IF mod = "ADD" THEN announced \cup {r} ELSE announced \ {r} :
                       x.vm # NULL}
    /\ \/ /\ r.vm = NULL \/ RowsOfVm(r.vm) = {}
          /\ UNCHANGED rthread
       \/ \E i \in RowsOfVm(r.vm) :
            /\ r.vm # NULL
            /\ rthread' = IF IsIdleVmPort(rftable[i]) THEN IdleR
                          ELSE [IdleR EXCEPT !.pc = "list", !.out = rftable[i].dp,
                                  !.rm = Translate(RouteMod(mod, r), rftable[i].dp)]
    /\ UNCHANGED <<vars, sending, p2s, s2p, up, flows, alive, leaves>>

ListInPorts_All ==
    /\ rthread.pc = "list"
    /\ LET ins == {i \in RowsOfDp(DpOf[rthread.out]) : IsActive(rftable[i])}
       IN rthread' = [rthread EXCEPT !.pc = "send", !.todo = {rftable[i] : i \in ins}]
    /\ UNCHANGED <<vars, announced, sending, p2s, s2p, up, flows, alive, leaves>>

(* The other active ports of the datapath, as they are now.                *)
ListInPorts ==
    /\ rthread.pc = "list"
    /\ LET ins == {i \in RowsOfDp(DpOf[rthread.out]) :
                     rftable[i].dp # rthread.out /\ IsActive(rftable[i])}
       IN rthread' = IF ins = {} THEN IdleR
                     ELSE [rthread EXCEPT !.pc = "send", !.todo = {rftable[i] : i \in ins}]
    /\ UNCHANGED <<vars, announced, sending, p2s, s2p, up, flows, alive, leaves>>

SendRouteMod_OnlyFirst ==
    /\ rthread.pc = "send"
    /\ \E e \in rthread.todo :
         s2p' = Append(s2p, [rthread.rm EXCEPT !.matches =
                    @ \o <<FM!Tlv("ETHERNET", e.vm), FM!Tlv("IN_PORT", e.dp)>>])
    /\ rthread' = IdleR
    /\ UNCHANGED <<vars, announced, sending, p2s, up, flows, alive, leaves>>

(* _send_rm_with_matches, one port; the MAC address is the VM port's.      *)
SendRouteMod ==
    /\ rthread.pc = "send"
    /\ Len(s2p) < MaxQueue
    /\ \E e \in rthread.todo :
         /\ s2p' = Append(s2p, [rthread.rm EXCEPT !.matches =
                      @ \o <<FM!Tlv("ETHERNET", e.vm), FM!Tlv("IN_PORT", e.dp)>>])
         /\ rthread' = IF rthread.todo = {e} THEN IdleR
                                             ELSE [rthread EXCEPT !.todo = @ \ {e}]
    /\ UNCHANGED <<vars, announced, sending, p2s, up, flows, alive, leaves>>

-------------------------------------------------------------------------------
(* The proxy thread: config_dp, message by message.                        *)

Operations_ClearLast == <<"DC_DROP_ALL">> \o Protocols \o <<"DC_CLEAR_FLOW_TABLE">>

Operations == <<"DC_CLEAR_FLOW_TABLE", "DC_DROP_ALL">> \o Protocols

ConfigMessage(op) ==
    [mod |-> IF op = "DC_CLEAR_FLOW_TABLE" THEN "DELETE" ELSE "ADD",
     matches |-> IF op \in ToSet(Protocols) THEN ProtocolMatch[op] ELSE <<>>,
     actions |-> IF op \in ToSet(Protocols) THEN <<FM!Tlv("OUTPUT", "controller")>> ELSE <<>>,
     options |-> <<FM!Tlv("PRIORITY", CASE op = "DC_CLEAR_FLOW_TABLE" -> 0
                                        [] op = "DC_DROP_ALL" -> 10
                                        [] OTHER -> 8197),
                   FM!Tlv("CT_ID", NULL)>>]

(* Those operations are none of the first two, rfproxy can convert what    *)
(* adds a flow, and no match is on a MAC address.                          *)
ASSUME ProtocolsAssumption ==
    /\ ToSet(Protocols) \cap {"DC_CLEAR_FLOW_TABLE", "DC_DROP_ALL"} = {}
    /\ \A op \in ToSet(Protocols) :
         /\ ProtocolMatch[op] \in Seq(ToSet(ProtocolMatch[op]))
         /\ \A i \in DOMAIN ProtocolMatch[op] : ProtocolMatch[op][i].type # "ETHERNET"
    /\ \A op \in {"DC_DROP_ALL"} \cup ToSet(Protocols) :
         FM!CreateFlowMod(ConfigMessage(op)) # NULL

SendConfig ==
    /\ pthread.pc = "configure"
    /\ Len(s2p) < MaxQueue
    /\ s2p' = Append(s2p, ConfigMessage(Head(sending)))
    /\ IF Len(sending) > 1 THEN sending' = Tail(sending) /\ UNCHANGED vars
                           ELSE sending' = Operations /\ ConfigDp
    /\ UNCHANGED <<announced, rthread, p2s, up, flows, alive, leaves>>

ProxyThreadReads ==
    /\ pthread.pc = "idle"
    /\ Turn(rthread)
    /\ p2s # <<>>
    /\ LET m == Head(p2s) IN
         \/ m.type = "DatapathPortRegister" /\ RegisterDpPort(m.port)
         \/ m.type = "DatapathDown" /\ SetDpDown(dp0)
    /\ p2s' = Tail(p2s)
    /\ UNCHANGED <<announced, rthread, sending, s2p, up, flows, alive, leaves>>

ProxyThreadStep ==
    /\ DpLookupVm \/ DpSave \/ DpAskMap \/ DownLookup \/ DownSave \/ DownReset
         \/ MapSave \/ MapSend
    /\ UNCHANGED <<announced, rthread, sending, p2s, s2p, up, flows, alive, leaves>>

(* VM ports asked to map themselves do so, at any time and repeatedly; the *)
(* other messages of rfproxy come in its order.                            *)
VmMaps(v) ==
    /\ Turn(rthread)
    /\ alive /\ asked[v] = "map"
    /\ MapPort(v, AttachedAt[v])
    /\ UNCHANGED <<announced, rthread, sending, p2s, s2p, up, flows, alive, leaves>>

(* A virtual switch port goes away: on_port_status_in has the datapath     *)
(* configured again.                                                       *)
VsPortGone ==
    /\ alive
    /\ Turn(rthread)
    /\ RoutesLast => \E v \in VmPort : ~Active(v)
    /\ ReconfigureDp(dp0)
    /\ UNCHANGED <<announced, rthread, sending, p2s, s2p, up, flows, alive, leaves>>

-------------------------------------------------------------------------------
(* rfproxy and the datapath. *)

Within(m, f) ==
    \A k \in DOMAIN m : \/ m[k] = NULL \/ m[k] = f[k]
                        \/ k = "ipv4_dst" /\ <<m[k], f[k]>> \in Covers

Applied(fm) ==
    IF fm.command = "DELETE"
    THEN {f \in flows : ~Within(fm.match, f.match)}
    ELSE {f \in flows : f.match # fm.match \/ f.priority # fm.priority} \cup {fm}

(* process, on a RouteMod; the message is lost if the datapath is away.    *)
(* It tests the datapath's identifier where it should test what            *)
(* create_flow_mod returned: what using NULL does is undefined.  A         *)
(* RouteMod for identifier 0, which it drops, is left out: the identifier  *)
(* of the one datapath here is another.                                    *)
ProcessRouteMod ==
    /\ alive
    /\ s2p # <<>>
    /\ LET fm == FM!CreateFlowMod(Head(s2p)) IN
         \/ fm # NULL /\ flows' = (IF up THEN Applied(fm) ELSE flows) /\ UNCHANGED alive
         \/ fm = NULL /\ UNCHANGED flows /\ alive' \in BOOLEAN
    /\ s2p' = Tail(s2p)
    /\ UNCHANGED <<vars, announced, rthread, sending, p2s, up, leaves>>

(* The datapath joins and describes its ports (on_port_description_in).    *)
Join ==
    /\ ~up /\ alive
    /\ up' = TRUE
    /\ \E order \in SetToSeqs(DpPort) :
         p2s' = p2s \o [k \in DOMAIN order |->
                          [type |-> "DatapathPortRegister", port |-> order[k]]]
    /\ UNCHANGED <<vars, announced, rthread, sending, s2p, flows, alive, leaves>>

(* The datapath leaves (on_datapath_down), with its flows or without.      *)
Leave ==
    /\ up /\ alive
    /\ leaves < MaxLeaves
    /\ RoutesLast => \E v \in VmPort : ~Active(v)
    /\ leaves' = leaves + 1
    /\ up' = FALSE
    /\ flows' \in {flows, {}}
    /\ p2s' = Append(p2s, [type |-> "DatapathDown", port |-> NULL])
    /\ UNCHANGED <<vars, announced, rthread, sending, s2p, alive>>

-------------------------------------------------------------------------------
FlowInit ==
    /\ rftable \in [Doc -> {IdleVm(v) : v \in VmPort}]
    /\ \A v \in VmPort : RowsOfVm(v) # {}
    /\ cthread = IdleC
    /\ pthread = IdleP
    /\ asked = [v \in VmPort |-> "none"]
    /\ mapped = [d \in DpPort |-> NULL]
    /\ configured = {}
    /\ announced = {}
    /\ rthread = IdleR
    /\ sending = Operations
    /\ p2s = <<>> /\ s2p = <<>>
    /\ up = FALSE
    /\ flows = {}
    /\ alive = TRUE
    /\ leaves = 0

FlowNext ==
    \/ \E mod \in {"ADD", "DELETE"}, r \in Route : RegisterRouteMod(mod, r)
    \/ ListInPorts
    \/ SendRouteMod
    \/ SendConfig
    \/ ProxyThreadReads
    \/ ProxyThreadStep
    \/ \E v \in VmPort : VmMaps(v)
    \/ VsPortGone
    \/ ProcessRouteMod
    \/ Join
    \/ Leave

(* Every thread keeps going, a datapath that is away comes back, and a VM  *)
(* port that was asked to map itself does.                                 *)
FlowFairness ==
    /\ WF_ftvars(ListInPorts) /\ WF_ftvars(SendRouteMod)
    /\ WF_ftvars(SendConfig) /\ WF_ftvars(ProxyThreadReads) /\ WF_ftvars(ProxyThreadStep)
    /\ WF_ftvars(ProcessRouteMod) /\ WF_ftvars(Join)

FlowSpec == FlowInit /\ [][FlowNext]_ftvars /\ FlowFairness

-------------------------------------------------------------------------------
(* Properties. *)

(* A flow of route r: from one configured port of the datapath, for the    *)
(* MAC address of its VM port, out of the port configured for r.vm.        *)
FlowOf(f, r) ==
    \E in, out \in Config :
        /\ in # out /\ out[1] = r.vm
        /\ f.match = [FM!AnyPacket EXCEPT !.eth_type = IP, !.ipv4_dst = r.match.value,
                                          !.eth_dst = in[1], !.in_port = in[2]]
        /\ f.actions = <<FM!Tlv("OUTPUT", out[2])>>

DefaultFlows ==
    {FM!CreateFlowMod(ConfigMessage(op)) : op \in {"DC_DROP_ALL"} \cup ToSet(Protocols)}

(* However the threads interleave and the datapath comes and goes, a flow  *)
(* it holds is a default flow or leads between two ports as the            *)
(* configuration has them, never back out of the port a packet came from   *)
(* (register_route_mod, _send_rm_with_matches, create_flow_mod).           *)
FlowsFollowConfig == \A f \in flows : f \in DefaultFlows \/ \E r \in Route : FlowOf(f, r)

(* When nothing is left to be done a configured datapath has all of its    *)
(* default flows: the clear message came first and no route took any of    *)
(* them along (config_dp: "TODO: enforce order: clear should always be     *)
(* executed first").                                                       *)
DefaultsInstalled == Settled /\ up /\ dp0 \in configured => DefaultFlows \subseteq flows

(* When nothing is left to be done a configured datapath holds no flow of  *)
(* a route that was withdrawn (defs.h: RMT_DELETE, "Remove flow from       *)
(* datapath"), from whichever ports it had been installed.                 *)
NoWithdrawnFlows ==
    Settled /\ up /\ dp0 \in configured =>
        \A f \in flows, r \in Route \ announced : ~FlowOf(f, r)

(* A route announced once all ports are mapped has a flow from every other *)
(* active port when nothing is left to be done (defs.h: RMT_ADD, "Add flow *)
(* to datapath"), whatever other routes are announced and withdrawn.       *)
Installed(r) ==
    \A v \in VmPort \ {r.vm} : Active(v) =>
        \E f \in flows : FlowOf(f, r) /\ f.match.eth_dst = v

RoutesInstalled ==
    Settled /\ up => \A r \in announced : r.vm # NULL => Installed(r)

(* A route that stays announced is installed in the end and stays so.      *)
EventuallyInstalled ==
    \A r \in Route : <>[](r \in announced) /\ r.vm # NULL => <>[]Installed(r)
===============================================================================
