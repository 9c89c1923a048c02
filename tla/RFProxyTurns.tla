----------------------------- MODULE RFProxyTurns -----------------------------
(***************************************************************************)
(* RFProxy with a table whose operations (update_dp_port, delete_dp,       *)
(* vs_port_to_dp_port and delete_vs_port of rfproxy.hh) are whole, as they *)
(* would be if Table had a lock: while one thread is inside an operation   *)
(* the other starts none.  Everything else still interleaves: between two  *)
(* operations of one handler, or between an operation and a message, the   *)
(* other thread may use the table.                                         *)
(***************************************************************************)
EXTENDS RFProxy

VARIABLE
    forgotten   \* history: datapath ports delete_dp removed, not mapped since

turnVars == <<proxyVars, forgotten>>

TurnsInit == ProxyInit /\ forgotten = {}

UpdateDpPort(d, s) ==
    /\ ~ControllerInside
    /\ ProcessMap(d, s)
    /\ forgotten' = forgotten \ {d}

DeleteDp(x) ==
    /\ ~ListenerInside
    /\ OnDatapathDown(x)
    /\ forgotten' = forgotten \cup PortsOf(x)

DeleteVsPort ==
    /\ ~ListenerInside
    /\ VsForward \/ \E s \in VsPort : OnVsPortDeleted(s)
    /\ UNCHANGED forgotten

(* The rest of an operation that has begun. *)
GoOn ==
    /\ WriteForward \/ WriteReverse \/ DownReverse \/ VsReverse
    /\ UNCHANGED forgotten

(* Messages and reports: the table is not touched. *)
NoTable ==
    /\ \/ DownSend
       \/ \E x \in Dp : OnPortDescription(PortsOf(x))
       \/ RegisterPort
       \/ \E v \in VmPort, s \in VsPort : OnMappingPacket(v, s)
       \/ ServerReads
    /\ UNCHANGED forgotten

TurnsNext ==
    \/ \E d \in DpPort, s \in VsPort : UpdateDpPort(d, s)
    \/ \E x \in Dp : DeleteDp(x)
    \/ DeleteVsPort
    \/ GoOn
    \/ NoTable

TurnsSpec == TurnsInit /\ [][TurnsNext]_turnVars

-------------------------------------------------------------------------------
(* Properties. *)

(* A packet that goes out through the table finds its way back: the        *)
(* datapath port a virtual switch port stands for is redirected to that    *)
(* virtual switch port ("redirect it to the right RFVS port" in            *)
(* on_packet_in), whenever no thread is inside an operation.               *)
RoundTrip ==
    ~ListenerInside /\ ~ControllerInside =>
        \A s \in VsPort : Redirect(s) # NULL => Redirect(Redirect(s)) = s

(* What delete_dp removed stays removed, in both directions, until         *)
(* update_dp_port maps the port again: no operation on other ports brings  *)
(* it back, nor on the virtual switch port it was mapped to.  A            *)
(* DataPlaneMap that was on its way may, even before rfserver is told that *)
(* the datapath is down (on_datapath_down).                                *)
StaysForgotten ==
    nox.pc # "down_reverse" =>
        \A d \in forgotten :
            dp_to_vs[d] = NULL /\ \A s \in VsPort : vs_to_dp[s] # d

(* Once a port of the virtual switch is deleted and its operation is over, *)
(* nothing is redirected to it (delete_vs_port).                           *)
DeletedVsPortUnused ==
    [][nox.pc = "vs_reverse" /\ nox'.pc = "idle" =>
         /\ vs_to_dp'[nox.vs] = NULL
         /\ \A d \in DpPort : dp_to_vs'[d] # nox.vs]_turnVars
===============================================================================
