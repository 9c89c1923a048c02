---------------------------- MODULE PortAssociation ----------------------------
(***************************************************************************)
(* What rfserver promises about associations, without a table: a VM port   *)
(* and the datapath port the configuration file gives it are associated    *)
(* from the moment both are registered, whichever came first, until the    *)
(* datapath goes down, which takes all its ports at once and leaves the VM *)
(* ports registered.                                                       *)
(***************************************************************************)
CONSTANTS VmPort, DpPort, Dp, DpOf, Config

VARIABLES
    vmUp,       \* VM ports that have registered
    dpUp,       \* datapath ports that have registered and did not go down
    assoc       \* the associations in force

avars == <<vmUp, dpUp, assoc>>

PortsOf(x) == {d \in DpPort : DpOf[d] = x}

Init == vmUp = {} /\ dpUp = {} /\ assoc = {}

RegisterVm(v) ==
    /\ vmUp' = vmUp \cup {v}
    /\ assoc' = assoc \cup {c \in Config : c[1] = v /\ c[2] \in dpUp}
    /\ UNCHANGED dpUp

RegisterDp(d) ==
    /\ dpUp' = dpUp \cup {d}
    /\ assoc' = assoc \cup {c \in Config : c[2] = d /\ c[1] \in vmUp}
    /\ UNCHANGED vmUp

DatapathDown(x) ==
    /\ dpUp' = dpUp \ PortsOf(x)
    /\ assoc' = {c \in assoc : c[2] \notin PortsOf(x)}
    /\ UNCHANGED vmUp

Next ==
    \/ \E v \in VmPort : RegisterVm(v)
    \/ \E d \in DpPort : RegisterDp(d)
    \/ \E x \in Dp : DatapathDown(x)

Spec == Init /\ [][Next]_avars
===============================================================================
