------------------------------- MODULE ISLRoutes -------------------------------
(***************************************************************************)
(* Routes over inter-switch links: what register_route_mod sends to the    *)
(* datapath a route leaves by, for packets from its external ports and     *)
(* from its links, and to the datapaths at the other ends of those links.  *)
(*                                                                         *)
(* The handler runs on the thread of the client channel while the other    *)
(* thread writes the ISL table: every query of the table is a step.  The   *)
(* messages a handler sends differ in datapath, input port, Ethernet       *)
(* address and actions; the rest, the command and whether a route that is  *)
(* withdrawn has its output are as in FlowTable.                           *)
(*                                                                         *)
(* An external port stands for its VM port and that port's MAC address as  *)
(* well; its entry in the table of associations is active while its        *)
(* datapath is joined (RFServer has how that comes about).                 *)
(***************************************************************************)
EXTENDS ISLTable

CONSTANTS
    External,       \* the external ports of each datapath
    Output,         \* bound: the external ports that routes leave by
    FirstJoins,     \* bound: RouteMods come after so many joins
    MaxRoutes       \* bound: RouteMods handled

ASSUME RoutesAssumption ==
    /\ DOMAIN External = Dp
    /\ \A x \in Dp : External[x] \cap (DpPort \cup End) = {}
    /\ \A x, y \in Dp : x # y => External[x] \cap External[y] = {}
    /\ Output \subseteq UNION {External[x] : x \in Dp}
    /\ FirstJoins \in Nat /\ MaxRoutes \in Nat

VARIABLES
    rthread,    \* the RouteMod handler of the client channel's thread
    sent,       \* the messages that the last RouteMod has led to
    disturbed,  \* whether the table was written while it was handled
    routes      \* RouteMods handled so far

routeVars == <<rthread, sent, disturbed, routes>>

IdleR == [pc |-> "idle", dp |-> NULL, out |-> NULL, todo |-> {}]

ActivePorts(x) == IF x \in joined THEN External[x] ELSE {}

(* The actions of a message: the addresses it sets, if any, and its output.*)
ToPort(p) == [src |-> NULL, dst |-> NULL, port |-> p]

Across_Swapped(e) == [src |-> e.rem, dst |-> e.own, port |-> PortOf[e.own]]

(* SET_ETH_SRC, SET_ETH_DST and OUTPUT.                                    *)
Across(e) == [src |-> e.own, dst |-> e.rem, port |-> PortOf[e.own]]

(* _send_rm_with_matches: one message for each entry but the output's own, *)
(* which matches the entry's port and Ethernet address.                    *)
SendWithMatches(x, action, entries) ==
    {[dp |-> x, eth |-> e.eth, in |-> e.port, action |-> action] :
        e \in {k \in entries : k.port # action.port}}

PortEntries(x) == {[port |-> p, eth |-> p] : p \in ActivePorts(x)}

LinkEntries(x) ==
    {[port |-> PortOf[isltable[i].own], eth |-> isltable[i].own] :
        i \in {k \in Rows : isltable[k].own \in DpEnds(x) /\ IsActive(isltable[k])}}

-------------------------------------------------------------------------------
(* register_route_mod of a route that leaves datapath x by port p; without *)
(* an active entry for its VM port it is dropped.  Bound: before rfserver   *)
(* dies for the first time; it may die while it handles the RouteMod.      *)
RegisterRouteMod(x, p) ==
    /\ rthread.pc = "idle"
    /\ routes < MaxRoutes /\ joins >= FirstJoins /\ crashes = 0
    /\ p \in ActivePorts(x)
    /\ rthread' = [IdleR EXCEPT !.pc = "ports", !.dp = x, !.out = p]
    /\ sent' = {}
    /\ disturbed' = (thread.pc # "idle")
    /\ routes' = routes + 1
    /\ UNCHANGED islVars

(* The entries of the datapath's external ports, ...                       *)
ListPorts ==
    /\ rthread.pc = "ports"
    /\ rthread' = [rthread EXCEPT !.pc = "links", !.todo = PortEntries(rthread.dp)]
    /\ UNCHANGED <<islVars, sent, disturbed, routes>>

SendOwn_NoLinks ==
    /\ rthread.pc = "links"
    /\ sent' = sent \cup SendWithMatches(rthread.dp, ToPort(rthread.out), rthread.todo)
    /\ rthread' = [rthread EXCEPT !.pc = "remotes", !.todo = {}]
    /\ UNCHANGED <<islVars, disturbed, routes>>

(* ... then those of its links; a message for each.                        *)
SendOwn ==
    /\ rthread.pc = "links"
    /\ sent' = sent \cup SendWithMatches(rthread.dp, ToPort(rthread.out),
                                         rthread.todo \cup LinkEntries(rthread.dp))
    /\ rthread' = [rthread EXCEPT !.pc = "remotes", !.todo = {}]
    /\ UNCHANGED <<islVars, disturbed, routes>>

(* The entries that lead to the datapath from others.                      *)
ListRemotes ==
    /\ rthread.pc = "remotes"
    /\ LET remote == {isltable[i] : i \in {k \in Rows :
                        isltable[k].rem \in DpEnds(rthread.dp) /\ IsActive(isltable[k])}}
       IN rthread' = IF remote = {} THEN IdleR
                     ELSE [rthread EXCEPT !.pc = "send", !.todo = remote]
    /\ UNCHANGED <<islVars, sent, disturbed, routes>>

(* For each of them, the external ports of its datapath.                   *)
SendRemote ==
    /\ rthread.pc = "send"
    /\ \E e \in rthread.todo : LET x == DpOf[PortOf[e.own]] IN
         /\ sent' = sent \cup SendWithMatches(x, Across(e), PortEntries(x))
         /\ rthread' = IF rthread.todo = {e} THEN IdleR
                                             ELSE [rthread EXCEPT !.todo = @ \ {e}]
    /\ UNCHANGED <<islVars, disturbed, routes>>

(* The other thread, and the datapaths.  Bound: not after the last         *)
(* RouteMod.                                                               *)
Disturb ==
    /\ routes < MaxRoutes \/ rthread.pc # "idle"
    /\ disturbed' = (disturbed \/ rthread.pc # "idle")
    /\ UNCHANGED <<sent, routes>>

TableStep ==
    /\ \/ \E p \in DpPort : RegisterIslPort(p)
       \/ RegisterLink \/ RegisterRemote \/ Registered
       \/ \E x \in Dp : SetDpDown(x)
       \/ DownOwn \/ DownTurn \/ DownRem \/ DownEnd
       \/ \E x \in Dp : Join(x)
    /\ Disturb
    /\ UNCHANGED rthread

(* Both threads die; a RouteMod that was being handled is handled again.   *)
CrashBoth ==
    /\ Crash
    /\ Disturb
    /\ rthread' = IF rthread.pc = "idle" THEN IdleR
                  ELSE [rthread EXCEPT !.pc = "ports", !.todo = {}]

RoutesInit ==
    /\ IslInit
    /\ rthread = IdleR
    /\ sent = {}
    /\ disturbed = FALSE
    /\ routes = 0

RoutesNext ==
    \/ \E x \in Dp, p \in Output : RegisterRouteMod(x, p)
    \/ ListPorts
    \/ SendOwn
    \/ ListRemotes
    \/ SendRemote
    \/ TableStep
    \/ CrashBoth

RoutesSpec == RoutesInit /\ [][RoutesNext]_<<islVars, routeVars>>

-------------------------------------------------------------------------------
(* Properties. *)

(* Whatever interleaves and crashes, a message sends packets across no     *)
(* link but one of the configuration, from its own end and to the address  *)
(* of the other, and takes them from external ports only                   *)
(* (register_route_mod, remote_dps).                                       *)
CrossesConfiguredLinks == \A m \in sent : m.action.dst # NULL =>
    /\ <<m.action.src, m.action.dst>> \in Links
    /\ m.action.port = PortOf[m.action.src] /\ m.dp = DpOf[m.action.port]
    /\ m.in \in External[m.dp]

(* The two halves of a route meet: what a neighbour is told to send across *)
(* a link the datapath is told to take from it, and the other way round.   *)
(* It holds of a RouteMod during which the table was not written, until    *)
(* rfserver dies (register_route_mod queries the table twice, once for     *)
(* each half).                                                             *)
HalvesMeet ==
    rthread.pc = "idle" /\ ~disturbed /\ crashes = 0 =>
        /\ \A m \in sent : m.action.dst # NULL =>
             \E n \in sent : n.dp # m.dp /\ n.eth = m.action.dst /\ n.in = PortOf[n.eth]
        /\ \A n \in sent : n.eth \in End =>
             \E l \in Links : /\ l[2] = n.eth
                              /\ \A p \in External[DpOf[PortOf[l[1]]]] :
                                   \E m \in sent : m.in = p /\ m.action.dst = n.eth
===============================================================================
