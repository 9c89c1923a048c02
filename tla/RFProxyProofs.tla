----------------------------- MODULE RFProxyProofs -----------------------------
(***************************************************************************)
(* Proofs about RFProxy for every set of ports and datapaths: types under  *)
(* every interleaving, the table's consistency when its operations are     *)
(* whole (RFProxyTurns).                                                   *)
(***************************************************************************)
EXTENDS RFProxyTurns, TLAPS

(* The inductive invariant: where the two maps may disagree in the middle  *)
(* of each operation, and what is left of the ports delete_dp removed.     *)
WayBack(s) == vs_to_dp[s] # NULL => dp_to_vs[vs_to_dp[s]] = s

Turn == ~ListenerInside \/ ~ControllerInside

IpcSafe ==
    ListenerInside =>
        /\ ipc.dp \in DpPort /\ ipc.vs \in VsPort
        /\ ipc.dp \notin forgotten
        /\ \A s \in VsPort : WayBack(s) /\ vs_to_dp[s] # ipc.dp
        /\ ipc.pc = "reverse" => dp_to_vs[ipc.dp] = ipc.vs

NoxSafe ==
    /\ nox.pc \in {"down_reverse", "down_send"} => nox.x \in Dp
    /\ nox.pc \in {"vs_forward", "vs_reverse"} => nox.vs \in VsPort
    /\ ~ControllerInside => \A s \in VsPort : WayBack(s)
    /\ nox.pc = "down_reverse" =>
         \A s \in VsPort : WayBack(s) \/ vs_to_dp[s] \in PortsOf(nox.x)
    /\ nox.pc = "vs_reverse" =>
         /\ \A s \in VsPort \ {nox.vs} : WayBack(s)
         /\ \A d \in DpPort : dp_to_vs[d] # nox.vs

(* In the middle of delete_dp the way back to its ports is still there.    *)
HistorySafe ==
    /\ forgotten \subseteq DpPort
    /\ \A d \in forgotten : dp_to_vs[d] = NULL
    /\ \A d \in forgotten :
          \/ \A s \in VsPort : vs_to_dp[s] # d
          \/ nox.pc = "down_reverse" /\ d \in PortsOf(nox.x)

ProxyInv == ProxyTypeOK /\ Turn /\ IpcSafe /\ NoxSafe /\ HistorySafe

-------------------------------------------------------------------------------
(* The channel only ever holds messages. *)
LEMMA SendType ==
  ASSUME p2s \in Seq(Message), NEW m \in Message, Send(m)
  PROVE  p2s' \in Seq(Message)
  BY DEF Send

LEMMA InitTypes == ProxyInit => ProxyTypeOK
  BY DEF ProxyInit, ProxyTypeOK, IpcState, NoxState, IdleIpc, IdleNox, Message

LEMMA InitProxyInv == TurnsInit => ProxyInv
  BY InitTypes
  DEF TurnsInit, ProxyInit, ProxyInv, IdleIpc, IdleNox, Turn, ListenerInside,
      ControllerInside, IpcSafe, NoxSafe, HistorySafe, WayBack

-------------------------------------------------------------------------------
(* The listener's thread: update_dp_port. *)

LEMMA UpdateDpPortStep ==
  ASSUME ProxyInv, NEW d \in DpPort, NEW s \in VsPort, UpdateDpPort(d, s)
  PROVE  ProxyInv'
<1>1. /\ UNCHANGED <<dp_to_vs, nox, p2s>>
      /\ ipc' = [pc |-> "forward", dp |-> d, vs |-> s]
      /\ forgotten' = forgotten \ {d}
      /\ ~ControllerInside
      /\ \A r \in VsPort : WayBack(r)
  BY DEF UpdateDpPort, ProcessMap, ProxyInv, NoxSafe
<1>2. vs_to_dp' \in [VsPort -> DpPort \cup {NULL}]
      /\ \A r \in VsPort : vs_to_dp'[r] = IF dp_to_vs[d] = r THEN NULL ELSE vs_to_dp[r]
  BY ProxyNullAssumption DEF UpdateDpPort, ProcessMap, ProxyInv, ProxyTypeOK
<1>3. ~ControllerInside' /\ ProxyTypeOK' /\ Turn'
  BY <1>1, <1>2 DEF ProxyInv, ProxyTypeOK, IpcState, Turn, ControllerInside
<1>4. \A r \in VsPort : WayBack(r)' /\ vs_to_dp'[r] # d
  BY <1>1, <1>2, ProxyNullAssumption DEF WayBack
<1>5. IpcSafe'
  BY <1>1, <1>4 DEF IpcSafe
<1>6. NoxSafe'
  BY <1>1, <1>3, <1>4 DEF NoxSafe, ProxyInv, ControllerInside
<1>7. HistorySafe'
  BY <1>1, <1>2, ProxyNullAssumption DEF ProxyInv, HistorySafe, ControllerInside
<1>. QED
  BY <1>3, <1>5, <1>6, <1>7 DEF ProxyInv

LEMMA WriteForwardStep ==
  ASSUME ProxyInv, WriteForward, UNCHANGED forgotten
  PROVE  ProxyInv'
<1>1. /\ UNCHANGED <<vs_to_dp, nox, p2s>>
      /\ ipc' = [ipc EXCEPT !.pc = "reverse"]
      /\ ipc.dp \in DpPort /\ ipc.vs \in VsPort /\ ipc.dp \notin forgotten
      /\ ~ControllerInside
      /\ \A r \in VsPort : WayBack(r) /\ vs_to_dp[r] # ipc.dp
  BY DEF WriteForward, ProxyInv, IpcSafe, Turn, ListenerInside
<1>2. dp_to_vs' \in [DpPort -> VsPort \cup {NULL}]
      /\ \A d \in DpPort : dp_to_vs'[d] = IF d = ipc.dp THEN ipc.vs ELSE dp_to_vs[d]
  BY <1>1 DEF WriteForward, ProxyInv, ProxyTypeOK
<1>3. ~ControllerInside' /\ ProxyTypeOK' /\ Turn'
  BY <1>1, <1>2 DEF ProxyInv, ProxyTypeOK, IpcState, Turn, ControllerInside
<1>4. \A r \in VsPort : WayBack(r)' /\ vs_to_dp'[r] # ipc.dp
  BY <1>1, <1>2 DEF ProxyInv, ProxyTypeOK, WayBack
<1>5. IpcSafe'
  BY <1>1, <1>2, <1>4 DEF ProxyInv, ProxyTypeOK, IpcState, IpcSafe
<1>6. NoxSafe'
  BY <1>1, <1>3, <1>4 DEF NoxSafe, ProxyInv, ControllerInside
<1>7. HistorySafe'
  BY <1>1, <1>2 DEF ProxyInv, HistorySafe
<1>. QED
  BY <1>3, <1>5, <1>6, <1>7 DEF ProxyInv

LEMMA WriteReverseStep ==
  ASSUME ProxyInv, WriteReverse, UNCHANGED forgotten
  PROVE  ProxyInv'
<1>1. /\ UNCHANGED <<dp_to_vs, nox, p2s>> /\ ipc' = IdleIpc
      /\ ipc.dp \in DpPort /\ ipc.vs \in VsPort /\ ipc.dp \notin forgotten
      /\ ~ControllerInside
      /\ dp_to_vs[ipc.dp] = ipc.vs
      /\ \A r \in VsPort : WayBack(r)
  BY DEF WriteReverse, ProxyInv, IpcSafe, Turn, ListenerInside
<1>2. vs_to_dp' \in [VsPort -> DpPort \cup {NULL}]
      /\ \A r \in VsPort : vs_to_dp'[r] = IF r = ipc.vs THEN ipc.dp ELSE vs_to_dp[r]
  BY <1>1 DEF WriteReverse, ProxyInv, ProxyTypeOK
<1>3. ~ListenerInside' /\ ~ControllerInside' /\ ProxyTypeOK' /\ Turn'
  BY <1>1, <1>2 DEF ProxyInv, ProxyTypeOK, IpcState, IdleIpc, Turn, ListenerInside,
     ControllerInside
<1>4. \A r \in VsPort : WayBack(r)'
  BY <1>1, <1>2 DEF WayBack
<1>5. IpcSafe' /\ NoxSafe'
  BY <1>1, <1>3, <1>4 DEF IpcSafe, NoxSafe, ProxyInv, ControllerInside
<1>6. HistorySafe'
  BY <1>1, <1>2 DEF ProxyInv, HistorySafe, ControllerInside
<1>. QED
  BY <1>3, <1>5, <1>6 DEF ProxyInv

-------------------------------------------------------------------------------
(* The events' thread: delete_dp. *)

LEMMA DeleteDpStep ==
  ASSUME ProxyInv, NEW x \in Dp, DeleteDp(x)
  PROVE  ProxyInv'
<1>1. /\ UNCHANGED <<vs_to_dp, ipc, p2s>>
      /\ nox' = [IdleNox EXCEPT !.pc = "down_reverse", !.x = x]
      /\ dp_to_vs' = [d \in DpPort |-> IF DpOf[d] = x THEN NULL ELSE dp_to_vs[d]]
      /\ forgotten' = forgotten \cup PortsOf(x)
      /\ ~ListenerInside /\ nox.pc = "idle"
      /\ \A s \in VsPort : WayBack(s)
  BY DEF DeleteDp, OnDatapathDown, ProxyInv, NoxSafe, ControllerInside
<1>2. ~ListenerInside' /\ ProxyTypeOK' /\ Turn' /\ IpcSafe'
  BY <1>1 DEF ProxyInv, ProxyTypeOK, NoxState, IdleNox, Turn, IpcSafe, ListenerInside
<1>3. nox'.pc = "down_reverse" /\ nox'.x = x
  BY <1>1 DEF IdleNox
<1>4. \A s \in VsPort : WayBack(s)' \/ vs_to_dp'[s] \in PortsOf(x)
  BY <1>1 DEF ProxyInv, ProxyTypeOK, WayBack, PortsOf
<1>5. NoxSafe'
  BY <1>1, <1>3, <1>4 DEF NoxSafe, ControllerInside
<1>6. HistorySafe'
  BY <1>1, <1>3 DEF ProxyInv, HistorySafe, PortsOf
<1>. QED
  BY <1>2, <1>5, <1>6 DEF ProxyInv

LEMMA DownReverseStep ==
  ASSUME ProxyInv, DownReverse, UNCHANGED forgotten
  PROVE  ProxyInv'
<1>1. /\ UNCHANGED <<dp_to_vs, ipc, p2s>>
      /\ nox' = [nox EXCEPT !.pc = "down_send"]
      /\ vs_to_dp' = [s \in VsPort |->
                        IF vs_to_dp[s] \in PortsOf(nox.x) THEN NULL ELSE vs_to_dp[s]]
      /\ ~ListenerInside /\ nox.x \in Dp
      /\ \A s \in VsPort : WayBack(s) \/ vs_to_dp[s] \in PortsOf(nox.x)
  BY DEF DownReverse, ProxyInv, NoxSafe, Turn, ControllerInside
<1>2. ~ListenerInside' /\ ProxyTypeOK' /\ Turn' /\ IpcSafe'
  BY <1>1 DEF ProxyInv, ProxyTypeOK, NoxState, Turn, IpcSafe, ListenerInside
<1>3. nox'.pc = "down_send" /\ nox'.x = nox.x
  BY <1>1 DEF ProxyInv, ProxyTypeOK, NoxState
<1>4. \A s \in VsPort : WayBack(s)'
  BY <1>1, ProxyNullAssumption DEF WayBack, PortsOf
<1>5. NoxSafe'
  BY <1>1, <1>3, <1>4 DEF NoxSafe
<1>6. HistorySafe'
  BY <1>1, ProxyNullAssumption DEF ProxyInv, HistorySafe
<1>. QED
  BY <1>2, <1>5, <1>6 DEF ProxyInv

-------------------------------------------------------------------------------
(* The events' thread: delete_vs_port. *)

LEMMA OnVsPortDeletedStep ==
  ASSUME ProxyInv, NEW s \in VsPort, ~ListenerInside, OnVsPortDeleted(s),
         UNCHANGED forgotten
  PROVE  ProxyInv'
<1>1. /\ UNCHANGED <<dp_to_vs, vs_to_dp, ipc>>
      /\ nox' = [IdleNox EXCEPT !.pc = "vs_forward", !.vs = s]
      /\ Send([type |-> "Reconfigure", dp |-> DpOf[vs_to_dp[s]]])
      /\ vs_to_dp[s] \in DpPort /\ nox.pc = "idle"
      /\ \A r \in VsPort : WayBack(r)
  BY DEF OnVsPortDeleted, ProxyInv, NoxSafe, ProxyTypeOK, ControllerInside
<1>2. p2s' \in Seq(Message)
  BY <1>1, SendType, ProxyDpOfAssumption DEF ProxyInv, ProxyTypeOK, Message
<1>3. nox'.pc = "vs_forward" /\ nox'.vs = s /\ nox' \in NoxState
  BY <1>1 DEF IdleNox, NoxState
<1>4. \A r \in VsPort : WayBack(r)'
  BY <1>1 DEF WayBack
<1>5. ProxyTypeOK' /\ Turn' /\ IpcSafe' /\ NoxSafe' /\ HistorySafe'
  BY <1>1, <1>2, <1>3, <1>4 DEF ProxyInv, ProxyTypeOK, Turn, IpcSafe, NoxSafe, HistorySafe,
     ListenerInside
<1>. QED
  BY <1>5 DEF ProxyInv

LEMMA VsForwardStep ==
  ASSUME ProxyInv, ~ListenerInside, VsForward, UNCHANGED forgotten
  PROVE  ProxyInv'
<1>1. /\ UNCHANGED <<vs_to_dp, ipc, p2s>>
      /\ nox' = [nox EXCEPT !.pc = "vs_reverse"]
      /\ dp_to_vs' = [d \in DpPort |-> IF dp_to_vs[d] = nox.vs THEN NULL ELSE dp_to_vs[d]]
      /\ nox.pc = "vs_forward" /\ nox.vs \in VsPort
      /\ \A s \in VsPort : WayBack(s)
  BY DEF VsForward, ProxyInv, NoxSafe, ControllerInside
<1>2. ~ListenerInside' /\ ProxyTypeOK' /\ Turn' /\ IpcSafe'
  BY <1>1 DEF ProxyInv, ProxyTypeOK, NoxState, Turn, IpcSafe, ListenerInside
<1>3. nox'.pc = "vs_reverse" /\ nox'.vs = nox.vs
  BY <1>1 DEF ProxyInv, ProxyTypeOK, NoxState
<1>4. /\ \A s \in VsPort \ {nox.vs} : WayBack(s)'
      /\ \A d \in DpPort : dp_to_vs'[d] # nox.vs
  BY <1>1, ProxyNullAssumption DEF ProxyInv, ProxyTypeOK, WayBack
<1>5. NoxSafe'
  BY <1>1, <1>3, <1>4 DEF NoxSafe, ControllerInside
<1>6. HistorySafe'
  BY <1>1, ProxyNullAssumption DEF ProxyInv, HistorySafe
<1>. QED
  BY <1>2, <1>5, <1>6 DEF ProxyInv

LEMMA VsReverseStep ==
  ASSUME ProxyInv, VsReverse, UNCHANGED forgotten
  PROVE  ProxyInv' /\ vs_to_dp'[nox.vs] = NULL /\ \A d \in DpPort : dp_to_vs'[d] # nox.vs
<1>1. /\ UNCHANGED <<dp_to_vs, ipc, p2s>> /\ nox' = IdleNox
      /\ vs_to_dp' = [vs_to_dp EXCEPT ![nox.vs] = NULL]
      /\ ~ListenerInside /\ nox.vs \in VsPort
      /\ \A s \in VsPort \ {nox.vs} : WayBack(s)
      /\ \A d \in DpPort : dp_to_vs[d] # nox.vs
  BY DEF VsReverse, ProxyInv, NoxSafe, Turn, ControllerInside
<1>2. ~ListenerInside' /\ ProxyTypeOK' /\ Turn' /\ IpcSafe'
  BY <1>1 DEF ProxyInv, ProxyTypeOK, NoxState, IdleNox, Turn, IpcSafe, ListenerInside
<1>3. vs_to_dp'[nox.vs] = NULL /\ \A s \in VsPort : WayBack(s)'
  BY <1>1 DEF ProxyInv, ProxyTypeOK, WayBack
<1>4. NoxSafe'
  BY <1>1, <1>3 DEF NoxSafe, IdleNox
<1>5. \A d \in forgotten : d # NULL /\ (nox.pc = "down_reverse" \/
                                       \A s \in VsPort : vs_to_dp[s] # d)
  BY ProxyNullAssumption DEF ProxyInv, HistorySafe
<1>6. HistorySafe'
  BY <1>1, <1>5 DEF ProxyInv, ProxyTypeOK, HistorySafe, VsReverse
<1>. QED
  BY <1>1, <1>2, <1>3, <1>4, <1>6 DEF ProxyInv

-------------------------------------------------------------------------------
(* What does not touch the table. *)

LEMMA NoTableStep ==
  ASSUME ProxyInv, NoTable
  PROVE  ProxyInv'
<1>1. UNCHANGED <<dp_to_vs, vs_to_dp, ipc, forgotten>>
  BY DEF NoTable, DownSend, OnPortDescription, RegisterPort, OnMappingPacket, ServerReads
<1>2. ASSUME nox' \in NoxState, p2s' \in Seq(Message),
             \/ UNCHANGED nox
             \/ /\ nox'.pc \in {"idle", "register"}
                /\ nox.pc \in {"idle", "register", "down_send"}
      PROVE  ProxyInv'
  <2>1. IpcSafe'
    BY <1>1 DEF ProxyInv, IpcSafe, WayBack, ListenerInside
  <2>2. NoxSafe'
    BY <1>1, <1>2 DEF ProxyInv, NoxSafe, WayBack, ControllerInside
  <2>3. HistorySafe'
    BY <1>1, <1>2 DEF ProxyInv, HistorySafe
  <2>. QED
    BY <1>1, <1>2, <2>1, <2>2, <2>3 DEF ProxyInv, ProxyTypeOK, Turn, ListenerInside,
       ControllerInside
<1>3. CASE DownSend
  <2>1. /\ nox' = IdleNox /\ nox.pc = "down_send" /\ nox.x \in Dp
        /\ Send([type |-> "DatapathDown", dp |-> nox.x])
    BY <1>3 DEF DownSend, ProxyInv, NoxSafe
  <2>2. p2s' \in Seq(Message)
    BY <2>1, SendType DEF ProxyInv, ProxyTypeOK, Message
  <2>. QED
    BY <1>2, <2>1, <2>2 DEF IdleNox, NoxState
<1>4. ASSUME NEW x \in Dp, OnPortDescription(PortsOf(x))
      PROVE  ProxyInv'
  BY <1>2, <1>4 DEF OnPortDescription, IdleNox, NoxState, PortsOf, ProxyInv, ProxyTypeOK
<1>5. CASE RegisterPort
  <2>1. nox \in NoxState /\ nox.pc = "register"
    BY <1>5 DEF RegisterPort, ProxyInv, ProxyTypeOK
  <2>2. CASE nox' = IdleNox /\ UNCHANGED p2s
    BY <1>2, <2>1, <2>2 DEF IdleNox, NoxState, ProxyInv, ProxyTypeOK
  <2>3. ASSUME NEW d \in nox.todo,
               Send([type |-> "DatapathPortRegister", port |-> d]),
               nox' = [nox EXCEPT !.todo = @ \ {d}]
        PROVE  ProxyInv'
    <3>1. [type |-> "DatapathPortRegister", port |-> d] \in Message
      BY <2>1 DEF NoxState, Message
    <3>2. p2s' \in Seq(Message)
      BY <2>3, <3>1, SendType DEF ProxyInv, ProxyTypeOK
    <3>3. nox' \in NoxState /\ nox'.pc = "register"
      BY <2>1, <2>3 DEF NoxState
    <3>. QED
      BY <1>2, <2>1, <3>2, <3>3
  <2>. QED
    BY <1>5, <2>2, <2>3 DEF RegisterPort
<1>6. ASSUME NEW v \in VmPort, NEW s \in VsPort, OnMappingPacket(v, s)
      PROVE  ProxyInv'
  <2>1. [type |-> "VirtualPlaneMap", vm |-> v, vs |-> s] \in Message
    BY DEF Message
  <2>2. p2s' \in Seq(Message)
    BY <1>6, <2>1, SendType DEF OnMappingPacket, ProxyInv, ProxyTypeOK
  <2>. QED
    BY <1>2, <1>6, <2>2 DEF OnMappingPacket, ProxyInv, ProxyTypeOK
<1>7. CASE ServerReads
  BY <1>2, <1>7 DEF ServerReads, ProxyInv, ProxyTypeOK
<1>. QED
  BY <1>3, <1>4, <1>5, <1>6, <1>7 DEF NoTable

LEMMA NextProxyInv ==
  ASSUME ProxyInv, [TurnsNext]_turnVars
  PROVE  ProxyInv'
<1>1. CASE DeleteVsPort
  BY <1>1, OnVsPortDeletedStep, VsForwardStep DEF DeleteVsPort
<1>2. CASE GoOn
  BY <1>2, WriteForwardStep, WriteReverseStep, DownReverseStep, VsReverseStep DEF GoOn
<1>3. CASE UNCHANGED turnVars
  BY <1>3 DEF turnVars, proxyVars, ProxyInv, ProxyTypeOK, Turn, ListenerInside,
     ControllerInside, IpcSafe, NoxSafe, HistorySafe, WayBack
<1>. QED
  BY <1>1, <1>2, <1>3, UpdateDpPortStep, DeleteDpStep, NoTableStep DEF TurnsNext

-------------------------------------------------------------------------------
(* The theorems. *)

THEOREM ProxyInductive == TurnsSpec => []ProxyInv
<1>1. ProxyInv /\ [TurnsNext]_turnVars => ProxyInv'
  BY NextProxyInv
<1>. QED
  BY InitProxyInv, <1>1, PTL DEF TurnsSpec

(* The locals an operation in progress uses are set, however the threads   *)
(* interleave.                                                             *)
LocalsSet ==
    /\ ipc.pc # "idle" => ipc.dp \in DpPort /\ ipc.vs \in VsPort
    /\ nox.pc \in {"down_reverse", "down_send"} => nox.x \in Dp
    /\ nox.pc \in {"vs_forward", "vs_reverse"} => nox.vs \in VsPort

LEMMA IpcTypes ==
  ASSUME ProxyTypeOK, LocalsSet, IpcNext
  PROVE  ProxyTypeOK' /\ LocalsSet'
<1>1. ASSUME NEW d \in DpPort, NEW s \in VsPort, ProcessMap(d, s)
      PROVE  ProxyTypeOK' /\ LocalsSet'
  <2>1. ipc' = [pc |-> "forward", dp |-> d, vs |-> s] /\ UNCHANGED <<dp_to_vs, nox, p2s>>
    BY <1>1 DEF ProcessMap
  <2>2. vs_to_dp' \in [VsPort -> DpPort \cup {NULL}]
    BY <1>1 DEF ProcessMap, ProxyTypeOK
  <2>. QED
    BY <2>1, <2>2 DEF ProxyTypeOK, LocalsSet, IpcState
<1>2. CASE WriteForward
  BY <1>2 DEF WriteForward, ProxyTypeOK, LocalsSet, IpcState
<1>3. CASE WriteReverse
  BY <1>3 DEF WriteReverse, ProxyTypeOK, LocalsSet, IpcState, IdleIpc
<1>. QED
  BY <1>1, <1>2, <1>3 DEF IpcNext

LEMMA NoxTypes ==
  ASSUME ProxyTypeOK, LocalsSet, NoxNext
  PROVE  ProxyTypeOK' /\ LocalsSet'
<1>1. ASSUME NEW x \in Dp, OnDatapathDown(x)
      PROVE  ProxyTypeOK' /\ LocalsSet'
  BY <1>1 DEF OnDatapathDown, ProxyTypeOK, LocalsSet, NoxState, IdleNox
<1>2. CASE DownReverse
  BY <1>2 DEF DownReverse, ProxyTypeOK, LocalsSet, NoxState
<1>3. CASE DownSend
  <2>1. p2s' \in Seq(Message)
    BY <1>3, SendType DEF DownSend, ProxyTypeOK, LocalsSet, Message
  <2>. QED
    BY <1>3, <2>1 DEF DownSend, ProxyTypeOK, LocalsSet, NoxState, IdleNox
<1>4. ASSUME NEW s \in VsPort, OnVsPortDeleted(s)
      PROVE  ProxyTypeOK' /\ LocalsSet'
  <2>1. p2s' \in Seq(Message)
    BY <1>4, SendType, ProxyDpOfAssumption DEF OnVsPortDeleted, ProxyTypeOK, Message
  <2>. QED
    BY <1>4, <2>1 DEF OnVsPortDeleted, ProxyTypeOK, LocalsSet, NoxState, IdleNox
<1>5. CASE VsForward
  BY <1>5 DEF VsForward, ProxyTypeOK, LocalsSet, NoxState
<1>6. CASE VsReverse
  BY <1>6 DEF VsReverse, ProxyTypeOK, LocalsSet, NoxState, IdleNox
<1>7. ASSUME NEW x \in Dp, OnPortDescription(PortsOf(x))
      PROVE  ProxyTypeOK' /\ LocalsSet'
  BY <1>7 DEF OnPortDescription, ProxyTypeOK, LocalsSet, NoxState, IdleNox, PortsOf
<1>8. CASE RegisterPort
  <2>1. CASE nox' = IdleNox /\ UNCHANGED p2s
    BY <1>8, <2>1 DEF RegisterPort, ProxyTypeOK, LocalsSet, NoxState, IdleNox
  <2>2. ASSUME NEW d \in nox.todo,
               Send([type |-> "DatapathPortRegister", port |-> d]),
               nox' = [nox EXCEPT !.todo = @ \ {d}]
        PROVE  ProxyTypeOK' /\ LocalsSet'
    <3>1. p2s' \in Seq(Message)
      BY <2>2, SendType DEF ProxyTypeOK, NoxState, Message
    <3>. QED
      BY <1>8, <2>2, <3>1 DEF RegisterPort, ProxyTypeOK, LocalsSet, NoxState
  <2>. QED
    BY <1>8, <2>1, <2>2 DEF RegisterPort
<1>9. ASSUME NEW v \in VmPort, NEW s \in VsPort, OnMappingPacket(v, s)
      PROVE  ProxyTypeOK' /\ LocalsSet'
  <2>1. p2s' \in Seq(Message)
    BY <1>9, SendType DEF OnMappingPacket, ProxyTypeOK, Message
  <2>. QED
    BY <1>9, <2>1 DEF OnMappingPacket, ProxyTypeOK, LocalsSet
<1>. QED
  BY <1>1, <1>2, <1>3, <1>4, <1>5, <1>6, <1>7, <1>8, <1>9 DEF NoxNext

(* The table of rfproxy and its messages are of the types the code gives   *)
(* them, even when its threads interrupt each other's operations.          *)
THEOREM ProxyTypeCorrect == ProxySpec => []ProxyTypeOK
<1>1. ProxyInit => ProxyTypeOK /\ LocalsSet
  BY InitTypes DEF ProxyInit, IdleIpc, IdleNox, LocalsSet
<1>2. ProxyTypeOK /\ LocalsSet /\ [ProxyNext]_proxyVars => ProxyTypeOK' /\ LocalsSet'
  <2>1. ASSUME ProxyTypeOK, LocalsSet, ServerReads
        PROVE  ProxyTypeOK' /\ LocalsSet'
    BY <2>1 DEF ServerReads, ProxyTypeOK, LocalsSet
  <2>2. ASSUME ProxyTypeOK, LocalsSet, UNCHANGED proxyVars
        PROVE  ProxyTypeOK' /\ LocalsSet'
    BY <2>2 DEF proxyVars, ProxyTypeOK, LocalsSet
  <2>. QED
    BY <2>1, <2>2, IpcTypes, NoxTypes DEF ProxyNext
<1>. QED
  BY <1>1, <1>2, PTL DEF ProxySpec

(* When its operations do not interrupt each other, the table redirects    *)
(* what a virtual switch port sends to a datapath port that is redirected  *)
(* back to it, after every operation (update_dp_port, delete_dp and        *)
(* delete_vs_port of rfproxy.hh).                                          *)
THEOREM TableRoundTrip == TurnsSpec => []RoundTrip
<1>1. ProxyInv => RoundTrip
  BY ProxyPortsAssumption
  DEF ProxyInv, ProxyTypeOK, NoxSafe, WayBack, RoundTrip, Redirect
<1>. QED
  BY ProxyInductive, <1>1, PTL

(* When its operations do not interrupt each other, what delete_dp of      *)
(* rfproxy.hh removed comes back, in either direction, only by an          *)
(* update_dp_port of the same datapath port.                               *)
THEOREM ForgottenUntilMapped == TurnsSpec => []StaysForgotten
<1>1. ProxyInv => StaysForgotten
  BY DEF ProxyInv, HistorySafe, StaysForgotten
<1>. QED
  BY ProxyInductive, <1>1, PTL

(* When the operation that deletes a port of the virtual switch is over,   *)
(* the table has the port nowhere (delete_vs_port of rfproxy.hh).          *)
THEOREM DeletedIsUnused == TurnsSpec => DeletedVsPortUnused
<1> DEFINE Deleted ==
        nox.pc = "vs_reverse" /\ nox'.pc = "idle" =>
            /\ vs_to_dp'[nox.vs] = NULL
            /\ \A d \in DpPort : dp_to_vs'[d] # nox.vs
<1>1. ASSUME ProxyInv, [TurnsNext]_turnVars
      PROVE  [Deleted]_turnVars
  <2> SUFFICES ASSUME TurnsNext, nox.pc = "vs_reverse", nox'.pc = "idle"
               PROVE  Deleted
    BY <1>1
  <2>1. CASE VsReverse /\ UNCHANGED forgotten
    BY <2>1, <1>1, VsReverseStep
  <2>2. ~NoTable /\ ~DeleteVsPort /\ ~\E x \in Dp : DeleteDp(x)
    BY DEF NoTable, DownSend, OnPortDescription, RegisterPort, OnMappingPacket, ServerReads,
           DeleteVsPort, VsForward, OnVsPortDeleted, DeleteDp, OnDatapathDown
  <2>3. ~\E d \in DpPort, s \in VsPort : UpdateDpPort(d, s)
    BY DEF UpdateDpPort, ControllerInside
  <2>4. GoOn => VsReverse /\ UNCHANGED forgotten
    BY DEF GoOn, WriteForward, WriteReverse, DownReverse
  <2>. QED
    BY <2>1, <2>2, <2>3, <2>4 DEF TurnsNext
<1>2. ProxyInv /\ [TurnsNext]_turnVars => [Deleted]_turnVars
  BY <1>1
<1>. QED
  BY ProxyInductive, <1>2, PTL DEF TurnsSpec, DeletedVsPortUnused
===============================================================================
