--------------------------- MODULE RouteFlowProofs ----------------------------
(***************************************************************************)
(* Proofs about RouteFlow: rfserver and rfproxy with the channels between  *)
(* them, the virtual machines and the datapaths, for every set of ports    *)
(* and queues of any length.                                               *)
(***************************************************************************)
EXTENDS RouteFlow, AssociationProofs

(* Of RFProxy's proofs, the facts about types: no history is kept here.    *)
ProxyFacts == INSTANCE RFProxyProofs WITH forgotten <- {}

(* The messages a queue holds. *)
Queued(q) == {q[k] : k \in 1 .. Len(q)}

(* What the virtual switch reports, and a DataPlaneMap.                    *)
Event ==
    [type : {"mapping"}, vm : VmPort, vs : VsPort]
    \cup [type : {"deleted"}, vm : {NULL}, vs : VsPort]

Mapping == [dp : DpPort, vs : VsPort]

(* A message to a VM port or to rfproxy is only sent of an entry that has  *)
(* the fields it is made of.                                               *)
Sendable ==
    /\ pthread.pc \in {"ask_map", "down_reset"} => pthread.entry.vm # NULL
    /\ pthread.pc = "map_send" => pthread.entry.vs # NULL

(* The types of the composition. *)
SystemTypes ==
    /\ IInv
    /\ ProxyFacts!ProxyTypeOK /\ ProxyFacts!LocalsSet
    /\ c2s \in Seq(VmPort)
    /\ s2c \in [VmPort -> Seq({"map", "reset"})]
    /\ s2p \in Seq(Mapping)
    /\ vsQueue \in Seq(Event)
    /\ vmAt \in [VmPort -> VsPort \cup {NULL}]
    /\ dpState \in [Dp -> {"down", "joined", "up"}]
    /\ vmStops \in Nat
    /\ vmStops <= MaxVmStops
    /\ Sendable

-------------------------------------------------------------------------------
(* What the table of rfproxy holds. *)

(* A virtual switch port stands for a datapath port: the machine attached  *)
(* to it is the one configured for it.                                     *)
StandsFor(s, d) == \E v \in VmPort : vmAt[v] = s /\ <<v, d>> \in Config

(* A deleted port of the virtual switch is being taken out of the table:   *)
(* rfproxy is about to read the report, or is inside delete_vs_port.       *)
Reported == vsQueue # <<>> /\ Head(vsQueue).type = "deleted"

Deleting == Reported \/ nox.pc \in {"vs_forward", "vs_reverse"}

(* The virtual switch port is deleted, and dp_to_vs may still name it.     *)
StillDeleted(s) ==
    \/ Reported /\ Head(vsQueue).vs = s
    \/ nox.pc = "vs_forward" /\ nox.vs = s

(* Every message and local variable on the way from a machine's mapping    *)
(* packet to the table names the port the machine is attached to.          *)
Plugged ==
    /\ \A v, w \in VmPort : vmAt[v] # NULL /\ vmAt[v] = vmAt[w] => v = w
    /\ \A e \in Queued(vsQueue) : e.type = "mapping" => vmAt[e.vm] = e.vs
    /\ \A m \in Queued(p2s) : m.type = "VirtualPlaneMap" => vmAt[m.vm] = m.vs
    /\ pthread.pc \in {"map_save", "map_send"} => vmAt[pthread.entry.vm] = pthread.entry.vs
    /\ \A m \in Queued(s2p) : StandsFor(m.vs, m.dp)
    /\ ipc.pc # "idle" => StandsFor(ipc.vs, ipc.dp)

(* A port is only reported deleted when nothing is on its way, and one at  *)
(* a time.                                                                 *)
NoMapOnTheWay ==
    /\ \A m \in Queued(p2s) : m.type # "VirtualPlaneMap"
    /\ pthread.pc \notin {"map_save", "map_send"}
    /\ s2p = <<>>
    /\ ipc.pc = "idle"

Deletions ==
    /\ \A k \in 2 .. Len(vsQueue) : vsQueue[k].type = "mapping"
    /\ Deleting => vmStops # 0 /\ NoMapOnTheWay
    /\ nox.pc \in {"vs_forward", "vs_reverse"} => ~Reported
    /\ nox.pc \in {"down_reverse", "vs_forward", "vs_reverse"} => ipc.pc = "idle"

(* What RightPorts says when nothing is left to be done, at any time.      *)
TableRight ==
    \A d \in DpPort : dp_to_vs[d] # NULL => StandsFor(dp_to_vs[d], d) \/ StillDeleted(dp_to_vs[d])

(* A VM port is configured for one datapath port.                          *)
OnePair == \A c, e \in Config : c[1] = e[1] => c = e

(* What goes out of a datapath port comes back to it, except inside        *)
(* update_dp_port; so the deletion of a virtual switch port that stands    *)
(* for nothing has nothing to take out.                                    *)
ThereAndBack ==
    /\ \A d \in DpPort :
         \/ dp_to_vs[d] = NULL
         \/ vs_to_dp[dp_to_vs[d]] = d
         \/ ipc.pc # "idle" /\ ipc.dp = d
    /\ ipc.pc = "reverse" => dp_to_vs[ipc.dp] = ipc.vs
    /\ nox.pc = "down_reverse" => \A d \in DpPort : DpOf[d] = nox.x => dp_to_vs[d] = NULL
    /\ nox.pc = "vs_reverse" => \A d \in DpPort : dp_to_vs[d] # nox.vs

(* The inductive invariant of RightPorts.                                  *)
RightInv == SystemTypes /\ Plugged /\ Deletions /\ TableRight /\ (OnePair => ThereAndBack)

(* The machines stop when all is quiet and they are mapped, or never: the  *)
(* mapping of a machine that stops on the way outlives it.                 *)
OrderlyStops == MaxVmStops = 0 \/ (StopsMapped /\ OnePair)

-------------------------------------------------------------------------------
(* One document for each port. *)

(* rfserver handles the registration of a datapath port.                   *)
Registering(d) == pthread.dp = d /\ pthread.pc \in {"configure", "lookup_vm", "insert", "save"}

(* A port about to get a document has none.                                *)
RegisteringIsNew ==
    /\ \A d \in DpPort : Registering(d) => RowsOfDpPort(d) = {}
    /\ pthread.pc = "save" => pthread.entry.dp = pthread.dp
    /\ cthread.pc \in {"insert", "save"} => RowsOfVm(cthread.vm) = {}
    /\ cthread.pc = "lookup_dp" =>
         RowsOfVm(cthread.vm) = {} \/ \E i \in RowsOfVm(cthread.vm) : ~IsIdleVmPort(rftable[i])

(* set_dp_down of this datapath runs.                                      *)
GoingDownNow(x) == Going /\ pthread.x = x

(* The port is in no document, or in one that is about to lose it.         *)
Absent(d) == ~Registering(d) /\ (RowsOfDpPort(d) = {} \/ GoingDownNow(DpOf[d]))

(* A message that registers the port, and one that puts its datapath down. *)
IsReg(m, d) == m.type = "DatapathPortRegister" /\ m.port = d

IsDown(m, x) == m.type = "DatapathDown" /\ m.dp = x

(* The port is absent when rfserver has handled the first n messages.      *)
Clear(d, n) ==
    \/ \E j \in 1 .. n : IsDown(p2s[j], DpOf[d]) /\ \A i \in (j + 1) .. n : ~IsReg(p2s[i], d)
    \/ Absent(d) /\ \A i \in 1 .. n : ~IsReg(p2s[i], d)

(* rfproxy has yet to report that the datapath went down.                  *)
Leaving(x) == nox.pc \in {"down_reverse", "down_send"} /\ nox.x = x

(* Between two registrations of a port, rfproxy reports that its datapath  *)
(* went down.                                                              *)
RegClear == \A d \in DpPort, k \in 1 .. Len(p2s) : IsReg(p2s[k], d) => Clear(d, k - 1)

TodoClear ==
    nox.pc = "register" => \A d \in nox.todo : Clear(d, Len(p2s)) /\ dpState[DpOf[d]] = "up"

GoneClear == \A d \in DpPort : dpState[DpOf[d]] = "up" \/ Leaving(DpOf[d]) \/ Clear(d, Len(p2s))

DownsBetween == RegClear /\ TodoClear /\ GoneClear

(* Every VM port is in the configuration file: register_vm_port gives one  *)
(* that is not another document each time it registers.                    *)
AllConfigured == \A v \in VmPort : \E c \in Config : c[1] = v

(* The inductive invariant of OneDocumentEach.                             *)
DocInv == SystemTypes /\ SerialInv /\ RegisteringIsNew /\ OneDocumentEach /\ DownsBetween

-------------------------------------------------------------------------------
(* rfserver and rfproxy agree. *)

(* The machine is asked to map itself, or its answer is on its way to      *)
(* map_port.                                                               *)
Pending(v) ==
    \/ cthread.pc = "ask_map" /\ cthread.vm = v
    \/ pthread.pc = "ask_map" /\ pthread.entry.vm = v
    \/ "map" \in Queued(s2c[v])
    \/ \E e \in Queued(vsQueue) : e.type = "mapping" /\ e.vm = v
    \/ \E m \in Queued(p2s) : m.type = "VirtualPlaneMap" /\ m.vm = v
    \/ pthread.pc = "map_save" /\ pthread.entry.vm = v

(* Its registration is, which asks it again.                               *)
VmToCome(v) == v \in Queued(c2s) \/ (cthread.vm = v /\ cthread.pc = "lookup_dp")

(* A machine that is attached is in the table of rfserver, or registers.   *)
VmKnown ==
    \A v \in VmPort : vmAt[v] # NULL =>
        \/ RowsOfVm(v) # {}
        \/ v \in Queued(c2s)
        \/ cthread.vm = v /\ cthread.pc \in {"lookup_dp", "insert", "save"}

(* A port is in the table for good, until its datapath goes down.          *)
InTable(d) == Registering(d) \/ (RowsOfDpPort(d) # {} /\ ~GoingDownNow(DpOf[d]))

(* Nothing in the channel puts the port down; its last registration there  *)
(* is after the last message that does; rfproxy is about to register it.   *)
NoDown(d) == \A j \in 1 .. Len(p2s) : ~IsDown(p2s[j], DpOf[d])

Announced(d) ==
    \E k \in 1 .. Len(p2s) :
        IsReg(p2s[k], d) /\ \A j \in (k + 1) .. Len(p2s) : ~IsDown(p2s[j], DpOf[d])

ToAnnounce(d) == nox.pc = "register" /\ d \in nox.todo

(* A port that is up is in the table when rfserver has read everything.    *)
Known(d) == ToAnnounce(d) \/ Announced(d) \/ (NoDown(d) /\ InTable(d))

DpKnown ==
    /\ \A x \in Dp : Leaving(x) => dpState[x] # "up"
    /\ \A d \in DpPort : dpState[DpOf[d]] = "up" => Known(d)

(* A machine that is associated is asked to map itself until its entry is  *)
(* active, and again when it was attached elsewhere since.                 *)
AssociatedIsAsked ==
    \A i \in Rows : rftable[i].vm # NULL /\ rftable[i].dp # NULL =>
        /\ rftable[i].vs = NULL => Pending(rftable[i].vm)
        /\ vmAt[rftable[i].vm] \notin {NULL, rftable[i].vs} =>
             Pending(rftable[i].vm) \/ VmToCome(rftable[i].vm)

(* rfserver is about to put the datapath down.                             *)
DownToCome(x) ==
    \/ Leaving(x)
    \/ \E m \in Queued(p2s) : IsDown(m, x)
    \/ GoingDownNow(x)

(* The table of rfproxy has the pair; it is about to get a pair.           *)
Redirected(d, s) == dp_to_vs[d] = s /\ vs_to_dp[s] = d

MapToCome(d) ==
    \/ ipc.pc # "idle" /\ ipc.dp = d
    \/ \E m \in Queued(s2p) : m.dp = d
    \/ pthread.pc = "map_send" /\ pthread.entry.dp = d

(* Until a machine stops, an active entry is mapped, or will be, or its    *)
(* datapath went down.                                                     *)
ActiveIsMapped ==
    vmStops = 0 =>
      \A i \in Rows : rftable[i].vs # NULL =>
        /\ vmAt[rftable[i].vm] = rftable[i].vs
        /\ \/ Redirected(rftable[i].dp, rftable[i].vs)
           \/ MapToCome(rftable[i].dp)
           \/ DownToCome(DpOf[rftable[i].dp])

(* The inductive invariant of Agreement.                                   *)
AgreementInv == RightInv /\ DocInv /\ VmKnown /\ DpKnown /\ AssociatedIsAsked /\ ActiveIsMapped
-------------------------------------------------------------------------------
(* Queues. *)

LEMMA InAppend ==
  ASSUME NEW S, NEW q \in Seq(S), NEW m \in S
  PROVE  /\ Append(q, m) \in Seq(S)
         /\ Queued(Append(q, m)) = Queued(q) \cup {m}
         /\ Len(Append(q, m)) = Len(q) + 1
         /\ Append(q, m)[Len(q) + 1] = m
         /\ \A k \in 1 .. Len(q) : Append(q, m)[k] = q[k]
<1>. DEFINE r == Append(q, m)
<1>1. /\ r \in Seq(S) /\ Len(r) = Len(q) + 1 /\ Len(q) \in Nat
      /\ r[Len(q) + 1] = m
      /\ \A k \in 1 .. Len(q) : r[k] = q[k]
  OBVIOUS
<1>. HIDE DEF r
<1>2. \A k : k \in 1 .. (Len(q) + 1) <=> k \in 1 .. Len(q) \/ k = Len(q) + 1
  BY <1>1
<1>3. Queued(r) = Queued(q) \cup {m}
  BY <1>1, <1>2 DEF Queued
<1>. QED
  BY <1>1, <1>3 DEF r

LEMMA InTail ==
  ASSUME NEW S, NEW q \in Seq(S), q # <<>>
  PROVE  /\ Tail(q) \in Seq(S)
         /\ Head(q) \in S /\ Head(q) = q[1]
         /\ Queued(q) = Queued(Tail(q)) \cup {Head(q)}
         /\ Len(q) \in Nat /\ Len(q) >= 1 /\ Len(Tail(q)) = Len(q) - 1
         /\ \A k \in 1 .. Len(Tail(q)) : Tail(q)[k] = q[k + 1]
<1>. DEFINE r == Tail(q)
<1>1. /\ r \in Seq(S) /\ Len(q) \in Nat /\ Len(q) >= 1 /\ Len(r) = Len(q) - 1
      /\ Head(q) \in S /\ Head(q) = q[1]
      /\ \A k \in 1 .. Len(r) : r[k] = q[k + 1]
  OBVIOUS
<1>. HIDE DEF r
<1>2. ASSUME NEW k \in 1 .. Len(q)
      PROVE  q[k] \in Queued(r) \cup {Head(q)}
  <2>1. CASE k = 1
    BY <1>1, <2>1
  <2>2. CASE k # 1
    <3>1. k - 1 \in 1 .. Len(r) /\ r[k - 1] = q[(k - 1) + 1] /\ (k - 1) + 1 = k
      BY <1>1, <2>2
    <3>. QED
      BY <3>1 DEF Queued
  <2>. QED
    BY <2>1, <2>2
<1>3. ASSUME NEW k \in 1 .. Len(r)
      PROVE  r[k] \in Queued(q)
  <2>1. k + 1 \in 1 .. Len(q)
    BY <1>1
  <2>. QED
    BY <1>1, <2>1 DEF Queued
<1>4. Head(q) \in Queued(q)
  BY <1>1 DEF Queued
<1>5. Queued(q) = Queued(r) \cup {Head(q)}
  BY <1>2, <1>3, <1>4 DEF Queued
<1>. QED
  BY <1>1, <1>5 DEF r

LEMMA InQueue ==
  ASSUME NEW S, NEW q \in Seq(S)
  PROVE  /\ \A m \in Queued(q) : m \in S
         /\ q = <<>> <=> Queued(q) = {}
         /\ Queued(<<>>) = {}
         /\ Len(q) \in Nat
<1>1. \A k \in 1 .. Len(q) : q[k] \in S
  OBVIOUS
<1>2. q # <<>> => 1 \in 1 .. Len(q)
  OBVIOUS
<1>3. 1 .. Len(<<>>) = {}
  OBVIOUS
<1>. QED
  BY <1>1, <1>2, <1>3 DEF Queued

LEMMA MessageTypes ==
  ASSUME NEW m \in ProxyFacts!Message
  PROVE  /\ m.type = "DatapathPortRegister" => m.port \in DpPort
         /\ m.type \in {"Reconfigure", "DatapathDown"} => m.dp \in Dp
         /\ m.type = "VirtualPlaneMap" => m.vm \in VmPort /\ m.vs \in VsPort
  BY DEF ProxyFacts!Message

LEMMA EventTypes ==
  ASSUME NEW e \in Event
  PROVE  /\ e.type \in {"mapping", "deleted"} /\ e.vs \in VsPort
         /\ e.type = "mapping" => e.vm \in VmPort
  BY DEF Event

-------------------------------------------------------------------------------
(* A step of the composition is a step of each component, or none of its. *)

(* The instance of RFProxy in RouteFlow and the one its proofs are about. *)
LEMMA SameProxy ==
  /\ Proxy!IpcNext <=> ProxyFacts!IpcNext
  /\ Proxy!NoxNext <=> ProxyFacts!NoxNext
  /\ Proxy!ServerReads <=> ProxyFacts!ServerReads
  /\ Proxy!ProxyInit <=> ProxyFacts!ProxyInit
<1>1. Proxy!IpcNext <=> ProxyFacts!IpcNext
  BY DEF Proxy!IpcNext, ProxyFacts!IpcNext, Proxy!ProcessMap, ProxyFacts!ProcessMap,
     Proxy!WriteForward, ProxyFacts!WriteForward, Proxy!WriteReverse,
     ProxyFacts!WriteReverse, Proxy!IdleIpc, ProxyFacts!IdleIpc
<1>2. Proxy!NoxNext <=> ProxyFacts!NoxNext
  BY DEF Proxy!NoxNext, ProxyFacts!NoxNext, Proxy!OnDatapathDown,
     ProxyFacts!OnDatapathDown, Proxy!DownReverse, ProxyFacts!DownReverse,
     Proxy!DownSend, ProxyFacts!DownSend, Proxy!OnVsPortDeleted,
     ProxyFacts!OnVsPortDeleted, Proxy!VsForward, ProxyFacts!VsForward,
     Proxy!VsReverse, ProxyFacts!VsReverse, Proxy!OnPortDescription,
     ProxyFacts!OnPortDescription, Proxy!RegisterPort, ProxyFacts!RegisterPort,
     Proxy!OnMappingPacket, ProxyFacts!OnMappingPacket, Proxy!Send, ProxyFacts!Send,
     Proxy!PortsOf, ProxyFacts!PortsOf, Proxy!IdleNox, ProxyFacts!IdleNox
<1>3. Proxy!ServerReads <=> ProxyFacts!ServerReads
  BY DEF Proxy!ServerReads, ProxyFacts!ServerReads
<1>4. Proxy!ProxyInit <=> ProxyFacts!ProxyInit
  BY DEF Proxy!ProxyInit, ProxyFacts!ProxyInit, Proxy!IdleIpc, ProxyFacts!IdleIpc,
     Proxy!IdleNox, ProxyFacts!IdleNox
<1>. QED
  BY <1>1, <1>2, <1>3, <1>4

LEMMA ProxyAssumptions ==
  /\ NULL \notin VmPort \cup DpPort \cup VsPort \cup Dp
  /\ DpPort \cap VsPort = {}
  /\ DpOf \in [DpPort -> Dp]
  BY NullAssumption, PortsAssumption, DpOfAssumption

LEMMA ProxyStep ==
  ASSUME SystemTypes, SystemNext
  PROVE  ProxyFacts!IpcNext \/ ProxyFacts!NoxNext \/ ProxyFacts!ServerReads
         \/ UNCHANGED ProxyFacts!proxyVars
<1>1. CASE \/ \E v \in VmPort, s \in VsPort : VmStart(v, s)
           \/ \E v \in VmPort : VmStop(v) \/ VmReads(v)
           \/ \E x \in Dp : DatapathUp(x)
  BY <1>1 DEF VmStart, VmStop, VmReads, DatapathUp, proxyTable, channels,
     ProxyFacts!proxyVars
<1>2. CASE ClientThreadReads \/ ClientThreadStep \/ ProxyThreadStep
  BY <1>2 DEF ClientThreadReads, ClientThreadStep, ProxyThreadStep, proxyTable,
     ProxyFacts!proxyVars
<1>3. CASE \E x \in Dp : PortDescription(x) \/ DatapathDown(x)
  <2>1. Proxy!NoxNext
    BY <1>3 DEF PortDescription, DatapathDown, Proxy!NoxNext
  <2>. QED
    BY <2>1, SameProxy
<1>4. CASE VsEvent
  <2>1. Head(vsQueue) \in Event
    BY <1>4, InTail DEF VsEvent, SystemTypes
  <2>2. CASE UNCHANGED <<proxyTable, p2s>>
    BY <2>2 DEF proxyTable, ProxyFacts!proxyVars
  <2>3. CASE Proxy!NoxNext
    BY <2>3, SameProxy
  <2>. QED
    BY <1>4, <2>1, <2>2, <2>3, EventTypes DEF VsEvent, Proxy!NoxNext
<1>5. CASE NoxStep
  <2>1. Proxy!NoxNext
    BY <1>5 DEF NoxStep, Proxy!NoxNext
  <2>. QED
    BY <2>1, SameProxy
<1>6. CASE IpcReads
  <2>1. Head(s2p) \in Mapping
    BY <1>6, InTail DEF IpcReads, SystemTypes
  <2>2. Head(s2p).dp \in DpPort /\ Head(s2p).vs \in VsPort
    BY <2>1 DEF Mapping
  <2>3. Proxy!IpcNext
    BY <1>6, <2>2 DEF IpcReads, Proxy!IpcNext
  <2>. QED
    BY <2>3, SameProxy
<1>7. CASE IpcStep
  <2>1. Proxy!IpcNext
    BY <1>7 DEF IpcStep, Proxy!IpcNext
  <2>. QED
    BY <2>1, SameProxy
<1>8. CASE ProxyThreadReads
  BY <1>8, SameProxy DEF ProxyThreadReads
<1>. QED
  BY <1>1, <1>2, <1>3, <1>4, <1>5, <1>6, <1>7, <1>8 DEF SystemNext

LEMMA ServerStep ==
  ASSUME SystemTypes, SystemNext
  PROVE  CNext \/ PNext \/ UNCHANGED vars
<1>1. CASE ClientThreadReads
  <2>1. Head(c2s) \in VmPort
    BY <1>1, InTail DEF ClientThreadReads, SystemTypes
  <2>. QED
    BY <1>1, <2>1 DEF ClientThreadReads, CNext
<1>2. CASE ClientThreadStep
  BY <1>2 DEF ClientThreadStep, CNext
<1>3. CASE ProxyThreadReads
  <2>. DEFINE m == Head(p2s)
  <2>1. p2s # <<>> /\ p2s \in Seq(ProxyFacts!Message)
    BY <1>3 DEF ProxyThreadReads, Proxy!ServerReads, SystemTypes, ProxyFacts!ProxyTypeOK
  <2>2. m \in ProxyFacts!Message
    BY <2>1, InTail
  <2>3. \/ m.type = "DatapathPortRegister" /\ RegisterDpPort(m.port)
        \/ m.type = "Reconfigure" /\ ReconfigureDp(m.dp)
        \/ m.type = "DatapathDown" /\ SetDpDown(m.dp)
        \/ m.type = "VirtualPlaneMap" /\ MapPort(m.vm, m.vs)
        \/ UNCHANGED vars
    BY <1>3 DEF ProxyThreadReads
  <2>. QED
    BY <2>2, <2>3, MessageTypes DEF PNext
<1>4. CASE ProxyThreadStep
  BY <1>4 DEF ProxyThreadStep, PNext
<1>5. CASE \/ \E v \in VmPort, s \in VsPort : VmStart(v, s)
           \/ \E v \in VmPort : VmStop(v) \/ VmReads(v)
           \/ \E x \in Dp : DatapathUp(x) \/ PortDescription(x) \/ DatapathDown(x)
           \/ VsEvent \/ NoxStep \/ IpcReads \/ IpcStep
  BY <1>5 DEF VmStart, VmStop, VmReads, DatapathUp, PortDescription, DatapathDown,
     VsEvent, NoxStep, IpcReads, IpcStep
<1>. QED
  BY <1>1, <1>2, <1>3, <1>4, <1>5 DEF SystemNext
-------------------------------------------------------------------------------
(* The types. *)

LEMMA InitTypes == SystemInit => SystemTypes
<1>. SUFFICES ASSUME SystemInit PROVE SystemTypes
  OBVIOUS
<1>1. IInv
  BY InitIInv DEF SystemInit
<1>2. ProxyFacts!ProxyInit
  BY SameProxy DEF SystemInit
<1>3. ProxyFacts!ProxyTypeOK /\ ProxyFacts!LocalsSet
  BY <1>2 DEF ProxyFacts!ProxyInit, ProxyFacts!ProxyTypeOK, ProxyFacts!LocalsSet,
     ProxyFacts!IpcState, ProxyFacts!NoxState, ProxyFacts!IdleIpc, ProxyFacts!IdleNox
<1>4. /\ c2s \in Seq(VmPort)
      /\ s2c \in [VmPort -> Seq({"map", "reset"})]
      /\ s2p \in Seq(Mapping)
      /\ vsQueue \in Seq(Event)
      /\ vmAt \in [VmPort -> VsPort \cup {NULL}]
      /\ dpState \in [Dp -> {"down", "joined", "up"}]
      /\ vmStops \in Nat /\ vmStops <= MaxVmStops
  BY BoundsAssumption DEF SystemInit
<1>5. Sendable
  BY DEF SystemInit, Init, IdleP, Sendable
<1>. QED
  BY <1>1, <1>3, <1>4, <1>5 DEF SystemTypes

LEMMA ProxyTypesKept ==
  ASSUME SystemTypes, SystemNext
  PROVE  ProxyFacts!ProxyTypeOK' /\ ProxyFacts!LocalsSet'
<1>0. ProxyFacts!ProxyTypeOK /\ ProxyFacts!LocalsSet
  BY DEF SystemTypes
<1>1. CASE ProxyFacts!IpcNext
  BY <1>0, <1>1, ProxyAssumptions, ProxyFacts!IpcTypes
<1>2. CASE ProxyFacts!NoxNext
  BY <1>0, <1>2, ProxyAssumptions, ProxyFacts!NoxTypes
<1>3. CASE ProxyFacts!ServerReads
  BY <1>0, <1>3 DEF ProxyFacts!ServerReads, ProxyFacts!ProxyTypeOK, ProxyFacts!LocalsSet
<1>4. CASE UNCHANGED ProxyFacts!proxyVars
  BY <1>0, <1>4 DEF ProxyFacts!proxyVars, ProxyFacts!ProxyTypeOK, ProxyFacts!LocalsSet
<1>. QED
  BY <1>1, <1>2, <1>3, <1>4, ProxyStep

(* Where each step of the proxy thread leads, and which locals it keeps.  *)
LEMMA ProxyThreadMoves ==
  ASSUME IInv
  PROVE  /\ \A d \in DpPort : RegisterDpPort(d) =>
              /\ pthread.pc = "idle" /\ pthread'.pc \in {"configure", "lookup_vm"}
              /\ pthread'.dp = d /\ pthread'.x = DpOf[d]
         /\ \A x \in Dp : ReconfigureDp(x) =>
              /\ pthread.pc = "idle" /\ pthread'.pc = "configure"
              /\ pthread'.x = x /\ pthread'.dp = NULL
         /\ \A x \in Dp : SetDpDown(x) =>
              pthread.pc = "idle" /\ pthread'.pc = "down" /\ pthread'.x = x /\ pthread'.dp = NULL
         /\ \A v \in VmPort, s \in VsPort : MapPort(v, s) =>
              /\ pthread.pc = "idle" /\ pthread'.pc = "map_save" /\ pthread'.dp = NULL
              /\ pthread'.entry.vm = v /\ pthread'.entry.vs = s
         /\ ConfigDp => /\ pthread.pc = "configure"
                        /\ \/ pthread' = IdleP /\ pthread.dp = NULL
                           \/ pthread'.pc = "lookup_vm" /\ pthread'.dp = pthread.dp
                              /\ pthread'.x = pthread.x
         /\ DpLookupVm => /\ pthread.pc = "lookup_vm"
                          /\ \/ pthread' = IdleP
                             \/ /\ pthread'.pc \in {"insert", "save"}
                                /\ pthread'.dp = pthread.dp /\ pthread'.x = pthread.x
         /\ DpInsert => pthread.pc = "insert" /\ pthread' = IdleP
         /\ DpSave => /\ pthread.pc = "save" /\ pthread'.pc = "ask_map"
                      /\ pthread'.entry = pthread.entry /\ pthread'.dp = pthread.dp
         /\ DpAskMap => pthread.pc = "ask_map" /\ pthread' = IdleP
         /\ DownLookup => /\ pthread.pc = "down"
                          /\ \/ pthread' = IdleP /\ pthread.todo = {}
                             \/ /\ pthread'.pc \in {"down", "down_save"}
                                /\ pthread'.x = pthread.x /\ pthread'.dp = pthread.dp
         /\ DownSave => /\ pthread.pc = "down_save" /\ pthread'.pc \in {"down", "down_reset"}
                        /\ pthread'.x = pthread.x /\ pthread'.dp = pthread.dp
                        /\ pthread'.pc = "down_reset" =>
                             pthread'.entry = pthread.entry /\ pthread.entry.vm # NULL
         /\ DownReset => /\ pthread.pc = "down_reset" /\ pthread'.pc = "down"
                         /\ pthread'.x = pthread.x /\ pthread'.dp = pthread.dp
         /\ MapSave => /\ pthread.pc = "map_save" /\ pthread'.pc = "map_send"
                       /\ pthread'.entry = pthread.entry /\ pthread'.dp = pthread.dp
         /\ MapSend => pthread.pc = "map_send" /\ pthread' = IdleP
         /\ CNext \/ UNCHANGED vars => UNCHANGED pthread
<1>0. pthread \in PState
  BY DEF IInv, TypeOK
<1>1. ASSUME NEW d \in DpPort, RegisterDpPort(d)
      PROVE  /\ pthread.pc = "idle" /\ pthread'.pc \in {"configure", "lookup_vm"}
             /\ pthread'.dp = d /\ pthread'.x = DpOf[d]
  <2>1. \E pc \in {"configure", "lookup_vm"} :
          pthread' = [IdleP EXCEPT !.pc = pc, !.x = DpOf[d], !.dp = d]
    BY <1>1 DEF RegisterDpPort
  <2>. QED
    BY <1>1, <2>1 DEF RegisterDpPort, IdleP
<1>2. ASSUME NEW x \in Dp, ReconfigureDp(x)
      PROVE  /\ pthread.pc = "idle" /\ pthread'.pc = "configure"
             /\ pthread'.x = x /\ pthread'.dp = NULL
  BY <1>2 DEF ReconfigureDp, IdleP
<1>3. ASSUME NEW x \in Dp, SetDpDown(x)
      PROVE  pthread.pc = "idle" /\ pthread'.pc = "down" /\ pthread'.x = x /\ pthread'.dp = NULL
  <2>1. \E todo : pthread' = [IdleP EXCEPT !.pc = "down", !.x = x, !.todo = todo]
    BY <1>3 DEF SetDpDown
  <2>. QED
    BY <1>3, <2>1 DEF SetDpDown, IdleP
<1>4. ASSUME NEW v \in VmPort, NEW s \in VsPort, MapPort(v, s)
      PROVE  /\ pthread.pc = "idle" /\ pthread'.pc = "map_save" /\ pthread'.dp = NULL
             /\ pthread'.entry.vm = v /\ pthread'.entry.vs = s
  <2>1. PICK i \in RowsOfVm(v) :
          pthread' = [IdleP EXCEPT !.pc = "map_save", !.id = i, !.entry = Activate(rftable[i], s)]
    BY <1>4 DEF MapPort
  <2>2. Activate(rftable[i], s).vm = v /\ Activate(rftable[i], s).vs = s
    BY RowType, QueriesFindRows, ActivateCopy DEF IInv
  <2>. QED
    BY <1>4, <2>1, <2>2 DEF MapPort, IdleP
<1>5. ConfigDp => /\ pthread.pc = "configure"
                  /\ \/ pthread' = IdleP /\ pthread.dp = NULL
                     \/ pthread'.pc = "lookup_vm" /\ pthread'.dp = pthread.dp
                        /\ pthread'.x = pthread.x
  BY <1>0 DEF ConfigDp, PState
<1>6. DpLookupVm => /\ pthread.pc = "lookup_vm"
                    /\ \/ pthread' = IdleP
                       \/ /\ pthread'.pc \in {"insert", "save"}
                          /\ pthread'.dp = pthread.dp /\ pthread'.x = pthread.x
  <2>1. ASSUME NEW i, NEW e, pthread' = [pthread EXCEPT !.pc = "save", !.id = i, !.entry = e]
        PROVE  pthread'.pc = "save" /\ pthread'.dp = pthread.dp /\ pthread'.x = pthread.x
    BY <1>0, <2>1 DEF PState
  <2>2. ASSUME pthread' = [pthread EXCEPT !.pc = "insert"]
        PROVE  pthread'.pc = "insert" /\ pthread'.dp = pthread.dp /\ pthread'.x = pthread.x
    BY <1>0, <2>2 DEF PState
  <2>. QED
    BY <2>1, <2>2 DEF DpLookupVm
<1>7. DownLookup => /\ pthread.pc = "down"
                    /\ \/ pthread' = IdleP /\ pthread.todo = {}
                       \/ /\ pthread'.pc \in {"down", "down_save"}
                          /\ pthread'.x = pthread.x /\ pthread'.dp = pthread.dp
  <2>1. ASSUME NEW t, pthread' = [pthread EXCEPT !.todo = @ \ {t}]
        PROVE  pthread'.pc = pthread.pc /\ pthread'.x = pthread.x /\ pthread'.dp = pthread.dp
    BY <1>0, <2>1 DEF PState
  <2>2. ASSUME NEW t, NEW i, NEW e,
               pthread' = [pthread EXCEPT !.pc = "down_save", !.id = i, !.entry = e,
                             !.todo = @ \ {t}]
        PROVE  pthread'.pc = "down_save" /\ pthread'.x = pthread.x /\ pthread'.dp = pthread.dp
    BY <1>0, <2>2 DEF PState
  <2>. QED
    BY <2>1, <2>2 DEF DownLookup
<1>8. DownSave => /\ pthread.pc = "down_save" /\ pthread'.pc \in {"down", "down_reset"}
                  /\ pthread'.x = pthread.x /\ pthread'.dp = pthread.dp
                  /\ pthread'.pc = "down_reset" =>
                       pthread'.entry = pthread.entry /\ pthread.entry.vm # NULL
  BY <1>0 DEF DownSave, PState
<1>9. /\ DpSave => /\ pthread.pc = "save" /\ pthread'.pc = "ask_map"
                   /\ pthread'.entry = pthread.entry /\ pthread'.dp = pthread.dp
      /\ DownReset => /\ pthread.pc = "down_reset" /\ pthread'.pc = "down"
                      /\ pthread'.x = pthread.x /\ pthread'.dp = pthread.dp
      /\ MapSave => /\ pthread.pc = "map_save" /\ pthread'.pc = "map_send"
                    /\ pthread'.entry = pthread.entry /\ pthread'.dp = pthread.dp
  BY <1>0 DEF DpSave, DownReset, MapSave, PState
<1>10. /\ DpInsert => pthread.pc = "insert" /\ pthread' = IdleP
       /\ DpAskMap => pthread.pc = "ask_map" /\ pthread' = IdleP
       /\ MapSend => pthread.pc = "map_send" /\ pthread' = IdleP
  BY DEF DpInsert, DpAskMap, MapSend
<1>11. CNext \/ UNCHANGED vars => UNCHANGED pthread
  BY DEF CNext, RegisterVmPort, VmLookupDp, VmInsert, VmSave, VmAskMap, vars
<1>. QED
  BY <1>1, <1>2, <1>3, <1>4, <1>5, <1>6, <1>7, <1>8, <1>9, <1>10, <1>11

(* The same of the client thread. *)
LEMMA ClientThreadMoves ==
  ASSUME IInv
  PROVE  /\ \A v \in VmPort : RegisterVmPort(v) =>
              cthread.pc = "idle" /\ cthread'.pc \in {"insert", "lookup_dp"} /\ cthread'.vm = v
         /\ VmLookupDp => /\ cthread.pc = "lookup_dp"
                          /\ \/ cthread' = IdleC
                             \/ /\ cthread'.pc \in {"insert", "save", "ask_map"}
                                /\ cthread'.vm = cthread.vm /\ cthread'.dp = cthread.dp
         /\ VmInsert => cthread.pc = "insert" /\ cthread' = IdleC
         /\ VmSave => cthread.pc = "save" /\ cthread'.pc = "ask_map" /\ cthread'.vm = cthread.vm
         /\ VmAskMap => cthread.pc = "ask_map" /\ cthread' = IdleC
         /\ PNext \/ UNCHANGED vars => UNCHANGED cthread
<1>0. cthread \in CState
  BY DEF IInv, TypeOK
<1>1. ASSUME NEW v \in VmPort, RegisterVmPort(v)
      PROVE  cthread.pc = "idle" /\ cthread'.pc \in {"insert", "lookup_dp"} /\ cthread'.vm = v
  BY <1>1 DEF RegisterVmPort, IdleC
<1>2. VmLookupDp => /\ cthread.pc = "lookup_dp"
                    /\ \/ cthread' = IdleC
                       \/ /\ cthread'.pc \in {"insert", "save", "ask_map"}
                          /\ cthread'.vm = cthread.vm /\ cthread'.dp = cthread.dp
  <2>1. ASSUME NEW i, NEW e, cthread' = [cthread EXCEPT !.pc = "save", !.id = i, !.entry = e]
        PROVE  cthread'.pc = "save" /\ cthread'.vm = cthread.vm /\ cthread'.dp = cthread.dp
    BY <1>0, <2>1 DEF CState
  <2>2. ASSUME NEW pc, cthread' = [cthread EXCEPT !.pc = pc]
        PROVE  cthread'.pc = pc /\ cthread'.vm = cthread.vm /\ cthread'.dp = cthread.dp
    BY <1>0, <2>2 DEF CState
  <2>. QED
    BY <2>1, <2>2 DEF VmLookupDp
<1>3. VmSave => cthread.pc = "save" /\ cthread'.pc = "ask_map" /\ cthread'.vm = cthread.vm
  BY <1>0 DEF VmSave, CState
<1>4. /\ VmInsert => cthread.pc = "insert" /\ cthread' = IdleC
      /\ VmAskMap => cthread.pc = "ask_map" /\ cthread' = IdleC
  BY DEF VmInsert, VmAskMap
<1>5. PNext \/ UNCHANGED vars => UNCHANGED cthread
  BY DEF PNext, RegisterDpPort, ReconfigureDp, ConfigDp, DpLookupVm, DpInsert,
     DpSave, DpAskMap, SetDpDown, DownLookup, DownSave, DownReset, MapPort, MapSave, MapSend, vars
<1>. QED
  BY <1>1, <1>2, <1>3, <1>4, <1>5

LEMMA SendableKept ==
  ASSUME IInv, Sendable, CNext \/ PNext \/ UNCHANGED vars
  PROVE  Sendable'
<1>1. IdleP.pc = "idle"
  BY DEF IdleP
<1>2. CASE PNext
  BY <1>1, <1>2, ProxyThreadMoves DEF PNext, IInv, ProxySafe, Sendable
<1>3. CASE CNext \/ UNCHANGED vars
  BY <1>3, ProxyThreadMoves DEF Sendable
<1>. QED
  BY <1>2, <1>3

LEMMA ChannelTypes ==
  ASSUME SystemTypes, SystemNext
  PROVE  /\ c2s' \in Seq(VmPort)
         /\ s2c' \in [VmPort -> Seq({"map", "reset"})]
         /\ s2p' \in Seq(Mapping)
         /\ vsQueue' \in Seq(Event)
         /\ vmAt' \in [VmPort -> VsPort \cup {NULL}]
         /\ dpState' \in [Dp -> {"down", "joined", "up"}]
         /\ vmStops' \in Nat /\ vmStops' <= MaxVmStops
<1>0. /\ c2s \in Seq(VmPort)
      /\ s2c \in [VmPort -> Seq({"map", "reset"})]
      /\ s2p \in Seq(Mapping)
      /\ vsQueue \in Seq(Event)
      /\ vmAt \in [VmPort -> VsPort \cup {NULL}]
      /\ dpState \in [Dp -> {"down", "joined", "up"}]
      /\ vmStops \in Nat /\ vmStops <= MaxVmStops
  BY DEF SystemTypes
<1>1. ASSUME NEW v \in VmPort, NEW s \in VsPort, VmStart(v, s)
      PROVE  /\ c2s' \in Seq(VmPort)
             /\ vmAt' \in [VmPort -> VsPort \cup {NULL}]
             /\ UNCHANGED <<s2c, s2p, vsQueue, dpState, vmStops>>
  BY <1>0, <1>1 DEF VmStart
<1>2. ASSUME NEW v \in VmPort, VmStop(v)
      PROVE  /\ vsQueue' \in Seq(Event)
             /\ vmAt' \in [VmPort -> VsPort \cup {NULL}]
             /\ vmStops' \in Nat /\ vmStops' <= MaxVmStops
             /\ UNCHANGED <<c2s, s2c, s2p, dpState>>
  <2>1. [type |-> "deleted", vm |-> NULL, vs |-> vmAt[v]] \in Event
    BY <1>0, <1>2 DEF VmStop, Event
  <2>2. vsQueue' \in Seq(Event)
    BY <1>0, <1>2, <2>1, InAppend DEF VmStop
  <2>. QED
    BY <1>0, <1>2, <2>2, BoundsAssumption DEF VmStop
<1>3. ASSUME NEW v \in VmPort, VmReads(v)
      PROVE  /\ vsQueue' \in Seq(Event)
             /\ s2c' \in [VmPort -> Seq({"map", "reset"})]
             /\ UNCHANGED <<c2s, s2p, vmAt, dpState, vmStops>>
  <2>1. [type |-> "mapping", vm |-> v, vs |-> vmAt[v]] \in Event
    BY <1>0, <1>3 DEF VmReads, Event
  <2>2. vsQueue' \in Seq(Event)
    BY <1>0, <1>3, <2>1, InAppend DEF VmReads
  <2>3. Tail(s2c[v]) \in Seq({"map", "reset"})
    BY <1>0, <1>3, InTail DEF VmReads
  <2>. QED
    BY <1>0, <1>3, <2>2, <2>3 DEF VmReads, environment
<1>4. ASSUME NEW x \in Dp, DatapathUp(x) \/ PortDescription(x) \/ DatapathDown(x)
      PROVE  /\ dpState' \in [Dp -> {"down", "joined", "up"}]
             /\ UNCHANGED <<c2s, s2c, s2p, vsQueue, vmAt, vmStops>>
  BY <1>0, <1>4 DEF DatapathUp, PortDescription, DatapathDown, channels
<1>5. CASE VsEvent
  BY <1>0, <1>5, InTail DEF VsEvent, environment
<1>6. CASE NoxStep \/ IpcStep
  BY <1>0, <1>6 DEF NoxStep, IpcStep, environment
<1>7. CASE IpcReads
  BY <1>0, <1>7, InTail DEF IpcReads, environment
<1>8. CASE ClientThreadReads
  BY <1>0, <1>8, InTail DEF ClientThreadReads, environment
<1>9. ASSUME NEW v \in VmPort, NEW op \in {"map", "reset"},
             s2c' = [s2c EXCEPT ![v] = Append(@, op)]
      PROVE  s2c' \in [VmPort -> Seq({"map", "reset"})]
  BY <1>0, <1>9
<1>10. CASE ClientThreadStep
  <2>1. UNCHANGED s2c \/ s2c' = [s2c EXCEPT ![cthread.vm] = Append(@, "map")]
    BY <1>10 DEF ClientThreadStep
  <2>2. cthread.pc # "idle"
    BY <1>10 DEF ClientThreadStep, VmLookupDp, VmInsert, VmSave, VmAskMap
  <2>3. s2c' \in [VmPort -> Seq({"map", "reset"})]
    BY <1>0, <1>9, <2>1, <2>2 DEF SystemTypes, IInv, ClientSafe
  <2>. QED
    BY <1>0, <1>10, <2>3 DEF ClientThreadStep, environment
<1>11. CASE ProxyThreadReads
  BY <1>0, <1>11 DEF ProxyThreadReads, environment
<1>12. CASE ProxyThreadStep
  <2>1. \/ UNCHANGED s2c
        \/ \E op \in {"map", "reset"} :
             /\ s2c' = [s2c EXCEPT ![pthread.entry.vm] = Append(@, op)]
             /\ pthread.pc \in {"ask_map", "down_reset"}
    BY <1>12 DEF ProxyThreadStep, DpAskMap, DownReset
  <2>2. pthread.pc \in {"ask_map", "down_reset"} => pthread.entry.vm \in VmPort
    BY DEF SystemTypes, Sendable, IInv, ProxySafe, Entry
  <2>3. s2c' \in [VmPort -> Seq({"map", "reset"})]
    BY <1>0, <1>9, <2>1, <2>2
  <2>4. s2p' \in Seq(Mapping)
    <3>1. CASE MapSend /\ s2p' = Append(s2p, [dp |-> pthread.entry.dp, vs |-> pthread.entry.vs])
      <4>1. pthread.entry.dp \in DpPort /\ pthread.entry.vs \in VsPort
        BY <3>1, ConfigAssumption DEF MapSend, SystemTypes, Sendable, IInv, ProxySafe, Entry
      <4>. QED
        BY <1>0, <3>1, <4>1 DEF Mapping
    <3>. QED
      BY <1>0, <1>12, <3>1 DEF ProxyThreadStep
  <2>. QED
    BY <1>0, <1>12, <2>3, <2>4 DEF ProxyThreadStep, environment
<1>. QED
  BY <1>0, <1>1, <1>2, <1>3, <1>4, <1>5, <1>6, <1>7, <1>8, <1>10, <1>11, <1>12 DEF SystemNext

LEMMA TypesKept ==
  ASSUME SystemTypes, [SystemNext]_allVars
  PROVE  SystemTypes'
<1>1. CASE SystemNext
  <2>1. IInv'
    BY <1>1, ServerStep, NextIInv DEF Next, SystemTypes
  <2>2. Sendable'
    BY <1>1, ServerStep, SendableKept DEF SystemTypes
  <2>. QED
    BY <1>1, <2>1, <2>2, ProxyTypesKept, ChannelTypes DEF SystemTypes
<1>2. CASE UNCHANGED allVars
  <2>1. UNCHANGED <<vars, dp_to_vs, vs_to_dp, ipc, nox, p2s, c2s, s2c, s2p, vsQueue,
                    vmAt, dpState, vmStops>>
    BY <1>2 DEF allVars, proxyTable, channels, environment
  <2>2. IInv'
    BY <2>1, NextIInv DEF SystemTypes
  <2>3. Sendable'
    BY <2>1, SendableKept DEF SystemTypes
  <2>. QED
    BY <2>1, <2>2, <2>3 DEF SystemTypes, ProxyFacts!ProxyTypeOK, ProxyFacts!LocalsSet
<1>. QED
  BY <1>1, <1>2

(* Everything the two programs and their surroundings hold and exchange is *)
(* of the types their code gives it.                                       *)
THEOREM SystemTypeCorrect == SystemSpec => []SystemTypes
<1>1. SystemTypes /\ [SystemNext]_allVars => SystemTypes'
  BY TypesKept
<1>. QED
  BY InitTypes, <1>1, PTL DEF SystemSpec

(* What rfserver does in the composition is what RFServer says it does:    *)
(* what is proved of Spec is true of rfserver fed by rfproxy and rfclient. *)
THEOREM SystemImplementsServer == SystemSpec => Spec
<1>1. SystemInit => Init
  BY DEF SystemInit
<1>2. ASSUME SystemTypes, [SystemNext]_allVars PROVE [Next]_vars
  <2>1. CASE UNCHANGED allVars
    BY <2>1 DEF allVars
  <2>. QED
    BY <1>2, <2>1, ServerStep DEF Next
<1>3. SystemTypes /\ [SystemNext]_allVars => [Next]_vars
  BY <1>2
<1>. QED
  BY SystemTypeCorrect, <1>1, <1>3, PTL DEF SystemSpec, Spec

(* And what rfproxy does is what RFProxy says it does.                     *)
THEOREM SystemImplementsProxy == SystemSpec => ProxyFacts!ProxySpec
<1>1. SystemInit => ProxyFacts!ProxyInit
  BY SameProxy DEF SystemInit
<1>2. ASSUME SystemTypes, [SystemNext]_allVars
      PROVE  [ProxyFacts!ProxyNext]_(ProxyFacts!proxyVars)
  <2>1. CASE UNCHANGED allVars
    BY <2>1 DEF allVars, proxyTable, channels, ProxyFacts!proxyVars
  <2>. QED
    BY <1>2, <2>1, ProxyStep DEF ProxyFacts!ProxyNext
<1>3. SystemTypes /\ [SystemNext]_allVars => [ProxyFacts!ProxyNext]_(ProxyFacts!proxyVars)
  BY <1>2
<1>. QED
  BY SystemTypeCorrect, <1>1, <1>3, PTL DEF SystemSpec, ProxyFacts!ProxySpec

(* When rfserver handles one message at a time.                            *)
LEMMA OneAtATimeKept ==
  ASSUME OneAtATime, SystemTypes, NoOverlap, SystemNext
  PROVE  NoOverlap'
<1>1. CASE ClientThreadReads
  <2>1. pthread.pc = "idle" /\ UNCHANGED pthread
    BY <1>1 DEF ClientThreadReads, RegisterVmPort, vars
  <2>. QED
    BY <2>1 DEF NoOverlap
<1>2. CASE ClientThreadStep
  <2>1. cthread.pc # "idle" /\ UNCHANGED pthread
    BY <1>2 DEF ClientThreadStep, VmLookupDp, VmInsert, VmSave, VmAskMap
  <2>. QED
    BY <2>1 DEF NoOverlap
<1>3. CASE ProxyThreadReads
  <2>1. cthread.pc = "idle" /\ UNCHANGED cthread
    BY <1>3 DEF ProxyThreadReads, RegisterDpPort, ReconfigureDp, SetDpDown, MapPort, vars
  <2>. QED
    BY <2>1 DEF NoOverlap
<1>4. CASE ProxyThreadStep
  <2>1. pthread.pc # "idle" /\ UNCHANGED cthread
    BY <1>4 DEF ProxyThreadStep, ConfigDp, DpLookupVm, DpInsert, DpSave, DpAskMap,
       DownLookup, DownSave, DownReset, MapSave, MapSend
  <2>. QED
    BY <2>1 DEF NoOverlap
<1>5. CASE UNCHANGED vars
  BY <1>5 DEF vars, NoOverlap
<1>6. \/ ClientThreadReads \/ ClientThreadStep \/ ProxyThreadReads \/ ProxyThreadStep
      \/ UNCHANGED vars
  BY DEF SystemNext, VmStart, VmStop, VmReads, DatapathUp, PortDescription, DatapathDown,
     VsEvent, NoxStep, IpcReads, IpcStep
<1>. QED
  BY <1>1, <1>2, <1>3, <1>4, <1>5, <1>6

(* If rfserver handles one message at a time, all that is proved of        *)
(* SerialSpec is true of it in the composition, the refinement of          *)
(* PortAssociation included.                                               *)
THEOREM SystemIsSerial ==
  ASSUME OneAtATime
  PROVE  SystemSpec => SerialSpec
<1>1. SystemInit => Init /\ NoOverlap
  BY DEF SystemInit, Init, IdleC, NoOverlap
<1>2. SystemTypes /\ NoOverlap /\ [SystemNext]_allVars => NoOverlap' /\ [SerialNext]_vars
  <2>1. CASE UNCHANGED allVars
    BY <2>1 DEF allVars, vars, NoOverlap
  <2>. QED
    BY <2>1, ServerStep, OneAtATimeKept DEF SerialNext
<1>. QED
  BY SystemTypeCorrect, <1>1, <1>2, PTL DEF SystemSpec, SerialSpec

(* The associations of the composition are those PortAssociation promises. *)
THEOREM SystemAssociates ==
  ASSUME OneAtATime, OneToOne, FiniteDocuments
  PROVE  SystemSpec => ImplementsPortAssociation
BY SystemIsSerial, SerialImplements
-------------------------------------------------------------------------------
(* The table of rfproxy: what each step does to what it rests on. *)

LEMMA StopIsQuiet ==
  ASSUME OrderlyStops, SystemTypes, NEW v \in VmPort, VmStop(v)
  PROVE  /\ StopsMapped /\ OnePair /\ Settled
         /\ \E d \in DpPort : dp_to_vs[d] = vmAt[v]
         /\ vmStops' # 0 /\ vmAt[v] \in VsPort
<1>1. MaxVmStops # 0 /\ vmStops' # 0
  BY BoundsAssumption DEF VmStop, SystemTypes
<1>. QED
  BY <1>1 DEF OrderlyStops, VmStop, SystemTypes

LEMMA SettledIsEmpty ==
  ASSUME Settled
  PROVE  /\ cthread.pc = "idle" /\ pthread.pc = "idle" /\ nox.pc = "idle" /\ ipc.pc = "idle"
         /\ p2s = <<>> /\ c2s = <<>> /\ s2p = <<>> /\ vsQueue = <<>>
         /\ Queued(p2s) = {} /\ Queued(c2s) = {} /\ Queued(s2p) = {} /\ Queued(vsQueue) = {}
         /\ ~Reported /\ ~Deleting
<1>1. Queued(<<>>) = {}
  BY DEF Queued
<1>. QED
  BY <1>1 DEF Settled, Quiet, Reported, Deleting

LEMMA SameStandsFor ==
  ASSUME UNCHANGED vmAt
  PROVE  \A s, d : StandsFor(s, d)' <=> StandsFor(s, d)
  BY DEF StandsFor

LEMMA StartKeepsOthers ==
  ASSUME SystemTypes, NEW v \in VmPort, NEW s \in VsPort, VmStart(v, s)
  PROVE  /\ \A w \in VmPort : vmAt[w] # NULL => vmAt'[w] = vmAt[w]
         /\ \A r \in VsPort : \A d : StandsFor(r, d) => StandsFor(r, d)'
         /\ vmAt'[v] = s
<1>1. \A w \in VmPort : vmAt'[w] = IF w = v THEN s ELSE vmAt[w]
  BY DEF VmStart, SystemTypes
<1>2. \A w \in VmPort : vmAt[w] # NULL => vmAt'[w] = vmAt[w]
  BY <1>1 DEF VmStart
<1>. QED
  BY <1>1, <1>2, NullAssumption DEF StandsFor

(* The messages rfproxy sends. *)
LEMMA ProxySends ==
  ASSUME SystemTypes
  PROVE  /\ \A v \in VmPort, s \in VsPort : Proxy!OnMappingPacket(v, s) =>
              /\ p2s' = Append(p2s, [type |-> "VirtualPlaneMap", vm |-> v, vs |-> s])
              /\ [type |-> "VirtualPlaneMap", vm |-> v, vs |-> s] \in ProxyFacts!Message
         /\ \A s \in VsPort : Proxy!OnVsPortDeleted(s) => \E x \in Dp :
              /\ p2s' = Append(p2s, [type |-> "Reconfigure", dp |-> x])
              /\ [type |-> "Reconfigure", dp |-> x] \in ProxyFacts!Message
         /\ Proxy!DownSend =>
              /\ p2s' = Append(p2s, [type |-> "DatapathDown", dp |-> nox.x])
              /\ [type |-> "DatapathDown", dp |-> nox.x] \in ProxyFacts!Message
         /\ Proxy!RegisterPort =>
              \/ UNCHANGED p2s /\ nox.todo = {} /\ nox' = Proxy!IdleNox
              \/ \E d \in nox.todo :
                   /\ d \in DpPort
                   /\ p2s' = Append(p2s, [type |-> "DatapathPortRegister", port |-> d])
                   /\ [type |-> "DatapathPortRegister", port |-> d] \in ProxyFacts!Message
                   /\ nox' = [nox EXCEPT !.todo = @ \ {d}]
<1>1. ASSUME NEW v \in VmPort, NEW s \in VsPort, Proxy!OnMappingPacket(v, s)
      PROVE  /\ p2s' = Append(p2s, [type |-> "VirtualPlaneMap", vm |-> v, vs |-> s])
             /\ [type |-> "VirtualPlaneMap", vm |-> v, vs |-> s] \in ProxyFacts!Message
  BY <1>1 DEF Proxy!OnMappingPacket, Proxy!Send, ProxyFacts!Message
<1>2. ASSUME NEW s \in VsPort, Proxy!OnVsPortDeleted(s)
      PROVE  \E x \in Dp :
              /\ p2s' = Append(p2s, [type |-> "Reconfigure", dp |-> x])
              /\ [type |-> "Reconfigure", dp |-> x] \in ProxyFacts!Message
  <2>1. vs_to_dp[s] \in DpPort
    BY <1>2 DEF Proxy!OnVsPortDeleted, SystemTypes, ProxyFacts!ProxyTypeOK
  <2>2. DpOf[vs_to_dp[s]] \in Dp
    BY <2>1, DpOfAssumption
  <2>. QED
    BY <1>2, <2>2 DEF Proxy!OnVsPortDeleted, Proxy!Send, ProxyFacts!Message
<1>3. Proxy!DownSend =>
              /\ p2s' = Append(p2s, [type |-> "DatapathDown", dp |-> nox.x])
              /\ [type |-> "DatapathDown", dp |-> nox.x] \in ProxyFacts!Message
  BY DEF Proxy!DownSend, Proxy!Send, ProxyFacts!Message, SystemTypes, ProxyFacts!LocalsSet
<1>4. nox.todo \subseteq DpPort
  BY DEF SystemTypes, ProxyFacts!ProxyTypeOK, ProxyFacts!NoxState
<1>5. Proxy!RegisterPort =>
              \/ UNCHANGED p2s /\ nox.todo = {} /\ nox' = Proxy!IdleNox
              \/ \E d \in nox.todo :
                   /\ d \in DpPort
                   /\ p2s' = Append(p2s, [type |-> "DatapathPortRegister", port |-> d])
                   /\ [type |-> "DatapathPortRegister", port |-> d] \in ProxyFacts!Message
                   /\ nox' = [nox EXCEPT !.todo = @ \ {d}]
  BY <1>4 DEF Proxy!RegisterPort, Proxy!Send, ProxyFacts!Message
<1>. QED
  BY <1>1, <1>2, <1>3, <1>5

(* Where the steps of rfproxy's threads lead, and which locals they keep.  *)
LEMMA ProxyMoves ==
  ASSUME SystemTypes
  PROVE  /\ Proxy!DownReverse =>
              nox.pc = "down_reverse" /\ nox'.pc = "down_send" /\ nox'.x = nox.x
         /\ Proxy!DownSend => nox.pc = "down_send" /\ nox'.pc = "idle"
         /\ Proxy!VsForward => nox.pc = "vs_forward" /\ nox'.pc = "vs_reverse" /\ nox'.vs = nox.vs
         /\ Proxy!VsReverse => nox.pc = "vs_reverse" /\ nox'.pc = "idle"
         /\ Proxy!RegisterPort =>
              /\ nox.pc = "register"
              /\ \/ nox.todo = {} /\ nox'.pc = "idle" /\ UNCHANGED p2s
                 \/ nox'.pc = "register" /\ \E d \in nox.todo : nox'.todo = nox.todo \ {d}
         /\ Proxy!WriteForward => /\ ipc.pc = "forward" /\ ipc'.pc = "reverse"
                                  /\ ipc'.dp = ipc.dp /\ ipc'.vs = ipc.vs
         /\ Proxy!WriteReverse => ipc.pc = "reverse" /\ ipc'.pc = "idle"
         /\ NoxStep => UNCHANGED <<vars, ipc, c2s, s2c, s2p, vsQueue, vmAt, dpState, vmStops>>
         /\ IpcStep => UNCHANGED <<vars, nox, p2s, c2s, s2c, s2p, vsQueue, vmAt, dpState, vmStops>>
<1>1. nox \in ProxyFacts!NoxState /\ ipc \in ProxyFacts!IpcState
  BY DEF SystemTypes, ProxyFacts!ProxyTypeOK
<1>2. Proxy!DownReverse => nox.pc = "down_reverse" /\ nox'.pc = "down_send" /\ nox'.x = nox.x
  BY <1>1 DEF Proxy!DownReverse, ProxyFacts!NoxState
<1>3. Proxy!VsForward => nox.pc = "vs_forward" /\ nox'.pc = "vs_reverse" /\ nox'.vs = nox.vs
  BY <1>1 DEF Proxy!VsForward, ProxyFacts!NoxState
<1>4. Proxy!RegisterPort =>
              /\ nox.pc = "register"
              /\ \/ nox.todo = {} /\ nox'.pc = "idle" /\ UNCHANGED p2s
                 \/ nox'.pc = "register" /\ \E d \in nox.todo : nox'.todo = nox.todo \ {d}
  <2>1. ASSUME NEW d \in nox.todo, nox' = [nox EXCEPT !.todo = @ \ {d}]
        PROVE  nox'.pc = nox.pc /\ nox'.todo = nox.todo \ {d}
    BY <1>1, <2>1 DEF ProxyFacts!NoxState
  <2>2. Proxy!RegisterPort =>
          /\ nox.pc = "register"
          /\ \/ nox.todo = {} /\ nox' = Proxy!IdleNox /\ UNCHANGED p2s
             \/ \E d \in nox.todo : nox' = [nox EXCEPT !.todo = @ \ {d}]
    BY DEF Proxy!RegisterPort
  <2>3. Proxy!IdleNox.pc = "idle"
    BY DEF Proxy!IdleNox
  <2>. QED
    BY <2>1, <2>2, <2>3
<1>5. /\ Proxy!DownSend => nox.pc = "down_send" /\ nox'.pc = "idle"
      /\ Proxy!VsReverse => nox.pc = "vs_reverse" /\ nox'.pc = "idle"
  BY DEF Proxy!DownSend, Proxy!VsReverse, Proxy!IdleNox
<1>6. /\ Proxy!WriteForward => /\ ipc.pc = "forward" /\ ipc'.pc = "reverse"
                               /\ ipc'.dp = ipc.dp /\ ipc'.vs = ipc.vs
      /\ Proxy!WriteReverse => ipc.pc = "reverse" /\ ipc'.pc = "idle"
  BY <1>1 DEF Proxy!WriteForward, Proxy!WriteReverse, Proxy!IdleIpc, ProxyFacts!IpcState
<1>7. NoxStep => UNCHANGED <<vars, ipc, c2s, s2c, s2p, vsQueue, vmAt, dpState, vmStops>>
  BY DEF NoxStep, environment, Proxy!DownReverse, Proxy!DownSend, Proxy!VsForward,
     Proxy!VsReverse, Proxy!RegisterPort
<1>8. IpcStep => UNCHANGED <<vars, nox, p2s, c2s, s2c, s2p, vsQueue, vmAt, dpState, vmStops>>
  BY DEF IpcStep, environment, Proxy!WriteForward, Proxy!WriteReverse
<1>. QED
  BY <1>2, <1>3, <1>4, <1>5, <1>6, <1>7, <1>8

LEMMA QueueTypes ==
  ASSUME SystemTypes
  PROVE  /\ p2s \in Seq(ProxyFacts!Message) /\ c2s \in Seq(VmPort)
         /\ s2p \in Seq(Mapping) /\ vsQueue \in Seq(Event)
         /\ \A m \in Queued(p2s) : m \in ProxyFacts!Message
         /\ \A v \in Queued(c2s) : v \in VmPort
         /\ \A m \in Queued(s2p) : m.dp \in DpPort /\ m.vs \in VsPort
         /\ \A e \in Queued(vsQueue) : e \in Event
<1>1. /\ p2s \in Seq(ProxyFacts!Message) /\ c2s \in Seq(VmPort)
      /\ s2p \in Seq(Mapping) /\ vsQueue \in Seq(Event)
  BY DEF SystemTypes, ProxyFacts!ProxyTypeOK
<1>2. \A m \in Mapping : m.dp \in DpPort /\ m.vs \in VsPort
  BY DEF Mapping
<1>. QED
  BY <1>1, <1>2, InQueue

LEMMA PluggedKept ==
  ASSUME OrderlyStops, SystemTypes, Plugged, SystemNext
  PROVE  Plugged'
<1>0. /\ p2s \in Seq(ProxyFacts!Message) /\ s2p \in Seq(Mapping) /\ vsQueue \in Seq(Event)
      /\ \A m \in Queued(p2s) : m \in ProxyFacts!Message
      /\ \A m \in Queued(s2p) : m.dp \in DpPort /\ m.vs \in VsPort
      /\ \A e \in Queued(vsQueue) : e \in Event
      /\ pthread.pc \in {"map_save", "map_send"} => pthread.entry \in Entry
      /\ pthread.pc = "map_send" => <<pthread.entry.vm, pthread.entry.dp>> \in Config
      /\ pthread.pc \in {"map_save", "map_send"} => pthread.entry.vs # NULL
      /\ IInv
  BY QueueTypes DEF SystemTypes, IInv, ProxySafe, Sendable
<1>1. ASSUME NEW v \in VmPort, NEW s \in VsPort, VmStart(v, s)
      PROVE  Plugged'
  <2>1. UNCHANGED <<vsQueue, p2s, pthread, s2p, ipc>>
    BY <1>1 DEF VmStart, vars, proxyTable
  <2>2. /\ \A w \in VmPort : vmAt[w] # NULL => vmAt'[w] = vmAt[w]
        /\ \A r \in VsPort : \A d : StandsFor(r, d) => StandsFor(r, d)'
    BY <1>1, StartKeepsOthers
  <2>3. \A u, w \in VmPort : vmAt'[u] # NULL /\ vmAt'[u] = vmAt'[w] => u = w
    BY <1>1 DEF VmStart, Plugged, SystemTypes
  <2>4. \A e \in Queued(vsQueue) : e.type = "mapping" => vmAt'[e.vm] = e.vs
    BY <1>0, <2>2, EventTypes, NullAssumption DEF Plugged
  <2>5. \A m \in Queued(p2s) : m.type = "VirtualPlaneMap" => vmAt'[m.vm] = m.vs
    BY <1>0, <2>2, MessageTypes, NullAssumption DEF Plugged
  <2>6. pthread.pc \in {"map_save", "map_send"} => vmAt'[pthread.entry.vm] = pthread.entry.vs
    <3>1. pthread.entry \in Entry => pthread.entry.vm \in VmPort \cup {NULL}
      BY DEF Entry
    <3>2. NULL \notin VmPort /\ (pthread.pc \in {"map_save", "map_send"} => pthread.entry.vm # NULL)
      BY <1>0, NullAssumption, ConfigAssumption DEF IInv, ProxySafe
    <3>. QED
      BY <1>0, <2>2, <3>1, <3>2 DEF Plugged
  <2>7. \A m \in Queued(s2p) : StandsFor(m.vs, m.dp)'
    BY <1>0, <2>2 DEF Plugged
  <2>8. ipc.pc # "idle" => StandsFor(ipc.vs, ipc.dp)'
    <3>1. ipc.pc # "idle" => ipc.vs \in VsPort
      BY DEF SystemTypes, ProxyFacts!LocalsSet
    <3>2. ASSUME NEW r, NEW d, ipc.pc # "idle", r = ipc.vs, d = ipc.dp
          PROVE  StandsFor(r, d)'
      BY <2>2, <3>1, <3>2 DEF Plugged
    <3>. QED
      BY <2>1, <3>2
  <2>. QED
    BY <2>1, <2>3, <2>4, <2>5, <2>6, <2>7, <2>8 DEF Plugged
<1>2. ASSUME NEW v \in VmPort, VmStop(v)
      PROVE  Plugged'
  <2>1. UNCHANGED <<p2s, pthread, s2p, ipc>>
    BY <1>2 DEF VmStop, vars, proxyTable
  <2>2. /\ Queued(p2s) = {} /\ Queued(s2p) = {} /\ ipc.pc = "idle" /\ pthread.pc = "idle"
        /\ Queued(vsQueue) = {}
    BY <1>2, StopIsQuiet, SettledIsEmpty
  <2>3. [type |-> "deleted", vm |-> NULL, vs |-> vmAt[v]] \in Event
    BY <1>2, StopIsQuiet DEF Event
  <2>4. Queued(vsQueue') = {[type |-> "deleted", vm |-> NULL, vs |-> vmAt[v]]}
    BY <1>0, <1>2, <2>2, <2>3, InAppend DEF VmStop
  <2>5. \A u, w \in VmPort : vmAt'[u] # NULL /\ vmAt'[u] = vmAt'[w] => u = w
    BY <1>2 DEF VmStop, Plugged, SystemTypes
  <2>. QED
    BY <2>1, <2>2, <2>4, <2>5 DEF Plugged
<1>3. ASSUME NEW v \in VmPort, VmReads(v)
      PROVE  Plugged'
  <2>1. UNCHANGED <<vmAt, p2s, pthread, s2p, ipc>>
    BY <1>3 DEF VmReads, vars, proxyTable, environment
  <2>2. [type |-> "mapping", vm |-> v, vs |-> vmAt[v]] \in Event
    BY <1>3 DEF VmReads, SystemTypes, Event
  <2>3. Queued(vsQueue') \subseteq Queued(vsQueue) \cup {[type |-> "mapping", vm |-> v, vs |-> vmAt[v]]}
    BY <1>0, <1>3, <2>2, InAppend DEF VmReads
  <2>. QED
    BY <2>1, <2>3, SameStandsFor DEF Plugged
<1>4. ASSUME UNCHANGED <<vmAt, pthread, s2p, ipc>>, Queued(vsQueue') \subseteq Queued(vsQueue),
             \A m \in Queued(p2s') : m.type = "VirtualPlaneMap" => m \in Queued(p2s) \/ vmAt[m.vm] = m.vs
      PROVE  Plugged'
  BY <1>4, SameStandsFor DEF Plugged
<1>5. CASE \E x \in Dp : DatapathUp(x) \/ PortDescription(x) \/ DatapathDown(x)
  <2>1. UNCHANGED <<vmAt, pthread, s2p, ipc, vsQueue, p2s>>
    BY <1>5 DEF DatapathUp, PortDescription, DatapathDown, vars, proxyTable, channels,
       Proxy!OnPortDescription, Proxy!OnDatapathDown
  <2>. QED
    BY <1>4, <2>1
<1>6. CASE VsEvent
  <2>1. UNCHANGED <<vmAt, pthread, s2p, ipc>> /\ vsQueue # <<>> /\ vsQueue' = Tail(vsQueue)
    BY <1>6 DEF VsEvent, vars, proxyTable, environment, Proxy!OnMappingPacket, Proxy!OnVsPortDeleted
  <2>2. /\ Queued(vsQueue') \subseteq Queued(vsQueue) /\ Head(vsQueue) \in Queued(vsQueue)
        /\ Head(vsQueue) \in Event
    BY <1>0, <2>1, InTail
  <2>. DEFINE e == Head(vsQueue)
  <2>3. CASE e.type = "mapping" /\ Proxy!OnMappingPacket(e.vm, e.vs)
    <3>1. e.vm \in VmPort /\ e.vs \in VsPort /\ vmAt[e.vm] = e.vs
      BY <2>2, <2>3, EventTypes DEF Plugged
    <3>2. PICK m \in ProxyFacts!Message :
            /\ m = [type |-> "VirtualPlaneMap", vm |-> e.vm, vs |-> e.vs]
            /\ p2s' = Append(p2s, m)
      BY <2>3, <3>1, ProxySends
    <3>3. Queued(p2s') = Queued(p2s) \cup {m}
      BY <1>0, <3>2, InAppend
    <3>. QED
      BY <1>4, <2>1, <2>2, <3>1, <3>2, <3>3
  <2>4. CASE e.type = "deleted" /\ Proxy!OnVsPortDeleted(e.vs)
    <3>1. PICK x \in Dp : /\ p2s' = Append(p2s, [type |-> "Reconfigure", dp |-> x])
                          /\ [type |-> "Reconfigure", dp |-> x] \in ProxyFacts!Message
      BY <2>2, <2>4, EventTypes, ProxySends
    <3>2. Queued(p2s') = Queued(p2s) \cup {[type |-> "Reconfigure", dp |-> x]}
      BY <1>0, <3>1, InAppend
    <3>. QED
      BY <1>4, <2>1, <2>2, <3>2
  <2>5. CASE UNCHANGED p2s
    BY <1>4, <2>1, <2>2, <2>5
  <2>. QED
    BY <1>6, <2>3, <2>4, <2>5 DEF VsEvent
<1>7. CASE NoxStep
  <2>1. UNCHANGED <<vmAt, pthread, s2p, ipc, vsQueue>>
    BY <1>7 DEF NoxStep, vars, environment, Proxy!DownReverse, Proxy!DownSend,
       Proxy!VsForward, Proxy!VsReverse, Proxy!RegisterPort
  <2>2. CASE UNCHANGED p2s
    BY <1>4, <2>1, <2>2
  <2>3. ASSUME NEW m \in ProxyFacts!Message, p2s' = Append(p2s, m), m.type # "VirtualPlaneMap"
        PROVE  Plugged'
    <3>1. Queued(p2s') = Queued(p2s) \cup {m}
      BY <1>0, <2>3, InAppend
    <3>. QED
      BY <1>4, <2>1, <2>3, <3>1
  <2>4. CASE Proxy!DownSend
    <3>1. [type |-> "DatapathDown", dp |-> nox.x].type # "VirtualPlaneMap"
      OBVIOUS
    <3>. QED
      BY <2>3, <2>4, <3>1, ProxySends
  <2>5. CASE Proxy!RegisterPort
    <3>1. \A d : [type |-> "DatapathPortRegister", port |-> d].type # "VirtualPlaneMap"
      OBVIOUS
    <3>. QED
      BY <2>2, <2>3, <2>5, <3>1, ProxySends
  <2>. QED
    BY <1>7, <2>2, <2>4, <2>5 DEF NoxStep, Proxy!DownReverse, Proxy!VsForward, Proxy!VsReverse
<1>8. CASE IpcReads
  <2>1. /\ UNCHANGED <<vmAt, pthread, vsQueue, p2s>> /\ s2p # <<>> /\ s2p' = Tail(s2p)
        /\ ipc' = [pc |-> "forward", dp |-> Head(s2p).dp, vs |-> Head(s2p).vs]
    BY <1>8 DEF IpcReads, Proxy!ProcessMap, vars, environment
  <2>2. Queued(s2p') \subseteq Queued(s2p) /\ Head(s2p) \in Queued(s2p)
    BY <1>0, <2>1, InTail
  <2>3. ASSUME NEW m, m = Head(s2p) PROVE StandsFor(m.vs, m.dp)'
    BY <2>1, <2>2, <2>3, SameStandsFor DEF Plugged
  <2>4. StandsFor(ipc.vs, ipc.dp)'
    BY <2>1, <2>3
  <2>. QED
    BY <2>1, <2>2, <2>4, SameStandsFor DEF Plugged
<1>9. CASE IpcStep
  <2>1. /\ UNCHANGED <<vmAt, pthread, vsQueue, p2s, s2p>>
        /\ ipc'.pc # "idle" => ipc.pc # "idle" /\ ipc'.vs = ipc.vs /\ ipc'.dp = ipc.dp
    BY <1>9 DEF IpcStep, Proxy!WriteForward, Proxy!WriteReverse, Proxy!IdleIpc, vars,
       environment, SystemTypes, ProxyFacts!ProxyTypeOK, ProxyFacts!IpcState
  <2>2. ASSUME NEW r, NEW d, ipc.pc # "idle", r = ipc.vs, d = ipc.dp
        PROVE  StandsFor(r, d)'
    BY <2>1, <2>2, SameStandsFor DEF Plugged
  <2>3. ipc'.pc # "idle" => StandsFor(ipc.vs, ipc.dp)'
    BY <2>1, <2>2
  <2>. QED
    BY <2>1, <2>3, SameStandsFor DEF Plugged
<1>10. CASE ClientThreadReads \/ ClientThreadStep
  <2>1. CNext \/ UNCHANGED vars
    <3>1. ClientThreadReads => Head(c2s) \in VmPort
      BY InTail DEF ClientThreadReads, SystemTypes
    <3>. QED
      BY <1>10, <3>1 DEF ClientThreadReads, ClientThreadStep, CNext
  <2>2. UNCHANGED <<vmAt, pthread, s2p, ipc, vsQueue, p2s>>
    BY <1>0, <1>10, <2>1, ProxyThreadMoves DEF ClientThreadReads, ClientThreadStep,
       proxyTable, environment
  <2>. QED
    BY <1>4, <2>2
<1>11. CASE ProxyThreadReads
  <2>. DEFINE m == Head(p2s)
  <2>1. /\ UNCHANGED <<vmAt, s2p, ipc, vsQueue>>
        /\ p2s # <<>> /\ p2s' = Tail(p2s)
        /\ \/ m.type = "DatapathPortRegister" /\ RegisterDpPort(m.port)
           \/ m.type = "Reconfigure" /\ ReconfigureDp(m.dp)
           \/ m.type = "DatapathDown" /\ SetDpDown(m.dp)
           \/ m.type = "VirtualPlaneMap" /\ MapPort(m.vm, m.vs)
           \/ UNCHANGED vars
    BY <1>11 DEF ProxyThreadReads, Proxy!ServerReads, environment
  <2>2. Queued(p2s') \subseteq Queued(p2s) /\ m \in Queued(p2s) /\ m \in ProxyFacts!Message
    BY <1>0, <2>1, InTail
  <2>3. pthread'.pc \in {"map_save", "map_send"} => vmAt[pthread'.entry.vm] = pthread'.entry.vs
    <3>1. CASE m.type = "VirtualPlaneMap" /\ MapPort(m.vm, m.vs)
      BY <1>0, <2>2, <3>1, MessageTypes, ProxyThreadMoves DEF Plugged
    <3>2. CASE UNCHANGED vars
      BY <3>2 DEF vars, Plugged
    <3>3. CASE m.type # "VirtualPlaneMap" /\ ~UNCHANGED vars
      <4>1. pthread'.pc \notin {"map_save", "map_send"}
        BY <1>0, <2>1, <2>2, <3>3, MessageTypes, ProxyThreadMoves
      <4>. QED
        BY <4>1
    <3>. QED
      BY <2>1, <3>1, <3>2, <3>3
  <2>. QED
    BY <2>1, <2>2, <2>3, SameStandsFor DEF Plugged
<1>12. CASE ProxyThreadStep
  <2>1. UNCHANGED <<vmAt, ipc, vsQueue, p2s>>
    BY <1>12 DEF ProxyThreadStep, proxyTable, environment
  <2>2. pthread'.pc \in {"map_save", "map_send"} =>
           pthread.pc \in {"map_save", "map_send"} /\ pthread'.entry = pthread.entry
    BY <1>0, <1>12, ProxyThreadMoves DEF ProxyThreadStep, IdleP
  <2>3. \A m \in Queued(s2p') : StandsFor(m.vs, m.dp)
    <3>1. CASE UNCHANGED s2p
      BY <3>1 DEF Plugged
    <3>2. CASE MapSend /\ s2p' = Append(s2p, [dp |-> pthread.entry.dp, vs |-> pthread.entry.vs])
      <4>1. /\ pthread.entry.vm \in VmPort /\ pthread.entry.dp \in DpPort
            /\ pthread.entry.vs \in VsPort
        BY <1>0, <3>2, ConfigAssumption DEF MapSend, Entry
      <4>2. StandsFor(pthread.entry.vs, pthread.entry.dp)
        BY <1>0, <3>2, <4>1 DEF MapSend, Plugged, StandsFor
      <4>3. PICK m \in Mapping : /\ m = [dp |-> pthread.entry.dp, vs |-> pthread.entry.vs]
                                 /\ s2p' = Append(s2p, m)
        BY <3>2, <4>1 DEF Mapping
      <4>4. Queued(s2p') = Queued(s2p) \cup {m}
        BY <1>0, <4>3, InAppend
      <4>. QED
        BY <4>2, <4>3, <4>4 DEF Plugged
    <3>. QED
      BY <1>12, <3>1, <3>2 DEF ProxyThreadStep
  <2>. QED
    BY <2>1, <2>2, <2>3, SameStandsFor DEF Plugged
<1>. QED
  BY <1>1, <1>2, <1>3, <1>5, <1>6, <1>7, <1>8, <1>9, <1>10, <1>11, <1>12 DEF SystemNext

(* Deletions: at most one at a time, and no mapping on its way meanwhile.  *)
LEMMA DeletionsKept ==
  ASSUME OrderlyStops, SystemTypes, Plugged, Deletions, SystemNext
  PROVE  Deletions'
<1>0. /\ p2s \in Seq(ProxyFacts!Message) /\ s2p \in Seq(Mapping) /\ vsQueue \in Seq(Event)
      /\ \A m \in Queued(p2s) : m \in ProxyFacts!Message
      /\ vmStops \in Nat /\ IInv
  BY QueueTypes DEF SystemTypes
<1>1. ASSUME UNCHANGED <<vsQueue, ipc, vmStops>>, nox'.pc = nox.pc \/ nox'.pc \in {"idle", "register", "down_send"},
             Deleting => NoMapOnTheWay'
      PROVE  Deletions'
  BY <1>1 DEF Deletions, Deleting, Reported
<1>2. ASSUME NEW v \in VmPort, VmStop(v)
      PROVE  Deletions'
  <2>1. UNCHANGED <<p2s, pthread, s2p, ipc, nox>>
    BY <1>2 DEF VmStop, vars, proxyTable
  <2>2. /\ Queued(p2s) = {} /\ s2p = <<>> /\ ipc.pc = "idle" /\ pthread.pc = "idle"
        /\ vsQueue = <<>> /\ nox.pc = "idle" /\ vmStops' # 0
    BY <1>2, StopIsQuiet, SettledIsEmpty
  <2>3. PICK e \in Event : vsQueue' = Append(vsQueue, e)
    <3>1. [type |-> "deleted", vm |-> NULL, vs |-> vmAt[v]] \in Event
      BY <1>2, StopIsQuiet DEF Event
    <3>. QED
      BY <1>2, <3>1 DEF VmStop
  <2>4. Len(vsQueue') = 1
    BY <1>0, <2>2, <2>3
  <2>5. NoMapOnTheWay'
    BY <2>1, <2>2 DEF NoMapOnTheWay
  <2>. QED
    BY <2>1, <2>2, <2>4, <2>5 DEF Deletions
<1>3. ASSUME NEW v \in VmPort, VmReads(v)
      PROVE  Deletions'
  <2>1. UNCHANGED <<vmStops, p2s, pthread, s2p, ipc, nox>>
    BY <1>3 DEF VmReads, vars, proxyTable, environment
  <2>2. CASE UNCHANGED vsQueue
    BY <1>1, <2>1, <2>2 DEF Deletions, NoMapOnTheWay
  <2>3. CASE ~UNCHANGED vsQueue
    <3>1. PICK e \in Event : e.type = "mapping" /\ vsQueue' = Append(vsQueue, e)
      <4>1. [type |-> "mapping", vm |-> v, vs |-> vmAt[v]] \in Event
        BY <1>3 DEF VmReads, SystemTypes, Event
      <4>. QED
        BY <1>3, <2>3, <4>1 DEF VmReads
    <3>2. /\ Len(vsQueue') = Len(vsQueue) + 1 /\ vsQueue'[Len(vsQueue) + 1] = e
          /\ \A k \in 1 .. Len(vsQueue) : vsQueue'[k] = vsQueue[k]
          /\ Len(vsQueue) \in Nat
      BY <1>0, <3>1, InAppend, InQueue
    <3>3. \A k \in 2 .. Len(vsQueue') : vsQueue'[k].type = "mapping"
      BY <3>1, <3>2 DEF Deletions
    <3>4. Reported' <=> Reported
      <4>1. vsQueue # <<>> => Head(vsQueue') = Head(vsQueue) /\ vsQueue' # <<>>
        BY <1>0, <3>1
      <4>2. vsQueue = <<>> => Head(vsQueue') = e
        BY <1>0, <3>1
      <4>. QED
        BY <3>1, <4>1, <4>2 DEF Reported
    <3>. QED
      BY <2>1, <3>3, <3>4 DEF Deletions, Deleting, NoMapOnTheWay
  <2>. QED
    BY <2>2, <2>3
<1>4. CASE \/ \E v \in VmPort, s \in VsPort : VmStart(v, s)
           \/ \E x \in Dp : DatapathUp(x)
           \/ ClientThreadReads \/ ClientThreadStep
  <2>1. UNCHANGED <<vsQueue, ipc, vmStops, nox, s2p, p2s>>
    BY <1>4 DEF VmStart, DatapathUp, ClientThreadReads, ClientThreadStep, proxyTable,
       channels, environment
  <2>2. UNCHANGED pthread
    <3>1. ClientThreadReads => Head(c2s) \in VmPort
      BY InTail DEF ClientThreadReads, SystemTypes
    <3>2. CNext \/ UNCHANGED vars
      BY <1>4, <3>1 DEF VmStart, DatapathUp, ClientThreadReads, ClientThreadStep, CNext
    <3>. QED
      BY <1>0, <3>2, ProxyThreadMoves
  <2>. QED
    BY <1>1, <2>1, <2>2 DEF Deletions, NoMapOnTheWay
<1>5. ASSUME NEW x \in Dp, PortDescription(x)
      PROVE  Deletions'
  <2>1. /\ UNCHANGED <<vsQueue, ipc, vmStops, s2p, p2s, pthread>> /\ nox'.pc = "register"
    BY <1>5 DEF PortDescription, Proxy!OnPortDescription, Proxy!IdleNox, vars
  <2>. QED
    BY <1>1, <2>1 DEF Deletions, NoMapOnTheWay
<1>6. ASSUME NEW x \in Dp, DatapathDown(x)
      PROVE  Deletions'
  <2>1. /\ UNCHANGED <<vsQueue, ipc, vmStops, s2p, p2s, pthread>> /\ nox'.pc = "down_reverse"
        /\ ipc.pc = "idle" /\ nox.pc = "idle"
    BY <1>6 DEF DatapathDown, Proxy!ListenerInside, Proxy!OnDatapathDown, Proxy!IdleNox, vars
  <2>. QED
    BY <2>1 DEF Deletions, NoMapOnTheWay, Deleting, Reported
<1>7. CASE VsEvent
  <2>1. /\ UNCHANGED <<vmStops, pthread, s2p, ipc>> /\ vsQueue # <<>> /\ vsQueue' = Tail(vsQueue)
        /\ nox.pc = "idle"
    BY <1>7 DEF VsEvent, vars, proxyTable, environment, Proxy!OnMappingPacket, Proxy!OnVsPortDeleted
  <2>2. /\ Head(vsQueue) \in Event /\ Len(vsQueue') = Len(vsQueue) - 1 /\ Len(vsQueue) \in Nat
        /\ \A k \in 1 .. Len(vsQueue') : vsQueue'[k] = vsQueue[k + 1]
        /\ vsQueue' \in Seq(Event)
    BY <1>0, <2>1, InTail
  <2>3. \A k \in 1 .. Len(vsQueue') : vsQueue'[k].type = "mapping"
    BY <2>2 DEF Deletions
  <2>4. ~Reported'
    <3>1. vsQueue' # <<>> => Head(vsQueue') = vsQueue'[1] /\ 1 \in 1 .. Len(vsQueue')
      BY <2>2, InTail, InQueue
    <3>. QED
      BY <2>3, <3>1 DEF Reported
  <2>. DEFINE e == Head(vsQueue)
  <2>5. CASE Proxy!OnMappingPacket(e.vm, e.vs) \/ UNCHANGED <<proxyTable, p2s>>
    <3>1. nox'.pc = "idle"
      BY <2>1, <2>5 DEF Proxy!OnMappingPacket, proxyTable
    <3>. QED
      BY <2>2, <2>3, <2>4, <3>1 DEF Deletions, Deleting
  <2>6. CASE e.type = "deleted" /\ Proxy!OnVsPortDeleted(e.vs)
    <3>1. Deleting
      BY <2>1, <2>6 DEF Deleting, Reported
    <3>2. PICK x \in Dp : /\ p2s' = Append(p2s, [type |-> "Reconfigure", dp |-> x])
                          /\ [type |-> "Reconfigure", dp |-> x] \in ProxyFacts!Message
      BY <2>2, <2>6, EventTypes, ProxySends
    <3>3. Queued(p2s') = Queued(p2s) \cup {[type |-> "Reconfigure", dp |-> x]}
      BY <1>0, <3>2, InAppend
    <3>4. NoMapOnTheWay' /\ vmStops' # 0
      BY <2>1, <3>1, <3>3 DEF Deletions, NoMapOnTheWay
    <3>. QED
      BY <2>1, <2>2, <2>3, <2>4, <3>4 DEF Deletions, NoMapOnTheWay
  <2>. QED
    BY <1>7, <2>5, <2>6 DEF VsEvent
<1>8. CASE NoxStep
  <2>1. /\ UNCHANGED <<vmStops, pthread, s2p, ipc, vsQueue>>
        /\ \/ nox'.pc \in {"idle", "register", "down_send"}
           \/ nox.pc = "vs_forward" /\ nox'.pc = "vs_reverse"
    BY <1>8, ProxyMoves DEF NoxStep, vars
  <2>2. \A m \in Queued(p2s') : m \in Queued(p2s) \/ m.type # "VirtualPlaneMap"
    <3>1. CASE UNCHANGED p2s
      BY <3>1
    <3>2. ASSUME NEW m \in ProxyFacts!Message, p2s' = Append(p2s, m), m.type # "VirtualPlaneMap"
          PROVE  \A n \in Queued(p2s') : n \in Queued(p2s) \/ n.type # "VirtualPlaneMap"
      BY <1>0, <3>2, InAppend
    <3>3. CASE Proxy!DownSend
      <4>1. [type |-> "DatapathDown", dp |-> nox.x].type # "VirtualPlaneMap"
        OBVIOUS
      <4>. QED
        BY <3>2, <3>3, <4>1, ProxySends
    <3>4. CASE Proxy!RegisterPort
      <4>1. \A d : [type |-> "DatapathPortRegister", port |-> d].type # "VirtualPlaneMap"
        OBVIOUS
      <4>. QED
        BY <3>1, <3>2, <3>4, <4>1, ProxySends
    <3>. QED
      BY <1>8, <3>1, <3>3, <3>4 DEF NoxStep, Proxy!DownReverse, Proxy!VsForward, Proxy!VsReverse
  <2>3. NoMapOnTheWay => NoMapOnTheWay'
    BY <2>1, <2>2 DEF NoMapOnTheWay
  <2>. QED
    BY <2>1, <2>3 DEF Deletions, Deleting, Reported
<1>9. CASE IpcReads \/ IpcStep
  <2>1. ~Deleting
    BY <1>9 DEF Deletions, NoMapOnTheWay, IpcReads, IpcStep, Proxy!WriteForward, Proxy!WriteReverse
  <2>2. UNCHANGED <<vmStops, vsQueue, nox>> /\ (nox.pc = "down_reverse" => UNCHANGED ipc)
    BY <1>9 DEF IpcReads, IpcStep, Proxy!ProcessMap, Proxy!WriteForward, Proxy!WriteReverse,
       Proxy!ControllerInside, environment, Deletions
  <2>. QED
    BY <2>1, <2>2 DEF Deletions, Deleting, Reported
<1>10. CASE ProxyThreadReads
  <2>. DEFINE m == Head(p2s)
  <2>1. /\ UNCHANGED <<vmStops, s2p, ipc, vsQueue, nox>>
        /\ p2s # <<>> /\ p2s' = Tail(p2s)
        /\ \/ m.type = "DatapathPortRegister" /\ RegisterDpPort(m.port)
           \/ m.type = "Reconfigure" /\ ReconfigureDp(m.dp)
           \/ m.type = "DatapathDown" /\ SetDpDown(m.dp)
           \/ m.type = "VirtualPlaneMap"
           \/ UNCHANGED vars
    BY <1>10 DEF ProxyThreadReads, Proxy!ServerReads, environment
  <2>2. Queued(p2s') \subseteq Queued(p2s) /\ m \in Queued(p2s) /\ m \in ProxyFacts!Message
    BY <1>0, <2>1, InTail
  <2>3. NoMapOnTheWay => NoMapOnTheWay'
    <3>1. m.type # "VirtualPlaneMap" /\ ~UNCHANGED vars =>
            pthread'.pc \notin {"map_save", "map_send"}
      BY <1>0, <2>1, <2>2, MessageTypes, ProxyThreadMoves
    <3>. QED
      BY <2>1, <2>2, <3>1 DEF NoMapOnTheWay, vars
  <2>. QED
    BY <1>1, <2>1, <2>3 DEF Deletions
<1>11. CASE ProxyThreadStep
  <2>1. UNCHANGED <<vmStops, ipc, vsQueue, nox, p2s>>
    BY <1>11 DEF ProxyThreadStep, proxyTable, environment
  <2>2. NoMapOnTheWay => NoMapOnTheWay'
    <3>1. pthread.pc \notin {"map_save", "map_send"} =>
            pthread'.pc \notin {"map_save", "map_send"} /\ UNCHANGED s2p
      BY <1>0, <1>11, ProxyThreadMoves DEF ProxyThreadStep, IdleP
    <3>. QED
      BY <2>1, <3>1 DEF NoMapOnTheWay
  <2>. QED
    BY <1>1, <2>1, <2>2 DEF Deletions
<1>. QED
  BY <1>2, <1>3, <1>4, <1>5, <1>6, <1>7, <1>8, <1>9, <1>10, <1>11 DEF SystemNext

(* Steps that touch neither the table nor rfproxy's threads. *)
LEMMA TableUntouched ==
  ASSUME SystemTypes, SystemNext,
         ~VsEvent, ~NoxStep, ~IpcReads, ~IpcStep,
         ~\E x \in Dp : PortDescription(x) \/ DatapathDown(x)
  PROVE  UNCHANGED proxyTable
<1>1. ProxyThreadReads => UNCHANGED proxyTable
  BY DEF ProxyThreadReads, Proxy!ServerReads, proxyTable
<1>. QED
  BY <1>1 DEF SystemNext, VmStart, VmStop, VmReads, DatapathUp, ClientThreadReads,
     ClientThreadStep, ProxyThreadStep

LEMMA TableRightKept ==
  ASSUME OrderlyStops, SystemTypes, Plugged, Deletions, TableRight,
         OnePair => ThereAndBack, SystemNext
  PROVE  TableRight'
<1>0. /\ vsQueue \in Seq(Event)
      /\ dp_to_vs \in [DpPort -> VsPort \cup {NULL}] /\ vs_to_dp \in [VsPort -> DpPort \cup {NULL}]
      /\ NULL \notin VsPort /\ NULL \notin DpPort
  BY QueueTypes, NullAssumption DEF SystemTypes, ProxyFacts!ProxyTypeOK
<1>1. ASSUME \A d \in DpPort : dp_to_vs'[d] # NULL => dp_to_vs'[d] = dp_to_vs[d],
             \A s \in VsPort : \A d : StandsFor(s, d) => StandsFor(s, d)',
             \A d \in DpPort : \A s \in VsPort :
                dp_to_vs'[d] = s /\ StillDeleted(s) => StillDeleted(s)' \/ StandsFor(s, d)
      PROVE  TableRight'
  <2>1. ASSUME NEW d \in DpPort, NEW s, s = dp_to_vs'[d], s # NULL
        PROVE  StandsFor(s, d)' \/ StillDeleted(s)'
    <3>1. s = dp_to_vs[d] /\ s \in VsPort
      BY <1>0, <1>1, <2>1
    <3>2. StandsFor(s, d) \/ StillDeleted(s)
      BY <2>1, <3>1 DEF TableRight
    <3>. QED
      BY <1>1, <2>1, <3>1, <3>2
  <2>2. ASSUME NEW d \in DpPort, dp_to_vs'[d] # NULL
        PROVE  StandsFor(dp_to_vs[d], d)' \/ StillDeleted(dp_to_vs[d])'
    BY <2>1, <2>2 DEF StandsFor, StillDeleted
  <2>. QED
    BY <2>2 DEF TableRight
<1>2. ASSUME NEW v \in VmPort, NEW s \in VsPort, VmStart(v, s)
      PROVE  TableRight'
  <2>1. UNCHANGED <<dp_to_vs, nox, vsQueue>>
    BY <1>2 DEF VmStart, proxyTable
  <2>. QED
    BY <1>1, <1>2, <2>1, StartKeepsOthers DEF StillDeleted, Reported
<1>3. ASSUME NEW v \in VmPort, VmStop(v)
      PROVE  TableRight'
  <2>1. UNCHANGED dp_to_vs /\ ~Deleting /\ vsQueue = <<>>
    BY <1>3, StopIsQuiet, SettledIsEmpty DEF VmStop, proxyTable
  <2>2. Reported' /\ Head(vsQueue').vs = vmAt[v]
    BY <1>3, <2>1 DEF VmStop, Reported
  <2>3. ASSUME NEW d \in DpPort, NEW s, s = dp_to_vs[d], s # NULL
        PROVE  StandsFor(s, d)' \/ StillDeleted(s)'
    <3>1. PICK w \in VmPort : vmAt[w] = s /\ <<w, d>> \in Config
      BY <2>1, <2>3 DEF TableRight, StillDeleted, Deleting, StandsFor
    <3>2. w # v => vmAt'[w] = s
      BY <1>3, <3>1 DEF VmStop, SystemTypes
    <3>. QED
      BY <2>2, <3>1, <3>2 DEF StandsFor, StillDeleted
  <2>4. ASSUME NEW d \in DpPort, dp_to_vs'[d] # NULL
        PROVE  StandsFor(dp_to_vs[d], d)' \/ StillDeleted(dp_to_vs[d])'
    BY <2>1, <2>3, <2>4 DEF StandsFor, StillDeleted
  <2>. QED
    BY <2>4 DEF TableRight
<1>4. ASSUME NEW v \in VmPort, VmReads(v)
      PROVE  TableRight'
  <2>1. UNCHANGED <<dp_to_vs, nox, vmAt>>
    BY <1>4 DEF VmReads, proxyTable, environment
  <2>2. vsQueue # <<>> => vsQueue' # <<>> /\ Head(vsQueue') = Head(vsQueue)
    <3>1. ASSUME NEW e \in Event, vsQueue' = Append(vsQueue, e), vsQueue # <<>>
          PROVE  vsQueue' # <<>> /\ Head(vsQueue') = Head(vsQueue)
      BY <1>0, <3>1
    <3>2. [type |-> "mapping", vm |-> v, vs |-> vmAt[v]] \in Event
      BY <1>4 DEF VmReads, SystemTypes, Event
    <3>. QED
      BY <1>4, <3>1, <3>2 DEF VmReads
  <2>. QED
    BY <1>1, <2>1, <2>2, SameStandsFor DEF StillDeleted, Reported
<1>5. CASE \E x \in Dp : PortDescription(x) \/ DatapathDown(x)
  <2>1. /\ nox.pc = "idle" /\ UNCHANGED <<vsQueue, vmAt>>
        /\ \A d \in DpPort : dp_to_vs'[d] # NULL => dp_to_vs'[d] = dp_to_vs[d]
    BY <1>5 DEF PortDescription, DatapathDown, Proxy!OnPortDescription, Proxy!OnDatapathDown
  <2>. QED
    BY <1>1, <2>1, SameStandsFor DEF StillDeleted, Reported
<1>6. CASE VsEvent
  <2>. DEFINE e == Head(vsQueue)
  <2>1. /\ UNCHANGED <<dp_to_vs, vmAt>> /\ vsQueue # <<>> /\ nox.pc = "idle"
    BY <1>6 DEF VsEvent, proxyTable, environment, Proxy!OnMappingPacket, Proxy!OnVsPortDeleted
  <2>2. e \in Event
    BY <1>0, <2>1, InTail
  <2>3. CASE e.type = "mapping"
    BY <1>1, <2>1, <2>3, SameStandsFor DEF StillDeleted, Reported
  <2>4. ASSUME NEW s0, s0 = Head(vsQueue).vs, Proxy!OnVsPortDeleted(s0)
        PROVE  TableRight'
    <3>1. nox'.pc = "vs_forward" /\ nox'.vs = s0
      BY <2>4 DEF Proxy!OnVsPortDeleted, Proxy!IdleNox
    <3>2. \A s \in VsPort : StillDeleted(s) => s = s0
      BY <2>1, <2>4 DEF StillDeleted
    <3>3. \A s \in VsPort : StillDeleted(s) => StillDeleted(s)'
      BY <3>1, <3>2 DEF StillDeleted
    <3>. QED
      BY <1>1, <2>1, <3>3, SameStandsFor
  <2>5. CASE e.type = "deleted" /\ vs_to_dp[e.vs] = NULL
    <3>1. Deleting
      BY <2>1, <2>5 DEF Deleting, Reported
    <3>2. MaxVmStops # 0
      BY <3>1, BoundsAssumption DEF Deletions, SystemTypes
    <3>3. ThereAndBack
      BY <3>2 DEF OrderlyStops
    <3>4. \A d \in DpPort : dp_to_vs[d] # e.vs
      <4>1. ipc.pc = "idle"
        BY <3>1 DEF Deletions, NoMapOnTheWay
      <4>. QED
        BY <1>0, <2>1, <2>2, <2>5, <3>3, <4>1, EventTypes DEF ThereAndBack
    <3>. QED
      BY <1>1, <2>1, <3>4, SameStandsFor DEF StillDeleted, Reported
  <2>. QED
    BY <1>6, <2>3, <2>4, <2>5 DEF VsEvent
<1>7. CASE NoxStep
  <2>1. UNCHANGED <<vsQueue, vmAt>>
    BY <1>7, ProxyMoves
  <2>2. CASE Proxy!VsForward
    <3>1. \A d \in DpPort : dp_to_vs'[d] = IF dp_to_vs[d] = nox.vs THEN NULL ELSE dp_to_vs[d]
      BY <1>0, <2>2 DEF Proxy!VsForward
    <3>2. \A d \in DpPort : \A s \in VsPort : dp_to_vs'[d] = s => s # nox.vs
      BY <1>0, <3>1
    <3>3. \A d \in DpPort : dp_to_vs'[d] # NULL => dp_to_vs'[d] = dp_to_vs[d]
      BY <3>1
    <3>4. \A s : StillDeleted(s) => s = nox.vs \/ StillDeleted(s)'
      BY <2>1 DEF StillDeleted, Reported
    <3>. QED
      BY <1>1, <2>1, <3>2, <3>3, <3>4, SameStandsFor
  <2>3. CASE ~Proxy!VsForward
    <3>1. UNCHANGED dp_to_vs /\ nox.pc # "vs_forward"
      BY <1>7, <2>3 DEF NoxStep, Proxy!DownReverse, Proxy!DownSend, Proxy!VsReverse, Proxy!RegisterPort
    <3>. QED
      BY <1>1, <2>1, <3>1, SameStandsFor DEF StillDeleted, Reported
  <2>. QED
    BY <2>2, <2>3
<1>8. CASE IpcReads
  <2>1. UNCHANGED <<dp_to_vs, vmAt, vsQueue, nox>>
    BY <1>8 DEF IpcReads, Proxy!ProcessMap, environment
  <2>. QED
    BY <1>1, <2>1, SameStandsFor DEF StillDeleted, Reported
<1>9. CASE IpcStep
  <2>1. UNCHANGED <<vmAt, vsQueue, nox>>
    BY <1>9, ProxyMoves
  <2>2. CASE Proxy!WriteForward
    <3>1. /\ ipc.pc # "idle" /\ ipc.dp \in DpPort /\ ipc.vs \in VsPort
          /\ dp_to_vs' = [dp_to_vs EXCEPT ![ipc.dp] = ipc.vs]
      BY <2>2 DEF Proxy!WriteForward, SystemTypes, ProxyFacts!LocalsSet
    <3>2. ASSUME NEW d \in DpPort, NEW s, s = dp_to_vs'[d], s # NULL
          PROVE  StandsFor(s, d)' \/ StillDeleted(s)'
      <4>1. CASE d = ipc.dp
        <5>1. s = ipc.vs /\ StandsFor(s, d)
          BY <1>0, <3>1, <3>2, <4>1 DEF Plugged
        <5>. QED
          BY <2>1, <5>1, SameStandsFor
      <4>2. CASE d # ipc.dp
        <5>1. s = dp_to_vs[d]
          BY <1>0, <3>1, <3>2, <4>2
        <5>2. StandsFor(s, d) \/ StillDeleted(s)
          BY <3>2, <5>1 DEF TableRight
        <5>. QED
          BY <2>1, <5>2, SameStandsFor DEF StillDeleted, Reported
      <4>. QED
        BY <4>1, <4>2
    <3>3. ASSUME NEW d \in DpPort, dp_to_vs'[d] # NULL
          PROVE  StandsFor(dp_to_vs[d], d)' \/ StillDeleted(dp_to_vs[d])'
      BY <3>2, <3>3 DEF StandsFor, StillDeleted
    <3>. QED
      BY <3>3 DEF TableRight
  <2>3. CASE Proxy!WriteReverse
    <3>1. UNCHANGED dp_to_vs
      BY <2>3 DEF Proxy!WriteReverse
    <3>. QED
      BY <1>1, <2>1, <3>1, SameStandsFor DEF StillDeleted, Reported
  <2>. QED
    BY <1>9, <2>2, <2>3 DEF IpcStep
<1>10. CASE \/ \E x \in Dp : DatapathUp(x)
            \/ ClientThreadReads \/ ClientThreadStep \/ ProxyThreadReads \/ ProxyThreadStep
  <2>1. UNCHANGED <<dp_to_vs, nox, vsQueue, vmAt>>
    BY <1>10 DEF DatapathUp, ClientThreadReads, ClientThreadStep, ProxyThreadReads,
       ProxyThreadStep, Proxy!ServerReads, proxyTable, channels, environment
  <2>. QED
    BY <1>1, <2>1, SameStandsFor DEF StillDeleted, Reported
<1>. QED
  BY <1>2, <1>3, <1>4, <1>5, <1>6, <1>7, <1>8, <1>9, <1>10 DEF SystemNext

LEMMA ThereAndBackKept ==
  ASSUME OrderlyStops, SystemTypes, Plugged, Deletions, TableRight, OnePair, ThereAndBack,
         SystemNext
  PROVE  ThereAndBack'
<1>0. /\ vsQueue \in Seq(Event) /\ s2p \in Seq(Mapping)
      /\ dp_to_vs \in [DpPort -> VsPort \cup {NULL}] /\ vs_to_dp \in [VsPort -> DpPort \cup {NULL}]
      /\ NULL \notin VsPort /\ NULL \notin DpPort
  BY QueueTypes, NullAssumption DEF SystemTypes, ProxyFacts!ProxyTypeOK
<1>1. CASE UNCHANGED proxyTable
  BY <1>1 DEF proxyTable, ThereAndBack
<1>2. ASSUME NEW x \in Dp, PortDescription(x)
      PROVE  ThereAndBack'
  BY <1>2 DEF PortDescription, Proxy!OnPortDescription, Proxy!IdleNox, ThereAndBack
<1>3. ASSUME NEW x \in Dp, DatapathDown(x)
      PROVE  ThereAndBack'
  <2>1. /\ \A d \in DpPort : dp_to_vs'[d] = IF DpOf[d] = x THEN NULL ELSE dp_to_vs[d]
        /\ nox'.pc = "down_reverse" /\ nox'.x = x /\ UNCHANGED <<ipc, vs_to_dp>>
        /\ ipc.pc = "idle"
    BY <1>3 DEF DatapathDown, Proxy!ListenerInside, Proxy!OnDatapathDown, Proxy!IdleNox
  <2>. QED
    BY <2>1 DEF ThereAndBack
<1>4. CASE VsEvent
  <2>1. UNCHANGED <<dp_to_vs, vs_to_dp, ipc>> /\ nox'.pc \in {"idle", "vs_forward"}
    BY <1>4 DEF VsEvent, proxyTable, Proxy!OnMappingPacket, Proxy!OnVsPortDeleted, Proxy!IdleNox
  <2>. QED
    BY <2>1 DEF ThereAndBack
<1>5. CASE NoxStep
  <2>1. UNCHANGED ipc
    BY <1>5, ProxyMoves
  <2>2. CASE Proxy!DownReverse
    <3>1. /\ UNCHANGED dp_to_vs /\ nox'.pc = "down_send"
          /\ \A s \in VsPort : vs_to_dp'[s] = IF vs_to_dp[s] \in Proxy!PortsOf(nox.x) THEN NULL
                                                                                     ELSE vs_to_dp[s]
      BY <2>2, ProxyMoves DEF Proxy!DownReverse
    <3>2. ASSUME NEW d \in DpPort, dp_to_vs[d] # NULL, vs_to_dp[dp_to_vs[d]] = d
          PROVE  vs_to_dp'[dp_to_vs[d]] = d
      <4>1. DpOf[d] # nox.x /\ dp_to_vs[d] \in VsPort
        BY <1>0, <2>2, <3>2 DEF ThereAndBack, Proxy!DownReverse
      <4>. QED
        BY <3>1, <3>2, <4>1 DEF Proxy!PortsOf
    <3>. QED
      BY <2>1, <3>1, <3>2 DEF ThereAndBack
  <2>3. CASE Proxy!VsForward
    <3>1. /\ UNCHANGED vs_to_dp /\ nox'.pc = "vs_reverse" /\ nox'.vs = nox.vs /\ ipc.pc = "idle"
          /\ \A d \in DpPort : dp_to_vs'[d] = IF dp_to_vs[d] = nox.vs THEN NULL ELSE dp_to_vs[d]
      BY <1>0, <2>3, ProxyMoves DEF Proxy!VsForward, Deletions
    <3>2. nox.vs # NULL
      BY <1>0, <2>3 DEF Proxy!VsForward, SystemTypes, ProxyFacts!LocalsSet
    <3>. QED
      BY <2>1, <3>1, <3>2 DEF ThereAndBack
  <2>4. CASE Proxy!VsReverse
    <3>1. /\ UNCHANGED dp_to_vs /\ nox.pc = "vs_reverse" /\ nox'.pc = "idle"
          /\ vs_to_dp' = [vs_to_dp EXCEPT ![nox.vs] = NULL]
      BY <2>4, ProxyMoves DEF Proxy!VsReverse
    <3>2. ASSUME NEW d \in DpPort, dp_to_vs[d] # NULL
          PROVE  vs_to_dp'[dp_to_vs[d]] = vs_to_dp[dp_to_vs[d]]
      BY <1>0, <3>1, <3>2 DEF ThereAndBack
    <3>. QED
      BY <2>1, <3>1, <3>2 DEF ThereAndBack
  <2>5. CASE Proxy!DownSend \/ Proxy!RegisterPort
    <3>1. UNCHANGED <<dp_to_vs, vs_to_dp>> /\ nox'.pc \in {"idle", "register"}
      BY <2>5, ProxyMoves DEF Proxy!DownSend, Proxy!RegisterPort
    <3>. QED
      BY <2>1, <3>1 DEF ThereAndBack
  <2>. QED
    BY <1>5, <2>2, <2>3, <2>4, <2>5 DEF NoxStep
<1>6. CASE IpcReads
  <2>1. PICK d0 \in DpPort, s0 \in VsPort : Proxy!ProcessMap(d0, s0)
    <3>1. Head(s2p) \in Mapping
      BY <1>0, <1>6, InTail DEF IpcReads
    <3>. QED
      BY <1>6, <3>1 DEF IpcReads, Mapping
  <2>2. /\ UNCHANGED <<dp_to_vs, nox>> /\ ipc.pc = "idle"
        /\ ipc' = [pc |-> "forward", dp |-> d0, vs |-> s0]
        /\ vs_to_dp' = IF dp_to_vs[d0] # NULL THEN [vs_to_dp EXCEPT ![dp_to_vs[d0]] = NULL]
                                              ELSE vs_to_dp
    BY <2>1 DEF Proxy!ProcessMap
  <2>3. ASSUME NEW d \in DpPort, d # d0, dp_to_vs[d] # NULL
        PROVE  vs_to_dp'[dp_to_vs[d]] = d
    <3>1. vs_to_dp[dp_to_vs[d]] = d /\ dp_to_vs[d] \in VsPort
      BY <1>0, <2>2, <2>3 DEF ThereAndBack
    <3>2. dp_to_vs[d0] # NULL => vs_to_dp[dp_to_vs[d0]] = d0
      BY <2>2 DEF ThereAndBack
    <3>3. dp_to_vs[d0] # dp_to_vs[d]
      BY <2>3, <3>1, <3>2
    <3>. QED
      BY <1>0, <2>2, <3>1, <3>3
  <2>4. nox.pc \notin {"down_reverse", "vs_reverse"}
    <3>1. nox.pc # "vs_reverse"
      BY <1>0, <1>6 DEF IpcReads, Deletions, Deleting, NoMapOnTheWay
    <3>. QED
      BY <1>6, <3>1 DEF IpcReads, Proxy!ControllerInside
  <2>5. ipc'.pc = "forward" /\ ipc'.dp = d0
    BY <2>2
  <2>. QED
    BY <2>2, <2>3, <2>4, <2>5 DEF ThereAndBack
<1>7. CASE Proxy!WriteForward /\ IpcStep
  <2>1. /\ UNCHANGED <<nox, vs_to_dp>> /\ ipc.pc = "forward" /\ ipc'.pc = "reverse"
        /\ ipc'.dp = ipc.dp /\ ipc'.vs = ipc.vs
        /\ dp_to_vs' = [dp_to_vs EXCEPT ![ipc.dp] = ipc.vs] /\ ipc.dp \in DpPort
    BY <1>7, ProxyMoves DEF Proxy!WriteForward, SystemTypes, ProxyFacts!LocalsSet
  <2>2. nox.pc \notin {"down_reverse", "vs_reverse"}
    BY <2>1 DEF Deletions
  <2>3. \A d \in DpPort : dp_to_vs'[d] = IF d = ipc.dp THEN ipc.vs ELSE dp_to_vs[d]
    BY <1>0, <2>1
  <2>. QED
    BY <2>1, <2>2, <2>3 DEF ThereAndBack
<1>8. CASE Proxy!WriteReverse /\ IpcStep
  <2>1. /\ UNCHANGED <<nox, dp_to_vs>> /\ ipc.pc = "reverse" /\ ipc'.pc = "idle"
        /\ ipc.dp \in DpPort /\ ipc.vs \in VsPort
        /\ vs_to_dp' = [vs_to_dp EXCEPT ![ipc.vs] = ipc.dp]
    BY <1>8, ProxyMoves DEF Proxy!WriteReverse, SystemTypes, ProxyFacts!LocalsSet
  <2>2. nox.pc \notin {"down_reverse", "vs_reverse"} /\ ~Deleting
    BY <2>1 DEF Deletions, NoMapOnTheWay
  <2>3. ASSUME NEW d \in DpPort, dp_to_vs[d] # NULL
        PROVE  vs_to_dp'[dp_to_vs[d]] = d
    <3>1. CASE dp_to_vs[d] = ipc.vs
      <4>1. StandsFor(ipc.vs, d) /\ StandsFor(ipc.vs, ipc.dp)
        BY <2>1, <2>2, <2>3, <3>1 DEF TableRight, Plugged, StillDeleted, Deleting
      <4>2. PICK v \in VmPort, w \in VmPort :
              /\ vmAt[v] = ipc.vs /\ <<v, d>> \in Config
              /\ vmAt[w] = ipc.vs /\ <<w, ipc.dp>> \in Config
        BY <4>1 DEF StandsFor
      <4>3. v = w
        BY <1>0, <2>1, <4>2 DEF Plugged
      <4>4. d = ipc.dp
        BY <4>2, <4>3 DEF OnePair
      <4>. QED
        BY <1>0, <2>1, <3>1, <4>4
    <3>2. CASE dp_to_vs[d] # ipc.vs
      <4>1. d # ipc.dp
        BY <2>1, <3>2 DEF ThereAndBack
      <4>. QED
        BY <1>0, <2>1, <2>3, <3>2, <4>1 DEF ThereAndBack
    <3>. QED
      BY <3>1, <3>2
  <2>. QED
    BY <2>1, <2>2, <2>3 DEF ThereAndBack
<1>. QED
  BY <1>1, <1>2, <1>3, <1>4, <1>5, <1>6, <1>7, <1>8, TableUntouched DEF IpcStep

LEMMA InitRight == SystemInit => RightInv
<1>. SUFFICES ASSUME SystemInit PROVE RightInv
  OBVIOUS
<1>1. /\ \A v \in VmPort : vmAt[v] = NULL
      /\ \A d \in DpPort : dp_to_vs[d] = NULL
      /\ vsQueue = <<>> /\ p2s = <<>> /\ s2p = <<>> /\ Queued(<<>>) = {}
      /\ pthread.pc = "idle" /\ ipc.pc = "idle" /\ nox.pc = "idle"
  BY DEF SystemInit, Init, IdleP, Proxy!ProxyInit, Proxy!IdleIpc, Proxy!IdleNox, Queued
<1>2. Plugged /\ TableRight /\ ThereAndBack
  BY <1>1 DEF Plugged, TableRight, ThereAndBack
<1>3. Deletions
  BY <1>1 DEF Deletions, Deleting, Reported
<1>. QED
  BY <1>2, <1>3, InitTypes DEF RightInv

LEMMA NextRight ==
  ASSUME OrderlyStops, RightInv, [SystemNext]_allVars
  PROVE  RightInv'
<1>1. CASE SystemNext
  BY <1>1, TypesKept, PluggedKept, DeletionsKept, TableRightKept, ThereAndBackKept DEF RightInv, OnePair
<1>2. CASE UNCHANGED allVars
  <2>1. UNCHANGED <<pthread, dp_to_vs, vs_to_dp, ipc, nox, p2s, s2p, vsQueue, vmAt, vmStops>>
    BY <1>2 DEF allVars, vars, proxyTable, channels, environment
  <2>2. Plugged' /\ Deletions'
    BY <2>1, SameStandsFor DEF RightInv, Plugged, Deletions, Deleting, Reported, NoMapOnTheWay, StandsFor
  <2>3. TableRight' /\ (OnePair => ThereAndBack')
    BY <2>1 DEF RightInv, TableRight, ThereAndBack, StandsFor, StillDeleted, Reported
  <2>. QED
    BY <2>2, <2>3, TypesKept DEF RightInv, OnePair
<1>. QED
  BY <1>1, <1>2

(* The invariant RightPorts rests on holds in every reachable state.       *)
THEOREM RightInductive ==
  ASSUME OrderlyStops
  PROVE  SystemSpec => []RightInv
<1>1. RightInv /\ [SystemNext]_allVars => RightInv'
  BY NextRight
<1>. QED
  BY InitRight, <1>1, PTL DEF SystemSpec

(* When nothing is left to be done, whatever the order in which machines   *)
(* and datapaths came and went, the table of rfproxy redirects a datapath  *)
(* port to the machine configured for it ("redirect it to the right RFVS   *)
(* port" in on_packet_in), provided that a machine never stops or only     *)
(* when it is mapped and all is quiet.                                     *)
THEOREM SystemRightPorts ==
  ASSUME OrderlyStops
  PROVE  SystemSpec => []RightPorts
<1>1. RightInv => RightPorts
  BY SettledIsEmpty DEF RightInv, TableRight, RightPorts, StandsFor, StillDeleted, Deleting
<1>. QED
  BY RightInductive, <1>1, PTL
-------------------------------------------------------------------------------
(* A port has one document. *)

(* Which documents hold a port after a write. *)
LEMMA RowsWritten ==
  ASSUME TypeOK, NEW i \in Doc, NEW e \in Entry, rftable' = [rftable EXCEPT ![i] = e]
  PROVE  /\ \A d : RowsOfDpPort(d)' = IF e.dp = d THEN RowsOfDpPort(d) \cup {i}
                                                 ELSE RowsOfDpPort(d) \ {i}
         /\ \A v : RowsOfVm(v)' = IF e.vm = v THEN RowsOfVm(v) \cup {i}
                                              ELSE RowsOfVm(v) \ {i}
         /\ \A j \in Doc : rftable'[j] = IF j = i THEN e ELSE rftable[j]
         /\ Rows' = Rows \cup {i}
<1>1. /\ \A j \in Doc : rftable'[j] = IF j = i THEN e ELSE rftable[j]
      /\ Rows' = Rows \cup {i}
  BY OneRowWritten
<1>2. Rows \subseteq Doc
  BY DEF Rows
<1>. QED
  BY <1>1, <1>2 DEF RowsOfDpPort, RowsOfVm

LEMMA SameRows ==
  ASSUME UNCHANGED rftable
  PROVE  /\ Rows' = Rows
         /\ \A v : RowsOfVm(v)' = RowsOfVm(v)
         /\ \A d : RowsOfDpPort(d)' = RowsOfDpPort(d)
  BY DEF RowsOfVm, RowsOfDpPort, Rows

LEMMA OneEachWritten ==
  ASSUME TypeOK, OneDocumentEach, NEW i \in Doc, NEW e \in Entry,
         rftable' = [rftable EXCEPT ![i] = e],
         e.vm # NULL => RowsOfVm(e.vm) \subseteq {i},
         e.dp # NULL => RowsOfDpPort(e.dp) \subseteq {i}
  PROVE  OneDocumentEach'
<1>1. /\ \A j \in Doc : rftable'[j] = IF j = i THEN e ELSE rftable[j]
      /\ Rows' = Rows \cup {i} /\ Rows \subseteq Doc
  BY OneRowWritten DEF Rows
<1>2. /\ e.vm # NULL => \A j \in Rows : j # i => rftable[j].vm # e.vm
      /\ e.dp # NULL => \A j \in Rows : j # i => rftable[j].dp # e.dp
  BY DEF RowsOfVm, RowsOfDpPort
<1>3. ASSUME NEW k \in Rows', NEW j \in Rows', k # j
      PROVE  /\ rftable'[k].vm # NULL => rftable'[k].vm # rftable'[j].vm
             /\ rftable'[k].dp # NULL => rftable'[k].dp # rftable'[j].dp
  <2>1. CASE k = i
    BY <1>1, <1>2, <1>3, <2>1
  <2>2. CASE j = i
    BY <1>1, <1>2, <1>3, <2>2
  <2>3. CASE k # i /\ j # i
    <3>1. k \in Rows /\ j \in Rows /\ rftable'[k] = rftable[k] /\ rftable'[j] = rftable[j]
      BY <1>1, <2>3
    <3>. QED
      BY <1>3, <3>1 DEF OneDocumentEach
  <2>. QED
    BY <2>1, <2>2, <2>3
<1>. QED
  BY <1>3 DEF OneDocumentEach

(* The documents rfserver writes. *)
ServerWrites(i, e) ==
    /\ rftable' = [rftable EXCEPT ![i] = e]
    /\ \/ /\ VmInsert /\ cthread.pc = "insert" /\ rftable[i] = NULL
          /\ e = IdleVm(cthread.vm) /\ cthread.vm \in VmPort
       \/ /\ VmSave /\ cthread.pc = "save" /\ rftable[i] = IdleDp(cthread.dp)
          /\ e.vm = cthread.vm /\ e.dp = cthread.dp /\ e.vs = NULL
       \/ /\ DpInsert /\ pthread.pc = "insert" /\ rftable[i] = NULL
          /\ e = IdleDp(pthread.dp) /\ pthread.dp \in DpPort
       \/ /\ DpSave /\ pthread.pc = "save" /\ rftable[i] = IdleVm(e.vm)
          /\ e = pthread.entry /\ e.vm # NULL /\ e.dp = pthread.dp /\ e.vs = NULL
       \/ /\ DownSave /\ pthread.pc = "down_save" /\ rftable[i] # NULL /\ i = pthread.id
          /\ e.vm = rftable[i].vm /\ e.dp = NULL /\ e.vs = NULL
       \/ /\ MapSave /\ pthread.pc = "map_save" /\ rftable[i] # NULL /\ e = pthread.entry
          /\ e.vm = rftable[i].vm /\ e.dp = rftable[i].dp

LEMMA ServerReadsOrWrites ==
  ASSUME SerialInv, RegisteringIsNew, CNext \/ PNext \/ UNCHANGED vars
  PROVE  \/ /\ UNCHANGED rftable
            /\ ~VmInsert /\ ~VmSave /\ ~DpInsert /\ ~DpSave /\ ~DownSave /\ ~MapSave
         \/ \E i \in Doc, e \in Entry : ServerWrites(i, e)
<1>. USE DEF SerialInv, IInv
<1>1. CASE VmInsert
  <2>1. PICK i \in Doc : rftable[i] = NULL /\ rftable' = [rftable EXCEPT ![i] = IdleVm(cthread.vm)]
    BY <1>1 DEF VmInsert, Insert
  <2>2. cthread.pc = "insert" /\ cthread.vm \in VmPort /\ IdleVm(cthread.vm) \in Entry
    BY <1>1, IdleType DEF VmInsert, ClientSafe
  <2>. QED
    BY <1>1, <2>1, <2>2 DEF ServerWrites
<1>2. CASE VmSave
  BY <1>2 DEF VmSave, Save, ServerWrites, ClientSafe, ClientCurrent
<1>3. CASE DpInsert
  <2>1. PICK i \in Doc : rftable[i] = NULL /\ rftable' = [rftable EXCEPT ![i] = IdleDp(pthread.dp)]
    BY <1>3 DEF DpInsert, Insert
  <2>2. pthread.pc = "insert" /\ pthread.dp \in DpPort /\ IdleDp(pthread.dp) \in Entry
    BY <1>3, IdleType DEF DpInsert, ProxySafe
  <2>. QED
    BY <1>3, <2>1, <2>2 DEF ServerWrites
<1>4. CASE DpSave
  BY <1>4 DEF DpSave, Save, ServerWrites, ProxySafe, RegisteringIsNew
<1>5. CASE DownSave
  <2>1. NULL \notin Entry
    BY NullAssumption
  <2>. QED
    BY <1>5, <2>1 DEF DownSave, Save, ServerWrites, ProxySafe, ProxyCurrent
<1>6. CASE MapSave
  <2>1. NULL \notin Entry
    BY NullAssumption
  <2>. QED
    BY <1>6, <2>1 DEF MapSave, Save, ServerWrites, ProxySafe
<1>7. CASE ~VmInsert /\ ~VmSave /\ ~DpInsert /\ ~DpSave /\ ~DownSave /\ ~MapSave
  <2>1. CNext => UNCHANGED rftable
    BY <1>7 DEF CNext, RegisterVmPort, VmLookupDp, VmAskMap
  <2>2. PNext => UNCHANGED rftable
    BY <1>7 DEF PNext, RegisterDpPort, ReconfigureDp, ConfigDp, DpLookupVm,
       DpAskMap, SetDpDown, DownLookup, DownReset, MapPort, MapSend
  <2>. QED
    BY <1>7, <2>1, <2>2 DEF vars
<1>. QED
  BY <1>1, <1>2, <1>3, <1>4, <1>5, <1>6, <1>7

(* No port gets a second document. *)
LEMMA OneEachKept ==
  ASSUME SerialInv, RegisteringIsNew, OneDocumentEach, CNext \/ PNext \/ UNCHANGED vars
  PROVE  OneDocumentEach'
<1>0. TypeOK /\ NULL \notin VmPort /\ NULL \notin DpPort
  BY NullAssumption DEF SerialInv, IInv
<1>1. CASE UNCHANGED rftable
  BY <1>1, SameRows DEF OneDocumentEach
<1>2. ASSUME NEW i \in Doc, NEW e \in Entry, ServerWrites(i, e)
      PROVE  OneDocumentEach'
  <2>1. ASSUME rftable[i] # NULL, NEW v, rftable[i].vm = v, v # NULL
        PROVE  RowsOfVm(v) \subseteq {i}
    BY <2>1 DEF OneDocumentEach, RowsOfVm, Rows
  <2>2. ASSUME rftable[i] # NULL, NEW d, rftable[i].dp = d, d # NULL
        PROVE  RowsOfDpPort(d) \subseteq {i}
    BY <2>2 DEF OneDocumentEach, RowsOfDpPort, Rows
  <2>3. \A d \in DpPort : IdleDp(d) # NULL /\ IdleDp(d).dp = d /\ IdleDp(d).vm = NULL
    BY IdleType, NullAssumption DEF IdleDp
  <2>4. \A v \in VmPort : IdleVm(v) # NULL /\ IdleVm(v).vm = v /\ IdleVm(v).dp = NULL
    BY IdleType, NullAssumption DEF IdleVm
  <2>5. e.vm \in VmPort \cup {NULL} /\ e.dp \in DpPort \cup {NULL}
    BY DEF Entry
  <2>6. e.vm # NULL => RowsOfVm(e.vm) \subseteq {i}
    <3>1. CASE cthread.pc \in {"insert", "save"} /\ e.vm = cthread.vm
      BY <3>1 DEF RegisteringIsNew
    <3>2. CASE e.vm = NULL
      BY <3>2
    <3>3. CASE rftable[i] # NULL /\ rftable[i].vm = e.vm
      BY <2>1, <3>3
    <3>. QED
      BY <1>2, <2>3, <2>4, <2>5, <3>1, <3>2, <3>3 DEF ServerWrites
  <2>7. e.dp # NULL => RowsOfDpPort(e.dp) \subseteq {i}
    <3>1. CASE pthread.pc \in {"insert", "save"} /\ e.dp = pthread.dp
      BY <2>5, <3>1 DEF RegisteringIsNew, Registering
    <3>2. CASE e.dp = NULL
      BY <3>2
    <3>3. CASE rftable[i] # NULL /\ rftable[i].dp = e.dp
      BY <2>2, <3>3
    <3>. QED
      BY <1>2, <2>3, <2>4, <2>5, <3>1, <3>2, <3>3 DEF ServerWrites
  <2>. QED
    BY <1>0, <1>2, <2>6, <2>7, OneEachWritten DEF ServerWrites
<1>. QED
  BY <1>1, <1>2, ServerReadsOrWrites

(* A port that is absent stays so until it registers. *)
LEMMA AbsentKept ==
  ASSUME FiniteDocuments, SerialInv, RegisteringIsNew, CNext \/ PNext \/ UNCHANGED vars,
         NEW d \in DpPort, Absent(d), ~RegisterDpPort(d)
  PROVE  Absent(d)'
<1>0. IInv /\ TypeOK /\ NoOverlap /\ IdleP.pc = "idle" /\ d # NULL
  BY NullAssumption DEF SerialInv, IInv, IdleP
<1>1. ~Registering(d)'
  <2>1. CASE PNext
    BY <1>0, <2>1, ProxyThreadMoves DEF PNext, Absent, Registering
  <2>2. CASE CNext \/ UNCHANGED vars
    BY <1>0, <2>2, ProxyThreadMoves DEF Absent, Registering
  <2>. QED
    BY <2>1, <2>2
<1>2. CASE RowsOfDpPort(d) = {}
  <2>1. CASE UNCHANGED rftable
    BY <1>1, <1>2, <2>1, SameRows DEF Absent
  <2>2. ASSUME NEW i \in Doc, NEW e \in Entry, ServerWrites(i, e)
        PROVE  Absent(d)'
    <3>1. ~(rftable[i] # NULL /\ rftable[i].dp = d)
      BY <1>2 DEF RowsOfDpPort, Rows
    <3>2. \A p \in DpPort : IdleDp(p) # NULL /\ IdleDp(p).dp = p
      BY IdleType, NullAssumption DEF IdleDp
    <3>3. \A v : IdleVm(v).dp = NULL
      BY DEF IdleVm
    <3>4. ~(pthread.pc \in {"insert", "save"} /\ pthread.dp = d)
      BY DEF Absent, Registering
    <3>5. e.dp # d
      BY <1>0, <2>2, <3>1, <3>2, <3>3, <3>4 DEF ServerWrites
    <3>6. RowsOfDpPort(d)' = RowsOfDpPort(d) \ {i}
      <4>1. rftable' = [rftable EXCEPT ![i] = e]
        BY <2>2 DEF ServerWrites
      <4>. QED
        BY <1>0, <3>5, <4>1, RowsWritten
    <3>7. RowsOfDpPort(d)' = {}
      BY <1>2, <3>6
    <3>. QED
      BY <1>1, <3>7 DEF Absent
  <2>. QED
    BY <2>1, <2>2, ServerReadsOrWrites
<1>3. CASE RowsOfDpPort(d) # {}
  <2>1. Going /\ pthread.x = DpOf[d]
    BY <1>3 DEF Absent, GoingDownNow
  <2>2. CASE CNext \/ UNCHANGED vars
    BY <1>0, <1>1, <2>1, <2>2, ProxyThreadMoves DEF Absent, GoingDownNow, Going
  <2>3. CASE DownLookup /\ pthread' = IdleP
    <3>1. pthread.todo = {} /\ pthread.pc = "down"
      BY <1>0, <2>3, ProxyThreadMoves
    <3>. QED
      BY <1>3, <2>1, <3>1, NothingLeft DEF SerialInv
  <2>4. CASE (DownLookup /\ pthread' # IdleP) \/ DownSave \/ DownReset
    <3>1. pthread'.pc \in {"down", "down_save", "down_reset"} /\ pthread'.x = pthread.x
      BY <1>0, <2>4, ProxyThreadMoves
    <3>. QED
      BY <1>1, <2>1, <3>1 DEF Absent, GoingDownNow, Going
  <2>5. PNext => DownLookup \/ DownSave \/ DownReset
    BY <1>0, <2>1, ProxyThreadMoves DEF PNext, Going
  <2>. QED
    BY <2>2, <2>3, <2>4, <2>5
<1>. QED
  BY <1>2, <1>3

LEMMA RegisteringIsNewKept ==
  ASSUME OneToOne, AllConfigured, SerialInv, RegisteringIsNew, OneDocumentEach,
         CNext \/ PNext \/ UNCHANGED vars, NoOverlap',
         \A d \in DpPort : RegisterDpPort(d) => Absent(d)
  PROVE  RegisteringIsNew'
<1>0. IInv /\ TypeOK /\ NoOverlap /\ IdleP.pc = "idle" /\ IdleC.pc = "idle" /\ cthread \in CState
      /\ pthread \in PState
  BY DEF SerialInv, IInv, TypeOK, IdleP, IdleC
<1>1. ASSUME NEW d \in DpPort, Registering(d)'
      PROVE  RowsOfDpPort(d)' = {}
  <2>0. d # NULL
    BY NullAssumption
  <2>1. CASE RegisterDpPort(d)
    <3>1. pthread.pc = "idle" /\ UNCHANGED rftable /\ Absent(d)
      BY <2>1 DEF RegisterDpPort
    <3>. QED
      BY <3>1, SameRows DEF Absent, GoingDownNow, Going
  <2>2. CASE ~RegisterDpPort(d)
    <3>1. Registering(d)
      <4>1. CASE PNext
        BY <1>0, <1>1, <2>0, <2>2, <4>1, ProxyThreadMoves DEF PNext, Registering
      <4>2. CASE CNext \/ UNCHANGED vars
        BY <1>0, <1>1, <4>2, ProxyThreadMoves DEF Registering
      <4>. QED
        BY <4>1, <4>2
    <3>2. cthread.pc = "idle"
      BY <1>0, <3>1 DEF NoOverlap, Registering
    <3>3. UNCHANGED rftable
      <4>1. CASE PNext
        <5>1. ConfigDp \/ DpLookupVm \/ UNCHANGED rftable
          BY <1>0, <1>1, <3>1, <4>1, ProxyThreadMoves DEF PNext, Registering
        <5>. QED
          BY <5>1 DEF ConfigDp, DpLookupVm
      <4>2. CASE CNext
        BY <1>0, <3>2, <4>2, ClientThreadMoves DEF CNext, RegisterVmPort
      <4>3. CASE UNCHANGED vars
        BY <4>3 DEF vars
      <4>. QED
        BY <4>1, <4>2, <4>3
    <3>. QED
      BY <3>1, <3>3, SameRows DEF RegisteringIsNew
  <2>. QED
    BY <2>1, <2>2
<1>2. pthread'.pc = "save" => pthread'.entry.dp = pthread'.dp
  <2>1. CASE DpLookupVm
    <3>1. ASSUME NEW c \in Config, NEW i \in RowsOfVm(c[1]), c[2] = pthread.dp,
                 pthread' = [pthread EXCEPT !.pc = "save", !.id = i,
                                !.entry = [rftable[i] EXCEPT !.dp = pthread.dp]]
          PROVE  pthread'.entry.dp = pthread'.dp
      <4>1. rftable[i] \in Entry /\ pthread.dp \in DpPort
        BY <1>0, <3>1, RowType, QueriesFindRows, ConfigPair
      <4>2. PICK f : f = [rftable[i] EXCEPT !.dp = pthread.dp]
        OBVIOUS
      <4>3. f.dp = pthread.dp
        BY <4>1, <4>2, AssociateDp
      <4>. QED
        BY <1>0, <3>1, <4>2, <4>3 DEF PState
    <3>2. [pthread EXCEPT !.pc = "insert"].pc = "insert"
      BY <1>0 DEF PState
    <3>. QED
      BY <1>0, <2>1, <3>1, <3>2 DEF DpLookupVm
  <2>2. CASE PNext /\ ~DpLookupVm
    BY <1>0, <2>2, ProxyThreadMoves DEF PNext
  <2>3. CASE CNext \/ UNCHANGED vars
    BY <1>0, <2>3, ProxyThreadMoves DEF RegisteringIsNew
  <2>. QED
    BY <2>1, <2>2, <2>3
<1>3. CASE cthread'.pc = "idle"
  BY <1>1, <1>2, <1>3 DEF RegisteringIsNew
<1>4. CASE cthread'.pc # "idle"
  <2>1. CASE PNext
    <3>1. cthread.pc # "idle"
      BY <1>0, <1>4, <2>1, ClientThreadMoves
    <3>2. pthread.pc = "idle" /\ pthread'.pc = "idle"
      BY <1>4, <3>1, <1>0 DEF NoOverlap
    <3>. QED
      BY <1>0, <2>1, <3>2, ProxyThreadMoves DEF PNext
  <2>2. CASE UNCHANGED vars
    <3>1. UNCHANGED <<rftable, cthread>>
      BY <2>2 DEF vars
    <3>. QED
      BY <1>1, <1>2, <3>1, SameRows DEF RegisteringIsNew
  <2>3. ASSUME NEW v \in VmPort, RegisterVmPort(v)
        PROVE  RegisteringIsNew'
    <3>1. PICK c \in Config :
            /\ c[1] = v
            /\ RowsOfVm(v) = {} \/ \E i \in RowsOfVm(v) : ~IsIdleVmPort(rftable[i])
            /\ cthread' = [IdleC EXCEPT !.pc = "lookup_dp", !.vm = v, !.dp = c[2]]
      BY <2>3 DEF RegisterVmPort, AllConfigured
    <3>2. cthread'.pc = "lookup_dp" /\ cthread'.vm = v /\ UNCHANGED rftable
      BY <2>3, <3>1 DEF RegisterVmPort, IdleC
    <3>. QED
      BY <1>1, <1>2, <3>1, <3>2, SameRows DEF RegisteringIsNew
  <2>4. CASE VmLookupDp
    <3>1. /\ cthread.pc = "lookup_dp" /\ UNCHANGED rftable
          /\ cthread'.pc \in {"insert", "save", "ask_map"}
          /\ cthread'.vm = cthread.vm /\ cthread'.dp = cthread.dp
      BY <1>0, <1>4, <2>4, ClientThreadMoves DEF VmLookupDp
    <3>2. <<cthread.vm, cthread.dp>> \in Config
      BY <1>0, <3>1 DEF IInv, ClientSafe
    <3>3. \A i \in RowsOfVm(cthread.vm) : ~IsIdleVmPort(rftable[i]) => i \in RowsOfDpPort(cthread.dp)
      <4>1. ASSUME NEW i \in RowsOfVm(cthread.vm), ~IsIdleVmPort(rftable[i])
            PROVE  i \in RowsOfDpPort(cthread.dp)
        <5>1. i \in Rows /\ rftable[i].vm = cthread.vm /\ FollowsConfig(rftable[i])
          BY <1>0, QueriesFindRows DEF IInv, RowsFollowConfig
        <5>2. cthread.vm \in VmPort /\ cthread.vm # NULL
          BY <3>2, OnePartner, NullAssumption
        <5>3. rftable[i].dp # NULL
          BY <4>1, <5>1, <5>2 DEF IsIdleVmPort, FollowsConfig
        <5>4. rftable[i].dp = cthread.dp
          BY <3>2, <5>1, <5>2, <5>3 DEF FollowsConfig, OneToOne
        <5>. QED
          BY <5>1, <5>4 DEF RowsOfDpPort
      <4>. QED
        BY <4>1
    <3>4. ASSUME cthread'.pc \in {"insert", "save"}
          PROVE  RowsOfVm(cthread.vm) = {}
      <4>1. CASE RowsOfDpPort(cthread.dp) = {}
        BY <3>1, <3>3, <4>1 DEF RegisteringIsNew
      <4>2. CASE RowsOfDpPort(cthread.dp) # {}
        <5>1. PICK i \in RowsOfDpPort(cthread.dp) : IsIdleDpPort(rftable[i])
          <6>1. [cthread EXCEPT !.pc = "ask_map"].pc = "ask_map"
            BY <1>0 DEF CState
          <6>. QED
            BY <1>0, <2>4, <3>4, <4>2, <6>1 DEF VmLookupDp
        <5>2. ASSUME NEW j \in RowsOfVm(cthread.vm)
              PROVE  IsIdleVmPort(rftable[j])
          <6>1. CASE j \in RowsOfDpPort(cthread.dp)
            <7>1. cthread.dp # NULL /\ cthread.vm # NULL
              BY <3>2, OnePartner, NullAssumption
            <7>2. i = j
              BY <6>1, <7>1 DEF OneDocumentEach, RowsOfDpPort
            <7>. QED
              BY <5>1, <5>2, <7>1, <7>2 DEF IsIdleDpPort, RowsOfVm
          <6>2. CASE j \notin RowsOfDpPort(cthread.dp)
            BY <3>3, <6>2
          <6>. QED
            BY <6>1, <6>2
        <5>. QED
          BY <3>1, <5>2 DEF RegisteringIsNew
      <4>. QED
        BY <4>1, <4>2
    <3>. QED
      BY <1>1, <1>2, <3>1, <3>4, SameRows DEF RegisteringIsNew
  <2>5. CASE VmSave \/ VmInsert \/ VmAskMap
    <3>1. cthread'.pc = "ask_map"
      BY <1>0, <1>4, <2>5, ClientThreadMoves
    <3>. QED
      BY <1>1, <1>2, <3>1 DEF RegisteringIsNew
  <2>. QED
    BY <2>1, <2>2, <2>3, <2>4, <2>5 DEF CNext
<1>. QED
  BY <1>3, <1>4

(* The messages in the channel. *)

LEMMA ClearSame ==
  ASSUME UNCHANGED p2s, NEW d \in DpPort, Absent(d) => Absent(d)'
  PROVE  \A n : Clear(d, n) => Clear(d, n)'
  BY DEF Clear

LEMMA RegClearSame ==
  ASSUME UNCHANGED p2s, \A d \in DpPort : Absent(d) => Absent(d)', RegClear
  PROVE  RegClear'
<1>1. ASSUME NEW d \in DpPort, NEW k \in 1 .. Len(p2s), IsReg(p2s[k], d)
      PROVE  Clear(d, k - 1)'
  BY <1>1, ClearSame DEF RegClear
<1>. QED
  BY <1>1 DEF RegClear

LEMMA ClearAppend ==
  ASSUME SystemTypes, NEW m \in ProxyFacts!Message, p2s' = Append(p2s, m),
         NEW d \in DpPort, Absent(d) => Absent(d)'
  PROVE  /\ \A n \in 0 .. Len(p2s) : Clear(d, n) => Clear(d, n)'
         /\ Clear(d, Len(p2s)) /\ ~IsReg(m, d) => Clear(d, Len(p2s))'
         /\ IsDown(m, DpOf[d]) => Clear(d, Len(p2s))'
<1>1. /\ Len(p2s') = Len(p2s) + 1 /\ p2s'[Len(p2s) + 1] = m
      /\ \A k \in 1 .. Len(p2s) : p2s'[k] = p2s[k]
      /\ Len(p2s) \in Nat
  BY QueueTypes, InAppend, InQueue
<1>2. ASSUME NEW n \in 0 .. Len(p2s), Clear(d, n)
      PROVE  Clear(d, n)'
  <2>1. \A k \in 1 .. n : p2s'[k] = p2s[k]
    BY <1>1
  <2>2. CASE Absent(d) /\ \A i \in 1 .. n : ~IsReg(p2s[i], d)
    BY <2>1, <2>2 DEF Clear
  <2>3. ASSUME NEW j \in 1 .. n, IsDown(p2s[j], DpOf[d]),
               \A i \in (j + 1) .. n : ~IsReg(p2s[i], d)
        PROVE  Clear(d, n)'
    <3>1. \A i \in (j + 1) .. n : i \in 1 .. n
      OBVIOUS
    <3>. QED
      BY <2>1, <2>3, <3>1 DEF Clear
  <2>. QED
    BY <1>2, <2>2, <2>3 DEF Clear
<1>3. ASSUME NEW N, N = Len(p2s) + 1, Clear(d, Len(p2s)), ~IsReg(m, d)
      PROVE  Clear(d, N)'
  <2>1. CASE Absent(d) /\ \A i \in 1 .. Len(p2s) : ~IsReg(p2s[i], d)
    <3>1. \A i \in 1 .. N : ~IsReg(p2s'[i], d)
      BY <1>1, <1>3, <2>1
    <3>. QED
      BY <2>1, <3>1 DEF Clear
  <2>2. ASSUME NEW j \in 1 .. Len(p2s), IsDown(p2s[j], DpOf[d]),
               \A i \in (j + 1) .. Len(p2s) : ~IsReg(p2s[i], d)
        PROVE  Clear(d, N)'
    <3>1. j \in 1 .. N /\ IsDown(p2s'[j], DpOf[d])
      BY <1>1, <1>3, <2>2
    <3>2. \A i \in (j + 1) .. N : ~IsReg(p2s'[i], d)
      BY <1>1, <1>3, <2>2
    <3>. QED
      BY <3>1, <3>2 DEF Clear
  <2>. QED
    BY <1>3, <2>1, <2>2 DEF Clear
<1>4. ASSUME NEW N, N = Len(p2s) + 1, IsDown(m, DpOf[d])
      PROVE  Clear(d, N)'
  <2>1. N \in 1 .. N /\ IsDown(p2s'[N], DpOf[d])
    BY <1>1, <1>4
  <2>2. \A i : i \notin (N + 1) .. N
    BY <1>1, <1>4
  <2>. QED
    BY <2>1, <2>2 DEF Clear
<1>5. ASSUME NEW N, N = Len(p2s) + 1, Clear(d, N)'
      PROVE  Clear(d, Len(p2s))'
  BY <1>1, <1>5
<1>. QED
  BY <1>2, <1>3, <1>4, <1>5

LEMMA RegClearAppend ==
  ASSUME SystemTypes, NEW m \in ProxyFacts!Message, p2s' = Append(p2s, m),
         \A d \in DpPort : Absent(d) => Absent(d)', RegClear,
         \A d \in DpPort : IsReg(m, d) => Clear(d, Len(p2s))
  PROVE  RegClear'
<1>1. /\ Len(p2s') = Len(p2s) + 1 /\ p2s'[Len(p2s) + 1] = m
      /\ \A k \in 1 .. Len(p2s) : p2s'[k] = p2s[k]
      /\ Len(p2s) \in Nat
  BY QueueTypes, InAppend, InQueue
<1>2. ASSUME NEW d \in DpPort, NEW k \in 1 .. (Len(p2s) + 1), IsReg(p2s'[k], d)
      PROVE  Clear(d, k - 1) /\ k - 1 \in 0 .. Len(p2s)
  <2>1. CASE k = Len(p2s) + 1
    BY <1>1, <1>2, <2>1
  <2>2. CASE k \in 1 .. Len(p2s)
    BY <1>1, <1>2, <2>2 DEF RegClear
  <2>. QED
    BY <1>1, <2>1, <2>2
<1>3. ASSUME NEW d \in DpPort, NEW k \in 1 .. (Len(p2s) + 1), IsReg(p2s'[k], d)
      PROVE  Clear(d, k - 1)'
  BY <1>2, <1>3, ClearAppend
<1>. QED
  BY <1>1, <1>3 DEF RegClear

LEMMA ClearTail ==
  ASSUME SystemTypes, p2s # <<>>, p2s' = Tail(p2s), NEW d \in DpPort,
         Absent(d) /\ ~IsReg(Head(p2s), d) => Absent(d)',
         IsDown(Head(p2s), DpOf[d]) => Absent(d)'
  PROVE  \A n \in 1 .. Len(p2s) : Clear(d, n) => Clear(d, n - 1)'
<1>1. /\ Head(p2s) = p2s[1] /\ Len(p2s) \in Nat /\ Len(p2s') = Len(p2s) - 1
      /\ \A k \in 1 .. Len(p2s') : p2s'[k] = p2s[k + 1]
  BY QueueTypes, InTail
<1>. SUFFICES ASSUME NEW n \in 1 .. Len(p2s), Clear(d, n)
              PROVE  Clear(d, n - 1)'
  OBVIOUS
<1>2. \A k \in 1 .. (n - 1) : p2s'[k] = p2s[k + 1] /\ k + 1 \in 1 .. n
  BY <1>1
<1>3. CASE Absent(d) /\ \A i \in 1 .. n : ~IsReg(p2s[i], d)
  <2>1. Absent(d)' /\ \A i \in 1 .. (n - 1) : ~IsReg(p2s'[i], d)
    BY <1>1, <1>2, <1>3
  <2>. QED
    BY <2>1 DEF Clear
<1>4. ASSUME NEW j \in 1 .. n, IsDown(p2s[j], DpOf[d]),
             \A i \in (j + 1) .. n : ~IsReg(p2s[i], d)
      PROVE  Clear(d, n - 1)'
  <2>1. CASE j = 1
    <3>1. Absent(d)'
      BY <1>1, <1>4, <2>1
    <3>2. \A i \in 1 .. (n - 1) : i + 1 \in (j + 1) .. n
      BY <2>1
    <3>3. \A i \in 1 .. (n - 1) : ~IsReg(p2s'[i], d)
      BY <1>2, <1>4, <3>2
    <3>. QED
      BY <3>1, <3>3 DEF Clear
  <2>2. CASE j # 1
    <3>1. j - 1 \in 1 .. (n - 1) /\ (j - 1) + 1 = j
      BY <2>2
    <3>2. IsDown(p2s'[j - 1], DpOf[d])
      BY <1>2, <1>4, <3>1
    <3>3. \A i \in ((j - 1) + 1) .. (n - 1) : i \in 1 .. (n - 1) /\ i + 1 \in (j + 1) .. n
      OBVIOUS
    <3>4. \A i \in ((j - 1) + 1) .. (n - 1) : ~IsReg(p2s'[i], d)
      BY <1>2, <1>4, <3>3
    <3>. QED
      BY <3>1, <3>2, <3>4 DEF Clear
  <2>. QED
    BY <2>1, <2>2
<1>. QED
  BY <1>3, <1>4 DEF Clear

LEMMA RegClearTail ==
  ASSUME SystemTypes, p2s # <<>>, p2s' = Tail(p2s), RegClear,
         \A d \in DpPort : /\ Absent(d) /\ ~IsReg(Head(p2s), d) => Absent(d)'
                           /\ IsDown(Head(p2s), DpOf[d]) => Absent(d)'
  PROVE  RegClear'
<1>1. /\ Len(p2s) \in Nat /\ Len(p2s') = Len(p2s) - 1
      /\ \A k \in 1 .. Len(p2s') : p2s'[k] = p2s[k + 1]
  BY QueueTypes, InTail
<1>2. ASSUME NEW d \in DpPort, NEW k \in 1 .. (Len(p2s) - 1), IsReg(p2s'[k], d)
      PROVE  Clear(d, k - 1)'
  <2>1. k + 1 \in 1 .. Len(p2s) /\ IsReg(p2s[k + 1], d) /\ (k + 1) - 1 = k /\ k \in 1 .. Len(p2s)
    BY <1>1, <1>2
  <2>2. Clear(d, k)
    BY <2>1 DEF RegClear
  <2>. QED
    BY <2>1, <2>2, ClearTail
<1>. QED
  BY <1>1, <1>2 DEF RegClear

LEMMA HeadIsAbsent ==
  ASSUME SystemTypes, RegClear, p2s # <<>>, NEW d \in DpPort, IsReg(Head(p2s), d)
  PROVE  Absent(d)
<1>1. 1 \in 1 .. Len(p2s) /\ p2s[1] = Head(p2s) /\ 1 - 1 = 0
  BY QueueTypes, InTail
<1>2. Clear(d, 0)
  BY <1>1 DEF RegClear
<1>3. \A j : j \notin 1 .. 0
  OBVIOUS
<1>. QED
  BY <1>2, <1>3 DEF Clear

(* What rfserver does when it reads a message of rfproxy. *)
LEMMA ReadStep ==
  ASSUME SystemTypes, ProxyThreadReads
  PROVE  /\ p2s # <<>> /\ p2s' = Tail(p2s) /\ pthread.pc = "idle" /\ UNCHANGED <<cthread, rftable>>
         /\ UNCHANGED <<dp_to_vs, vs_to_dp, ipc, nox, c2s, s2c, s2p, vsQueue, environment>>
         /\ \A d \in DpPort : RegisterDpPort(d) => IsReg(Head(p2s), d)
         /\ \A d \in DpPort : IsReg(Head(p2s), d) => RegisterDpPort(d)
         /\ \A x \in Dp : IsDown(Head(p2s), x) => SetDpDown(x)
<1>1. p2s # <<>> /\ p2s' = Tail(p2s) /\ pthread.pc = "idle"
      /\ UNCHANGED <<dp_to_vs, vs_to_dp, ipc, nox, c2s, s2c, s2p, vsQueue, environment>>
  BY DEF ProxyThreadReads, Proxy!ServerReads
<1>2. PICK m \in ProxyFacts!Message : m = Head(p2s)
  BY <1>1, QueueTypes, InTail
<1>3. \/ m.type = "DatapathPortRegister" /\ RegisterDpPort(m.port)
      \/ m.type = "Reconfigure" /\ ReconfigureDp(m.dp)
      \/ m.type = "Reconfigure" /\ UNCHANGED vars
      \/ m.type = "DatapathDown" /\ SetDpDown(m.dp)
      \/ m.type = "VirtualPlaneMap" /\ MapPort(m.vm, m.vs)
      \/ m.type = "VirtualPlaneMap" /\ UNCHANGED vars
  BY <1>2 DEF ProxyThreadReads
<1>4. UNCHANGED <<cthread, rftable>>
  BY <1>3 DEF RegisterDpPort, ReconfigureDp, SetDpDown, MapPort, vars
<1>5. ASSUME NEW d \in DpPort, RegisterDpPort(d)
      PROVE  IsReg(m, d)
  <2>1. pthread'.dp = d /\ pthread'.pc # "idle" /\ d # NULL
    BY <1>5, ProxyThreadMoves, NullAssumption DEF SystemTypes
  <2>2. m.type = "DatapathPortRegister" /\ RegisterDpPort(m.port)
    BY <1>1, <1>3, <2>1, MessageTypes, ProxyThreadMoves DEF SystemTypes, vars
  <2>. QED
    BY <2>1, <2>2, MessageTypes, ProxyThreadMoves DEF SystemTypes, IsReg
<1>6. ASSUME NEW d \in DpPort, IsReg(m, d)
      PROVE  RegisterDpPort(d)
  BY <1>3, <1>6 DEF IsReg
<1>7. ASSUME NEW x \in Dp, IsDown(m, x)
      PROVE  SetDpDown(x)
  BY <1>3, <1>7 DEF IsDown
<1>. QED
  BY <1>1, <1>2, <1>4, <1>5, <1>6, <1>7

LEMMA RegistersWhenRead ==
  ASSUME SystemTypes, SystemNext, ~ProxyThreadReads, NEW d \in DpPort
  PROVE  ~RegisterDpPort(d)
<1>. SUFFICES ASSUME RegisterDpPort(d) PROVE FALSE
  OBVIOUS
<1>1. pthread.pc = "idle" /\ pthread'.pc # "idle"
  BY ProxyThreadMoves DEF SystemTypes
<1>2. CASE ProxyThreadStep
  BY <1>1, <1>2 DEF ProxyThreadStep, ConfigDp, DpLookupVm, DpInsert, DpSave, DownLookup,
     DownSave, MapSave, DpAskMap, DownReset, MapSend
<1>3. CASE ClientThreadReads \/ ClientThreadStep
  BY <1>1, <1>3 DEF ClientThreadReads, ClientThreadStep, RegisterVmPort, VmLookupDp, VmInsert,
     VmSave, VmAskMap, vars
<1>4. CASE UNCHANGED vars
  BY <1>1, <1>4 DEF vars
<1>. QED
  BY <1>2, <1>3, <1>4 DEF SystemNext, VmStart, VmStop, VmReads, DatapathUp, PortDescription,
     DatapathDown, VsEvent, NoxStep, IpcReads, IpcStep

LEMMA AbsentInSystem ==
  ASSUME FiniteDocuments, SystemTypes, SerialInv, RegisteringIsNew, SystemNext,
         NEW d \in DpPort, Absent(d), ProxyThreadReads => ~IsReg(Head(p2s), d)
  PROVE  Absent(d)'
<1>1. ~RegisterDpPort(d)
  BY ReadStep, RegistersWhenRead
<1>. QED
  BY <1>1, ServerStep, AbsentKept

LEMMA DownsBetweenKept ==
  ASSUME FiniteDocuments, SystemTypes, SerialInv, RegisteringIsNew, DownsBetween, SystemNext
  PROVE  DownsBetween'
<1>0. /\ nox \in ProxyFacts!NoxState /\ dpState \in [Dp -> {"down", "joined", "up"}]
      /\ \A d \in DpPort : DpOf[d] \in Dp
      /\ Len(p2s) \in Nat /\ nox.todo \subseteq DpPort
  BY QueueTypes, InQueue, DpOfAssumption DEF SystemTypes, ProxyFacts!ProxyTypeOK, ProxyFacts!NoxState
<1>1. CASE ProxyThreadReads
  <2>1. p2s # <<>> /\ p2s' = Tail(p2s) /\ UNCHANGED <<nox, dpState>>
    BY <1>1, ReadStep DEF environment
  <2>2. ASSUME NEW d \in DpPort
        PROVE  /\ Absent(d) /\ ~IsReg(Head(p2s), d) => Absent(d)'
               /\ IsDown(Head(p2s), DpOf[d]) => Absent(d)'
    <3>1. IsDown(Head(p2s), DpOf[d]) => Absent(d)'
      <4>1. SetDpDown(DpOf[d]) => Absent(d)'
        BY <1>0, ProxyThreadMoves DEF SystemTypes, Absent, Registering, GoingDownNow, Going
      <4>. QED
        BY <1>0, <1>1, <4>1, ReadStep
    <3>. QED
      BY <3>1, AbsentInSystem
  <2>3. RegClear'
    BY <2>1, <2>2, RegClearTail DEF DownsBetween
  <2>4. Len(p2s) \in 1 .. Len(p2s) /\ Len(p2s') = Len(p2s) - 1
    BY <2>1, QueueTypes, InTail
  <2>5. ASSUME NEW d \in DpPort, Clear(d, Len(p2s)), NEW n, n = Len(p2s) - 1
        PROVE  Clear(d, n)' /\ n = Len(p2s')
    BY <2>1, <2>2, <2>4, <2>5, ClearTail
  <2>6. ASSUME NEW d \in DpPort, Clear(d, Len(p2s))
        PROVE  Clear(d, Len(p2s))'
    BY <2>5, <2>6
  <2>. QED
    BY <1>0, <2>1, <2>3, <2>6 DEF DownsBetween, TodoClear, GoneClear, Leaving
<1>2. CASE ~ProxyThreadReads
  <2>1. \A d \in DpPort : Absent(d) => Absent(d)'
    BY <1>2, AbsentInSystem
  <2>2. ASSUME UNCHANGED p2s
        PROVE  RegClear' /\ \A d \in DpPort : Clear(d, Len(p2s)) => Clear(d, Len(p2s))'
    <3>1. ASSUME NEW d \in DpPort, NEW n, n = Len(p2s), Clear(d, n)
          PROVE  Clear(d, n)' /\ n = Len(p2s')
      BY <2>1, <2>2, <3>1, ClearSame
    <3>2. ASSUME NEW d \in DpPort, Clear(d, Len(p2s))
          PROVE  Clear(d, Len(p2s))'
      BY <3>1, <3>2
    <3>. QED
      BY <2>1, <2>2, <3>2, RegClearSame DEF DownsBetween
  <2>3. ASSUME NEW m \in ProxyFacts!Message, p2s' = Append(p2s, m),
               m.type # "DatapathPortRegister"
        PROVE  RegClear' /\ \A d \in DpPort : Clear(d, Len(p2s)) => Clear(d, Len(p2s))'
    <3>1. \A d \in DpPort : ~IsReg(m, d)
      BY <2>3 DEF IsReg
    <3>. QED
      BY <2>1, <2>3, <3>1, ClearAppend, RegClearAppend DEF DownsBetween
  <2>4. ASSUME NEW x \in Dp, PortDescription(x)
        PROVE  DownsBetween'
    <3>1. /\ UNCHANGED p2s /\ nox.pc = "idle" /\ dpState[x] = "joined"
          /\ nox'.pc = "register" /\ \A d \in nox'.todo : d \in DpPort /\ DpOf[d] = x
          /\ dpState' = [dpState EXCEPT ![x] = "up"]
      BY <2>4 DEF PortDescription, Proxy!OnPortDescription, Proxy!IdleNox, Proxy!PortsOf
    <3>2. \A d \in DpPort : dpState[DpOf[d]] = "up" \/ Clear(d, Len(p2s))
      BY <3>1 DEF DownsBetween, GoneClear, Leaving
    <3>3. \A d \in DpPort : dpState'[DpOf[d]] = IF DpOf[d] = x THEN "up" ELSE dpState[DpOf[d]]
      BY <1>0, <3>1
    <3>4. TodoClear'
      BY <2>2, <3>1, <3>2, <3>3 DEF TodoClear
    <3>5. GoneClear'
      BY <2>2, <3>1, <3>2, <3>3 DEF GoneClear
    <3>. QED
      BY <2>2, <3>1, <3>4, <3>5 DEF DownsBetween
  <2>5. ASSUME NEW x \in Dp, DatapathDown(x)
        PROVE  DownsBetween'
    <3>1. /\ UNCHANGED p2s /\ nox.pc = "idle" /\ nox'.pc = "down_reverse" /\ nox'.x = x
          /\ dpState' = [dpState EXCEPT ![x] = "down"]
      BY <2>5 DEF DatapathDown, Proxy!OnDatapathDown, Proxy!IdleNox
    <3>2. \A d \in DpPort : dpState[DpOf[d]] = "up" \/ Clear(d, Len(p2s))
      BY <3>1 DEF DownsBetween, GoneClear, Leaving
    <3>3. \A d \in DpPort : DpOf[d] # x => dpState'[DpOf[d]] = dpState[DpOf[d]]
      BY <1>0, <3>1
    <3>4. TodoClear' /\ GoneClear'
      BY <2>2, <3>1, <3>2, <3>3 DEF TodoClear, GoneClear, Leaving
    <3>. QED
      BY <2>2, <3>1, <3>4 DEF DownsBetween
  <2>6. ASSUME NEW x \in Dp, DatapathUp(x)
        PROVE  DownsBetween'
    <3>1. UNCHANGED <<p2s, nox>> /\ dpState[x] = "down" /\ dpState' = [dpState EXCEPT ![x] = "joined"]
      BY <2>6 DEF DatapathUp, proxyTable, channels
    <3>2. \A d \in DpPort : dpState[DpOf[d]] = "up" <=> dpState'[DpOf[d]] = "up"
      BY <1>0, <3>1
    <3>4. TodoClear' /\ GoneClear'
      BY <1>0, <2>2, <3>1, <3>2 DEF DownsBetween, TodoClear, GoneClear, Leaving
    <3>. QED
      BY <2>2, <3>1, <3>4 DEF DownsBetween
  <2>7. CASE VsEvent
    <3>1. UNCHANGED dpState /\ nox.pc = "idle" /\ nox'.pc \in {"idle", "vs_forward"}
      BY <2>7 DEF VsEvent, environment, proxyTable, Proxy!OnMappingPacket, Proxy!OnVsPortDeleted,
         Proxy!IdleNox
    <3>2. RegClear' /\ \A d \in DpPort : Clear(d, Len(p2s)) => Clear(d, Len(p2s))'
      <4>1. PICK e \in Event : e = Head(vsQueue)
        BY <2>7, QueueTypes, InTail DEF VsEvent
      <4>2. ASSUME Proxy!OnMappingPacket(e.vm, e.vs), e.type = "mapping"
            PROVE  \E m \in ProxyFacts!Message : p2s' = Append(p2s, m) /\ m.type = "VirtualPlaneMap"
        BY <4>2, EventTypes, ProxySends
      <4>3. ASSUME Proxy!OnVsPortDeleted(e.vs)
            PROVE  \E m \in ProxyFacts!Message : p2s' = Append(p2s, m) /\ m.type = "Reconfigure"
        BY <4>3, EventTypes, ProxySends
      <4>. QED
        BY <2>2, <2>3, <2>7, <4>1, <4>2, <4>3 DEF VsEvent
    <3>. QED
      BY <3>1, <3>2 DEF DownsBetween, TodoClear, GoneClear, Leaving
  <2>8. CASE NoxStep
    <3>0. UNCHANGED dpState
      BY <2>8, ProxyMoves
    <3>1. CASE Proxy!DownReverse
      <4>1. UNCHANGED p2s /\ nox.pc = "down_reverse" /\ nox'.pc = "down_send" /\ nox'.x = nox.x
        BY <3>1, ProxyMoves DEF Proxy!DownReverse
      <4>. QED
        BY <2>2, <3>0, <4>1 DEF DownsBetween, TodoClear, GoneClear, Leaving
    <3>2. CASE Proxy!VsForward \/ Proxy!VsReverse
      <4>1. UNCHANGED p2s /\ nox.pc \in {"vs_forward", "vs_reverse"} /\ nox'.pc \in {"vs_reverse", "idle"}
        BY <3>2, ProxyMoves DEF Proxy!VsForward, Proxy!VsReverse
      <4>. QED
        BY <2>2, <3>0, <4>1 DEF DownsBetween, TodoClear, GoneClear, Leaving
    <3>3. CASE Proxy!DownSend
      <4>1. PICK m \in ProxyFacts!Message :
              m = [type |-> "DatapathDown", dp |-> nox.x] /\ p2s' = Append(p2s, m)
        BY <3>3, ProxySends
      <4>2. IsDown(m, nox.x) /\ m.type # "DatapathPortRegister"
        BY <4>1 DEF IsDown
      <4>3. nox.pc = "down_send" /\ nox'.pc = "idle"
        BY <3>3, ProxyMoves
      <4>4. \A d \in DpPort : DpOf[d] = nox.x => Clear(d, Len(p2s))'
        BY <2>1, <4>1, <4>2, ClearAppend
      <4>. QED
        BY <2>3, <3>0, <4>1, <4>2, <4>3, <4>4 DEF DownsBetween, TodoClear, GoneClear, Leaving
    <3>4. CASE Proxy!RegisterPort
      <4>1. CASE UNCHANGED p2s
        <5>1. nox.pc = "register" /\ nox'.pc = "idle"
          <6>1. ASSUME NEW m, p2s' = Append(p2s, m), m \in ProxyFacts!Message
                PROVE  FALSE
            BY <1>0, <4>1, <6>1, QueueTypes, InAppend
          <6>. QED
            BY <3>4, <6>1, ProxySends, ProxyMoves DEF Proxy!IdleNox
        <5>. QED
          BY <2>2, <3>0, <4>1, <5>1 DEF DownsBetween, TodoClear, GoneClear, Leaving
      <4>2. ASSUME NEW d0 \in nox.todo, d0 \in DpPort,
                   NEW m \in ProxyFacts!Message, m = [type |-> "DatapathPortRegister", port |-> d0],
                   p2s' = Append(p2s, m), nox' = [nox EXCEPT !.todo = @ \ {d0}]
            PROVE  DownsBetween'
        <5>1. nox.pc = "register" /\ nox'.pc = "register" /\ nox'.todo = nox.todo \ {d0}
          BY <1>0, <3>4, <4>2 DEF Proxy!RegisterPort, ProxyFacts!NoxState
        <5>3. \A d \in DpPort : IsReg(m, d) <=> d = d0
          BY <4>2 DEF IsReg
        <5>4. Clear(d0, Len(p2s)) /\ dpState[DpOf[d0]] = "up"
          BY <4>2, <5>1 DEF DownsBetween, TodoClear
        <5>5. RegClear'
          BY <2>1, <4>2, <5>3, <5>4, RegClearAppend DEF DownsBetween
        <5>6. \A d \in DpPort : d # d0 /\ Clear(d, Len(p2s)) => Clear(d, Len(p2s))'
          BY <2>1, <4>2, <5>3, ClearAppend
        <5>7. TodoClear' /\ GoneClear'
          BY <1>0, <3>0, <5>1, <5>4, <5>6 DEF DownsBetween, TodoClear, GoneClear, Leaving
        <5>. QED
          BY <5>5, <5>7 DEF DownsBetween
      <4>. QED
        BY <3>4, <4>1, <4>2, ProxySends
    <3>. QED
      BY <2>8, <3>1, <3>2, <3>3, <3>4 DEF NoxStep
  <2>9. CASE UNCHANGED <<p2s, nox, dpState>>
    BY <1>0, <2>2, <2>9 DEF DownsBetween, TodoClear, GoneClear, Leaving
  <2>10. CASE \/ \E v \in VmPort, s \in VsPort : VmStart(v, s)
              \/ \E v \in VmPort : VmStop(v) \/ VmReads(v)
              \/ IpcReads \/ IpcStep \/ ClientThreadReads \/ ClientThreadStep \/ ProxyThreadStep
    <3>1. IpcReads => UNCHANGED <<p2s, nox, dpState>>
      BY DEF IpcReads, environment, Proxy!ProcessMap
    <3>2. UNCHANGED <<p2s, nox, dpState>>
      BY <2>10, <3>1, ProxyMoves DEF VmStart, VmStop, VmReads, ClientThreadReads, ClientThreadStep,
         ProxyThreadStep, environment, proxyTable
    <3>. QED
      BY <2>9, <3>2
  <2>. QED
    BY <1>2, <2>4, <2>5, <2>6, <2>7, <2>8, <2>10 DEF SystemNext
<1>. QED
  BY <1>1, <1>2

LEMMA InitDocuments == SystemInit => DocInv
<1>. SUFFICES ASSUME SystemInit PROVE DocInv
  OBVIOUS
<1>1. SystemTypes /\ SerialInv
  BY InitTypes, InitSerial DEF SystemInit
<1>2. Rows = {} /\ pthread.pc = "idle" /\ cthread.pc = "idle"
  BY DEF SystemInit, Init, IdleP, IdleC, Rows
<1>3. OneDocumentEach /\ RegisteringIsNew
  BY <1>2 DEF OneDocumentEach, RegisteringIsNew, Registering
<1>4. p2s = <<>> /\ nox.pc = "idle" /\ Len(<<>>) = 0 /\ \A k : k \notin 1 .. 0
  BY DEF SystemInit, Proxy!ProxyInit, Proxy!IdleNox
<1>5. \A d \in DpPort : Absent(d)
  BY <1>2 DEF Absent, Registering, RowsOfDpPort
<1>6. RegClear /\ TodoClear /\ GoneClear
  BY <1>4, <1>5 DEF RegClear, TodoClear, GoneClear, Clear
<1>. QED
  BY <1>1, <1>3, <1>6 DEF DocInv, DownsBetween

LEMMA NextDocuments ==
  ASSUME OneAtATime, OneToOne, FiniteDocuments, AllConfigured, DocInv, [SystemNext]_allVars
  PROVE  DocInv'
<1>1. CASE SystemNext
  <2>1. SystemTypes' /\ NoOverlap'
    BY <1>1, TypesKept, OneAtATimeKept DEF DocInv, SerialInv
  <2>2. CNext \/ PNext \/ UNCHANGED vars
    BY <1>1, ServerStep DEF DocInv
  <2>3. SerialInv'
    BY <2>1, <2>2, NextSerial DEF DocInv, SerialNext
  <2>4. \A d \in DpPort : RegisterDpPort(d) => Absent(d)
    BY <1>1, ReadStep, RegistersWhenRead, HeadIsAbsent DEF DocInv, DownsBetween
  <2>5. RegisteringIsNew' /\ OneDocumentEach'
    BY <2>1, <2>2, <2>4, RegisteringIsNewKept, OneEachKept DEF DocInv
  <2>6. DownsBetween'
    BY <1>1, DownsBetweenKept DEF DocInv
  <2>. QED
    BY <2>1, <2>3, <2>5, <2>6 DEF DocInv
<1>2. CASE UNCHANGED allVars
  <2>1. UNCHANGED <<vars, p2s, nox, dpState>> /\ UNCHANGED <<rftable, cthread, pthread>>
    BY <1>2 DEF allVars, proxyTable, channels, environment, vars
  <2>2. SystemTypes' /\ SerialInv'
    BY <1>2, <2>1, TypesKept, NextSerial DEF DocInv
  <2>3. OneDocumentEach' /\ RegisteringIsNew'
    BY <2>1, SameRows DEF DocInv, OneDocumentEach, RegisteringIsNew, Registering
  <2>4. \A d \in DpPort : Absent(d)' <=> Absent(d)
    BY <2>1, SameRows DEF Absent, Registering, GoingDownNow, Going
  <2>5. \A d \in DpPort : \A n : Clear(d, n)' <=> Clear(d, n)
    BY <2>1, <2>4 DEF Clear
  <2>6. \A d \in DpPort : Clear(d, Len(p2s))' <=> Clear(d, Len(p2s))
    <3>1. ASSUME NEW n, n = Len(p2s)
          PROVE  n = Len(p2s') /\ \A d \in DpPort : Clear(d, n)' <=> Clear(d, n)
      BY <2>1, <2>5, <3>1
    <3>. QED
      BY <3>1
  <2>7. RegClear'
    <3>1. ASSUME NEW d \in DpPort, NEW k \in 1 .. Len(p2s), IsReg(p2s[k], d)
          PROVE  Clear(d, k - 1)'
      BY <2>5, <3>1 DEF DocInv, DownsBetween, RegClear
    <3>. QED
      BY <2>1, <3>1 DEF RegClear
  <2>8. nox.todo \subseteq DpPort
    BY DEF DocInv, SystemTypes, ProxyFacts!ProxyTypeOK, ProxyFacts!NoxState
  <2>9. TodoClear' /\ GoneClear'
    BY <2>1, <2>6, <2>8 DEF DocInv, DownsBetween, TodoClear, GoneClear, Leaving
  <2>. QED
    BY <2>2, <2>3, <2>7, <2>9 DEF DocInv, DownsBetween
<1>. QED
  BY <1>1, <1>2

(* The invariant uniqueness rests on holds in every reachable state.       *)
THEOREM DocumentsInductive ==
  ASSUME OneAtATime, OneToOne, FiniteDocuments, AllConfigured
  PROVE  SystemSpec => []DocInv
<1>1. DocInv /\ [SystemNext]_allVars => DocInv'
  BY NextDocuments
<1>. QED
  BY InitDocuments, <1>1, PTL DEF SystemSpec

(* rfserver never gives a VM port or a datapath port a second document,    *)
(* although set_entry does not enforce it ("TODO: enforce uniqueness       *)
(* restriction"): when it handles one message at a time, whatever order    *)
(* machines and datapaths come, go and come back in, and however long the  *)
(* channels are.                                                           *)
THEOREM SystemOneDocumentEach ==
  ASSUME OneAtATime, OneToOne, FiniteDocuments, AllConfigured
  PROVE  SystemSpec => []OneDocumentEach
<1>1. DocInv => OneDocumentEach
  BY DEF DocInv
<1>. QED
  BY DocumentsInductive, <1>1, PTL
-------------------------------------------------------------------------------
(* rfserver gets to know every port that is up. *)

LEMMA SystemIsSerialStep ==
  ASSUME OneAtATime, OneToOne, FiniteDocuments, DocInv, SystemNext
  PROVE  /\ CNext \/ PNext \/ UNCHANGED vars
         /\ StrictLifeStep /\ SerialInv'
         /\ \A i \in Rows : i \in Rows'
         /\ \A v \in VmPort : RowsOfVm(v) # {} => RowsOfVm(v)' # {}
<1>1. CNext \/ PNext \/ UNCHANGED vars
  BY ServerStep DEF DocInv
<1>2. StrictLifeStep /\ SerialInv'
  BY <1>1, NextSerial, OneAtATimeKept DEF DocInv, SerialNext, SerialInv
<1>3. \A i \in Rows : i \in Rows'
  BY <1>1, RowsStay DEF DocInv, SerialInv
<1>. QED
  BY <1>1, <1>2, <1>3, StrictKeepsVm

(* A document a step leaves behind is as it was, or the one it wrote.      *)
LEMMA RowStep ==
  ASSUME SerialInv, RegisteringIsNew, CNext \/ PNext \/ UNCHANGED vars, NEW i \in Rows'
  PROVE  \/ i \in Rows /\ rftable'[i] = rftable[i]
         \/ rftable'[i] \in Entry /\ ServerWrites(i, rftable'[i])
<1>1. CASE UNCHANGED rftable
  BY <1>1 DEF Rows
<1>2. ASSUME NEW k \in Doc, NEW e \in Entry, ServerWrites(k, e)
      PROVE  \/ i \in Rows /\ rftable'[i] = rftable[i]
             \/ rftable'[i] \in Entry /\ ServerWrites(i, rftable'[i])
  <2>1. /\ \A j \in Doc : rftable'[j] = IF j = k THEN e ELSE rftable[j]
        /\ Rows' = Rows \cup {k}
    BY <1>2, OneRowWritten DEF ServerWrites, SerialInv, IInv
  <2>2. CASE i = k
    BY <1>2, <2>1, <2>2
  <2>3. CASE i # k
    BY <2>1, <2>3 DEF Rows
  <2>. QED
    BY <2>2, <2>3
<1>. QED
  BY <1>1, <1>2, ServerReadsOrWrites

(* The partner of a port in a document is the one configured for it. *)
LEMMA RowPartner ==
  ASSUME OneToOne, SerialInv, NEW v, NEW d, <<v, d>> \in Config, NEW i \in Rows
  PROVE  /\ rftable[i].vm = v => rftable[i].dp \in {NULL, d}
         /\ rftable[i].dp = d => rftable[i].vm \in {NULL, v}
         /\ rftable[i].vs # NULL => rftable[i].vm # NULL /\ rftable[i].dp # NULL
         /\ rftable[i] \in Entry
         /\ v \in VmPort /\ d \in DpPort /\ v # NULL /\ d # NULL
<1>1. FollowsConfig(rftable[i]) /\ rftable[i] \in Entry
  BY RowType DEF SerialInv, IInv, RowsFollowConfig
<1>2. v \in VmPort /\ d \in DpPort /\ v # NULL /\ d # NULL
  BY OnePartner, NullAssumption
<1>3. rftable[i].vm = v => rftable[i].dp \in {NULL, d}
  BY <1>1, <1>2 DEF FollowsConfig, OneToOne
<1>4. rftable[i].dp = d => rftable[i].vm \in {NULL, v}
  BY <1>1, <1>2 DEF FollowsConfig, OneToOne
<1>. QED
  BY <1>1, <1>2, <1>3, <1>4 DEF FollowsConfig

LEMMA VmKnownKept ==
  ASSUME OneAtATime, OneToOne, FiniteDocuments, AllConfigured, DocInv, VmKnown, SystemNext
  PROVE  VmKnown'
<1>0. /\ SystemTypes /\ IInv /\ SerialInv /\ RegisteringIsNew
      /\ c2s \in Seq(VmPort) /\ vmAt \in [VmPort -> VsPort \cup {NULL}]
      /\ \A v \in VmPort : RowsOfVm(v) # {} => RowsOfVm(v)' # {}
      /\ cthread \in CState
  BY SystemIsSerialStep DEF DocInv, SystemTypes, SerialInv, IInv, TypeOK
<1>1. ASSUME UNCHANGED c2s, UNCHANGED cthread,
             \A v \in VmPort : vmAt'[v] # NULL => vmAt[v] # NULL
      PROVE  VmKnown'
  BY <1>0, <1>1 DEF VmKnown
<1>2. ASSUME NEW v \in VmPort, NEW s \in VsPort, VmStart(v, s)
      PROVE  VmKnown'
  <2>1. Queued(c2s') = Queued(c2s) \cup {v}
    BY <1>0, <1>2, InAppend DEF VmStart
  <2>2. UNCHANGED cthread /\ \A w \in VmPort : w # v => vmAt'[w] = vmAt[w]
    BY <1>0, <1>2 DEF VmStart, vars
  <2>. QED
    BY <1>0, <2>1, <2>2 DEF VmKnown
<1>3. ASSUME NEW v \in VmPort, VmStop(v)
      PROVE  VmKnown'
  <2>1. \A w \in VmPort : vmAt'[w] # NULL => vmAt[w] # NULL
    BY <1>0, <1>3 DEF VmStop
  <2>. QED
    BY <1>1, <1>3, <2>1 DEF VmStop, vars
<1>4. CASE ClientThreadReads
  <2>1. c2s # <<>> /\ c2s' = Tail(c2s) /\ UNCHANGED vmAt /\ cthread.pc = "idle"
    BY <1>4 DEF ClientThreadReads, environment
  <2>2. PICK v \in VmPort : v = Head(c2s)
    BY <1>0, <2>1, InTail
  <2>3. Queued(c2s) = Queued(c2s') \cup {v}
    BY <1>0, <2>1, <2>2, InTail
  <2>4. CASE RegisterVmPort(v)
    <3>1. cthread'.pc \in {"insert", "lookup_dp"} /\ cthread'.vm = v
      BY <1>0, <2>4, ClientThreadMoves
    <3>. QED
      BY <1>0, <2>1, <2>3, <3>1 DEF VmKnown
  <2>5. CASE AlreadyIdle(v)
    <3>1. RowsOfVm(v) # {}
      BY <2>5 DEF AlreadyIdle
    <3>. QED
      BY <1>0, <2>1, <2>3, <3>1 DEF VmKnown
  <2>. QED
    BY <1>4, <2>2, <2>4, <2>5 DEF ClientThreadReads
<1>5. CASE ClientThreadStep
  <2>1. UNCHANGED <<vmAt, c2s>>
    BY <1>5 DEF ClientThreadStep, environment
  <2>2. ASSUME NEW v \in VmPort, v = cthread.vm, cthread.pc \in {"lookup_dp", "insert", "save"}
        PROVE  \/ RowsOfVm(v)' # {}
               \/ cthread'.vm = v /\ cthread'.pc \in {"lookup_dp", "insert", "save"}
    <3>1. CASE VmLookupDp
      <4>1. /\ cthread.pc = "lookup_dp" /\ UNCHANGED rftable
            /\ cthread' = IdleC \/ cthread'.vm = cthread.vm
        BY <1>0, <3>1, ClientThreadMoves DEF VmLookupDp
      <4>2. <<cthread.vm, cthread.dp>> \in Config
        BY <1>0, <4>1 DEF IInv, ClientSafe
      <4>3. ASSUME NEW i \in RowsOfDpPort(cthread.dp), IsActive(rftable[i]) \/ IsAssociated(rftable[i])
            PROVE  RowsOfVm(cthread.vm) # {}
        <5>1. i \in Rows /\ rftable[i].dp = cthread.dp
          BY QueriesFindRows
        <5>2. rftable[i].vm = cthread.vm
          BY <1>0, <4>2, <4>3, <5>1, RowPartner DEF IsActive, IsAssociated, IsIdleDpPort
        <5>. QED
          BY <5>1, <5>2 DEF RowsOfVm
      <4>4. \/ cthread'.pc \in {"insert", "save"} /\ cthread'.vm = cthread.vm
            \/ \E i \in RowsOfDpPort(cthread.dp) : IsActive(rftable[i]) \/ IsAssociated(rftable[i])
        <5>1. ASSUME NEW i, NEW e, cthread' = [cthread EXCEPT !.pc = "save", !.id = i, !.entry = e]
              PROVE  cthread'.pc = "save" /\ cthread'.vm = cthread.vm
          BY <1>0, <5>1 DEF CState
        <5>2. ASSUME cthread' = [cthread EXCEPT !.pc = "insert"]
              PROVE  cthread'.pc = "insert" /\ cthread'.vm = cthread.vm
          BY <1>0, <5>2 DEF CState
        <5>. QED
          BY <3>1, <5>1, <5>2 DEF VmLookupDp
      <4>. QED
        BY <1>0, <2>2, <4>1, <4>3, <4>4
    <3>2. CASE VmInsert \/ VmSave
      <4>1. PICK i \in Doc, e \in Entry : rftable' = [rftable EXCEPT ![i] = e] /\ e.vm = cthread.vm
        <5>1. IdleVm(cthread.vm).vm = cthread.vm
          BY DEF IdleVm
        <5>2. IdleVm(cthread.vm) \in Entry
          BY <1>0, <2>2, IdleType DEF IInv, ClientSafe
        <5>. QED
          BY <1>0, <3>2, <5>1, <5>2 DEF VmInsert, Insert, VmSave, Save, IInv, ClientSafe
      <4>2. i \in Rows' /\ rftable'[i] = e
        <5>1. TypeOK /\ rftable' = [rftable EXCEPT ![i] = e]
          BY <1>0, <4>1 DEF IInv
        <5>2. Rows' = Rows \cup {i} /\ \A j \in Doc : rftable'[j] = IF j = i THEN e ELSE rftable[j]
          BY <5>1, OneRowWritten
        <5>. QED
          BY <5>2
      <4>. QED
        BY <2>2, <4>1, <4>2 DEF RowsOfVm
    <3>3. CASE VmAskMap
      BY <2>2, <3>3 DEF VmAskMap
    <3>. QED
      BY <1>5, <3>1, <3>2, <3>3 DEF ClientThreadStep
  <2>. QED
    BY <1>0, <2>1, <2>2 DEF VmKnown
<1>6. CASE \/ \E v \in VmPort : VmReads(v)
           \/ \E x \in Dp : DatapathUp(x) \/ PortDescription(x) \/ DatapathDown(x)
           \/ VsEvent \/ NoxStep \/ IpcReads \/ IpcStep \/ ProxyThreadStep
  BY <1>1, <1>6 DEF VmReads, DatapathUp, PortDescription, DatapathDown, VsEvent, NoxStep, IpcReads,
     IpcStep, ProxyThreadStep, environment, vars, channels, ConfigDp, DpLookupVm, DpInsert, DpSave,
     DpAskMap, DownLookup, DownSave, DownReset, MapSave, MapSend
<1>7. CASE ProxyThreadReads
  BY <1>0, <1>1, <1>7, ReadStep DEF environment
<1>. QED
  BY <1>2, <1>3, <1>4, <1>5, <1>6, <1>7 DEF SystemNext

LEMMA InTableKept ==
  ASSUME OneToOne, SerialInv, RegisteringIsNew, CNext \/ PNext \/ UNCHANGED vars,
         NEW d \in DpPort, InTable(d), ~SetDpDown(DpOf[d])
  PROVE  InTable(d)'
<1>0. /\ IInv /\ TypeOK /\ NoOverlap /\ IdleP.pc = "idle" /\ d # NULL
      /\ pthread \in PState
  BY NullAssumption DEF SerialInv, IInv, TypeOK, IdleP
<1>1. CASE Registering(d)
  <2>1. CASE CNext \/ UNCHANGED vars
    BY <1>0, <1>1, <2>1, ProxyThreadMoves DEF InTable, Registering
  <2>2. CASE ConfigDp
    BY <1>0, <1>1, <2>2, ProxyThreadMoves DEF InTable, Registering
  <2>3. CASE DpLookupVm
    <3>1. ASSUME NEW c \in Config, c[2] = pthread.dp, NEW i \in RowsOfVm(c[1]),
                 ~IsIdleVmPort(rftable[i])
          PROVE  FALSE
      <4>1. <<c[1], d>> \in Config /\ i \in Rows /\ rftable[i].vm = c[1]
        BY <1>1, <3>1, ConfigPair, QueriesFindRows DEF Registering
      <4>2. rftable[i].dp = d
        BY <3>1, <4>1, RowPartner DEF IsIdleVmPort
      <4>. QED
        BY <1>1, <4>1, <4>2 DEF RegisteringIsNew, RowsOfDpPort
    <3>2. ASSUME NEW i, NEW e, pthread' = [pthread EXCEPT !.pc = "save", !.id = i, !.entry = e]
          PROVE  pthread'.pc = "save"
      BY <1>0, <3>2 DEF PState
    <3>3. ASSUME pthread' = [pthread EXCEPT !.pc = "insert"]
          PROVE  pthread'.pc = "insert"
      BY <1>0, <3>3 DEF PState
    <3>4. pthread'.pc \in {"insert", "save"}
      BY <2>3, <3>1, <3>2, <3>3 DEF DpLookupVm
    <3>. QED
      BY <1>0, <1>1, <2>3, <3>4, ProxyThreadMoves DEF InTable, Registering
  <2>4. CASE DpInsert \/ DpSave
    <3>1. PICK i \in Doc, e \in Entry : rftable' = [rftable EXCEPT ![i] = e] /\ e.dp = d
      <4>1. IdleDp(d).dp = d /\ IdleDp(d) \in Entry
        BY IdleType DEF IdleDp
      <4>. QED
        BY <1>0, <1>1, <2>4, <4>1
        DEF DpInsert, Insert, DpSave, Save, IInv, ProxySafe, RegisteringIsNew, Registering
    <3>2. RowsOfDpPort(d)' # {}
      <4>1. RowsOfDpPort(d)' = RowsOfDpPort(d) \cup {i}
        BY <1>0, <3>1, RowsWritten
      <4>. QED
        BY <4>1
    <3>3. ~Going'
      BY <1>0, <2>4, ProxyThreadMoves DEF Going
    <3>. QED
      BY <3>2, <3>3 DEF InTable, GoingDownNow
  <2>5. PNext => ConfigDp \/ DpLookupVm \/ DpInsert \/ DpSave
    BY <1>0, <1>1, ProxyThreadMoves DEF PNext, Registering
  <2>. QED
    BY <2>1, <2>2, <2>3, <2>4, <2>5
<1>2. CASE RowsOfDpPort(d) # {} /\ ~GoingDownNow(DpOf[d])
  <2>1. PICK i \in Rows : rftable[i].dp = d /\ rftable[i] \in Entry /\ i \in Doc
    BY <1>0, <1>2, RowType, QueriesFindRows
  <2>2. i \in Rows'
    BY <1>0, RowsStay
  <2>3. rftable'[i].dp = d
    <3>1. \A v : IdleVm(v).dp = NULL
      BY DEF IdleVm
    <3>2. \A p : IdleDp(p).dp = p
      BY DEF IdleDp
    <3>3. pthread.pc = "down_save" => i # pthread.id
      BY <1>2, <2>1 DEF SerialInv, ProxyCurrent, GoingDownNow, Going
    <3>4. rftable[i] # NULL
      BY <2>1 DEF Rows
    <3>5. ServerWrites(i, rftable'[i]) => rftable'[i].dp = d
      BY <1>0, <2>1, <3>1, <3>2, <3>3, <3>4 DEF ServerWrites
    <3>. QED
      BY <2>1, <2>2, <3>5, RowStep
  <2>4. RowsOfDpPort(d)' # {}
    BY <2>2, <2>3 DEF RowsOfDpPort
  <2>5. ~GoingDownNow(DpOf[d])'
    <3>1. CASE PNext
      <4>0. DpOf[d] \in Dp
        BY DpOfAssumption
      <4>1. ASSUME NEW x \in Dp, SetDpDown(x)
            PROVE  ~GoingDownNow(DpOf[d])'
        BY <1>0, <4>1, ProxyThreadMoves DEF GoingDownNow
      <4>2. CASE DownLookup \/ DownSave \/ DownReset
        BY <1>0, <1>2, <4>2, ProxyThreadMoves DEF GoingDownNow, Going
      <4>3. CASE ~(DownLookup \/ DownSave \/ DownReset) /\ ~\E x \in Dp : SetDpDown(x)
        BY <1>0, <3>1, <4>3, ProxyThreadMoves DEF PNext, GoingDownNow, Going
      <4>. QED
        BY <4>1, <4>2, <4>3
    <3>2. CASE CNext \/ UNCHANGED vars
      BY <1>0, <1>2, <3>2, ProxyThreadMoves DEF GoingDownNow, Going
    <3>. QED
      BY <3>1, <3>2
  <2>. QED
    BY <2>4, <2>5 DEF InTable
<1>. QED
  BY <1>1, <1>2 DEF InTable

LEMMA KnownSame ==
  ASSUME UNCHANGED p2s, NEW d \in DpPort, Known(d),
         ToAnnounce(d) => ToAnnounce(d)', InTable(d) => InTable(d)'
  PROVE  Known(d)'
BY DEF Known, Announced, NoDown

LEMMA KnownAppend ==
  ASSUME SystemTypes, NEW m \in ProxyFacts!Message, p2s' = Append(p2s, m),
         NEW d \in DpPort, ~IsDown(m, DpOf[d])
  PROVE  /\ Announced(d) => Announced(d)'
         /\ NoDown(d) => NoDown(d)'
         /\ IsReg(m, d) => Announced(d)'
<1>1. PICK N : N = Len(p2s) /\ N \in Nat
  BY QueueTypes, InQueue
<1>2. /\ Len(p2s') = N + 1 /\ p2s'[N + 1] = m
      /\ \A k \in 1 .. N : p2s'[k] = p2s[k]
  BY <1>1, QueueTypes, InAppend
<1>3. ASSUME NoDown(d)
      PROVE  NoDown(d)'
  BY <1>1, <1>2, <1>3 DEF NoDown
<1>4. ASSUME IsReg(m, d)
      PROVE  Announced(d)'
  <2>1. N + 1 \in 1 .. (N + 1) /\ \A j : j \notin ((N + 1) + 1) .. (N + 1)
    BY <1>1
  <2>. QED
    BY <1>2, <1>4, <2>1 DEF Announced
<1>5. ASSUME Announced(d)
      PROVE  Announced(d)'
  <2>1. PICK k \in 1 .. N :
          IsReg(p2s[k], d) /\ \A j \in (k + 1) .. N : ~IsDown(p2s[j], DpOf[d])
    BY <1>1, <1>5 DEF Announced
  <2>2. k \in 1 .. (N + 1) /\ IsReg(p2s'[k], d)
    BY <1>1, <1>2, <2>1
  <2>3. \A j \in (k + 1) .. (N + 1) : ~IsDown(p2s'[j], DpOf[d])
    BY <1>1, <1>2, <2>1
  <2>. QED
    BY <1>2, <2>2, <2>3 DEF Announced
<1>. QED
  BY <1>3, <1>4, <1>5

LEMMA KnownTail ==
  ASSUME SystemTypes, p2s # <<>>, p2s' = Tail(p2s), NEW d \in DpPort
  PROVE  /\ NoDown(d) => NoDown(d)' /\ ~IsDown(Head(p2s), DpOf[d])
         /\ Announced(d) => Announced(d)' \/ (NoDown(d)' /\ IsReg(Head(p2s), d))
<1>1. PICK N : N = Len(p2s) /\ N \in Nat /\ N >= 1
  BY QueueTypes, InTail
<1>2. /\ Len(p2s') = N - 1 /\ p2s[1] = Head(p2s)
      /\ \A k \in 1 .. (N - 1) : p2s'[k] = p2s[k + 1]
  BY <1>1, QueueTypes, InTail
<1>3. ASSUME NoDown(d)
      PROVE  NoDown(d)' /\ ~IsDown(Head(p2s), DpOf[d])
  <2>1. 1 \in 1 .. N /\ \A k \in 1 .. (N - 1) : k + 1 \in 1 .. N
    BY <1>1
  <2>. QED
    BY <1>1, <1>2, <1>3, <2>1 DEF NoDown
<1>4. ASSUME Announced(d)
      PROVE  Announced(d)' \/ (NoDown(d)' /\ IsReg(Head(p2s), d))
  <2>1. PICK k \in 1 .. N :
          IsReg(p2s[k], d) /\ \A j \in (k + 1) .. N : ~IsDown(p2s[j], DpOf[d])
    BY <1>1, <1>4 DEF Announced
  <2>2. CASE k = 1
    <3>1. \A j \in 1 .. (N - 1) : j + 1 \in (k + 1) .. N
      BY <1>1, <2>2
    <3>. QED
      BY <1>1, <1>2, <2>1, <2>2, <3>1 DEF NoDown
  <2>3. CASE k # 1
    <3>1. k - 1 \in 1 .. (N - 1) /\ (k - 1) + 1 = k
      BY <1>1, <2>3
    <3>2. IsReg(p2s'[k - 1], d)
      BY <1>2, <2>1, <3>1
    <3>3. \A j \in ((k - 1) + 1) .. (N - 1) : j \in 1 .. (N - 1) /\ j + 1 \in (k + 1) .. N
      BY <1>1, <2>3
    <3>4. \A j \in ((k - 1) + 1) .. (N - 1) : ~IsDown(p2s'[j], DpOf[d])
      BY <1>2, <2>1, <3>3
    <3>. QED
      BY <1>2, <3>1, <3>2, <3>4 DEF Announced
  <2>. QED
    BY <2>2, <2>3
<1>. QED
  BY <1>3, <1>4

LEMMA DpKnownKept ==
  ASSUME OneAtATime, OneToOne, FiniteDocuments, DocInv, DpKnown, SystemNext
  PROVE  DpKnown'
<1>0. /\ SystemTypes /\ IInv /\ SerialInv /\ RegisteringIsNew
      /\ nox \in ProxyFacts!NoxState /\ dpState \in [Dp -> {"down", "joined", "up"}]
      /\ \A d \in DpPort : DpOf[d] \in Dp
      /\ nox.todo \subseteq DpPort
      /\ CNext \/ PNext \/ UNCHANGED vars
  BY DpOfAssumption, SystemIsSerialStep
  DEF DocInv, SystemTypes, SerialInv, ProxyFacts!ProxyTypeOK, ProxyFacts!NoxState
<1>1. CASE ProxyThreadReads
  <2>1. p2s # <<>> /\ p2s' = Tail(p2s) /\ UNCHANGED <<nox, dpState>> /\ pthread.pc = "idle"
    BY <1>0, <1>1, ReadStep DEF environment
  <2>2. ASSUME NEW d \in DpPort, Known(d)
        PROVE  Known(d)'
    <3>1. CASE ToAnnounce(d)
      BY <2>1, <3>1 DEF Known, ToAnnounce
    <3>2. CASE NoDown(d)' /\ IsReg(Head(p2s), d)
      <4>1. Registering(d)'
        BY <1>0, <1>1, <3>2, ReadStep, ProxyThreadMoves DEF Registering
      <4>. QED
        BY <3>2, <4>1 DEF Known, InTable
    <3>3. CASE NoDown(d) /\ InTable(d)
      <4>1. NoDown(d)' /\ ~IsDown(Head(p2s), DpOf[d])
        BY <1>0, <2>1, <3>3, KnownTail
      <4>2. RowsOfDpPort(d) # {}
        BY <2>1, <3>3 DEF InTable, Registering
      <4>3. ~GoingDownNow(DpOf[d])'
        <5>1. ASSUME NEW x \in Dp, SetDpDown(x)
              PROVE  x # DpOf[d] /\ pthread'.x = x
          <6>1. pthread'.x = x /\ pthread'.pc = "down"
            BY <1>0, <5>1, ProxyThreadMoves
          <6>2. PICK m \in ProxyFacts!Message : m = Head(p2s)
            BY <1>0, <2>1, QueueTypes, InTail
          <6>3. m.type = "DatapathDown" /\ SetDpDown(m.dp)
            BY <1>0, <1>1, <2>1, <6>1, <6>2, MessageTypes, ProxyThreadMoves
            DEF ProxyThreadReads, vars
          <6>4. m.dp = x
            BY <1>0, <6>1, <6>2, <6>3, MessageTypes, ProxyThreadMoves
          <6>. QED
            BY <4>1, <6>1, <6>2, <6>3, <6>4 DEF IsDown
        <5>2. CASE CNext \/ UNCHANGED vars
          BY <1>0, <2>1, <5>2, ProxyThreadMoves DEF GoingDownNow, Going
        <5>3. CASE PNext
          BY <1>0, <2>1, <5>1, <5>3, ProxyThreadMoves DEF PNext, GoingDownNow, Going
        <5>. QED
          BY <1>0, <5>2, <5>3
      <4>4. RowsOfDpPort(d)' # {}
        BY <1>0, <1>1, <4>2, ReadStep, SameRows
      <4>. QED
        BY <4>1, <4>3, <4>4 DEF Known, InTable
    <3>. QED
      BY <1>0, <2>1, <2>2, <3>1, <3>2, <3>3, KnownTail DEF Known
  <2>. QED
    BY <2>1, <2>2 DEF DpKnown, Leaving
<1>2. CASE ~ProxyThreadReads
  <2>1. ASSUME NEW d \in DpPort, InTable(d)
        PROVE  InTable(d)'
    <3>1. ~SetDpDown(DpOf[d])
      <4>. SUFFICES ASSUME SetDpDown(DpOf[d]) PROVE FALSE
        OBVIOUS
      <4>1. pthread.pc = "idle" /\ pthread'.pc # "idle"
        BY <1>0, ProxyThreadMoves
      <4>2. ~ProxyThreadStep
        BY <4>1 DEF ProxyThreadStep, ConfigDp, DpLookupVm, DpInsert, DpSave, DownLookup,
           DownSave, MapSave, DpAskMap, DownReset, MapSend
      <4>3. ~ClientThreadReads /\ ~ClientThreadStep
        BY <4>1 DEF ClientThreadReads, ClientThreadStep, RegisterVmPort, VmLookupDp, VmInsert,
           VmSave, VmAskMap, vars
      <4>4. ~UNCHANGED vars
        BY <4>1 DEF vars
      <4>. QED
        BY <1>2, <4>2, <4>3, <4>4 DEF SystemNext, VmStart, VmStop, VmReads, DatapathUp,
           PortDescription, DatapathDown, VsEvent, NoxStep, IpcReads, IpcStep
    <3>. QED
      BY <1>0, <2>1, <3>1, InTableKept
  <2>2. ASSUME UNCHANGED <<p2s, nox, dpState>>
        PROVE  DpKnown'
    BY <2>1, <2>2, KnownSame DEF DpKnown, Leaving, ToAnnounce
  <2>3. ASSUME NEW x \in Dp, PortDescription(x)
        PROVE  DpKnown'
    <3>1. /\ UNCHANGED p2s /\ nox.pc = "idle" /\ dpState[x] = "joined"
          /\ nox'.pc = "register" /\ nox'.todo = Proxy!PortsOf(x)
          /\ dpState' = [dpState EXCEPT ![x] = "up"]
      BY <2>3 DEF PortDescription, Proxy!OnPortDescription, Proxy!IdleNox
    <3>2. ASSUME NEW d \in DpPort, dpState'[DpOf[d]] = "up"
          PROVE  Known(d)'
      <4>1. CASE DpOf[d] = x
        BY <3>1, <4>1 DEF Known, ToAnnounce, Proxy!PortsOf
      <4>2. CASE DpOf[d] # x
        <5>1. Known(d) /\ ~ToAnnounce(d)
          BY <1>0, <3>1, <3>2, <4>2 DEF DpKnown, ToAnnounce
        <5>. QED
          BY <2>1, <3>1, <5>1, KnownSame
      <4>. QED
        BY <4>1, <4>2
    <3>. QED
      BY <3>1, <3>2 DEF DpKnown, Leaving
  <2>4. ASSUME NEW x \in Dp, DatapathDown(x)
        PROVE  DpKnown'
    <3>1. /\ UNCHANGED p2s /\ nox.pc = "idle" /\ nox'.pc = "down_reverse" /\ nox'.x = x
          /\ dpState' = [dpState EXCEPT ![x] = "down"]
      BY <2>4 DEF DatapathDown, Proxy!OnDatapathDown, Proxy!IdleNox
    <3>2. ASSUME NEW d \in DpPort, dpState'[DpOf[d]] = "up"
          PROVE  Known(d)'
      <4>1. Known(d) /\ ~ToAnnounce(d)
        BY <1>0, <3>1, <3>2 DEF DpKnown, ToAnnounce
      <4>. QED
        BY <2>1, <3>1, <4>1, KnownSame
    <3>3. \A y \in Dp : Leaving(y)' => dpState'[y] # "up"
      BY <1>0, <3>1 DEF Leaving
    <3>. QED
      BY <3>2, <3>3 DEF DpKnown
  <2>5. ASSUME NEW x \in Dp, DatapathUp(x)
        PROVE  DpKnown'
    <3>1. UNCHANGED <<p2s, nox>> /\ dpState[x] = "down" /\ dpState' = [dpState EXCEPT ![x] = "joined"]
      BY <2>5 DEF DatapathUp, proxyTable, channels
    <3>2. \A y \in Dp : dpState'[y] = "up" => dpState[y] = "up"
      BY <1>0, <3>1
    <3>. QED
      BY <1>0, <2>1, <3>1, <3>2, KnownSame DEF DpKnown, Leaving, ToAnnounce
  <2>6. ASSUME NEW m \in ProxyFacts!Message, p2s' = Append(p2s, m), UNCHANGED dpState,
               m.type # "DatapathDown", m.type # "DatapathPortRegister", nox.pc = "idle",
               nox'.pc \in {"idle", "vs_forward"}
        PROVE  DpKnown'
    <3>1. ASSUME NEW d \in DpPort, Known(d)
          PROVE  Known(d)'
      <4>1. ~IsDown(m, DpOf[d]) /\ ~ToAnnounce(d)
        BY <2>6 DEF IsDown, ToAnnounce
      <4>. QED
        BY <1>0, <2>1, <2>6, <3>1, <4>1, KnownAppend DEF Known
    <3>. QED
      BY <2>6, <3>1 DEF DpKnown, Leaving
  <2>7. CASE VsEvent
    <3>1. UNCHANGED dpState /\ nox.pc = "idle" /\ nox'.pc \in {"idle", "vs_forward"}
      BY <2>7 DEF VsEvent, environment, proxyTable, Proxy!OnMappingPacket, Proxy!OnVsPortDeleted,
         Proxy!IdleNox
    <3>2. PICK e \in Event : e = Head(vsQueue)
      BY <1>0, <2>7, QueueTypes, InTail DEF VsEvent
    <3>3. CASE Proxy!OnMappingPacket(e.vm, e.vs) /\ e.type = "mapping"
      <4>1. PICK m \in ProxyFacts!Message : p2s' = Append(p2s, m) /\ m.type = "VirtualPlaneMap"
        BY <1>0, <3>3, EventTypes, ProxySends
      <4>. QED
        BY <2>6, <3>1, <4>1
    <3>4. CASE Proxy!OnVsPortDeleted(e.vs)
      <4>1. PICK m \in ProxyFacts!Message : p2s' = Append(p2s, m) /\ m.type = "Reconfigure"
        BY <1>0, <3>4, EventTypes, ProxySends
      <4>. QED
        BY <2>6, <3>1, <4>1
    <3>5. CASE UNCHANGED <<proxyTable, p2s>>
      BY <2>2, <3>1, <3>5 DEF proxyTable
    <3>. QED
      BY <2>7, <3>2, <3>3, <3>4, <3>5 DEF VsEvent
  <2>8. CASE NoxStep
    <3>0. UNCHANGED dpState
      BY <1>0, <2>8, ProxyMoves
    <3>1. CASE Proxy!DownReverse \/ Proxy!VsForward \/ Proxy!VsReverse
      <4>1. /\ UNCHANGED p2s /\ nox.pc # "register"
            /\ nox'.pc \in {"down_send", "vs_reverse", "idle"}
            /\ nox'.pc = "down_send" => nox.pc = "down_reverse" /\ nox'.x = nox.x
        BY <1>0, <3>1, ProxyMoves DEF Proxy!DownReverse, Proxy!VsForward, Proxy!VsReverse
      <4>2. \A x \in Dp : Leaving(x)' => Leaving(x)
        BY <4>1 DEF Leaving
      <4>. QED
        BY <2>1, <3>0, <4>1, <4>2, KnownSame DEF DpKnown, ToAnnounce
    <3>2. CASE Proxy!DownSend
      <4>1. PICK m \in ProxyFacts!Message :
              m = [type |-> "DatapathDown", dp |-> nox.x] /\ p2s' = Append(p2s, m)
        BY <1>0, <3>2, ProxySends
      <4>2. \A x : IsDown(m, x) => x = nox.x
        BY <4>1 DEF IsDown
      <4>3. nox.pc = "down_send" /\ nox'.pc = "idle"
        BY <1>0, <3>2, ProxyMoves
      <4>4. ASSUME NEW d \in DpPort, dpState'[DpOf[d]] = "up"
            PROVE  Known(d)'
        <5>1. ~IsDown(m, DpOf[d])
          BY <1>0, <3>0, <4>2, <4>3, <4>4 DEF DpKnown, Leaving
        <5>2. Known(d) /\ ~ToAnnounce(d)
          BY <3>0, <4>3, <4>4 DEF DpKnown, ToAnnounce
        <5>. QED
          BY <1>0, <2>1, <4>1, <5>1, <5>2, KnownAppend DEF Known
      <4>. QED
        BY <4>3, <4>4 DEF DpKnown, Leaving
    <3>3. CASE Proxy!RegisterPort
      <4>1. CASE nox.todo = {} /\ UNCHANGED p2s /\ nox' = Proxy!IdleNox
        <5>1. nox'.pc = "idle" /\ \A d : ~ToAnnounce(d)
          BY <4>1 DEF Proxy!IdleNox, ToAnnounce
        <5>. QED
          BY <2>1, <3>0, <4>1, <5>1, KnownSame DEF DpKnown, Leaving
      <4>2. ASSUME NEW d0 \in nox.todo, d0 \in DpPort,
                   NEW m \in ProxyFacts!Message, m = [type |-> "DatapathPortRegister", port |-> d0],
                   p2s' = Append(p2s, m), nox' = [nox EXCEPT !.todo = @ \ {d0}]
            PROVE  DpKnown'
        <5>1. nox.pc = "register" /\ nox'.pc = "register" /\ nox'.todo = nox.todo \ {d0}
          BY <1>0, <3>3, <4>2 DEF Proxy!RegisterPort, ProxyFacts!NoxState
        <5>2. ASSUME NEW d \in DpPort, Known(d)
              PROVE  Known(d)'
          <6>1. ~IsDown(m, DpOf[d])
            BY <4>2 DEF IsDown
          <6>2. CASE d = d0
            <7>1. IsReg(m, d)
              BY <4>2, <6>2 DEF IsReg
            <7>. QED
              BY <1>0, <4>2, <6>1, <7>1, KnownAppend DEF Known
          <6>3. CASE d # d0
            <7>1. ToAnnounce(d) => ToAnnounce(d)'
              BY <5>1, <6>3 DEF ToAnnounce
            <7>. QED
              BY <1>0, <2>1, <4>2, <5>2, <6>1, <7>1, KnownAppend DEF Known
          <6>. QED
            BY <6>2, <6>3
        <5>. QED
          BY <3>0, <5>1, <5>2 DEF DpKnown, Leaving
      <4>. QED
        BY <1>0, <3>3, <4>1, <4>2, ProxySends
    <3>. QED
      BY <2>8, <3>1, <3>2, <3>3 DEF NoxStep
  <2>9. CASE \/ \E v \in VmPort, s \in VsPort : VmStart(v, s)
             \/ \E v \in VmPort : VmStop(v) \/ VmReads(v)
             \/ IpcReads \/ IpcStep \/ ClientThreadReads \/ ClientThreadStep \/ ProxyThreadStep
    <3>1. IpcReads => UNCHANGED <<p2s, nox, dpState>>
      BY DEF IpcReads, environment, Proxy!ProcessMap
    <3>2. UNCHANGED <<p2s, nox, dpState>>
      BY <1>0, <2>9, <3>1, ProxyMoves DEF VmStart, VmStop, VmReads, ClientThreadReads, ClientThreadStep,
         ProxyThreadStep, environment, proxyTable
    <3>. QED
      BY <2>2, <3>2
  <2>. QED
    BY <1>2, <2>3, <2>4, <2>5, <2>7, <2>8, <2>9 DEF SystemNext
<1>. QED
  BY <1>1, <1>2
-------------------------------------------------------------------------------
(* A machine that is to be mapped is asked to map itself. *)

(* What a step does to the channels. *)
LEMMA ChannelSteps ==
  ASSUME SystemTypes, SystemNext
  PROVE  /\ \/ UNCHANGED s2c
            \/ \E w \in VmPort : VmReads(w)
            \/ \E w \in VmPort, c \in {"map", "reset"} : s2c' = [s2c EXCEPT ![w] = Append(@, c)]
         /\ UNCHANGED vsQueue \/ VsEvent \/ \E e \in Event : vsQueue' = Append(vsQueue, e)
         /\ UNCHANGED p2s \/ ProxyThreadReads
            \/ \E m \in ProxyFacts!Message : p2s' = Append(p2s, m)
<1>. DEFINE S == \/ UNCHANGED s2c
                 \/ \E w \in VmPort : VmReads(w)
                 \/ \E w \in VmPort, c \in {"map", "reset"} : s2c' = [s2c EXCEPT ![w] = Append(@, c)]
            E == UNCHANGED vsQueue \/ VsEvent \/ \E e \in Event : vsQueue' = Append(vsQueue, e)
            P == UNCHANGED p2s \/ ProxyThreadReads
                 \/ \E m \in ProxyFacts!Message : p2s' = Append(p2s, m)
<1>1. CASE \/ \E v \in VmPort, s \in VsPort : VmStart(v, s)
           \/ \E x \in Dp : DatapathUp(x) \/ PortDescription(x) \/ DatapathDown(x)
           \/ IpcReads \/ ClientThreadReads
  BY <1>1 DEF VmStart, DatapathUp, PortDescription, DatapathDown, IpcReads, ClientThreadReads, channels,
     Proxy!OnPortDescription, Proxy!OnDatapathDown, Proxy!ProcessMap
<1>2. ASSUME NEW v \in VmPort, VmStop(v)
      PROVE  S /\ E /\ P
  <2>1. [type |-> "deleted", vm |-> NULL, vs |-> vmAt[v]] \in Event
    BY <1>2 DEF VmStop, SystemTypes, Event
  <2>. QED
    BY <1>2, <2>1 DEF VmStop
<1>3. ASSUME NEW v \in VmPort, VmReads(v)
      PROVE  S /\ E /\ P
  <2>1. [type |-> "mapping", vm |-> v, vs |-> vmAt[v]] \in Event
    BY <1>3 DEF VmReads, SystemTypes, Event
  <2>. QED
    BY <1>3, <2>1 DEF VmReads
<1>4. CASE VsEvent
  <2>1. UNCHANGED s2c
    BY <1>4 DEF VsEvent
  <2>2. PICK e \in Event : e = Head(vsQueue)
    BY <1>4, QueueTypes, InTail DEF VsEvent
  <2>3. P
    <3>1. Proxy!OnMappingPacket(e.vm, e.vs) /\ e.type = "mapping" => P
      BY EventTypes, ProxySends
    <3>2. Proxy!OnVsPortDeleted(e.vs) => P
      BY EventTypes, ProxySends
    <3>. QED
      BY <1>4, <2>2, <3>1, <3>2 DEF VsEvent
  <2>. QED
    BY <1>4, <2>1, <2>3
<1>5. CASE NoxStep
  <2>1. UNCHANGED <<s2c, vsQueue>>
    BY <1>5, ProxyMoves
  <2>2. P
    BY <1>5, ProxySends DEF NoxStep, Proxy!DownReverse, Proxy!VsForward, Proxy!VsReverse
  <2>. QED
    BY <2>1, <2>2
<1>6. CASE IpcStep
  BY <1>6, ProxyMoves
<1>7. CASE ClientThreadStep
  <2>1. UNCHANGED <<vsQueue, p2s>>
    BY <1>7 DEF ClientThreadStep
  <2>2. S
    BY <1>7 DEF ClientThreadStep, SystemTypes, IInv, ClientSafe, VmAskMap
  <2>. QED
    BY <2>1, <2>2
<1>8. CASE ProxyThreadReads
  BY <1>8, ReadStep
<1>9. CASE ProxyThreadStep
  <2>1. UNCHANGED <<vsQueue, p2s>>
    BY <1>9 DEF ProxyThreadStep
  <2>2. pthread.pc \in {"ask_map", "down_reset"} => pthread.entry.vm \in VmPort
    BY DEF SystemTypes, IInv, ProxySafe, Sendable, Entry
  <2>3. S
    BY <1>9, <2>2 DEF ProxyThreadStep, DpAskMap, DownReset
  <2>. QED
    BY <2>1, <2>3
<1>. QED
  BY <1>1, <1>2, <1>3, <1>4, <1>5, <1>6, <1>7, <1>8, <1>9 DEF SystemNext

(* A request to map stays on its way until rfserver handles its answer.    *)
LEMMA PendingKept ==
  ASSUME SystemTypes, SystemNext, NEW v \in VmPort, Pending(v),
         ~(ProxyThreadReads /\ Head(p2s).type = "VirtualPlaneMap" /\ Head(p2s).vm = v),
         ~(MapSave /\ pthread.entry.vm = v)
  PROVE  Pending(v)'
<1>0. /\ IInv /\ s2c \in [VmPort -> Seq({"map", "reset"})]
      /\ vsQueue \in Seq(Event) /\ p2s \in Seq(ProxyFacts!Message)
  BY QueueTypes DEF SystemTypes
<1>1. ASSUME s2c' = [s2c EXCEPT ![v] = Append(@, "map")]
      PROVE  Pending(v)'
  <2>1. PICK q \in Seq({"map", "reset"}) : q = s2c[v]
    BY <1>0
  <2>2. s2c'[v] = Append(q, "map")
    BY <1>0, <1>1, <2>1
  <2>3. "map" \in Queued(s2c'[v])
    BY <2>2, InAppend
  <2>. QED
    BY <2>3 DEF Pending
<1>2. CASE cthread.pc = "ask_map" /\ cthread.vm = v
  <2>1. CASE VmAskMap /\ s2c' = [s2c EXCEPT ![cthread.vm] = Append(@, "map")]
    BY <1>1, <1>2, <2>1
  <2>2. CASE UNCHANGED cthread
    BY <1>2, <2>2 DEF Pending
  <2>3. CASE ClientThreadReads \/ ClientThreadStep
    BY <1>2, <2>1, <2>3 DEF ClientThreadReads, ClientThreadStep, VmLookupDp, VmInsert, VmSave
  <2>4. CASE ProxyThreadReads
    BY <2>2, <2>4, ReadStep
  <2>5. CASE ProxyThreadStep \/ UNCHANGED vars
    BY <1>0, <2>2, <2>5, ClientThreadMoves DEF ProxyThreadStep, PNext
  <2>. QED
    BY <2>3, <2>4, <2>5 DEF SystemNext, VmStart, VmStop, VmReads, DatapathUp,
       PortDescription, DatapathDown, VsEvent, NoxStep, IpcReads, IpcStep
<1>3. CASE pthread.pc \in {"ask_map", "map_save"} /\ pthread.entry.vm = v
  <2>1. CASE DpAskMap /\ s2c' = [s2c EXCEPT ![pthread.entry.vm] = Append(@, "map")]
    BY <1>1, <1>3, <2>1
  <2>2. CASE UNCHANGED pthread
    BY <1>3, <2>2 DEF Pending
  <2>3. CASE ProxyThreadStep
    BY <1>3, <2>1, <2>3 DEF ProxyThreadStep, ConfigDp, DpLookupVm, DpInsert, DpSave, DownLookup,
           DownSave, DownReset, MapSend
  <2>4. CASE ProxyThreadReads
    BY <1>3, <2>4, ReadStep
  <2>5. CASE ClientThreadReads \/ ClientThreadStep \/ UNCHANGED vars
    <3>1. UNCHANGED pthread
      BY <2>5 DEF ClientThreadReads, ClientThreadStep, RegisterVmPort, VmLookupDp, VmInsert,
             VmSave, VmAskMap, vars
    <3>. QED
      BY <2>2, <3>1
  <2>. QED
    BY <2>3, <2>4, <2>5 DEF SystemNext, VmStart, VmStop, VmReads, DatapathUp,
       PortDescription, DatapathDown, VsEvent, NoxStep, IpcReads, IpcStep
<1>4. CASE "map" \in Queued(s2c[v])
  <2>1. PICK q \in Seq({"map", "reset"}) : q = s2c[v]
    BY <1>0
  <2>2. CASE UNCHANGED s2c
    BY <1>4, <2>2 DEF Pending
  <2>3. ASSUME NEW w \in VmPort, VmReads(w)
        PROVE  Pending(v)'
    <3>1. CASE w # v
      BY <1>0, <1>4, <2>3, <3>1 DEF VmReads, Pending
    <3>2. CASE w = v /\ Head(q) # "map"
      <4>1. q # <<>> /\ s2c'[v] = Tail(q)
        BY <1>0, <2>1, <2>3, <3>2 DEF VmReads
      <4>2. "map" \in Queued(s2c'[v])
        BY <1>4, <2>1, <3>2, <4>1, InTail
      <4>. QED
        BY <4>2 DEF Pending
    <3>3. CASE w = v /\ Head(q) = "map"
      <4>1. PICK e \in Event : e = [type |-> "mapping", vm |-> v, vs |-> vmAt[v]]
        BY <2>3, <3>3 DEF VmReads, SystemTypes, Event
      <4>2. vsQueue' = Append(vsQueue, e)
        BY <2>1, <2>3, <3>3, <4>1 DEF VmReads
      <4>3. e \in Queued(vsQueue')
        BY <1>0, <4>2, InAppend
      <4>. QED
        BY <4>1, <4>3 DEF Pending
    <3>. QED
      BY <3>1, <3>2, <3>3
  <2>4. ASSUME NEW w \in VmPort, NEW c \in {"map", "reset"}, s2c' = [s2c EXCEPT ![w] = Append(@, c)]
        PROVE  Pending(v)'
    <3>1. CASE w # v
      BY <1>0, <1>4, <2>4, <3>1 DEF Pending
    <3>2. CASE w = v
      <4>1. s2c'[v] = Append(q, c)
        BY <1>0, <2>1, <2>4, <3>2
      <4>2. "map" \in Queued(s2c'[v])
        BY <1>4, <2>1, <4>1, InAppend
      <4>. QED
        BY <4>2 DEF Pending
    <3>. QED
      BY <3>1, <3>2
  <2>. QED
    BY <2>2, <2>3, <2>4, ChannelSteps
<1>5. ASSUME NEW e \in Queued(vsQueue), e.type = "mapping", e.vm = v
      PROVE  Pending(v)'
  <2>1. CASE UNCHANGED vsQueue
    BY <1>5, <2>1 DEF Pending
  <2>2. ASSUME NEW f \in Event, vsQueue' = Append(vsQueue, f)
        PROVE  Pending(v)'
    <3>1. e \in Queued(vsQueue')
      BY <1>0, <1>5, <2>2, InAppend
    <3>. QED
      BY <1>5, <3>1 DEF Pending
  <2>3. CASE VsEvent
    <3>1. vsQueue # <<>> /\ vsQueue' = Tail(vsQueue)
      BY <2>3 DEF VsEvent
    <3>2. e = Head(vsQueue) \/ e \in Queued(vsQueue')
      BY <1>0, <1>5, <3>1, InTail
    <3>3. CASE e = Head(vsQueue)
      <4>1. e \in Event /\ Proxy!OnMappingPacket(v, e.vs)
        BY <1>0, <1>5, <2>3, <3>3, InQueue DEF VsEvent
      <4>2. PICK m \in ProxyFacts!Message :
              m = [type |-> "VirtualPlaneMap", vm |-> v, vs |-> e.vs] /\ p2s' = Append(p2s, m)
        BY <4>1, EventTypes, ProxySends
      <4>3. m \in Queued(p2s') /\ m.type = "VirtualPlaneMap" /\ m.vm = v
        BY <1>0, <4>2, InAppend
      <4>. QED
        BY <4>3 DEF Pending
    <3>. QED
      BY <1>5, <3>2, <3>3 DEF Pending
  <2>. QED
    BY <2>1, <2>2, <2>3, ChannelSteps
<1>6. ASSUME NEW m \in Queued(p2s), m.type = "VirtualPlaneMap", m.vm = v
      PROVE  Pending(v)'
  <2>1. CASE UNCHANGED p2s
    BY <1>6, <2>1 DEF Pending
  <2>2. ASSUME NEW f \in ProxyFacts!Message, p2s' = Append(p2s, f)
        PROVE  Pending(v)'
    <3>1. m \in Queued(p2s')
      BY <1>0, <1>6, <2>2, InAppend
    <3>. QED
      BY <1>6, <3>1 DEF Pending
  <2>3. CASE ProxyThreadReads
    <3>1. p2s # <<>> /\ p2s' = Tail(p2s)
      BY <2>3, ReadStep
    <3>2. m \in Queued(p2s')
      BY <1>0, <1>6, <2>3, <3>1, InTail
    <3>. QED
      BY <1>6, <3>2 DEF Pending
  <2>. QED
    BY <2>1, <2>2, <2>3, ChannelSteps
<1>. QED
  BY <1>2, <1>3, <1>4, <1>5, <1>6 DEF Pending

(* Which steps move a machine or the thread that registers it. *)
LEMMA ClientSteps ==
  ASSUME SystemTypes, SystemNext
  PROVE  \/ UNCHANGED <<vmAt, c2s, cthread>> /\ ~VmSave
         \/ \E v \in VmPort, s \in VsPort : VmStart(v, s)
         \/ \E v \in VmPort : VmStop(v)
         \/ ClientThreadReads
         \/ ClientThreadStep
<1>0. IInv
  BY DEF SystemTypes
<1>1. UNCHANGED cthread => ~VmSave
  BY <1>0, ClientThreadMoves
<1>2. CASE \/ \E v \in VmPort : VmReads(v)
           \/ \E x \in Dp : DatapathUp(x) \/ PortDescription(x) \/ DatapathDown(x)
           \/ VsEvent \/ NoxStep \/ IpcReads \/ IpcStep
  BY <1>1, <1>2 DEF VmReads, DatapathUp, PortDescription, DatapathDown, VsEvent, NoxStep, IpcReads,
     IpcStep, environment, vars, channels
<1>3. CASE ProxyThreadReads
  BY <1>1, <1>3, ReadStep DEF environment
<1>4. CASE ProxyThreadStep
  <2>1. PNext
    BY <1>4 DEF ProxyThreadStep, PNext
  <2>2. UNCHANGED cthread
    BY <1>0, <2>1, ClientThreadMoves
  <2>. QED
    BY <1>1, <1>4, <2>2 DEF ProxyThreadStep, environment
<1>. QED
  BY <1>2, <1>3, <1>4 DEF SystemNext

(* What MapSave and the reading of a mapping message do to the document of *)
(* the machine.                                                            *)
LEMMA MappingSaved ==
  ASSUME SystemTypes, OneDocumentEach, Plugged, MapSave,
         NEW v \in VmPort, pthread.entry.vm = v, NEW i \in Rows, rftable[i].vm = v
  PROVE  rftable'[i].vs # NULL /\ rftable'[i].vs = vmAt[v]
<1>1. /\ pthread.id \in Doc /\ pthread.entry \in Entry /\ pthread.entry.vs # NULL
      /\ rftable[pthread.id] \in Entry /\ rftable[pthread.id].vm = v
      /\ vmAt[v] = pthread.entry.vs /\ TypeOK /\ v # NULL
  BY NullAssumption DEF MapSave, SystemTypes, IInv, ProxySafe, Plugged
<1>2. pthread.id \in Rows
  BY <1>1, NullAssumption DEF Rows
<1>3. pthread.id = i
  BY <1>1, <1>2 DEF OneDocumentEach
<1>4. rftable'[i] = pthread.entry
  BY <1>1, <1>3 DEF MapSave, Save, TypeOK
<1>. QED
  BY <1>1, <1>4

LEMMA MappingRead ==
  ASSUME SystemTypes, OneDocumentEach, ProxyThreadReads, Head(p2s).type = "VirtualPlaneMap",
         NEW v \in VmPort, Head(p2s).vm = v,
         NEW i \in Rows, rftable[i].vm = v, rftable[i].dp # NULL
  PROVE  Pending(v)'
<1>1. PICK m \in ProxyFacts!Message : m = Head(p2s)
  BY QueueTypes, ReadStep, InTail
<1>2. m.type = "VirtualPlaneMap" /\ m.vm = v /\ m.vs \in VsPort
  BY <1>1, MessageTypes
<1>3. CASE MapPort(v, m.vs)
  <2>1. pthread'.pc = "map_save" /\ pthread'.entry.vm = v
    BY <1>2, <1>3, ProxyThreadMoves DEF SystemTypes
  <2>. QED
    BY <2>1 DEF Pending
<1>4. CASE NothingToMap(v)
  <2>1. PICK k \in RowsOfVm(v) : IsIdleVmPort(rftable[k])
    BY <1>4 DEF NothingToMap, RowsOfVm
  <2>2. k = i
    BY <2>1, NullAssumption DEF OneDocumentEach, RowsOfVm
  <2>. QED
    BY <2>1, <2>2 DEF IsIdleVmPort
<1>. QED
  BY <1>1, <1>2, <1>3, <1>4 DEF ProxyThreadReads

LEMMA AssociatedIsAskedKept ==
  ASSUME OneAtATime, OneToOne, FiniteDocuments, AllConfigured, Plugged, DocInv,
         AssociatedIsAsked, SystemNext
  PROVE  AssociatedIsAsked'
<1>0. /\ SystemTypes /\ IInv /\ SerialInv /\ RegisteringIsNew /\ OneDocumentEach /\ TypeOK
      /\ c2s \in Seq(VmPort) /\ vmAt \in [VmPort -> VsPort \cup {NULL}]
      /\ cthread \in CState /\ NULL \notin VmPort /\ NULL \notin DpPort
      /\ CNext \/ PNext \/ UNCHANGED vars
  BY SystemIsSerialStep, NullAssumption DEF DocInv, SystemTypes, SerialInv, IInv, TypeOK
<1>. SUFFICES ASSUME NEW i \in Rows', NEW v, v = rftable'[i].vm, v # NULL, rftable'[i].dp # NULL
              PROVE  \/ Pending(v)'
                     \/ /\ rftable'[i].vs # NULL
                        /\ vmAt'[v] \notin {NULL, rftable'[i].vs} => VmToCome(v)'
  BY DEF AssociatedIsAsked, Pending, VmToCome
<1>2. CASE i \in Rows /\ rftable'[i] = rftable[i] /\ ~(MapSave /\ pthread.entry.vm = v)
  <2>1. /\ rftable[i].vm = v /\ rftable[i].dp # NULL /\ v # NULL /\ v \in VmPort
        /\ rftable[i].dp \in DpPort
    BY <1>0, <1>2, RowType DEF Entry
  <2>2. Pending(v) => Pending(v)'
    BY <1>0, <1>2, <2>1, PendingKept, MappingRead
  <2>3. CASE Pending(v)
    BY <2>2, <2>3
  <2>4. CASE ~Pending(v)
    <3>1. rftable[i].vs # NULL /\ (vmAt[v] \notin {NULL, rftable[i].vs} => VmToCome(v))
      BY <2>1, <2>4, <1>2 DEF AssociatedIsAsked
    <3>. SUFFICES ASSUME vmAt'[v] \notin {NULL, rftable[i].vs}
                  PROVE  Pending(v)' \/ VmToCome(v)'
      BY <1>2, <3>1
    <3>2. ASSUME NEW k \in Rows, rftable[k].vm = v \/ rftable[k].dp = rftable[i].dp
          PROVE  k = i
      BY <1>0, <1>2, <2>1, <3>2 DEF OneDocumentEach
    <3>3. CASE UNCHANGED <<vmAt, c2s, cthread>>
      BY <3>1, <3>3 DEF VmToCome
    <3>4. ASSUME NEW w \in VmPort, NEW s \in VsPort, VmStart(w, s)
          PROVE  Pending(v)' \/ VmToCome(v)'
      <4>1. Queued(c2s') = Queued(c2s) \cup {w} /\ UNCHANGED cthread
        BY <1>0, <3>4, InAppend DEF VmStart, vars
      <4>2. w # v => vmAt'[v] = vmAt[v]
        BY <1>0, <2>1, <3>4 DEF VmStart
      <4>. QED
        BY <3>1, <4>1, <4>2 DEF VmToCome
    <3>5. ASSUME NEW w \in VmPort, VmStop(w)
          PROVE  Pending(v)' \/ VmToCome(v)'
      <4>1. vmAt'[v] \in {vmAt[v], NULL}
        BY <1>0, <2>1, <3>5 DEF VmStop
      <4>2. UNCHANGED <<c2s, cthread>>
        BY <3>5 DEF VmStop, vars
      <4>. QED
        BY <3>1, <4>1, <4>2 DEF VmToCome
    <3>6. CASE ClientThreadReads
      <4>1. c2s # <<>> /\ c2s' = Tail(c2s) /\ UNCHANGED vmAt /\ cthread.pc = "idle"
        BY <3>6 DEF ClientThreadReads, environment
      <4>2. PICK w \in VmPort : w = Head(c2s)
        BY <1>0, <4>1, InTail
      <4>3. Queued(c2s) = Queued(c2s') \cup {w}
        BY <1>0, <4>1, <4>2, InTail
      <4>4. v \in Queued(c2s)
        BY <3>1, <4>1 DEF VmToCome
      <4>5. CASE w # v
        BY <4>3, <4>4, <4>5 DEF VmToCome
      <4>6. CASE RegisterVmPort(v)
        <5>1. ASSUME NEW d, cthread' = [IdleC EXCEPT !.pc = "lookup_dp", !.vm = v, !.dp = d]
              PROVE  cthread'.pc = "lookup_dp" /\ cthread'.vm = v
          BY <5>1 DEF IdleC
        <5>. QED
          BY <2>1, <4>6, <5>1 DEF RegisterVmPort, AllConfigured, VmToCome
      <4>7. CASE AlreadyIdle(v)
        BY <2>1, <3>2, <4>7 DEF AlreadyIdle, IsIdleVmPort, RowsOfVm
      <4>. QED
        BY <3>6, <4>2, <4>5, <4>6, <4>7 DEF ClientThreadReads
    <3>7. CASE ClientThreadStep
      <4>1. UNCHANGED <<vmAt, c2s>>
        BY <3>7 DEF ClientThreadStep, environment
      <4>2. CASE v \in Queued(c2s)
        BY <4>1, <4>2 DEF VmToCome
      <4>3. CASE cthread.vm = v /\ cthread.pc = "lookup_dp"
        <5>1. VmLookupDp
          BY <3>7, <4>3 DEF ClientThreadStep, VmInsert, VmSave, VmAskMap
        <5>2. <<v, cthread.dp>> \in Config
          BY <1>0, <4>3 DEF IInv, ClientSafe
        <5>3. rftable[i].dp = cthread.dp
          BY <1>0, <1>2, <2>1, <5>2, RowPartner
        <5>4. i \in RowsOfDpPort(cthread.dp) /\ \A k \in RowsOfDpPort(cthread.dp) : k = i
          BY <1>2, <3>2, <5>3 DEF RowsOfDpPort
        <5>5. ~IsIdleDpPort(rftable[i]) /\ ~IsAssociated(rftable[i])
          BY <2>1, <3>1 DEF IsIdleDpPort, IsAssociated
        <5>6. cthread' = [cthread EXCEPT !.pc = "ask_map"]
          BY <5>1, <5>4, <5>5 DEF VmLookupDp
        <5>7. cthread'.pc = "ask_map" /\ cthread'.vm = v
          BY <1>0, <4>3, <5>6 DEF CState
        <5>. QED
          BY <5>7 DEF Pending
      <4>. QED
        BY <3>1, <4>1, <4>2, <4>3 DEF VmToCome
    <3>. QED
      BY <1>0, <3>3, <3>4, <3>5, <3>6, <3>7, ClientSteps
  <2>. QED
    BY <2>3, <2>4
<1>3. CASE ServerWrites(i, rftable'[i]) /\ rftable'[i] \in Entry /\ ~MapSave
  <2>1. \A w : IdleVm(w).dp = NULL
    BY DEF IdleVm
  <2>2. \A d : IdleDp(d).vm = NULL
    BY DEF IdleDp
  <2>3. CASE VmSave /\ v = cthread.vm
    <3>1. cthread'.pc = "ask_map" /\ cthread'.vm = v
      BY <1>0, <2>3, ClientThreadMoves
    <3>. QED
      BY <3>1 DEF Pending
  <2>4. CASE DpSave /\ v = pthread.entry.vm
    <3>1. pthread'.pc = "ask_map" /\ pthread'.entry.vm = v
      BY <1>0, <2>4, ProxyThreadMoves
    <3>. QED
      BY <3>1 DEF Pending
  <2>. QED
    BY <1>3, <2>1, <2>2, <2>3, <2>4 DEF ServerWrites
<1>4. CASE MapSave /\ pthread.entry.vm = v /\ i \in Rows /\ rftable[i].vm = v
  <2>1. pthread.pc = "map_save" /\ cthread.pc = "idle"
    BY <1>0, <1>4 DEF MapSave, SerialInv, NoOverlap
  <2>2. UNCHANGED vmAt
    <3>1. ~ClientThreadReads /\ ~ClientThreadStep
      BY <1>0, <1>4, <2>1, ProxyThreadMoves
      DEF ClientThreadReads, ClientThreadStep, CNext, vars
    <3>. QED
      BY <1>0, <1>4, <3>1, ClientSteps, ProxyThreadMoves DEF VmStart, VmStop, vars
  <2>3. v \in VmPort
    BY <1>0, <1>4, RowType DEF Entry
  <2>. QED
    BY <1>0, <1>4, <2>2, <2>3, MappingSaved
<1>5. CASE ServerWrites(i, rftable'[i]) /\ rftable'[i] \in Entry /\ MapSave
  <2>1. pthread.pc = "map_save" /\ cthread.pc = "idle"
    BY <1>0, <1>5 DEF MapSave, SerialInv, NoOverlap
  <2>2. /\ rftable'[i] = pthread.entry /\ rftable[i] # NULL
        /\ rftable'[i].vm = rftable[i].vm
    BY <1>5, <2>1 DEF ServerWrites
  <2>. QED
    BY <1>4, <1>5, <2>2 DEF Rows
<1>. QED
  BY <1>0, <1>2, <1>3, <1>4, <1>5, RowStep

-------------------------------------------------------------------------------
(* What is active in the table of rfserver is mapped, or will be. *)

LEMMA DownToComeKept ==
  ASSUME FiniteDocuments, SystemTypes, SerialInv, SystemNext,
         NEW d \in DpPort, DownToCome(DpOf[d]), RowsOfDpPort(d) # {}
  PROVE  DownToCome(DpOf[d])'
<1>0. IInv /\ IdleP.pc = "idle" /\ p2s \in Seq(ProxyFacts!Message)
  BY QueueTypes DEF SystemTypes, IdleP
<1>1. PICK x : x = DpOf[d]
  OBVIOUS
<1>. SUFFICES DownToCome(x)'
  BY <1>1
<1>2. ASSUME NEW m \in Queued(p2s'), IsDown(m, x)
      PROVE  DownToCome(x)'
  BY <1>2 DEF DownToCome
<1>3. CASE Leaving(x)
  <2>1. CASE UNCHANGED nox
    BY <1>3, <2>1 DEF Leaving, DownToCome
  <2>2. CASE NoxStep
    <3>1. CASE Proxy!DownReverse
      BY <1>3, <3>1, ProxyMoves DEF Leaving, DownToCome
    <3>2. CASE Proxy!DownSend
      <4>1. PICK m \in ProxyFacts!Message :
              m = [type |-> "DatapathDown", dp |-> nox.x] /\ p2s' = Append(p2s, m)
        BY <3>2, ProxySends
      <4>2. m \in Queued(p2s') /\ IsDown(m, x)
        BY <1>0, <1>3, <4>1, InAppend DEF Leaving, IsDown
      <4>. QED
        BY <1>2, <4>2
    <3>. QED
      BY <1>3, <2>2, <3>1, <3>2, ProxyMoves
      DEF NoxStep, Leaving, Proxy!VsForward, Proxy!VsReverse
  <2>3. CASE VsEvent \/ \E y \in Dp : PortDescription(y) \/ DatapathDown(y)
    BY <1>3, <2>3 DEF VsEvent, PortDescription, DatapathDown, Proxy!OnPortDescription,
       Proxy!OnDatapathDown, Leaving
  <2>4. CASE ProxyThreadReads
    BY <2>1, <2>4, ReadStep
  <2>5. CASE IpcStep
    BY <2>1, <2>5, ProxyMoves
  <2>. QED
    BY <2>1, <2>2, <2>3, <2>4, <2>5 DEF SystemNext, VmStart, VmStop, VmReads, DatapathUp, IpcReads,
       Proxy!ProcessMap, ClientThreadReads, ClientThreadStep, ProxyThreadStep, proxyTable
<1>4. ASSUME NEW m \in Queued(p2s), IsDown(m, x)
      PROVE  DownToCome(x)'
  <2>1. CASE UNCHANGED p2s
    BY <1>2, <1>4, <2>1
  <2>2. ASSUME NEW f \in ProxyFacts!Message, p2s' = Append(p2s, f)
        PROVE  DownToCome(x)'
    BY <1>0, <1>2, <1>4, <2>2, InAppend
  <2>3. CASE ProxyThreadReads
    <3>1. p2s # <<>> /\ p2s' = Tail(p2s)
      BY <2>3, ReadStep
    <3>2. m = Head(p2s) \/ m \in Queued(p2s')
      BY <1>0, <1>4, <3>1, InTail
    <3>3. CASE m = Head(p2s)
      <4>1. x \in Dp /\ SetDpDown(x)
        BY <1>1, <1>4, <2>3, <3>3, ReadStep, DpOfAssumption
      <4>2. pthread'.pc = "down" /\ pthread'.x = x
        BY <1>0, <4>1, ProxyThreadMoves
      <4>. QED
        BY <4>2 DEF DownToCome, GoingDownNow, Going
    <3>. QED
      BY <1>2, <1>4, <3>2, <3>3
  <2>. QED
    BY <2>1, <2>2, <2>3, ChannelSteps
<1>5. CASE GoingDownNow(x)
  <2>1. Going /\ pthread.x = x
    BY <1>5 DEF GoingDownNow
  <2>2. CASE CNext \/ UNCHANGED vars
    BY <1>0, <2>1, <2>2, ProxyThreadMoves DEF GoingDownNow, Going, DownToCome
  <2>3. CASE DownLookup /\ pthread' = IdleP
    <3>1. pthread.todo = {} /\ pthread.pc = "down"
      BY <1>0, <2>3, ProxyThreadMoves
    <3>. QED
      BY <1>1, <2>1, <3>1, NothingLeft DEF SerialInv
  <2>4. CASE (DownLookup /\ pthread' # IdleP) \/ DownSave \/ DownReset
    <3>1. pthread'.pc \in {"down", "down_save", "down_reset"} /\ pthread'.x = pthread.x
      BY <1>0, <2>4, ProxyThreadMoves
    <3>. QED
      BY <2>1, <3>1 DEF GoingDownNow, Going, DownToCome
  <2>5. PNext => DownLookup \/ DownSave \/ DownReset
    BY <1>0, <2>1, ProxyThreadMoves DEF PNext, Going
  <2>. QED
    BY <2>2, <2>3, <2>4, <2>5, ServerStep
<1>. QED
  BY <1>1, <1>3, <1>4, <1>5 DEF DownToCome

(* The way a configured pair is mapped is the only one there is. *)
LEMMA OneWay ==
  ASSUME OneToOne, Plugged, NEW v \in VmPort, NEW d \in DpPort, <<v, d>> \in Config,
         vmAt[v] # NULL
  PROVE  /\ \A s : StandsFor(s, d) => s = vmAt[v]
         /\ \A p : StandsFor(vmAt[v], p) => p = d
<1>1. \A c \in Config : (c[1] = v => c[2] = d) /\ (c[2] = d => c[1] = v)
  BY OnePartner
<1>2. ASSUME NEW w \in VmPort, NEW p, <<w, p>> \in Config
      PROVE  (w = v => p = d) /\ (p = d => w = v)
  BY <1>1, <1>2
<1>. QED
  BY <1>2 DEF StandsFor, Plugged

(* The steps of rfproxy that map or unmap. *)
LEMMA RedirectedKept ==
  ASSUME OneToOne, SystemTypes, Plugged, Deletions, ThereAndBack, SystemNext, vmStops = 0,
         NEW v \in VmPort, NEW d \in DpPort, NEW s \in VsPort, <<v, d>> \in Config, vmAt[v] = s,
         Redirected(d, s) \/ (ipc.pc # "idle" /\ ipc.dp = d)
  PROVE  Redirected(d, s)' \/ MapToCome(d)' \/ Leaving(DpOf[d]) \/ Leaving(DpOf[d])'
<1>0. /\ dp_to_vs \in [DpPort -> VsPort \cup {NULL}] /\ vs_to_dp \in [VsPort -> DpPort \cup {NULL}]
      /\ NULL \notin VsPort /\ NULL \notin DpPort
      /\ s2p \in Seq(Mapping) /\ vsQueue \in Seq(Event)
      /\ ~Deleting
  BY QueueTypes, NullAssumption DEF SystemTypes, ProxyFacts!ProxyTypeOK, Deletions
<1>1. CASE UNCHANGED proxyTable
  BY <1>1 DEF proxyTable, Redirected, MapToCome
<1>2. CASE VsEvent
  <2>1. Head(vsQueue).type # "deleted"
    BY <1>0, <1>2 DEF VsEvent, Deleting, Reported
  <2>. QED
    BY <1>1, <1>2, <2>1 DEF VsEvent, Proxy!OnMappingPacket, proxyTable
<1>3. CASE NoxStep
  <2>1. ~Proxy!VsForward /\ ~Proxy!VsReverse
    BY <1>0 DEF Deleting, Proxy!VsForward, Proxy!VsReverse
  <2>2. CASE Proxy!DownReverse
    <3>1. UNCHANGED <<dp_to_vs, ipc>> /\ nox.pc = "down_reverse"
      BY <2>2 DEF Proxy!DownReverse
    <3>2. vs_to_dp'[s] = IF vs_to_dp[s] \in Proxy!PortsOf(nox.x) THEN NULL ELSE vs_to_dp[s]
      BY <2>2 DEF Proxy!DownReverse
    <3>3. CASE DpOf[d] = nox.x
      BY <3>1, <3>3 DEF Leaving
    <3>4. CASE DpOf[d] # nox.x
      BY <3>1, <3>2, <3>4 DEF Proxy!PortsOf, Redirected, MapToCome
    <3>. QED
      BY <3>3, <3>4
  <2>3. CASE Proxy!DownSend \/ Proxy!RegisterPort
    BY <2>3 DEF Proxy!DownSend, Proxy!RegisterPort, Redirected, MapToCome
  <2>. QED
    BY <1>3, <2>1, <2>2, <2>3 DEF NoxStep
<1>4. CASE IpcReads
  <2>1. PICK m \in Mapping : m = Head(s2p)
    BY <1>0, <1>4, InTail DEF IpcReads
  <2>2. /\ m.dp \in DpPort /\ ipc.pc = "idle" /\ UNCHANGED dp_to_vs
        /\ ipc' = [pc |-> "forward", dp |-> m.dp, vs |-> m.vs]
        /\ vs_to_dp' = IF dp_to_vs[m.dp] # NULL THEN [vs_to_dp EXCEPT ![dp_to_vs[m.dp]] = NULL]
                                                ELSE vs_to_dp
    BY <1>4, <2>1 DEF IpcReads, Proxy!ProcessMap, Mapping
  <2>3. CASE m.dp = d
    BY <2>2, <2>3 DEF MapToCome
  <2>4. CASE m.dp # d
    <3>1. dp_to_vs[m.dp] # s
      BY <1>0, <2>2, <2>4 DEF ThereAndBack, Redirected
    <3>2. vs_to_dp'[s] = vs_to_dp[s]
      BY <1>0, <2>2, <3>1
    <3>. QED
      BY <2>2, <3>2 DEF Redirected
  <2>. QED
    BY <2>3, <2>4
<1>5. CASE IpcStep
  <2>1. ipc.dp \in DpPort /\ ipc.vs \in VsPort /\ ipc.pc # "idle"
    BY <1>5 DEF IpcStep, Proxy!WriteForward, Proxy!WriteReverse, SystemTypes, ProxyFacts!LocalsSet
  <2>2. StandsFor(ipc.vs, ipc.dp)
    BY <2>1 DEF Plugged
  <2>3. /\ ipc.dp = d => ipc.vs = s
        /\ ipc.vs = s => ipc.dp = d
    <3>1. vmAt[v] # NULL
      BY <1>0
    <3>2. /\ \A r : StandsFor(r, d) => r = s
          /\ \A p : StandsFor(s, p) => p = d
      BY <3>1, OneWay
    <3>. QED
      BY <2>2, <3>2
  <2>4. CASE Proxy!WriteForward
    <3>1. /\ dp_to_vs' = [dp_to_vs EXCEPT ![ipc.dp] = ipc.vs] /\ UNCHANGED vs_to_dp
          /\ ipc'.pc # "idle" /\ ipc'.dp = ipc.dp
      BY <2>4, ProxyMoves DEF Proxy!WriteForward
    <3>. QED
      BY <1>0, <2>1, <3>1 DEF Redirected, MapToCome
  <2>5. CASE Proxy!WriteReverse
    <3>1. vs_to_dp' = [vs_to_dp EXCEPT ![ipc.vs] = ipc.dp] /\ UNCHANGED dp_to_vs
          /\ dp_to_vs[ipc.dp] = ipc.vs
      BY <2>5 DEF Proxy!WriteReverse, ThereAndBack
    <3>. QED
      BY <1>0, <2>1, <2>3, <3>1 DEF Redirected
  <2>. QED
    BY <1>5, <2>4, <2>5 DEF IpcStep
<1>6. ASSUME NEW x \in Dp, DatapathDown(x)
      PROVE  Redirected(d, s)' \/ MapToCome(d)' \/ Leaving(DpOf[d])'
  <2>1. /\ nox' = [Proxy!IdleNox EXCEPT !.pc = "down_reverse", !.x = x] /\ UNCHANGED <<vs_to_dp, ipc>>
        /\ dp_to_vs'[d] = IF DpOf[d] = x THEN NULL ELSE dp_to_vs[d]
    BY <1>6 DEF DatapathDown, Proxy!OnDatapathDown
  <2>2. CASE DpOf[d] = x
    BY <2>1, <2>2 DEF Leaving, Proxy!IdleNox
  <2>3. CASE DpOf[d] # x
    BY <2>1, <2>3 DEF Redirected, MapToCome
  <2>. QED
    BY <2>2, <2>3
<1>7. ASSUME NEW x \in Dp, PortDescription(x)
      PROVE  Redirected(d, s)' \/ MapToCome(d)'
  BY <1>7 DEF PortDescription, Proxy!OnPortDescription, Redirected, MapToCome
<1>. QED
  BY <1>1, <1>2, <1>3, <1>4, <1>5, <1>6, <1>7, TableUntouched

LEMMA MappingSent ==
  ASSUME SystemTypes, MapSend,
         s2p' = Append(s2p, [dp |-> pthread.entry.dp, vs |-> pthread.entry.vs])
  PROVE  \E f \in Mapping : f.dp = pthread.entry.dp /\ s2p' = Append(s2p, f)
<1>1. pthread.entry.dp \in DpPort /\ pthread.entry.vs \in VsPort
  BY ConfigAssumption DEF MapSend, SystemTypes, Sendable, IInv, ProxySafe, Entry
<1>. QED
  BY <1>1 DEF Mapping

(* A mapping on its way to rfproxy arrives. *)
LEMMA MapToComeKept ==
  ASSUME SystemTypes, SystemNext, NEW d \in DpPort, MapToCome(d), ~(ipc.pc # "idle" /\ ipc.dp = d)
  PROVE  MapToCome(d)'
<1>0. s2p \in Seq(Mapping) /\ IInv
  BY QueueTypes DEF SystemTypes
<1>1. ASSUME NEW m \in Queued(s2p), m.dp = d
      PROVE  MapToCome(d)'
  <2>1. CASE UNCHANGED s2p
    BY <1>1, <2>1 DEF MapToCome
  <2>2. CASE IpcReads
    <3>1. s2p # <<>> /\ s2p' = Tail(s2p) /\ ipc'.pc = "forward" /\ ipc'.dp = Head(s2p).dp
      BY <2>2 DEF IpcReads, Proxy!ProcessMap
    <3>2. m = Head(s2p) \/ m \in Queued(s2p')
      BY <1>0, <1>1, <3>1, InTail
    <3>. QED
      BY <1>1, <3>1, <3>2 DEF MapToCome
  <2>3. CASE ProxyThreadStep
    <3>1. CASE MapSend /\ s2p' = Append(s2p, [dp |-> pthread.entry.dp, vs |-> pthread.entry.vs])
      <4>1. PICK f \in Mapping : s2p' = Append(s2p, f)
        BY <3>1, MappingSent
      <4>. QED
        BY <1>0, <1>1, <4>1, InAppend DEF MapToCome
    <3>. QED
      BY <2>1, <2>3, <3>1 DEF ProxyThreadStep
  <2>4. CASE NoxStep \/ IpcStep
    BY <2>1, <2>4, ProxyMoves
  <2>5. CASE ProxyThreadReads
    BY <2>1, <2>5, ReadStep
  <2>. QED
    BY <2>1, <2>2, <2>3, <2>4, <2>5 DEF SystemNext, VmStart, VmStop, VmReads, DatapathUp,
       PortDescription, DatapathDown, VsEvent, ClientThreadReads, ClientThreadStep, channels
<1>2. CASE pthread.pc = "map_send" /\ pthread.entry.dp = d
  <2>1. CASE UNCHANGED pthread
    BY <1>2, <2>1 DEF MapToCome
  <2>2. CASE ProxyThreadStep
    <3>1. MapSend /\ s2p' = Append(s2p, [dp |-> pthread.entry.dp, vs |-> pthread.entry.vs])
      BY <1>2, <2>2 DEF ProxyThreadStep, ConfigDp, DpLookupVm, DpInsert, DpSave, DpAskMap, DownLookup,
         DownSave, DownReset, MapSave
    <3>2. PICK f \in Mapping : f.dp = d /\ s2p' = Append(s2p, f)
      BY <1>2, <3>1, MappingSent
    <3>. QED
      BY <1>0, <3>2, InAppend DEF MapToCome
  <2>3. CASE ProxyThreadReads
    BY <1>2, <2>3, ReadStep
  <2>4. CASE ClientThreadReads \/ ClientThreadStep \/ UNCHANGED vars
    <3>1. UNCHANGED pthread
      BY <2>4 DEF ClientThreadReads, ClientThreadStep, RegisterVmPort, VmLookupDp, VmInsert,
             VmSave, VmAskMap, vars
    <3>. QED
      BY <2>1, <3>1
  <2>. QED
    BY <2>2, <2>3, <2>4 DEF SystemNext, VmStart, VmStop, VmReads, DatapathUp,
       PortDescription, DatapathDown, VsEvent, NoxStep, IpcReads, IpcStep
<1>. QED
  BY <1>1, <1>2 DEF MapToCome

LEMMA ActiveIsMappedKept ==
  ASSUME OneAtATime, OneToOne, FiniteDocuments, Plugged, Deletions, ThereAndBack,
         DocInv, ActiveIsMapped, SystemNext
  PROVE  ActiveIsMapped'
<1>0. /\ SystemTypes /\ IInv /\ SerialInv /\ RegisteringIsNew /\ OneDocumentEach /\ TypeOK
      /\ vmAt \in [VmPort -> VsPort \cup {NULL}]
      /\ NULL \notin VmPort /\ NULL \notin DpPort
      /\ CNext \/ PNext \/ UNCHANGED vars
      /\ NoOverlap
  BY SystemIsSerialStep, NullAssumption DEF DocInv, SystemTypes, SerialInv, IInv
<1>. SUFFICES ASSUME vmStops' = 0, NEW i \in Rows', NEW v, NEW d, NEW s,
                     v = rftable'[i].vm, d = rftable'[i].dp, s = rftable'[i].vs, s # NULL
              PROVE  vmAt'[v] = s /\ (Redirected(d, s)' \/ MapToCome(d)' \/ DownToCome(DpOf[d])')
  BY DEF ActiveIsMapped, Redirected, MapToCome, DownToCome, Leaving, IsDown, GoingDownNow, Going
<1>1. vmStops = 0 /\ \A w \in VmPort : ~VmStop(w)
  <2>1. ASSUME NEW w \in VmPort, VmStop(w)
        PROVE  FALSE
    <3>1. vmStops' = vmStops + 1 /\ vmStops \in Nat
      BY <1>0, <2>1 DEF VmStop, SystemTypes
    <3>. QED
      BY <3>1
  <2>2. UNCHANGED vmStops
    <3>1. ProxyThreadReads => UNCHANGED vmStops
      BY <1>0, ReadStep DEF environment
    <3>. QED
      BY <2>1, <3>1, <1>0, ProxyMoves DEF SystemNext, VmStart, VmReads, DatapathUp, PortDescription,
         DatapathDown, VsEvent, IpcReads, ClientThreadReads, ClientThreadStep,
         ProxyThreadStep, environment
  <2>. QED
    BY <2>1, <2>2
<1>2. ASSUME NEW w \in VmPort, vmAt[w] # NULL
      PROVE  vmAt'[w] = vmAt[w]
  <2>1. ASSUME NEW u \in VmPort, NEW r \in VsPort, VmStart(u, r)
        PROVE  vmAt'[w] = vmAt[w]
    BY <1>0, <1>2, <2>1 DEF VmStart
  <2>2. ClientThreadReads \/ ClientThreadStep => UNCHANGED vmAt
    BY DEF ClientThreadReads, ClientThreadStep, environment
  <2>. QED
    BY <1>0, <1>1, <2>1, <2>2, ClientSteps
<1>3. CASE i \in Rows /\ rftable'[i] = rftable[i]
  <2>1. /\ v \in VmPort /\ d \in DpPort /\ s \in VsPort /\ <<v, d>> \in Config
        /\ i \in RowsOfDpPort(d)
    <3>1. FollowsConfig(rftable[i]) /\ rftable[i] \in Entry
      BY <1>0, <1>3, RowType DEF IInv, RowsFollowConfig
    <3>. QED
      BY <1>3, <3>1 DEF FollowsConfig, Entry, RowsOfDpPort
  <2>2. vmAt[v] = s /\ (Redirected(d, s) \/ MapToCome(d) \/ DownToCome(DpOf[d]))
    BY <1>1, <1>3 DEF ActiveIsMapped
  <2>3. vmAt'[v] = s
    BY <1>2, <2>1, <2>2
  <2>4. DownToCome(DpOf[d]) => DownToCome(DpOf[d])'
    BY <1>0, <2>1, DownToComeKept
  <2>5. CASE Redirected(d, s) \/ (ipc.pc # "idle" /\ ipc.dp = d)
    <3>1. Redirected(d, s)' \/ MapToCome(d)' \/ Leaving(DpOf[d]) \/ Leaving(DpOf[d])'
      BY <1>0, <1>1, <2>1, <2>2, <2>5, RedirectedKept
    <3>. QED
      BY <2>3, <2>4, <3>1 DEF DownToCome
  <2>6. CASE MapToCome(d) /\ ~(ipc.pc # "idle" /\ ipc.dp = d)
    BY <1>0, <2>1, <2>3, <2>6, MapToComeKept
  <2>. QED
    BY <2>2, <2>3, <2>4, <2>5, <2>6
<1>4. CASE rftable'[i] \in Entry /\ ServerWrites(i, rftable'[i])
  <2>1. \A w : IdleVm(w).vs = NULL /\ IdleDp(w).vs = NULL
    BY DEF IdleVm, IdleDp
  <2>2. MapSave /\ rftable'[i] = pthread.entry
    BY <1>4, <2>1 DEF ServerWrites
  <2>3. pthread'.pc = "map_send" /\ pthread'.entry = pthread.entry
    BY <1>0, <2>2, ProxyThreadMoves
  <2>4. v \in VmPort /\ vmAt[v] = s
    BY <1>0, <2>2 DEF MapSave, Plugged, IInv, ProxySafe, Entry
  <2>. QED
    BY <1>0, <1>2, <2>2, <2>3, <2>4 DEF MapToCome
<1>. QED
  BY <1>0, <1>3, <1>4, RowStep

-------------------------------------------------------------------------------
(* rfserver and rfproxy agree. *)

LEMMA InitAgreement == SystemInit => AgreementInv
<1>. SUFFICES ASSUME SystemInit
              PROVE  AgreementInv
  OBVIOUS
<1>1. RightInv /\ DocInv
  BY InitRight, InitDocuments
<1>2. /\ Rows = {} /\ \A v \in VmPort : vmAt[v] = NULL
      /\ \A x \in Dp : dpState[x] = "down"
      /\ nox.pc = "idle"
  BY DEF SystemInit, Init, Rows, Proxy!ProxyInit, Proxy!IdleNox
<1>3. \A d \in DpPort : DpOf[d] \in Dp
  BY DpOfAssumption
<1>. QED
  BY <1>1, <1>2, <1>3 DEF AgreementInv, VmKnown, DpKnown, Leaving, AssociatedIsAsked, ActiveIsMapped

LEMMA NextAgreement ==
  ASSUME OneAtATime, OneToOne, FiniteDocuments, AllConfigured, OrderlyStops,
         AgreementInv, [SystemNext]_allVars
  PROVE  AgreementInv'
<1>1. RightInv' /\ DocInv'
  BY NextRight, NextDocuments DEF AgreementInv
<1>2. SystemTypes /\ Plugged /\ Deletions /\ ThereAndBack
  <2>1. OnePair
    BY ConfigAssumption DEF OnePair, OneToOne
  <2>. QED
    BY <2>1 DEF AgreementInv, RightInv
<1>3. CASE SystemNext
  BY <1>1, <1>2, <1>3, VmKnownKept, DpKnownKept, AssociatedIsAskedKept, ActiveIsMappedKept
  DEF AgreementInv
<1>4. CASE UNCHANGED allVars
  <2>. USE <1>4 DEF allVars, vars, proxyTable, channels, environment
  <2>1. VmKnown'
    BY DEF AgreementInv, VmKnown, RowsOfVm, Rows
  <2>2. DpKnown'
    BY DEF AgreementInv, DpKnown, Leaving, Known, ToAnnounce, Announced, NoDown, InTable, IsReg,
           IsDown, Registering, RowsOfDpPort, Rows, GoingDownNow, Going
  <2>3. AssociatedIsAsked'
    BY DEF AgreementInv, AssociatedIsAsked, Pending, VmToCome, Rows
  <2>4. ActiveIsMapped'
    BY DEF AgreementInv, ActiveIsMapped, Redirected, MapToCome, DownToCome, Leaving, IsDown,
           GoingDownNow, Going, Rows
  <2>. QED
    BY <1>1, <2>1, <2>2, <2>3, <2>4 DEF AgreementInv
<1>. QED
  BY <1>3, <1>4

(* The invariant the agreement rests on holds in every reachable state.    *)
THEOREM AgreementInductive ==
  ASSUME OneAtATime, OneToOne, FiniteDocuments, AllConfigured, OrderlyStops
  PROVE  SystemSpec => []AgreementInv
<1>1. SystemInit => AgreementInv
  BY InitAgreement
<1>2. AgreementInv /\ [SystemNext]_allVars => AgreementInv'
  BY NextAgreement
<1>. QED
  BY <1>1, <1>2, PTL DEF SystemSpec

(* Nothing is on its way when nothing is left to be done. *)
LEMMA NothingOnTheWay ==
  ASSUME Settled
  PROVE  /\ \A v \in VmPort : ~VmToCome(v) /\ (vmAt[v] # NULL => ~Pending(v))
         /\ \A d : ~MapToCome(d) /\ (Known(d) => RowsOfDpPort(d) # {})
         /\ \A x : ~DownToCome(x)
         /\ \A s : ~StillDeleted(s)
         /\ ~Going
<1>1. /\ cthread.pc = "idle" /\ pthread.pc = "idle" /\ nox.pc = "idle" /\ ipc.pc = "idle"
      /\ Queued(p2s) = {} /\ Queued(c2s) = {} /\ Queued(s2p) = {} /\ Queued(vsQueue) = {}
      /\ ~Reported /\ p2s = <<>>
  BY SettledIsEmpty
<1>2. ~Going /\ \A x : ~GoingDownNow(x)
  BY <1>1 DEF Going, GoingDownNow
<1>3. ASSUME NEW v \in VmPort, vmAt[v] # NULL
      PROVE  ~Pending(v)
  <2>1. Queued(s2c[v]) = {}
    BY <1>3 DEF Settled, Queued
  <2>. QED
    BY <1>1, <2>1 DEF Pending
<1>4. ASSUME NEW d
      PROVE  ~Announced(d) /\ ~ToAnnounce(d) /\ ~Registering(d)
  BY <1>1 DEF Announced, ToAnnounce, Registering
<1>. QED
  BY <1>1, <1>2, <1>3, <1>4 DEF VmToCome, MapToCome, DownToCome, Leaving, StillDeleted, Known, InTable

LEMMA AgreementHolds ==
  ASSUME OneToOne, AgreementInv
  PROVE  Agreement
<1>. SUFFICES ASSUME Settled, NEW v \in VmPort, NEW s \in VsPort,
                     NEW d \in {p \in DpPort : dpState[DpOf[p]] = "up"}
              PROVE  LET entered == \E i \in Rows : rftable[i] = [vm |-> v, dp |-> d, vs |-> s]
                         redirected == dp_to_vs[d] = s /\ vs_to_dp[s] = d
                     IN /\ redirected /\ vmAt[v] = s => entered /\ <<v, d>> \in Config
                        /\ entered /\ vmStops = 0 => redirected
  BY Zenon DEF Agreement
<1>. d \in DpPort /\ dpState[DpOf[d]] = "up"
  OBVIOUS
<1>0. /\ s # NULL /\ v # NULL /\ d # NULL
      /\ SerialInv /\ OneDocumentEach /\ TypeOK
  BY NullAssumption DEF AgreementInv, DocInv, SerialInv, IInv
<1>1. ASSUME dp_to_vs[d] = s, vmAt[v] = s
      PROVE  /\ \E i \in Rows : rftable[i] = [vm |-> v, dp |-> d, vs |-> s]
             /\ <<v, d>> \in Config
  <2>1. PICK w \in VmPort : vmAt[w] = s /\ <<w, d>> \in Config
    BY <1>0, <1>1, NothingOnTheWay DEF AgreementInv, RightInv, TableRight, StandsFor
  <2>2. <<v, d>> \in Config
    <3>1. w = v
      BY <1>0, <1>1, <2>1 DEF AgreementInv, RightInv, Plugged
    <3>. QED
      BY <2>1, <3>1
  <2>3. PICK i \in Rows : rftable[i].vm = v
    <3>1. ~VmToCome(v) /\ cthread.pc = "idle" /\ Queued(c2s) = {}
      BY SettledIsEmpty, NothingOnTheWay
    <3>. QED
      BY <1>0, <1>1, <3>1 DEF AgreementInv, VmKnown, RowsOfVm
  <2>4. PICK j \in Rows : rftable[j].dp = d
    BY NothingOnTheWay DEF AgreementInv, DpKnown, RowsOfDpPort
  <2>5. /\ rftable[i].dp \in {NULL, d} /\ rftable[i] \in Entry /\ i \in Doc
        /\ rftable[i].dp = NULL => rftable[i].vs = NULL
    BY <1>0, <2>2, <2>3, RowPartner DEF Rows
  <2>6. /\ rftable[j].vm \in {NULL, v} /\ rftable[j] \in Entry /\ j \in Doc
        /\ rftable[j].vm = NULL => rftable[j].vs = NULL
    BY <1>0, <2>2, <2>4, RowPartner DEF Rows
  <2>7. rftable[i].dp = d
    <3>. SUFFICES ASSUME rftable[i].dp = NULL
                  PROVE  FALSE
      BY <2>5
    <3>1. rftable[j].vm = NULL
      BY <1>0, <2>3, <2>4, <2>6 DEF OneDocumentEach
    <3>2. rftable[i] = IdleVm(v)
      BY <2>3, <2>5 DEF IdleVm, Entry
    <3>3. rftable[j] = IdleDp(d)
      BY <2>4, <2>6, <3>1 DEF IdleDp, Entry
    <3>4. PICK c \in Config : c[1] = v /\ c[2] = d
      BY <2>2
    <3>. QED
      BY <1>0, <2>5, <2>6, <3>2, <3>3, <3>4, NothingOnTheWay DEF SerialInv, NoneMissed
  <2>8. rftable[i].vs = s
    BY <1>0, <1>1, <2>3, <2>7, NothingOnTheWay DEF AgreementInv, AssociatedIsAsked
  <2>9. rftable[i] = [vm |-> v, dp |-> d, vs |-> s]
    BY <2>3, <2>5, <2>7, <2>8 DEF Entry
  <2>. QED
    BY <2>2, <2>9
<1>2. ASSUME NEW i \in Rows, rftable[i] = [vm |-> v, dp |-> d, vs |-> s], vmStops = 0
      PROVE  dp_to_vs[d] = s /\ vs_to_dp[s] = d
  <2>1. rftable[i].vm = v /\ rftable[i].dp = d /\ rftable[i].vs = s
    BY <1>2
  <2>2. Redirected(d, s) \/ MapToCome(d) \/ DownToCome(DpOf[d])
    BY <1>0, <1>2, <2>1 DEF AgreementInv, ActiveIsMapped
  <2>. QED
    BY <2>2, NothingOnTheWay DEF Redirected
<1>. QED
  BY <1>1, <1>2

(* When nothing is left to be done, rfproxy and rfserver agree on every    *)
(* datapath that is up: what rfproxy redirects is an active entry of a     *)
(* configured pair, and an active entry is redirected until a machine      *)
(* stops.                                                                  *)
THEOREM SystemAgreement ==
  ASSUME OneAtATime, OneToOne, FiniteDocuments, AllConfigured, OrderlyStops
  PROVE  SystemSpec => []Agreement
<1>1. AgreementInv => Agreement
  BY AgreementHolds
<1>. QED
  BY <1>1, AgreementInductive, PTL
===============================================================================
