------------------------------- MODULE RFServer -------------------------------
(***************************************************************************)
(* The association core of rfserver/rfserver.py: the two listener threads  *)
(* of RFServer and the MongoDB collection (rftable.py) they share.         *)
(*                                                                         *)
(* `cthread' is the thread that listens on the rfclient channel (VM port   *)
(* registrations), `pthread' the one that listens on the rfproxy channel   *)
(* (datapath port registrations, datapath downs, mapping packets).  Each   *)
(* runs one handler at a time, and nothing orders one thread with respect  *)
(* to the other: every access to the collection is a step of its own.      *)
(*                                                                         *)
(* Identifiers (vm_id, vm_port), (ct_id, dp_id, dp_port) and               *)
(* (vs_id, vs_port) are single values here; eth_addr is a function of the  *)
(* VM port and is left out.  The ISL tables are empty (no -i option).      *)
(* A message may be delivered at any time and more than once.              *)
(*                                                                         *)
(* An operator named after another with a suffix (MakeIdleVm_WrongType) is *)
(* that operator with a bug in it, kept to show that a property notices.   *)
(***************************************************************************)
EXTENDS Naturals

CONSTANTS
    VmPort,     \* ports of virtual machines
    DpPort,     \* ports of datapaths
    Dp,         \* datapaths
    VsPort,     \* ports of the RouteFlow virtual switch
    Doc,        \* documents the collection may hold (the bound on insertions)
    NULL,       \* None; also a document that does not exist
    DpOf,       \* the datapath of a port
    Config      \* the rows of the configuration file: pairs <<vm, dp>>

(* What an RFEntry holds. *)
Entry == [vm : VmPort \cup {NULL}, dp : DpPort \cup {NULL}, vs : VsPort \cup {NULL}]

ASSUME NullAssumption ==
    /\ NULL \notin VmPort \cup DpPort \cup VsPort \cup Doc \cup Dp
    /\ NULL \notin Entry

ASSUME DpOfAssumption == DpOf \in [DpPort -> Dp]

ASSUME ConfigAssumption == Config \subseteq VmPort \X DpPort

VARIABLES
    rftable,    \* the collection: what each document holds
    cthread,    \* the handler of the client channel's thread
    pthread,    \* the handler of the proxy channel's thread
    asked,      \* operation of the newest PortConfig in the channel, per VM port
    mapped,     \* virtual switch port of the newest DataPlaneMap, per datapath port
    configured  \* datapaths sent their default flows since they last went down

vars == <<rftable, cthread, pthread, asked, mapped, configured>>

CPc == {"idle", "lookup_dp", "insert", "save", "ask_map"}

PPc == {"idle", "configure", "lookup_vm", "insert", "save", "ask_map",
        "down", "down_save", "down_reset", "map_save", "map_send"}

IdleC == [pc |-> "idle", vm |-> NULL, dp |-> NULL, id |-> NULL, entry |-> NULL]

IdleP == [pc |-> "idle", x |-> NULL, dp |-> NULL, id |-> NULL, entry |-> NULL,
          todo |-> {}]

-------------------------------------------------------------------------------
(* RFEntry: the status of an entry is computed from its empty fields.      *)

IsIdleVmPort(e) == e.vm # NULL /\ e.dp = NULL /\ e.vs = NULL

IsIdleDpPort(e) == e.vm = NULL /\ e.dp # NULL /\ e.vs = NULL

(* get_status: what is neither idle nor active counts as associated, the  *)
(* entry that has lost every field included.                              *)
IsActive(e) == ~IsIdleVmPort(e) /\ ~IsIdleDpPort(e) /\ e.vs # NULL

IsAssociated(e) == ~IsIdleVmPort(e) /\ ~IsIdleDpPort(e) /\ e.vs = NULL

IdleVm(v) == [vm |-> v, dp |-> NULL, vs |-> NULL]

IdleDp_Swapped(d) == [vm |-> d, dp |-> NULL, vs |-> NULL]

IdleDp(d) == [vm |-> NULL, dp |-> d, vs |-> NULL]

MakeIdleVm_WrongType(e) == [e EXCEPT !.vm = NULL, !.vs = NULL]

MakeIdleVm_KeepsVs(e) == [e EXCEPT !.dp = NULL]

MakeIdleVm(e) == [e EXCEPT !.dp = NULL, !.vs = NULL]

Activate(e, s) == [e EXCEPT !.vs = s]

(* Queries: a lookup returns the first match in the collection's natural   *)
(* order, which moving documents change: any match.                        *)
Rows == {i \in Doc : rftable[i] # NULL}

RowsOfVm_AnyPort(v) == {i \in Rows : rftable[i].vm # NULL}

RowsOfVm(v) == {i \in Rows : rftable[i].vm = v}

RowsOfDpPort(d) == {i \in Rows : rftable[i].dp = d}

RowsOfDp(x) == {i \in Rows : rftable[i].dp # NULL /\ DpOf[rftable[i].dp] = x}

(* set_entry of a new entry inserts a document, of one read from the       *)
(* collection overwrites the whole document it was read from.              *)
Insert(e) == \E i \in Doc : rftable[i] = NULL /\ rftable' = [rftable EXCEPT ![i] = e]

Save(i, e) == rftable' = [rftable EXCEPT ![i] = e]

(* The bound of the model: a message that would insert a document is not   *)
(* taken up when the collection holds Doc already.                         *)
Room == \E i \in Doc : rftable[i] = NULL

RoomForVm(v) == Room \/ \E c \in Config : c[1] = v /\ RowsOfDpPort(c[2]) # {}

RoomForDp(d) == Room \/ \E c \in Config : c[2] = d /\ RowsOfVm(c[1]) # {}

-------------------------------------------------------------------------------
(* The client channel's thread: register_vm_port.                          *)

RegisterVmPort(v) ==
    /\ cthread.pc = "idle"
    /\ RoomForVm(v)
    /\ \/ /\ \A c \in Config : c[1] # v
          /\ cthread' = [IdleC EXCEPT !.pc = "insert", !.vm = v]
       \/ \E c \in Config :
            /\ c[1] = v
            /\ RowsOfVm(v) = {} \/ \E i \in RowsOfVm(v) : ~IsIdleVmPort(rftable[i])
            /\ cthread' = [IdleC EXCEPT !.pc = "lookup_dp", !.vm = v, !.dp = c[2]]
    /\ UNCHANGED <<rftable, pthread, asked, mapped, configured>>

VmLookupDp_Blind ==
    /\ cthread.pc = "lookup_dp"
    /\ cthread' = [cthread EXCEPT !.pc = "insert"]
    /\ UNCHANGED <<rftable, pthread, asked, mapped, configured>>

VmLookupDp ==
    /\ cthread.pc = "lookup_dp"
    /\ \/ /\ RowsOfDpPort(cthread.dp) = {}
          /\ cthread' = [cthread EXCEPT !.pc = "insert"]
       \/ \E i \in RowsOfDpPort(cthread.dp) :
            \/ /\ IsIdleDpPort(rftable[i])
               /\ cthread' = [cthread EXCEPT !.pc = "save", !.id = i,
                                !.entry = [rftable[i] EXCEPT !.vm = cthread.vm]]
            \/ IsActive(rftable[i]) /\ cthread' = [cthread EXCEPT !.pc = "ask_map"]
            \/ IsAssociated(rftable[i]) /\ cthread' = IdleC
    /\ UNCHANGED <<rftable, pthread, asked, mapped, configured>>

VmInsert ==
    /\ cthread.pc = "insert"
    /\ Insert(IdleVm(cthread.vm))
    /\ cthread' = IdleC
    /\ UNCHANGED <<pthread, asked, mapped, configured>>

VmSave ==
    /\ cthread.pc = "save"
    /\ Save(cthread.id, cthread.entry)
    /\ cthread' = [cthread EXCEPT !.pc = "ask_map"]
    /\ UNCHANGED <<pthread, asked, mapped, configured>>

(* config_vm_port: a PortConfig that asks the client for a mapping packet. *)
VmAskMap ==
    /\ cthread.pc = "ask_map"
    /\ asked' = [asked EXCEPT ![cthread.vm] = "map"]
    /\ cthread' = IdleC
    /\ UNCHANGED <<rftable, pthread, mapped, configured>>

-------------------------------------------------------------------------------
(* The proxy channel's thread: register_dp_port.                           *)

RegisterDpPort_Unconfigured(d) ==
    /\ pthread.pc = "idle"
    /\ RoomForDp(d)
    /\ pthread' = [IdleP EXCEPT !.x = DpOf[d], !.dp = d, !.pc = "lookup_vm"]
    /\ UNCHANGED <<rftable, cthread, asked, mapped, configured>>

(* config_dp finds out first whether the datapath is known.                *)
RegisterDpPort(d) ==
    /\ pthread.pc = "idle"
    /\ RoomForDp(d)
    /\ pthread' = [IdleP EXCEPT !.x = DpOf[d], !.dp = d,
            !.pc = IF RowsOfDp(DpOf[d]) # {} THEN "configure" ELSE "lookup_vm"]
    /\ UNCHANGED <<rftable, cthread, asked, mapped, configured>>

(* The registration of the pseudo port 10000, which rfproxy sends when a   *)
(* port of the virtual switch disappears: config_dp and nothing else.      *)
ReconfigureDp(x) ==
    /\ pthread.pc = "idle"
    /\ RowsOfDp(x) # {}
    /\ pthread' = [IdleP EXCEPT !.pc = "configure", !.x = x]
    /\ UNCHANGED <<rftable, cthread, asked, mapped, configured>>

(* The thirteen messages that clear the datapath and install its default   *)
(* flows.                                                                  *)
ConfigDp ==
    /\ pthread.pc = "configure"
    /\ configured' = configured \cup {pthread.x}
    /\ pthread' = IF pthread.dp = NULL THEN IdleP
                                       ELSE [pthread EXCEPT !.pc = "lookup_vm"]
    /\ UNCHANGED <<rftable, cthread, asked, mapped>>

DpLookupVm_Blind ==
    /\ pthread.pc = "lookup_vm"
    /\ pthread' = [pthread EXCEPT !.pc = "insert"]
    /\ UNCHANGED <<rftable, cthread, asked, mapped, configured>>

DpLookupVm ==
    /\ pthread.pc = "lookup_vm"
    /\ \/ /\ \A c \in Config : c[2] # pthread.dp
          /\ pthread' = [pthread EXCEPT !.pc = "insert"]
       \/ \E c \in Config :
            /\ c[2] = pthread.dp
            /\ \/ /\ RowsOfVm(c[1]) = {}
                  /\ pthread' = [pthread EXCEPT !.pc = "insert"]
               \/ \E i \in RowsOfVm(c[1]) :
                    \/ /\ IsIdleVmPort(rftable[i])
                       /\ pthread' = [pthread EXCEPT !.pc = "save", !.id = i,
                                        !.entry = [rftable[i] EXCEPT !.dp = pthread.dp]]
                    \/ ~IsIdleVmPort(rftable[i]) /\ pthread' = IdleP
    /\ UNCHANGED <<rftable, cthread, asked, mapped, configured>>

DpInsert ==
    /\ pthread.pc = "insert"
    /\ Insert(IdleDp(pthread.dp))
    /\ pthread' = IdleP
    /\ UNCHANGED <<cthread, asked, mapped, configured>>

DpSave ==
    /\ pthread.pc = "save"
    /\ Save(pthread.id, pthread.entry)
    /\ pthread' = [pthread EXCEPT !.pc = "ask_map"]
    /\ UNCHANGED <<cthread, asked, mapped, configured>>

DpAskMap ==
    /\ pthread.pc = "ask_map"
    /\ asked' = [asked EXCEPT ![pthread.entry.vm] = "map"]
    /\ pthread' = IdleP
    /\ UNCHANGED <<rftable, cthread, mapped, configured>>

-------------------------------------------------------------------------------
(* The proxy channel's thread: set_dp_down and set_dp_port_down.           *)

(* The entries of the datapath are listed once; each is looked up again by *)
(* its port when its turn comes.                                           *)
SetDpDown(x) ==
    /\ pthread.pc = "idle"
    /\ pthread' = [IdleP EXCEPT !.pc = "down", !.x = x,
                     !.todo = {<<i, rftable[i].dp>> : i \in RowsOfDp(x)}]
    /\ configured' = configured \ {x}
    /\ UNCHANGED <<rftable, cthread, asked, mapped>>

DownLookup_Nothing ==
    /\ pthread.pc = "down"
    /\ pthread' = IdleP
    /\ UNCHANGED <<rftable, cthread, asked, mapped, configured>>

DownLookup ==
    /\ pthread.pc = "down"
    /\ \/ pthread.todo = {} /\ pthread' = IdleP
       \/ \E t \in pthread.todo :
            \/ /\ RowsOfDpPort(t[2]) = {}
               /\ pthread' = [pthread EXCEPT !.todo = @ \ {t}]
            \/ \E i \in RowsOfDpPort(t[2]) :
                 pthread' = [pthread EXCEPT !.pc = "down_save", !.id = i,
                               !.entry = MakeIdleVm(rftable[i]),
                               !.todo = @ \ {t}]
    /\ UNCHANGED <<rftable, cthread, asked, mapped, configured>>

DownSave ==
    /\ pthread.pc = "down_save"
    /\ Save(pthread.id, pthread.entry)
    /\ pthread' = IF pthread.entry.vm # NULL
                  THEN [pthread EXCEPT !.pc = "down_reset"]
                  ELSE [pthread EXCEPT !.pc = "down", !.id = NULL, !.entry = NULL]
    /\ UNCHANGED <<cthread, asked, mapped, configured>>

DownReset_AsksMap ==
    /\ pthread.pc = "down_reset"
    /\ asked' = [asked EXCEPT ![pthread.entry.vm] = "map"]
    /\ pthread' = [pthread EXCEPT !.pc = "down", !.id = NULL, !.entry = NULL]
    /\ UNCHANGED <<rftable, cthread, mapped, configured>>

(* reset_vm_port *)
DownReset ==
    /\ pthread.pc = "down_reset"
    /\ asked' = [asked EXCEPT ![pthread.entry.vm] = "reset"]
    /\ pthread' = [pthread EXCEPT !.pc = "down", !.id = NULL, !.entry = NULL]
    /\ UNCHANGED <<rftable, cthread, mapped, configured>>

-------------------------------------------------------------------------------
(* The proxy channel's thread: map_port.                                   *)

MapPort_AnyStatus(v, s) ==
    /\ pthread.pc = "idle"
    /\ \E i \in RowsOfVm(v) :
         pthread' = [IdleP EXCEPT !.pc = "map_save", !.id = i,
                       !.entry = Activate(rftable[i], s)]
    /\ UNCHANGED <<rftable, cthread, asked, mapped, configured>>

MapPort(v, s) ==
    /\ pthread.pc = "idle"
    /\ \E i \in RowsOfVm(v) :
         /\ IsAssociated(rftable[i]) \/ IsActive(rftable[i])
         /\ pthread' = [IdleP EXCEPT !.pc = "map_save", !.id = i,
                          !.entry = Activate(rftable[i], s)]
    /\ UNCHANGED <<rftable, cthread, asked, mapped, configured>>

MapSave_NothingSent ==
    /\ pthread.pc = "map_save"
    /\ Save(pthread.id, pthread.entry)
    /\ pthread' = IdleP
    /\ UNCHANGED <<cthread, asked, mapped, configured>>

MapSave ==
    /\ pthread.pc = "map_save"
    /\ Save(pthread.id, pthread.entry)
    /\ pthread' = [pthread EXCEPT !.pc = "map_send"]
    /\ UNCHANGED <<cthread, asked, mapped, configured>>

MapSend ==
    /\ pthread.pc = "map_send"
    /\ mapped' = [mapped EXCEPT ![pthread.entry.dp] = pthread.entry.vs]
    /\ pthread' = IdleP
    /\ UNCHANGED <<rftable, cthread, asked, configured>>

-------------------------------------------------------------------------------
(* The process stops and is started again: both handlers are lost, the     *)
(* collection and the channels live in MongoDB and stay.                   *)
Restart ==
    /\ cthread' = IdleC
    /\ pthread' = IdleP
    /\ UNCHANGED <<rftable, asked, mapped, configured>>

Init ==
    /\ rftable = [i \in Doc |-> NULL]
    /\ cthread = IdleC
    /\ pthread = IdleP
    /\ asked = [v \in VmPort |-> "none"]
    /\ mapped = [d \in DpPort |-> NULL]
    /\ configured = {}

CNext ==
    \/ \E v \in VmPort : RegisterVmPort(v)
    \/ VmLookupDp
    \/ VmInsert
    \/ VmSave
    \/ VmAskMap

PNext ==
    \/ \E d \in DpPort : RegisterDpPort(d)
    \/ \E x \in Dp : ReconfigureDp(x)
    \/ ConfigDp
    \/ DpLookupVm
    \/ DpInsert
    \/ DpSave
    \/ DpAskMap
    \/ \E x \in Dp : SetDpDown(x)
    \/ DownLookup
    \/ DownSave
    \/ DownReset
    \/ \E v \in VmPort, s \in VsPort : MapPort(v, s)
    \/ MapSave
    \/ MapSend

Next == CNext \/ PNext \/ Restart

Spec == Init /\ [][Next]_vars

(* The threads never overlap and the process is not restarted: what the   *)
(* handlers do when each runs to its end before another starts.           *)
NoOverlap == cthread.pc = "idle" \/ pthread.pc = "idle"

SerialNext == (CNext \/ PNext) /\ NoOverlap'

SerialSpec == Init /\ [][SerialNext]_vars

-------------------------------------------------------------------------------
(* Properties. *)

CState ==
    [pc : CPc, vm : VmPort \cup {NULL}, dp : DpPort \cup {NULL},
     id : Doc \cup {NULL}, entry : Entry \cup {NULL}]

PState ==
    [pc : PPc, x : Dp \cup {NULL}, dp : DpPort \cup {NULL},
     id : Doc \cup {NULL}, entry : Entry \cup {NULL},
     todo : SUBSET (Doc \X DpPort)]

(* The type invariant: the documents, the handlers' locals and the newest  *)
(* messages are of the shapes the code gives them.                         *)
TypeOK ==
    /\ rftable \in [Doc -> Entry \cup {NULL}]
    /\ cthread \in CState
    /\ pthread \in PState
    /\ asked \in [VmPort -> {"none", "map", "reset"}]
    /\ mapped \in [DpPort -> VsPort \cup {NULL}]
    /\ configured \in SUBSET Dp

(* However the two threads interleave, and whatever stale copies they      *)
(* save, a document never pairs a VM port with a datapath port that the    *)
(* configuration file does not pair it with, and a document holds a        *)
(* virtual switch port only when it holds both others (register_vm_port,   *)
(* register_dp_port, map_port).                                            *)
FollowsConfig(e) ==
    /\ e.vm # NULL /\ e.dp # NULL => <<e.vm, e.dp>> \in Config
    /\ e.vs # NULL => e.vm # NULL /\ e.dp # NULL

AssociationsFollowConfig ==
    /\ \A i \in Rows : FollowsConfig(rftable[i])
    /\ \A d \in DpPort : mapped[d] # NULL => \E v \in VmPort : <<v, d>> \in Config

(* The life of a document.  `Race' are the two steps only a stale save     *)
(* makes: an association written over a document whose datapath went down, *)
(* and an emptied document written over an association.                    *)
IsEmpty(e) == e.vm = NULL /\ e.dp = NULL /\ e.vs = NULL

Born(e, f) == e = NULL /\ (IsIdleVmPort(f) \/ IsIdleDpPort(f))

Associated(e, f) ==
    /\ e # NULL
    /\ \/ IsIdleVmPort(e) /\ f.vm = e.vm
       \/ IsIdleDpPort(e) /\ f.dp = e.dp
    /\ f.vm # NULL /\ f.dp # NULL /\ f.vs = NULL

Activated(e, f) ==
    /\ e # NULL
    /\ e.vm # NULL /\ e.dp # NULL
    /\ f.vm = e.vm /\ f.dp = e.dp /\ f.vs # NULL

PutDown(e, f) ==
    /\ e # NULL
    /\ e.dp # NULL
    /\ f.vm = e.vm /\ f.dp = NULL /\ f.vs = NULL

Race(e, f) ==
    /\ e # NULL /\ e.vs = NULL
    /\ \/ IsEmpty(e) /\ f.vm # NULL /\ f.dp # NULL /\ f.vs = NULL
       \/ e.vm # NULL /\ e.dp # NULL /\ IsEmpty(f)

StrictLifeStep ==
    \A i \in Doc : LET e == rftable[i]  f == rftable'[i] IN
        f = e \/ Born(e, f) \/ Associated(e, f) \/ Activated(e, f) \/ PutDown(e, f)

LifeStep ==
    \A i \in Doc : LET e == rftable[i]  f == rftable'[i] IN
        \/ f = e \/ Born(e, f) \/ Associated(e, f) \/ Activated(e, f) \/ PutDown(e, f)
        \/ Race(e, f)

(* Under every interleaving a document only moves along its life or makes  *)
(* one of the two racing steps: an active document is never rewired to     *)
(* another port, never loses its VM port, and no document is dropped       *)
(* (set_entry of register_vm_port, register_dp_port, set_dp_port_down and  *)
(* map_port, whatever stale copy they save).                               *)
Lifecycle == [][LifeStep]_vars

(* When the handlers do not overlap, the racing steps do not happen: the   *)
(* same writes of set_entry, each from a copy that is still current.       *)
StrictLifecycle == [][StrictLifeStep]_vars

Quiet == cthread.pc = "idle" /\ pthread.pc = "idle"

(* No association is missed: whenever no handler runs, a VM port and the   *)
(* datapath port configured for it are not both registered as idle (the    *)
(* comments "If there's an idle DP entry matching configuration,           *)
(* associate" and "If there's an idle VM entry ..." of the two handlers).  *)
NoMissedAssociation ==
    Quiet => ~\E c \in Config, i, j \in Rows :
                 rftable[i] = IdleVm(c[1]) /\ rftable[j] = IdleDp(c[2])

(* A VM port that has registered stays registered: datapaths going down    *)
(* leave it in the table (set_dp_port_down: "leave only the associated VM  *)
(* port").                                                                 *)
RegisteredVmKept == [][\A v \in VmPort : RowsOfVm(v) # {} => RowsOfVm(v)' # {}]_vars

(* The newest PortConfig in a VM port's channel tells it the truth when    *)
(* no handler runs: to map itself if it is associated, and not to if it    *)
(* is not (config_vm_port and reset_vm_port against the table).            *)
AskedAgrees ==
    Quiet => \A v \in VmPort : asked[v] = "map" <=>
                 \E i \in RowsOfVm(v) : rftable[i].dp # NULL

(* A datapath with two ports in the table has been sent its default flows  *)
(* since it last went down (config_dp, which leaves out the first port).   *)
TwoPortsConfigured ==
    Quiet => \A i, j \in Rows :
        rftable[i].dp # NULL /\ rftable[j].dp # NULL /\ rftable[i].dp # rftable[j].dp
            /\ DpOf[rftable[i].dp] = DpOf[rftable[j].dp]
        => DpOf[rftable[i].dp] \in configured

(* The table implements the abstract association.  A datapath that is      *)
(* being put down counts as down from the moment its entries are listed.   *)
GoingDown == IF pthread.pc \in {"down", "down_save", "down_reset"} THEN {pthread.x} ELSE {}

RegisteredVms == {v \in VmPort : RowsOfVm(v) # {}}

RegisteredDpPorts == {d \in DpPort : DpOf[d] \notin GoingDown /\ RowsOfDpPort(d) # {}}

Associations ==
    {<<rftable[i].vm, rftable[i].dp>> : i \in
        {k \in Rows : /\ rftable[k].vm # NULL
                      /\ rftable[k].dp \in RegisteredDpPorts}}

Abstract == INSTANCE PortAssociation WITH
    vmUp <- RegisteredVms, dpUp <- RegisteredDpPorts, assoc <- Associations

ImplementsPortAssociation == Abstract!Spec
===============================================================================
