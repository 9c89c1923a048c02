---------------------------- MODULE RFServerProofs ----------------------------
(***************************************************************************)
(* Proofs about RFServer, for every set of ports, datapaths and documents  *)
(* and every configuration.                                                *)
(***************************************************************************)
EXTENDS RFServer, TLAPS

(* The inductive invariant.  Each handler knows something of the document  *)
(* it is about to overwrite: its copy may be stale, but only in the ways   *)
(* the other thread can make it so.                                        *)

RowsFollowConfig == \A i \in Rows : FollowsConfig(rftable[i])

MapsFollowConfig ==
    \A d \in DpPort : mapped[d] # NULL => \E v \in VmPort : <<v, d>> \in Config

(* The client thread associates a document it saw as an idle datapath      *)
(* port; meanwhile its datapath may have gone down.                        *)
ClientSafe ==
    /\ cthread.pc # "idle" => cthread.vm \in VmPort
    /\ cthread.pc \in {"lookup_dp", "save"} => <<cthread.vm, cthread.dp>> \in Config
    /\ cthread.pc = "save" =>
         /\ cthread.id \in Doc
         /\ cthread.entry \in Entry
         /\ cthread.entry.vm = cthread.vm
         /\ cthread.entry.dp = cthread.dp
         /\ cthread.entry.vs = NULL
         /\ rftable[cthread.id] \in Entry
         /\ \/ rftable[cthread.id] = IdleDp(cthread.dp)
            \/ rftable[cthread.id] = IdleVm(NULL)

(* The proxy thread overwrites a document it read; only one it saw as an   *)
(* idle datapath port can have changed, by being associated.               *)
ProxySafe ==
    /\ pthread.pc = "configure" => pthread.x \in Dp
    /\ pthread.pc \in {"lookup_vm", "insert"} => pthread.dp \in DpPort
    /\ pthread.pc \in {"save", "ask_map", "down_save", "down_reset", "map_save", "map_send"}
         => pthread.entry \in Entry
    /\ pthread.pc = "save" =>
         /\ pthread.id \in Doc
         /\ pthread.entry.vm # NULL /\ pthread.entry.dp # NULL /\ pthread.entry.vs = NULL
         /\ <<pthread.entry.vm, pthread.entry.dp>> \in Config
         /\ rftable[pthread.id] \in Entry
         /\ rftable[pthread.id] = IdleVm(pthread.entry.vm)
    /\ pthread.pc = "down_save" =>
         /\ pthread.id \in Doc
         /\ pthread.entry.dp = NULL /\ pthread.entry.vs = NULL
         /\ rftable[pthread.id] \in Entry
         /\ rftable[pthread.id].dp # NULL
         /\ IF pthread.entry.vm # NULL THEN rftable[pthread.id].vm = pthread.entry.vm
                                       ELSE rftable[pthread.id].vs = NULL
    /\ pthread.pc = "map_save" =>
         /\ pthread.id \in Doc
         /\ pthread.entry.vm # NULL /\ pthread.entry.dp # NULL /\ pthread.entry.vs # NULL
         /\ rftable[pthread.id] \in Entry
         /\ rftable[pthread.id].vm = pthread.entry.vm
         /\ rftable[pthread.id].dp = pthread.entry.dp
    /\ pthread.pc = "map_send" =>
         <<pthread.entry.vm, pthread.entry.dp>> \in Config

IInv == TypeOK /\ RowsFollowConfig /\ MapsFollowConfig /\ ClientSafe /\ ProxySafe

-------------------------------------------------------------------------------
(* The operators on entries. *)

(* A query only finds documents that exist, and they hold entries. *)
LEMMA RowType ==
  ASSUME TypeOK
  PROVE  \A i \in Rows : i \in Doc /\ rftable[i] \in Entry
  BY DEF TypeOK, Rows

LEMMA QueriesFindRows ==
  ASSUME NEW v, NEW d, NEW x
  PROVE  /\ \A i \in RowsOfVm(v) : i \in Rows /\ rftable[i].vm = v
         /\ \A i \in RowsOfDpPort(d) : i \in Rows /\ rftable[i].dp = d
         /\ \A i \in RowsOfDp(x) : i \in Rows /\ rftable[i].dp # NULL
  BY DEF RowsOfVm, RowsOfDpPort, RowsOfDp

LEMMA ConfigPair ==
  \A c \in Config : c[1] \in VmPort /\ c[2] \in DpPort /\ <<c[1], c[2]>> \in Config
  BY ConfigAssumption

LEMMA IdleType ==
  ASSUME NEW v \in VmPort \cup {NULL}, NEW d \in DpPort \cup {NULL}
  PROVE  IdleVm(v) \in Entry /\ IdleDp(d) \in Entry
  BY DEF Entry, IdleVm, IdleDp

(* What each copy of an entry holds. *)
LEMMA AssociateVm ==
  ASSUME NEW e \in Entry, NEW v \in VmPort \cup {NULL}
  PROVE  LET f == [e EXCEPT !.vm = v] IN
           f \in Entry /\ f.vm = v /\ f.dp = e.dp /\ f.vs = e.vs
  BY DEF Entry

LEMMA AssociateDp ==
  ASSUME NEW e \in Entry, NEW d \in DpPort \cup {NULL}
  PROVE  LET f == [e EXCEPT !.dp = d] IN
           f \in Entry /\ f.vm = e.vm /\ f.dp = d /\ f.vs = e.vs
  BY DEF Entry

LEMMA MakeIdleCopy ==
  ASSUME NEW e \in Entry
  PROVE  LET f == MakeIdleVm(e) IN
           f \in Entry /\ f.vm = e.vm /\ f.dp = NULL /\ f.vs = NULL
  BY DEF Entry, MakeIdleVm

LEMMA ActivateCopy ==
  ASSUME NEW e \in Entry, NEW s \in VsPort
  PROVE  LET f == Activate(e, s) IN
           f \in Entry /\ f.vm = e.vm /\ f.dp = e.dp /\ f.vs = s
  BY DEF Entry, Activate

(* An entry is what its fields are. *)
LEMMA EntryByFields ==
  ASSUME NEW e \in Entry
  PROVE  /\ IsIdleVmPort(e) => e = IdleVm(e.vm)
         /\ IsIdleDpPort(e) => e = IdleDp(e.dp)
         /\ IsEmpty(e) => e = IdleVm(NULL)
  BY DEF Entry, IsIdleVmPort, IsIdleDpPort, IsEmpty, IdleVm, IdleDp

-------------------------------------------------------------------------------
(* What a step that only reads leaves alone, and what a write does. *)

LEMMA ReadKeepsRows ==
  ASSUME IInv, UNCHANGED rftable
  PROVE  RowsFollowConfig' /\ LifeStep
  BY DEF IInv, RowsFollowConfig, Rows, LifeStep

LEMMA WriteFollowsConfig ==
  ASSUME TypeOK, RowsFollowConfig, NEW i \in Doc, NEW e, FollowsConfig(e),
         rftable' = [rftable EXCEPT ![i] = e]
  PROVE  RowsFollowConfig'
<1>1. \A j \in Doc : rftable'[j] = IF j = i THEN e ELSE rftable[j]
  BY DEF TypeOK
<1>2. \A j \in Rows' : j \in Doc /\ rftable'[j] # NULL
  BY DEF Rows
<1>3. \A j \in Rows' : FollowsConfig(rftable'[j])
  BY <1>1, <1>2 DEF RowsFollowConfig, Rows
<1>. QED
  BY <1>3 DEF RowsFollowConfig, FollowsConfig

LEMMA WriteOneRow ==
  ASSUME TypeOK, NEW i \in Doc, NEW e, rftable' = [rftable EXCEPT ![i] = e],
         \/ Born(rftable[i], e) \/ Associated(rftable[i], e) \/ Activated(rftable[i], e)
         \/ PutDown(rftable[i], e) \/ Race(rftable[i], e)
  PROVE  LifeStep
  BY DEF TypeOK, LifeStep

LEMMA MapsKept == IInv /\ UNCHANGED mapped => MapsFollowConfig'
  BY DEF IInv, MapsFollowConfig

LEMMA ClientKept == IInv /\ UNCHANGED <<rftable, cthread>> => ClientSafe'
  BY DEF IInv, ClientSafe

LEMMA ProxyKept == IInv /\ UNCHANGED <<rftable, pthread>> => ProxySafe'
  BY DEF IInv, ProxySafe

-------------------------------------------------------------------------------
(* The client channel's thread. *)

LEMMA RegisterVmPortStep ==
  ASSUME IInv, NEW v \in VmPort, RegisterVmPort(v)
  PROVE  IInv' /\ LifeStep
<1>1. UNCHANGED <<rftable, pthread, asked, mapped, configured>>
  BY DEF RegisterVmPort
<1>2. \/ cthread' = [IdleC EXCEPT !.pc = "insert", !.vm = v]
      \/ \E c \in Config : c[1] = v
            /\ cthread' = [IdleC EXCEPT !.pc = "lookup_dp", !.vm = v, !.dp = c[2]]
  BY DEF RegisterVmPort
<1>3. cthread' \in CState /\ ClientSafe'
  BY <1>2, ConfigPair DEF IdleC, CState, CPc, ClientSafe
<1>. QED
  BY <1>1, <1>3, ReadKeepsRows, MapsKept, ProxyKept DEF IInv, TypeOK

LEMMA VmLookupDpStep ==
  ASSUME IInv, VmLookupDp
  PROVE  IInv' /\ LifeStep
<1>1. UNCHANGED <<rftable, pthread, asked, mapped, configured>>
  BY DEF VmLookupDp
<1>2. /\ cthread \in CState /\ cthread.pc = "lookup_dp" /\ cthread.vm \in VmPort
      /\ <<cthread.vm, cthread.dp>> \in Config
  BY DEF IInv, TypeOK, ClientSafe, VmLookupDp
<1>3. ASSUME \/ cthread' = [cthread EXCEPT !.pc = "insert"]
             \/ cthread' = [cthread EXCEPT !.pc = "ask_map"]
             \/ cthread' = IdleC
      PROVE  cthread' \in CState /\ ClientSafe'
  BY <1>2, <1>3 DEF CState, CPc, IdleC, ClientSafe
<1>4. ASSUME NEW i \in RowsOfDpPort(cthread.dp), IsIdleDpPort(rftable[i]),
             cthread' = [cthread EXCEPT !.pc = "save", !.id = i,
                           !.entry = [rftable[i] EXCEPT !.vm = cthread.vm]]
      PROVE  cthread' \in CState /\ ClientSafe'
  <2>1. i \in Doc /\ rftable[i] \in Entry /\ rftable[i].dp = cthread.dp
    BY RowType, QueriesFindRows DEF IInv
  <2>2. rftable[i] = IdleDp(cthread.dp) /\ rftable[i].vs = NULL
    BY <1>4, <2>1, EntryByFields DEF IsIdleDpPort
  <2>. DEFINE e == [rftable[i] EXCEPT !.vm = cthread.vm]
  <2>3. e \in Entry /\ e.vm = cthread.vm /\ e.dp = cthread.dp /\ e.vs = NULL
    BY <1>2, <2>1, <2>2, AssociateVm
  <2>4. cthread' = [cthread EXCEPT !.pc = "save", !.id = i, !.entry = e]
    BY <1>4
  <2>. HIDE DEF e
  <2>5. cthread' \in CState
    BY <1>2, <2>1, <2>3, <2>4 DEF CState, CPc
  <2>6. /\ cthread'.pc = "save" /\ cthread'.vm = cthread.vm /\ cthread'.dp = cthread.dp
        /\ cthread'.id = i /\ cthread'.entry = e
    BY <1>2, <2>4 DEF CState
  <2>. QED
    BY <1>1, <1>2, <2>1, <2>2, <2>3, <2>5, <2>6 DEF ClientSafe
<1>5. cthread' \in CState /\ ClientSafe'
  BY <1>3, <1>4 DEF VmLookupDp
<1>. QED
  BY <1>1, <1>5, ReadKeepsRows, MapsKept, ProxyKept DEF IInv, TypeOK

LEMMA VmInsertStep ==
  ASSUME IInv, VmInsert
  PROVE  IInv' /\ LifeStep
<1>1. PICK i \in Doc : /\ rftable[i] = NULL
                       /\ rftable' = [rftable EXCEPT ![i] = IdleVm(cthread.vm)]
  BY DEF VmInsert, Insert
<1>2. /\ cthread' = IdleC /\ UNCHANGED <<pthread, asked, mapped, configured>>
      /\ cthread.vm \in VmPort /\ cthread.vm # NULL
  BY NullAssumption DEF VmInsert, IInv, ClientSafe
<1>3. /\ IdleVm(cthread.vm) \in Entry
      /\ FollowsConfig(IdleVm(cthread.vm))
      /\ Born(rftable[i], IdleVm(cthread.vm))
  BY <1>1, <1>2 DEF IdleVm, Entry, FollowsConfig, Born, IsIdleVmPort
<1>4. TypeOK'
  BY <1>1, <1>2, <1>3 DEF IInv, TypeOK, IdleC, CState, CPc
<1>5. RowsFollowConfig' /\ LifeStep
  BY <1>1, <1>3, WriteFollowsConfig, WriteOneRow DEF IInv
<1>6. ClientSafe'
  BY <1>2 DEF ClientSafe, IdleC
<1>7. ProxySafe'
  <2>1. \A j \in Doc : rftable[j] # NULL => rftable'[j] = rftable[j]
    BY <1>1 DEF IInv, TypeOK
  <2>. QED
    BY <1>2, <2>1, NullAssumption DEF IInv, ProxySafe
<1>. QED
  BY <1>2, <1>4, <1>5, <1>6, <1>7, MapsKept DEF IInv

LEMMA VmSaveStep ==
  ASSUME IInv, VmSave
  PROVE  IInv' /\ LifeStep
<1>. DEFINE i == cthread.id
            e == cthread.entry
<1>1. /\ i \in Doc /\ e \in Entry /\ rftable[i] \in Entry
      /\ e.vm # NULL /\ e.dp # NULL /\ e.vs = NULL
      /\ <<e.vm, e.dp>> \in Config
      /\ rftable[i] = IdleDp(e.dp) \/ rftable[i] = IdleVm(NULL)
  BY ConfigPair, NullAssumption, ConfigAssumption DEF VmSave, IInv, ClientSafe
<1>2. /\ rftable' = [rftable EXCEPT ![i] = e]
      /\ cthread' = [cthread EXCEPT !.pc = "ask_map"]
      /\ UNCHANGED <<pthread, asked, mapped, configured>>
  BY DEF VmSave, Save
<1>. HIDE DEF i, e
<1>3. TypeOK'
  BY <1>1, <1>2 DEF IInv, TypeOK, CState, CPc
<1>4. RowsFollowConfig' /\ LifeStep
  <2>1. Associated(rftable[i], e) \/ Race(rftable[i], e)
    BY <1>1, NullAssumption
    DEF Associated, Race, IsIdleDpPort, IsEmpty, IdleDp, IdleVm
  <2>2. FollowsConfig(e)
    BY <1>1 DEF FollowsConfig
  <2>. QED
    BY <1>1, <1>2, <2>1, <2>2, WriteFollowsConfig, WriteOneRow DEF IInv
<1>5. ClientSafe'
  BY <1>2 DEF IInv, TypeOK, CState, ClientSafe, VmSave
<1>6. ProxySafe'
  <2>1. \A j \in Doc : rftable'[j] = IF j = i THEN e ELSE rftable[j]
    BY <1>2 DEF IInv, TypeOK
  <2>2. rftable[i].vm = NULL /\ (rftable[i].dp = e.dp \/ rftable[i].dp = NULL)
    BY <1>1 DEF IdleDp, IdleVm
  <2>3. pthread.pc = "save" => pthread.id # i
    BY <2>2 DEF IInv, ProxySafe, IdleVm
  <2>4. pthread.pc = "map_save" => pthread.id # i
    BY <2>2 DEF IInv, ProxySafe
  <2>5. pthread.pc = "down_save" /\ pthread.id = i => pthread.entry.vm = NULL
    BY <2>2 DEF IInv, ProxySafe
  <2>. QED
    BY <1>1, <1>2, <2>1, <2>3, <2>4, <2>5 DEF IInv, ProxySafe
<1>. QED
  BY <1>2, <1>3, <1>4, <1>5, <1>6, MapsKept DEF IInv

LEMMA VmAskMapStep ==
  ASSUME IInv, VmAskMap
  PROVE  IInv' /\ LifeStep
<1>1. /\ asked' = [asked EXCEPT ![cthread.vm] = "map"] /\ cthread' = IdleC
      /\ UNCHANGED <<rftable, pthread, mapped, configured>>
  BY DEF VmAskMap
<1>2. TypeOK' /\ ClientSafe'
  BY <1>1 DEF IInv, TypeOK, IdleC, CState, CPc, ClientSafe
<1>. QED
  BY <1>1, <1>2, ReadKeepsRows, MapsKept, ProxyKept DEF IInv

-------------------------------------------------------------------------------
(* The proxy channel's thread: datapath port registrations. *)

LEMMA RegisterDpPortStep ==
  ASSUME IInv, NEW d \in DpPort, RegisterDpPort(d)
  PROVE  IInv' /\ LifeStep
<1>1. UNCHANGED <<rftable, cthread, asked, mapped, configured>>
  BY DEF RegisterDpPort
<1>2. \E pc \in {"configure", "lookup_vm"} :
        pthread' = [IdleP EXCEPT !.pc = pc, !.x = DpOf[d], !.dp = d]
  BY DEF RegisterDpPort
<1>3. pthread' \in PState /\ ProxySafe'
  BY <1>2, DpOfAssumption DEF IdleP, PState, PPc, ProxySafe
<1>. QED
  BY <1>1, <1>3, ReadKeepsRows, MapsKept, ClientKept DEF IInv, TypeOK

LEMMA ReconfigureDpStep ==
  ASSUME IInv, NEW x \in Dp, ReconfigureDp(x)
  PROVE  IInv' /\ LifeStep
<1>1. /\ UNCHANGED <<rftable, cthread, asked, mapped, configured>>
      /\ pthread' = [IdleP EXCEPT !.pc = "configure", !.x = x]
  BY DEF ReconfigureDp
<1>2. pthread' \in PState /\ ProxySafe'
  BY <1>1 DEF IdleP, PState, PPc, ProxySafe
<1>. QED
  BY <1>1, <1>2, ReadKeepsRows, MapsKept, ClientKept DEF IInv, TypeOK

LEMMA ConfigDpStep ==
  ASSUME IInv, ConfigDp
  PROVE  IInv' /\ LifeStep
<1>1. /\ UNCHANGED <<rftable, cthread, asked, mapped>>
      /\ pthread' = IF pthread.dp = NULL THEN IdleP
                                         ELSE [pthread EXCEPT !.pc = "lookup_vm"]
      /\ pthread.pc = "configure" /\ pthread \in PState
  BY DEF ConfigDp, IInv, TypeOK
<1>2. pthread' \in PState /\ ProxySafe'
  <2>1. CASE pthread.dp = NULL
    BY <1>1, <2>1 DEF IdleP, PState, PPc, ProxySafe
  <2>2. CASE pthread.dp # NULL
    BY <1>1, <2>2 DEF PState, PPc, ProxySafe
  <2>. QED
    BY <2>1, <2>2
<1>3. configured' \in SUBSET Dp
  BY DEF ConfigDp, IInv, TypeOK, ProxySafe
<1>. QED
  BY <1>1, <1>2, <1>3, ReadKeepsRows, MapsKept, ClientKept DEF IInv, TypeOK

LEMMA DpLookupVmStep ==
  ASSUME IInv, DpLookupVm
  PROVE  IInv' /\ LifeStep
<1>1. UNCHANGED <<rftable, cthread, asked, mapped, configured>>
  BY DEF DpLookupVm
<1>2. pthread \in PState /\ pthread.pc = "lookup_vm" /\ pthread.dp \in DpPort
  BY DEF DpLookupVm, IInv, TypeOK, ProxySafe
<1>3. ASSUME pthread' = [pthread EXCEPT !.pc = "insert"] \/ pthread' = IdleP
      PROVE  pthread' \in PState /\ ProxySafe'
  BY <1>2, <1>3 DEF PState, PPc, IdleP, ProxySafe
<1>4. ASSUME NEW c \in Config, c[2] = pthread.dp,
             NEW i \in RowsOfVm(c[1]), IsIdleVmPort(rftable[i]),
             pthread' = [pthread EXCEPT !.pc = "save", !.id = i,
                           !.entry = [rftable[i] EXCEPT !.dp = pthread.dp]]
      PROVE  pthread' \in PState /\ ProxySafe'
  <2>. DEFINE e == [rftable[i] EXCEPT !.dp = pthread.dp]
  <2>1. i \in Doc /\ rftable[i] \in Entry /\ rftable[i].vm = c[1]
    BY RowType, QueriesFindRows DEF IInv
  <2>2. rftable[i] = IdleVm(c[1]) /\ rftable[i].vs = NULL /\ c[1] # NULL
    BY <1>4, <2>1, EntryByFields DEF IsIdleVmPort
  <2>3. e \in Entry /\ e.vm = c[1] /\ e.dp = pthread.dp /\ e.vs = NULL
    BY <1>2, <2>1, <2>2, AssociateDp
  <2>4. pthread' = [pthread EXCEPT !.pc = "save", !.id = i, !.entry = e]
    BY <1>4
  <2>. HIDE DEF e
  <2>5. pthread' \in PState
    BY <1>2, <2>1, <2>3, <2>4 DEF PState, PPc
  <2>6. pthread'.pc = "save" /\ pthread'.id = i /\ pthread'.entry = e
    BY <1>2, <2>4 DEF PState
  <2>7. <<e.vm, e.dp>> \in Config /\ e.dp # NULL
    BY <1>2, <1>4, <2>3, ConfigPair, NullAssumption
  <2>. QED
    BY <1>1, <2>1, <2>2, <2>3, <2>5, <2>6, <2>7 DEF ProxySafe
<1>5. pthread' \in PState /\ ProxySafe'
  BY <1>3, <1>4 DEF DpLookupVm
<1>. QED
  BY <1>1, <1>5, ReadKeepsRows, MapsKept, ClientKept DEF IInv, TypeOK

(* A document that did not exist is nobody's copy. *)
LEMMA InsertKeepsClient ==
  ASSUME IInv, UNCHANGED cthread, NEW i \in Doc, rftable[i] = NULL,
         NEW e, rftable' = [rftable EXCEPT ![i] = e]
  PROVE  ClientSafe'
<1>1. \A j \in Doc : rftable[j] # NULL => rftable'[j] = rftable[j]
  BY DEF IInv, TypeOK
<1>. QED
  BY <1>1, NullAssumption DEF IInv, ClientSafe

LEMMA DpInsertStep ==
  ASSUME IInv, DpInsert
  PROVE  IInv' /\ LifeStep
<1>1. PICK i \in Doc : /\ rftable[i] = NULL
                       /\ rftable' = [rftable EXCEPT ![i] = IdleDp(pthread.dp)]
  BY DEF DpInsert, Insert
<1>2. /\ pthread' = IdleP /\ UNCHANGED <<cthread, asked, mapped, configured>>
      /\ pthread.dp \in DpPort /\ pthread.dp # NULL
  BY NullAssumption DEF DpInsert, IInv, ProxySafe
<1>3. /\ IdleDp(pthread.dp) \in Entry
      /\ FollowsConfig(IdleDp(pthread.dp))
      /\ Born(rftable[i], IdleDp(pthread.dp))
  BY <1>1, <1>2 DEF IdleDp, Entry, FollowsConfig, Born, IsIdleDpPort
<1>4. TypeOK'
  BY <1>1, <1>2, <1>3 DEF IInv, TypeOK, IdleP, PState, PPc
<1>5. RowsFollowConfig' /\ LifeStep
  BY <1>1, <1>3, WriteFollowsConfig, WriteOneRow DEF IInv
<1>6. ProxySafe'
  BY <1>2 DEF ProxySafe, IdleP
<1>. QED
  BY <1>1, <1>2, <1>4, <1>5, <1>6, MapsKept, InsertKeepsClient DEF IInv

(* A save by the proxy thread leaves the client thread's document as an    *)
(* idle datapath port or empty.                                            *)
LEMMA SaveKeepsClient ==
  ASSUME IInv, UNCHANGED cthread, NEW i \in Doc, NEW e \in Entry,
         rftable' = [rftable EXCEPT ![i] = e],
         \/ rftable[i].vm # NULL
         \/ rftable[i].dp # NULL /\ e = IdleVm(NULL)
  PROVE  ClientSafe'
<1>1. \A j \in Doc : rftable'[j] = IF j = i THEN e ELSE rftable[j]
  BY DEF IInv, TypeOK
<1>2. cthread.pc = "save" /\ cthread.id = i => e = IdleVm(NULL)
  BY DEF IInv, ClientSafe, IdleDp, IdleVm
<1>. QED
  BY <1>1, <1>2 DEF IInv, ClientSafe

LEMMA DpSaveStep ==
  ASSUME IInv, DpSave
  PROVE  IInv' /\ LifeStep
<1>. DEFINE i == pthread.id
            e == pthread.entry
<1>1. /\ i \in Doc /\ e \in Entry
      /\ e.vm # NULL /\ e.dp # NULL /\ e.vs = NULL
      /\ <<e.vm, e.dp>> \in Config
      /\ rftable[i] \in Entry /\ rftable[i] = IdleVm(e.vm)
  BY DEF DpSave, IInv, ProxySafe
<1>2. /\ rftable' = [rftable EXCEPT ![i] = e]
      /\ pthread' = [pthread EXCEPT !.pc = "ask_map"]
      /\ UNCHANGED <<cthread, asked, mapped, configured>>
  BY DEF DpSave, Save
<1>3. pthread' \in PState /\ ProxySafe'
  BY <1>1, <1>2 DEF IInv, TypeOK, PState, PPc, ProxySafe
<1>. HIDE DEF i, e
<1>4. TypeOK'
  BY <1>1, <1>2, <1>3 DEF IInv, TypeOK
<1>5. RowsFollowConfig' /\ LifeStep
  <2>1. Associated(rftable[i], e)
    BY <1>1, NullAssumption DEF Associated, IsIdleVmPort, IdleVm
  <2>2. FollowsConfig(e)
    BY <1>1 DEF FollowsConfig
  <2>. QED
    BY <1>1, <1>2, <2>1, <2>2, WriteFollowsConfig, WriteOneRow DEF IInv
<1>6. ClientSafe'
  <2>1. rftable[i].vm # NULL
    BY <1>1 DEF IdleVm
  <2>. QED
    BY <1>1, <1>2, <2>1, SaveKeepsClient
<1>. QED
  BY <1>2, <1>3, <1>4, <1>5, <1>6, MapsKept DEF IInv

LEMMA DpAskMapStep ==
  ASSUME IInv, DpAskMap
  PROVE  IInv' /\ LifeStep
<1>1. /\ asked' = [asked EXCEPT ![pthread.entry.vm] = "map"] /\ pthread' = IdleP
      /\ UNCHANGED <<rftable, cthread, mapped, configured>>
  BY DEF DpAskMap
<1>2. TypeOK' /\ ProxySafe'
  BY <1>1 DEF IInv, TypeOK, IdleP, PState, PPc, ProxySafe
<1>. QED
  BY <1>1, <1>2, ReadKeepsRows, MapsKept, ClientKept DEF IInv

-------------------------------------------------------------------------------
(* The proxy channel's thread: datapath downs. *)

LEMMA SetDpDownStep ==
  ASSUME IInv, NEW x \in Dp, SetDpDown(x)
  PROVE  IInv' /\ LifeStep
<1>. DEFINE T == {<<i, rftable[i].dp>> : i \in RowsOfDp(x)}
<1>1. UNCHANGED <<rftable, cthread, asked, mapped>> /\ configured' = configured \ {x}
  BY DEF SetDpDown
<1>2. pthread' = [IdleP EXCEPT !.pc = "down", !.x = x, !.todo = T]
  BY DEF SetDpDown
<1>3. T \subseteq Doc \X DpPort
  BY RowType, QueriesFindRows DEF IInv, Entry
<1>. HIDE DEF T
<1>4. pthread' \in PState /\ ProxySafe'
  BY <1>2, <1>3 DEF IdleP, PState, PPc, ProxySafe
<1>. QED
  BY <1>1, <1>4, ReadKeepsRows, MapsKept, ClientKept DEF IInv, TypeOK

LEMMA DownLookupStep ==
  ASSUME IInv, DownLookup
  PROVE  IInv' /\ LifeStep
<1>1. UNCHANGED <<rftable, cthread, asked, mapped, configured>>
  BY DEF DownLookup
<1>2. pthread \in PState /\ pthread.pc = "down"
  BY DEF DownLookup, IInv, TypeOK
<1>3. ASSUME pthread' = IdleP
      PROVE  pthread' \in PState /\ ProxySafe'
  BY <1>3 DEF IdleP, PState, PPc, ProxySafe
<1>4. ASSUME NEW t, pthread' = [pthread EXCEPT !.todo = @ \ {t}]
      PROVE  pthread' \in PState /\ ProxySafe'
  BY <1>2, <1>4 DEF PState, PPc, ProxySafe
<1>5. ASSUME NEW t \in pthread.todo, NEW i \in RowsOfDpPort(t[2]),
             pthread' = [pthread EXCEPT !.pc = "down_save", !.id = i,
                           !.entry = MakeIdleVm(rftable[i]), !.todo = @ \ {t}]
      PROVE  pthread' \in PState /\ ProxySafe'
  <2>. DEFINE e == MakeIdleVm(rftable[i])
  <2>1. t[2] \in DpPort /\ t[2] # NULL
    BY <1>2, NullAssumption DEF PState
  <2>2. i \in Rows /\ i \in Doc /\ rftable[i] \in Entry /\ rftable[i].dp # NULL
    BY <2>1, RowType, QueriesFindRows DEF IInv
  <2>3. e \in Entry /\ e.vm = rftable[i].vm /\ e.dp = NULL /\ e.vs = NULL
    BY <2>2, MakeIdleCopy
  <2>4. rftable[i].vm = NULL => rftable[i].vs = NULL
    BY <2>2 DEF IInv, RowsFollowConfig, FollowsConfig
  <2>5. pthread' = [pthread EXCEPT !.pc = "down_save", !.id = i, !.entry = e,
                      !.todo = @ \ {t}]
    BY <1>5
  <2>. HIDE DEF e
  <2>6. pthread' \in PState
    BY <1>2, <2>2, <2>3, <2>5 DEF PState, PPc
  <2>7. pthread'.pc = "down_save" /\ pthread'.id = i /\ pthread'.entry = e
    BY <1>2, <2>5 DEF PState
  <2>. QED
    BY <1>1, <2>2, <2>3, <2>4, <2>6, <2>7 DEF ProxySafe
<1>6. pthread' \in PState /\ ProxySafe'
  BY <1>3, <1>4, <1>5 DEF DownLookup
<1>. QED
  BY <1>1, <1>6, ReadKeepsRows, MapsKept, ClientKept DEF IInv, TypeOK

LEMMA DownSaveStep ==
  ASSUME IInv, DownSave
  PROVE  IInv' /\ LifeStep
<1>. DEFINE i == pthread.id
            e == pthread.entry
<1>1. /\ i \in Doc /\ e \in Entry /\ e.dp = NULL /\ e.vs = NULL
      /\ rftable[i] \in Entry /\ rftable[i].dp # NULL
      /\ IF e.vm # NULL THEN rftable[i].vm = e.vm ELSE rftable[i].vs = NULL
  BY DEF DownSave, IInv, ProxySafe
<1>2. /\ rftable' = [rftable EXCEPT ![i] = e]
      /\ UNCHANGED <<cthread, asked, mapped, configured>>
  BY DEF DownSave, Save
<1>3. pthread' \in PState /\ ProxySafe'
  BY <1>1 DEF DownSave, IInv, TypeOK, PState, PPc, ProxySafe
<1>. HIDE DEF i, e
<1>4. TypeOK'
  BY <1>1, <1>2, <1>3 DEF IInv, TypeOK
<1>5. e.vm = NULL => e = IdleVm(NULL)
  BY <1>1, EntryByFields DEF IsEmpty
<1>6. RowsFollowConfig' /\ LifeStep
  <2>1. PutDown(rftable[i], e) \/ Race(rftable[i], e)
    BY <1>1, NullAssumption DEF PutDown, Race, IsEmpty
  <2>2. FollowsConfig(e)
    BY <1>1 DEF FollowsConfig
  <2>. QED
    BY <1>1, <1>2, <2>1, <2>2, WriteFollowsConfig, WriteOneRow DEF IInv
<1>7. ClientSafe'
  BY <1>1, <1>2, <1>5, SaveKeepsClient
<1>. QED
  BY <1>2, <1>3, <1>4, <1>6, <1>7, MapsKept DEF IInv

LEMMA DownResetStep ==
  ASSUME IInv, DownReset
  PROVE  IInv' /\ LifeStep
<1>1. /\ asked' = [asked EXCEPT ![pthread.entry.vm] = "reset"]
      /\ pthread' = [pthread EXCEPT !.pc = "down", !.id = NULL, !.entry = NULL]
      /\ UNCHANGED <<rftable, cthread, mapped, configured>>
  BY DEF DownReset
<1>2. TypeOK' /\ ProxySafe'
  BY <1>1 DEF IInv, TypeOK, PState, PPc, ProxySafe
<1>. QED
  BY <1>1, <1>2, ReadKeepsRows, MapsKept, ClientKept DEF IInv

-------------------------------------------------------------------------------
(* The proxy channel's thread: mapping packets. *)

LEMMA MapPortStep ==
  ASSUME IInv, NEW v \in VmPort, NEW s \in VsPort, MapPort(v, s)
  PROVE  IInv' /\ LifeStep
<1>1. UNCHANGED <<rftable, cthread, asked, mapped, configured>>
  BY DEF MapPort
<1>2. PICK i \in RowsOfVm(v) :
        /\ IsAssociated(rftable[i]) \/ IsActive(rftable[i])
        /\ pthread' = [IdleP EXCEPT !.pc = "map_save", !.id = i,
                         !.entry = Activate(rftable[i], s)]
  BY DEF MapPort
<1>3. /\ i \in Rows /\ i \in Doc /\ rftable[i] \in Entry /\ rftable[i].vm = v
      /\ v # NULL /\ s # NULL
  BY RowType, QueriesFindRows, NullAssumption DEF IInv
<1>4. rftable[i].dp # NULL
  BY <1>2, <1>3 DEF IInv, RowsFollowConfig, FollowsConfig, IsAssociated, IsActive,
                    IsIdleVmPort
<1>. DEFINE e == Activate(rftable[i], s)
<1>5. e \in Entry /\ e.vm = v /\ e.dp = rftable[i].dp /\ e.vs = s
  BY <1>3, ActivateCopy
<1>6. pthread' = [IdleP EXCEPT !.pc = "map_save", !.id = i, !.entry = e]
  BY <1>2
<1>. HIDE DEF e
<1>7. pthread' \in PState
  BY <1>3, <1>5, <1>6 DEF IdleP, PState, PPc
<1>8. pthread'.pc = "map_save" /\ pthread'.id = i /\ pthread'.entry = e
  BY <1>6 DEF IdleP
<1>9. ProxySafe'
  BY <1>1, <1>3, <1>4, <1>5, <1>8 DEF ProxySafe
<1>. QED
  BY <1>1, <1>7, <1>9, ReadKeepsRows, MapsKept, ClientKept DEF IInv, TypeOK

LEMMA MapSaveStep ==
  ASSUME IInv, MapSave
  PROVE  IInv' /\ LifeStep
<1>. DEFINE i == pthread.id
            e == pthread.entry
<1>1. /\ i \in Doc /\ e \in Entry /\ e.vm # NULL /\ e.dp # NULL /\ e.vs # NULL
      /\ rftable[i] \in Entry /\ rftable[i].vm = e.vm /\ rftable[i].dp = e.dp
  BY DEF MapSave, IInv, ProxySafe
<1>2. /\ rftable' = [rftable EXCEPT ![i] = e]
      /\ pthread' = [pthread EXCEPT !.pc = "map_send"]
      /\ UNCHANGED <<cthread, asked, mapped, configured>>
  BY DEF MapSave, Save
<1>3. <<e.vm, e.dp>> \in Config
  BY <1>1, NullAssumption DEF IInv, RowsFollowConfig, Rows, FollowsConfig
<1>4. pthread' \in PState /\ ProxySafe'
  BY <1>1, <1>2, <1>3 DEF IInv, TypeOK, PState, PPc, ProxySafe
<1>. HIDE DEF i, e
<1>5. TypeOK'
  BY <1>1, <1>2, <1>4 DEF IInv, TypeOK
<1>6. RowsFollowConfig' /\ LifeStep
  <2>1. Activated(rftable[i], e)
    BY <1>1, NullAssumption DEF Activated
  <2>2. FollowsConfig(e)
    BY <1>1, <1>3 DEF FollowsConfig
  <2>. QED
    BY <1>1, <1>2, <2>1, <2>2, WriteFollowsConfig, WriteOneRow DEF IInv
<1>7. ClientSafe'
  BY <1>1, <1>2, SaveKeepsClient
<1>. QED
  BY <1>2, <1>4, <1>5, <1>6, <1>7, MapsKept DEF IInv

LEMMA MapSendStep ==
  ASSUME IInv, MapSend
  PROVE  IInv' /\ LifeStep
<1>. DEFINE e == pthread.entry
<1>1. e \in Entry /\ <<e.vm, e.dp>> \in Config /\ e.vm \in VmPort /\ e.dp \in DpPort
  BY ConfigAssumption DEF MapSend, IInv, ProxySafe
<1>2. /\ mapped' = [mapped EXCEPT ![e.dp] = e.vs] /\ pthread' = IdleP
      /\ UNCHANGED <<rftable, cthread, asked, configured>>
  BY DEF MapSend
<1>. HIDE DEF e
<1>3. mapped' \in [DpPort -> VsPort \cup {NULL}]
  BY <1>1, <1>2 DEF IInv, TypeOK, Entry
<1>4. TypeOK' /\ ProxySafe'
  BY <1>2, <1>3 DEF IInv, TypeOK, IdleP, PState, PPc, ProxySafe
<1>5. MapsFollowConfig'
  BY <1>1, <1>2 DEF IInv, TypeOK, MapsFollowConfig
<1>. QED
  BY <1>2, <1>4, <1>5, ReadKeepsRows, ClientKept DEF IInv

-------------------------------------------------------------------------------
(* The theorems. *)

LEMMA InitIInv == Init => IInv
  BY NullAssumption DEF Init, IInv, TypeOK, CState, CPc, PState, PPc, IdleC, IdleP,
     RowsFollowConfig, Rows, MapsFollowConfig, ClientSafe, ProxySafe

LEMMA NextIInv ==
  ASSUME IInv, [Next]_vars
  PROVE  IInv' /\ LifeStep
<1>1. CASE CNext
  BY <1>1, RegisterVmPortStep, VmLookupDpStep, VmInsertStep, VmSaveStep, VmAskMapStep
  DEF CNext
<1>2. CASE PNext
  BY <1>2, RegisterDpPortStep, ReconfigureDpStep, ConfigDpStep, DpLookupVmStep,
     DpInsertStep, DpSaveStep, DpAskMapStep, SetDpDownStep, DownLookupStep,
     DownSaveStep, DownResetStep, MapPortStep, MapSaveStep, MapSendStep
  DEF PNext
<1>3. CASE Restart
  <2>1. UNCHANGED <<rftable, asked, mapped, configured>>
    BY <1>3 DEF Restart
  <2>2. /\ cthread' \in CState /\ ClientSafe'
        /\ pthread' \in PState /\ ProxySafe'
    BY <1>3 DEF Restart, IdleC, IdleP, CState, CPc, PState, PPc, ClientSafe, ProxySafe
  <2>. QED
    BY <2>1, <2>2, ReadKeepsRows, MapsKept DEF IInv, TypeOK
<1>4. CASE UNCHANGED vars
  <2>1. UNCHANGED <<rftable, cthread, pthread, asked, mapped, configured>>
    BY <1>4 DEF vars
  <2>. QED
    BY <2>1, ReadKeepsRows, MapsKept, ClientKept, ProxyKept DEF IInv, TypeOK
<1>. QED
  BY <1>1, <1>2, <1>3, <1>4 DEF Next

(* The inductive invariant holds in every reachable state. *)
THEOREM Inductive == Spec => []IInv
<1>1. IInv /\ [Next]_vars => IInv'
  BY NextIInv
<1>. QED
  BY InitIInv, <1>1, PTL DEF Spec

(* Every state the program reaches, whatever its threads do, is of the     *)
(* types its code gives it (rfserver.py, and RFEntry in rftable.py).       *)
THEOREM TypeCorrect == Spec => []TypeOK
<1>1. IInv => TypeOK
  BY DEF IInv
<1>. QED
  BY Inductive, <1>1, PTL

(* Whatever the interleaving and however stale the copies the handlers     *)
(* save, the table only associates ports the configuration file pairs, and *)
(* rfproxy is only told to map such ports.                                 *)
THEOREM FollowsConfiguration == Spec => []AssociationsFollowConfig
<1>1. IInv => AssociationsFollowConfig
  BY DEF IInv, RowsFollowConfig, MapsFollowConfig, AssociationsFollowConfig
<1>. QED
  BY Inductive, <1>1, PTL

(* Every document moves along the life of an entry, except for the two     *)
(* racing steps: an active entry is never rewired and never loses its VM   *)
(* port (every set_entry of rfserver.py).                                  *)
THEOREM LivesOnlyAsDescribed == Spec => Lifecycle
<1>1. IInv /\ [Next]_vars => [LifeStep]_vars
  BY NextIInv
<1>. QED
  BY Inductive, <1>1, PTL DEF Spec, Lifecycle
=====
