--------------------------- MODULE AssociationProofs ---------------------------
(***************************************************************************)
(* Proofs about RFServer when its handlers do not overlap, continued: the  *)
(* table implements PortAssociation, and what clients and datapaths were   *)
(* told agrees with it.                                                    *)
(***************************************************************************)
EXTENDS SerialProofs

HasDp(v) == \E i \in RowsOfVm(v) : rftable[i].dp # NULL

(* A port asked to map itself is associated, or about to be asked not to;  *)
(* an associated port was asked to, or is about to be, or its datapath is  *)
(* being put down.                                                         *)
AskedAgreesInv ==
    /\ cthread.pc = "ask_map" => HasDp(cthread.vm)
    /\ pthread.pc = "ask_map" => HasDp(pthread.entry.vm)
    /\ pthread.pc = "down_reset" =>
         /\ pthread.entry.vm \in VmPort
         /\ \A c \in Config : c[1] = pthread.entry.vm => DpOf[c[2]] = pthread.x
    /\ \A v \in VmPort :
         /\ asked[v] = "map" => HasDp(v) \/ (pthread.pc = "down_reset" /\ pthread.entry.vm = v)
         /\ HasDp(v) => \/ asked[v] = "map"
                        \/ cthread.pc = "ask_map" /\ cthread.vm = v
                        \/ pthread.pc = "ask_map" /\ pthread.entry.vm = v
                        \/ Going /\ \A c \in Config : c[1] = v => DpOf[c[2]] = pthread.x

(* A datapath has been sent its default flows, or it has one port in the   *)
(* table at most, or it is being put down.                                 *)
OnePortOf(x) == \A i, j \in RowsOfDp(x) : rftable[i].dp = rftable[j].dp

ConfiguredInv ==
    /\ \A x \in Dp : x \in configured \/ OnePortOf(x) \/ (Going /\ pthread.x = x)
    /\ pthread.pc = "configure" /\ pthread.dp # NULL => pthread.x = DpOf[pthread.dp]
    /\ pthread.pc = "save" => pthread.entry.dp = pthread.dp
    /\ pthread.pc \in {"lookup_vm", "insert", "save"} =>
         DpOf[pthread.dp] \in configured \/ RowsOfDp(DpOf[pthread.dp]) = {}

AgreeInv == SerialInv /\ AskedAgreesInv /\ ConfiguredInv

-------------------------------------------------------------------------------
(* Reads and writes. *)

(* The configuration gives a VM port one datapath port at most, and the    *)
(* other way round.                                                        *)
LEMMA OnePartner ==
  ASSUME OneToOne, NEW v, NEW d, <<v, d>> \in Config
  PROVE  /\ \A c \in Config : c[1] = v => c[2] = d
         /\ \A c \in Config : c[2] = d => c[1] = v
         /\ v \in VmPort /\ d \in DpPort
  BY ConfigAssumption DEF OneToOne

LEMMA SameQueries ==
  ASSUME UNCHANGED rftable
  PROVE  /\ \A v : (HasDp(v)' <=> HasDp(v)) /\ RowsOfVm(v)' = RowsOfVm(v)
         /\ \A d : RowsOfDpPort(d)' = RowsOfDpPort(d)
         /\ \A x : RowsOfDp(x)' = RowsOfDp(x) /\ (OnePortOf(x)' <=> OnePortOf(x))
  BY DEF HasDp, RowsOfVm, RowsOfDpPort, RowsOfDp, OnePortOf, Rows

LEMMA AskedRead ==
  ASSUME AskedAgreesInv, UNCHANGED <<rftable, asked>>,
         \/ UNCHANGED cthread
         \/ /\ cthread.pc # "ask_map"
            /\ cthread'.pc = "ask_map" => HasDp(cthread'.vm),
         \/ UNCHANGED pthread
         \/ /\ pthread.pc \notin {"ask_map", "down_reset"}
            /\ pthread'.pc \notin {"ask_map", "down_reset"}
            /\ Going => Going' /\ pthread'.x = pthread.x
  PROVE  AskedAgreesInv'
<1>1. \A v : HasDp(v)' <=> HasDp(v)
  BY SameQueries
<1>2. CASE UNCHANGED pthread
  BY <1>1, <1>2 DEF AskedAgreesInv, Going
<1>3. CASE /\ pthread.pc \notin {"ask_map", "down_reset"}
           /\ pthread'.pc \notin {"ask_map", "down_reset"}
           /\ Going => Going' /\ pthread'.x = pthread.x
  BY <1>1, <1>3 DEF AskedAgreesInv
<1>. QED
  BY <1>2, <1>3

LEMMA ConfiguredRead ==
  ASSUME ConfiguredInv, UNCHANGED <<rftable, configured>>,
         Going => Going' /\ pthread'.x = pthread.x,
         \/ UNCHANGED pthread
         \/ pthread'.pc \notin {"configure", "lookup_vm", "insert", "save"}
  PROVE  ConfiguredInv'
  BY SameQueries DEF ConfiguredInv

LEMMA OneRowWritten ==
  ASSUME TypeOK, NEW i \in Doc, NEW e \in Entry, rftable' = [rftable EXCEPT ![i] = e]
  PROVE  /\ \A j \in Doc : rftable'[j] = IF j = i THEN e ELSE rftable[j]
         /\ Rows' = Rows \cup {i}
         /\ e # NULL
  BY NullAssumption DEF TypeOK, Rows

(* A write that gives no document a datapath port it did not hold.         *)
LEMMA ConfiguredWrite ==
  ASSUME TypeOK, ConfiguredInv, NEW i \in Doc, NEW e \in Entry,
         rftable' = [rftable EXCEPT ![i] = e], UNCHANGED configured,
         e.dp # NULL => rftable[i] # NULL /\ rftable[i].dp = e.dp,
         Going => Going' /\ pthread'.x = pthread.x,
         pthread'.pc \notin {"configure", "lookup_vm", "insert", "save"}
  PROVE  ConfiguredInv'
<1>1. \A j \in Rows' : rftable'[j].dp # NULL => j \in Rows /\ rftable[j].dp = rftable'[j].dp
  BY OneRowWritten DEF Rows
<1>2. \A x : OnePortOf(x) => OnePortOf(x)'
  BY <1>1 DEF OnePortOf, RowsOfDp
<1>. QED
  BY <1>2 DEF ConfiguredInv

(* Who is associated after a write.                                        *)
LEMMA HasDpWritten ==
  ASSUME TypeOK, NEW i \in Doc, NEW e \in Entry, rftable' = [rftable EXCEPT ![i] = e],
         NEW v \in VmPort
  PROVE  HasDp(v)' <=> \/ e.vm = v /\ e.dp # NULL
                       \/ \E j \in RowsOfVm(v) \ {i} : rftable[j].dp # NULL
<1>1. \A j \in Doc : rftable'[j] = IF j = i THEN e ELSE rftable[j]
  BY OneRowWritten
<1>2. e # NULL
  BY NullAssumption
<1>. QED
  BY <1>1, <1>2 DEF HasDp, RowsOfVm, Rows

(* A write that changes for nobody whether it is associated.               *)
LEMMA AskedWrite ==
  ASSUME TypeOK, AskedAgreesInv, NEW i \in Doc, NEW e \in Entry,
         rftable' = [rftable EXCEPT ![i] = e],
         \A v \in VmPort : e.vm = v /\ e.dp # NULL
                             <=> rftable[i] # NULL /\ rftable[i].vm = v /\ rftable[i].dp # NULL
  PROVE  \A v \in VmPort : HasDp(v)' <=> HasDp(v)
<1>1. \A v \in VmPort : HasDp(v) <=>
        \/ rftable[i] # NULL /\ rftable[i].vm = v /\ rftable[i].dp # NULL
        \/ \E j \in RowsOfVm(v) \ {i} : rftable[j].dp # NULL
  BY DEF HasDp, RowsOfVm, Rows
<1>. QED
  BY <1>1, HasDpWritten

-------------------------------------------------------------------------------
(* The client channel's thread. *)

LEMMA RegisterVmPortAgrees ==
  ASSUME AgreeInv, NEW v \in VmPort, RegisterVmPort(v)
  PROVE  AskedAgreesInv' /\ ConfiguredInv'
<1>1. /\ UNCHANGED <<rftable, pthread, asked, configured>>
      /\ cthread.pc = "idle" /\ cthread'.pc # "ask_map"
  BY DEF RegisterVmPort, IdleC
<1>. QED
  BY <1>1, AskedRead, ConfiguredRead DEF AgreeInv, Going

LEMMA VmLookupDpAgrees ==
  ASSUME OneToOne, AgreeInv, VmLookupDp
  PROVE  AskedAgreesInv' /\ ConfiguredInv'
<1>1. /\ UNCHANGED <<rftable, pthread, asked, configured>>
      /\ cthread.pc = "lookup_dp" /\ cthread \in CState
      /\ <<cthread.vm, cthread.dp>> \in Config
  BY DEF VmLookupDp, AgreeInv, SerialInv, IInv, TypeOK, ClientSafe
<1>2. ASSUME cthread'.pc = "ask_map"
      PROVE  HasDp(cthread'.vm)
  <2>1. PICK i \in RowsOfDpPort(cthread.dp) :
           IsActive(rftable[i]) /\ cthread' = [cthread EXCEPT !.pc = "ask_map"]
    <3>1. \A i, e : cthread' = [cthread EXCEPT !.pc = "save", !.id = i, !.entry = e]
                      => cthread'.pc # "ask_map"
      BY <1>1 DEF CState
    <3>2. /\ cthread' # IdleC
          /\ cthread' # [cthread EXCEPT !.pc = "insert"]
      BY <1>1, <1>2 DEF IdleC, CState
    <3>. QED
      BY <1>2, <3>1, <3>2 DEF VmLookupDp
  <2>2. cthread'.vm = cthread.vm
    BY <1>1, <2>1 DEF CState
  <2>3. /\ i \in Rows /\ rftable[i].dp = cthread.dp /\ rftable[i].vs # NULL
        /\ FollowsConfig(rftable[i])
    BY <2>1, QueriesFindRows DEF IsActive, AgreeInv, SerialInv, IInv, RowsFollowConfig
  <2>4. /\ rftable[i].vm = cthread.vm
        /\ rftable[i].dp # NULL
    BY <1>1, <2>3, OnePartner DEF FollowsConfig
  <2>. QED
    BY <2>2, <2>3, <2>4 DEF HasDp, RowsOfVm
<1>. QED
  BY <1>1, <1>2, AskedRead, ConfiguredRead DEF AgreeInv, Going

LEMMA VmInsertAgrees ==
  ASSUME AgreeInv, VmInsert
  PROVE  AskedAgreesInv' /\ ConfiguredInv'
<1>. DEFINE e == IdleVm(cthread.vm)
<1>1. PICK i \in Doc : rftable[i] = NULL /\ rftable' = [rftable EXCEPT ![i] = e]
  BY DEF VmInsert, Insert
<1>2. /\ cthread.pc = "insert" /\ cthread' = IdleC /\ UNCHANGED <<pthread, asked, configured>>
      /\ cthread.vm \in VmPort /\ pthread.pc = "idle" /\ TypeOK
  BY DEF VmInsert, AgreeInv, SerialInv, IInv, ClientSafe, NoOverlap
<1>3. e \in Entry /\ e.dp = NULL
  BY <1>2, IdleType DEF IdleVm
<1>. HIDE DEF e
<1>4. \A v \in VmPort : HasDp(v)' <=> HasDp(v)
  BY <1>1, <1>2, <1>3, AskedWrite DEF AgreeInv
<1>5. AskedAgreesInv'
  BY <1>2, <1>4 DEF AgreeInv, AskedAgreesInv, IdleC, Going
<1>6. ConfiguredInv'
  BY <1>1, <1>2, <1>3, ConfiguredWrite DEF AgreeInv, Going
<1>. QED
  BY <1>5, <1>6

LEMMA VmSaveAgrees ==
  ASSUME AgreeInv, VmSave
  PROVE  AskedAgreesInv' /\ ConfiguredInv'
<1>. DEFINE i == cthread.id
            e == cthread.entry
<1>1. /\ i \in Doc /\ e \in Entry /\ e.vm = cthread.vm /\ e.vm \in VmPort
      /\ e.dp # NULL /\ rftable[i] \in Entry /\ rftable[i] = IdleDp(e.dp)
  BY ConfigPair, NullAssumption, ConfigAssumption
  DEF VmSave, AgreeInv, SerialInv, IInv, ClientSafe, ClientCurrent
<1>2. /\ rftable' = [rftable EXCEPT ![i] = e]
      /\ cthread.pc = "save" /\ cthread' = [cthread EXCEPT !.pc = "ask_map"] /\ cthread \in CState
      /\ UNCHANGED <<pthread, asked, configured>> /\ pthread.pc = "idle" /\ TypeOK
  BY DEF VmSave, Save, AgreeInv, SerialInv, IInv, TypeOK, NoOverlap
<1>. HIDE DEF i, e
<1>3. cthread'.pc = "ask_map" /\ cthread'.vm = e.vm
  BY <1>1, <1>2 DEF CState
<1>4. rftable[i].vm = NULL /\ rftable[i].dp = e.dp /\ rftable[i] # NULL
  BY <1>1, NullAssumption DEF IdleDp
<1>5. \A v \in VmPort : HasDp(v)' <=> v = e.vm \/ HasDp(v)
  <2>1. \A v \in VmPort : i \notin RowsOfVm(v)
    BY <1>4, NullAssumption DEF RowsOfVm
  <2>. QED
    BY <1>1, <1>2, <2>1, HasDpWritten DEF HasDp
<1>6. AskedAgreesInv'
  BY <1>1, <1>2, <1>3, <1>5 DEF AgreeInv, AskedAgreesInv, Going
<1>7. ConfiguredInv'
  BY <1>1, <1>2, <1>4, ConfiguredWrite DEF AgreeInv, Going
<1>. QED
  BY <1>6, <1>7

LEMMA VmAskMapAgrees ==
  ASSUME AgreeInv, VmAskMap
  PROVE  AskedAgreesInv' /\ ConfiguredInv'
<1>1. /\ UNCHANGED <<rftable, pthread, configured>> /\ pthread.pc = "idle"
      /\ cthread.pc = "ask_map" /\ cthread' = IdleC
      /\ asked' = [asked EXCEPT ![cthread.vm] = "map"]
      /\ asked \in [VmPort -> {"none", "map", "reset"}]
  BY DEF VmAskMap, AgreeInv, SerialInv, IInv, TypeOK, NoOverlap
<1>2. \A v \in VmPort : asked'[v] = IF v = cthread.vm THEN "map" ELSE asked[v]
  BY <1>1
<1>3. AskedAgreesInv'
  BY <1>1, <1>2, SameQueries DEF AgreeInv, AskedAgreesInv, IdleC, Going
<1>. QED
  BY <1>1, <1>3, ConfiguredRead DEF AgreeInv, Going

-------------------------------------------------------------------------------
(* The proxy channel's thread: registrations. *)

LEMMA RegisterDpPortAgrees ==
  ASSUME AgreeInv, NEW d \in DpPort, RegisterDpPort(d)
  PROVE  AskedAgreesInv' /\ ConfiguredInv'
<1>1. /\ UNCHANGED <<rftable, cthread, asked, configured>> /\ pthread.pc = "idle"
      /\ pthread' = [IdleP EXCEPT !.x = DpOf[d], !.dp = d,
                       !.pc = IF RowsOfDp(DpOf[d]) # {} THEN "configure" ELSE "lookup_vm"]
  BY DEF RegisterDpPort
<1>2. /\ pthread'.x = DpOf[d] /\ pthread'.dp = d
      /\ pthread'.pc = IF RowsOfDp(DpOf[d]) # {} THEN "configure" ELSE "lookup_vm"
  BY <1>1 DEF IdleP
<1>3. AskedAgreesInv'
  BY <1>1, <1>2, AskedRead DEF AgreeInv, Going
<1>4. ConfiguredInv'
  BY <1>1, <1>2, SameQueries DEF AgreeInv, ConfiguredInv, Going
<1>. QED
  BY <1>3, <1>4

LEMMA ReconfigureDpAgrees ==
  ASSUME AgreeInv, NEW x \in Dp, ReconfigureDp(x)
  PROVE  AskedAgreesInv' /\ ConfiguredInv'
<1>1. /\ UNCHANGED <<rftable, cthread, asked, configured>> /\ pthread.pc = "idle"
      /\ pthread'.pc = "configure" /\ pthread'.dp = NULL
  BY DEF ReconfigureDp, IdleP
<1>2. AskedAgreesInv'
  BY <1>1, AskedRead DEF AgreeInv, Going
<1>3. ConfiguredInv'
  BY <1>1, SameQueries DEF AgreeInv, ConfiguredInv, Going
<1>. QED
  BY <1>2, <1>3

LEMMA ConfigDpAgrees ==
  ASSUME AgreeInv, ConfigDp
  PROVE  AskedAgreesInv' /\ ConfiguredInv'
<1>1. /\ UNCHANGED <<rftable, cthread, asked>>
      /\ pthread.pc = "configure" /\ pthread \in PState
      /\ configured' = configured \cup {pthread.x}
      /\ pthread' = IF pthread.dp = NULL THEN IdleP
                                         ELSE [pthread EXCEPT !.pc = "lookup_vm"]
  BY DEF ConfigDp, AgreeInv, SerialInv, IInv, TypeOK
<1>2. \/ pthread'.pc = "idle"
      \/ /\ pthread'.pc = "lookup_vm" /\ pthread'.dp = pthread.dp
         /\ pthread.x = DpOf[pthread.dp]
  BY <1>1 DEF AgreeInv, ConfiguredInv, IdleP, PState
<1>3. AskedAgreesInv'
  BY <1>1, <1>2, AskedRead DEF AgreeInv, Going
<1>4. ConfiguredInv'
  BY <1>1, <1>2, SameQueries DEF AgreeInv, ConfiguredInv, Going
<1>. QED
  BY <1>3, <1>4

LEMMA DpLookupVmAgrees ==
  ASSUME AgreeInv, DpLookupVm
  PROVE  AskedAgreesInv' /\ ConfiguredInv'
<1>1. /\ UNCHANGED <<rftable, cthread, asked, configured>>
      /\ pthread.pc = "lookup_vm" /\ pthread \in PState
  BY DEF DpLookupVm, AgreeInv, SerialInv, IInv, TypeOK
<1>2. \/ pthread'.pc = "idle"
      \/ pthread'.pc = "insert" /\ pthread'.dp = pthread.dp
      \/ /\ pthread'.pc = "save" /\ pthread'.dp = pthread.dp
         /\ pthread'.entry.dp = pthread.dp
  <2>1. CASE pthread' = IdleP
    BY <2>1 DEF IdleP
  <2>2. CASE pthread' = [pthread EXCEPT !.pc = "insert"]
    BY <1>1, <2>2 DEF PState
  <2>3. ASSUME NEW c, NEW i \in RowsOfVm(c[1]),
               pthread' = [pthread EXCEPT !.pc = "save", !.id = i,
                             !.entry = [rftable[i] EXCEPT !.dp = pthread.dp]]
        PROVE  /\ pthread'.pc = "save" /\ pthread'.dp = pthread.dp
               /\ pthread'.entry.dp = pthread.dp
    <3>. DEFINE e == [rftable[i] EXCEPT !.dp = pthread.dp]
    <3>1. rftable[i] \in Entry
      BY RowType, QueriesFindRows DEF AgreeInv, SerialInv, IInv
    <3>2. e.dp = pthread.dp
      BY <1>1, <3>1, AssociateDp DEF PState
    <3>3. pthread' = [pthread EXCEPT !.pc = "save", !.id = i, !.entry = e]
      BY <2>3
    <3>. HIDE DEF e
    <3>4. pthread'.pc = "save" /\ pthread'.dp = pthread.dp /\ pthread'.entry = e
      BY <1>1, <3>3 DEF PState
    <3>. QED
      BY <3>2, <3>4
  <2>. QED
    BY <2>1, <2>2, <2>3 DEF DpLookupVm
<1>3. AskedAgreesInv'
  BY <1>1, <1>2, AskedRead DEF AgreeInv, Going
<1>4. ConfiguredInv'
  BY <1>1, <1>2, SameQueries DEF AgreeInv, ConfiguredInv, Going
<1>. QED
  BY <1>3, <1>4

(* The first port of a datapath is the only one; a further one is written  *)
(* only when the datapath has been sent its default flows.                 *)
LEMMA ConfiguredPort ==
  ASSUME TypeOK, ConfiguredInv, NEW i \in Doc, NEW e \in Entry,
         rftable' = [rftable EXCEPT ![i] = e], UNCHANGED configured,
         rftable[i] = NULL \/ rftable[i].dp = NULL, e.dp \in DpPort,
         DpOf[e.dp] \in configured \/ RowsOfDp(DpOf[e.dp]) = {},
         ~Going, pthread'.pc \in {"idle", "ask_map"}
  PROVE  ConfiguredInv'
<1>1. /\ \A j \in Doc : rftable'[j] = IF j = i THEN e ELSE rftable[j]
      /\ \A j : j \in Rows' <=> j \in Rows \/ j = i
      /\ \A j \in Rows : j \in Doc
  BY OneRowWritten DEF Rows
<1>2. e.dp # NULL
  BY NullAssumption
<1>3. ASSUME NEW x \in Dp, x \notin configured
      PROVE  OnePortOf(x)'
  <2>1. \A j : j \in RowsOfDp(x)' <=>
            \/ j = i /\ DpOf[e.dp] = x
            \/ j # i /\ j \in RowsOfDp(x)
    BY <1>1, <1>2 DEF RowsOfDp
  <2>2. OnePortOf(x)
    BY <1>3 DEF ConfiguredInv
  <2>3. CASE DpOf[e.dp] = x
    BY <1>1, <1>3, <2>1, <2>3 DEF OnePortOf
  <2>4. CASE DpOf[e.dp] # x
    <3>1. \A j \in RowsOfDp(x)' : j \in RowsOfDp(x) /\ rftable'[j] = rftable[j]
      BY <1>1, <2>1, <2>4 DEF RowsOfDp
    <3>. QED
      BY <2>2, <3>1 DEF OnePortOf
  <2>. QED
    BY <2>3, <2>4
<1>. QED
  BY <1>3 DEF ConfiguredInv

LEMMA DpInsertAgrees ==
  ASSUME AgreeInv, DpInsert
  PROVE  AskedAgreesInv' /\ ConfiguredInv'
<1>. DEFINE e == IdleDp(pthread.dp)
<1>1. PICK i \in Doc : rftable[i] = NULL /\ rftable' = [rftable EXCEPT ![i] = e]
  BY DEF DpInsert, Insert
<1>2. /\ pthread.pc = "insert" /\ pthread' = IdleP /\ UNCHANGED <<cthread, asked, configured>>
      /\ pthread.dp \in DpPort /\ TypeOK
  BY DEF DpInsert, AgreeInv, SerialInv, IInv, ProxySafe
<1>3. e \in Entry /\ e.vm = NULL /\ e.dp = pthread.dp
  BY <1>2, IdleType DEF IdleDp
<1>. HIDE DEF e
<1>4. \A v \in VmPort : v # NULL
  BY NullAssumption
<1>5. \A v \in VmPort : HasDp(v)' <=> HasDp(v)
  BY <1>1, <1>2, <1>3, <1>4, AskedWrite DEF AgreeInv
<1>6. cthread.pc # "ask_map"
  BY <1>2 DEF AgreeInv, SerialInv, NoOverlap
<1>7. AskedAgreesInv'
  BY <1>2, <1>5, <1>6 DEF AgreeInv, AskedAgreesInv, IdleP, Going
<1>8. ConfiguredInv'
  <2>1. DpOf[e.dp] \in configured \/ RowsOfDp(DpOf[e.dp]) = {}
    BY <1>2, <1>3 DEF AgreeInv, ConfiguredInv
  <2>2. ~Going /\ pthread'.pc \in {"idle", "ask_map"}
    BY <1>2 DEF Going, IdleP
  <2>. QED
    BY <1>1, <1>2, <1>3, <2>1, <2>2, ConfiguredPort DEF AgreeInv
<1>. QED
  BY <1>7, <1>8

LEMMA DpSaveAgrees ==
  ASSUME AgreeInv, DpSave
  PROVE  AskedAgreesInv' /\ ConfiguredInv'
<1>. DEFINE i == pthread.id
            e == pthread.entry
<1>1. /\ i \in Doc /\ e \in Entry /\ <<e.vm, e.dp>> \in Config /\ e.dp = pthread.dp
      /\ rftable[i] \in Entry /\ rftable[i] = IdleVm(e.vm)
  BY DEF DpSave, AgreeInv, SerialInv, IInv, ProxySafe, ConfiguredInv
<1>2. /\ rftable' = [rftable EXCEPT ![i] = e]
      /\ pthread.pc = "save" /\ pthread' = [pthread EXCEPT !.pc = "ask_map"] /\ pthread \in PState
      /\ UNCHANGED <<cthread, asked, configured>> /\ cthread.pc = "idle" /\ TypeOK
  BY DEF DpSave, Save, AgreeInv, SerialInv, IInv, TypeOK, NoOverlap
<1>3. pthread'.pc = "ask_map" /\ pthread'.entry = e
  BY <1>2 DEF PState
<1>4. DpOf[e.dp] \in configured \/ RowsOfDp(DpOf[e.dp]) = {}
  BY <1>1, <1>2 DEF AgreeInv, ConfiguredInv
<1>. HIDE DEF i, e
<1>5. /\ e.vm \in VmPort /\ e.dp \in DpPort /\ e.dp # NULL /\ rftable[i].dp = NULL
  BY <1>1, ConfigAssumption, NullAssumption DEF IdleVm
<1>6. \A v \in VmPort : HasDp(v)' <=> v = e.vm \/ HasDp(v)
  <2>1. \A v \in VmPort : HasDp(v)' <=> \/ e.vm = v
                                        \/ \E j \in RowsOfVm(v) \ {i} : rftable[j].dp # NULL
    BY <1>1, <1>2, <1>5, HasDpWritten
  <2>2. \A v \in VmPort : HasDp(v) <=> \E j \in RowsOfVm(v) \ {i} : rftable[j].dp # NULL
    BY <1>5 DEF HasDp
  <2>. QED
    BY <2>1, <2>2
<1>7. AskedAgreesInv'
  BY <1>2, <1>3, <1>5, <1>6 DEF AgreeInv, AskedAgreesInv, Going
<1>8. ConfiguredInv'
  BY <1>1, <1>2, <1>3, <1>4, <1>5, ConfiguredPort DEF AgreeInv, Going
<1>. QED
  BY <1>7, <1>8

LEMMA DpAskMapAgrees ==
  ASSUME AgreeInv, DpAskMap
  PROVE  AskedAgreesInv' /\ ConfiguredInv'
<1>1. /\ UNCHANGED <<rftable, cthread, configured>> /\ cthread.pc = "idle"
      /\ pthread.pc = "ask_map" /\ pthread' = IdleP
      /\ asked' = [asked EXCEPT ![pthread.entry.vm] = "map"]
      /\ asked \in [VmPort -> {"none", "map", "reset"}]
  BY DEF DpAskMap, AgreeInv, SerialInv, IInv, TypeOK, NoOverlap
<1>2. \A v \in VmPort : asked'[v] = IF v = pthread.entry.vm THEN "map" ELSE asked[v]
  BY <1>1
<1>3. pthread'.pc = "idle"
  BY <1>1 DEF IdleP
<1>4. AskedAgreesInv'
  BY <1>1, <1>2, <1>3, SameQueries DEF AgreeInv, AskedAgreesInv, Going
<1>. QED
  BY <1>1, <1>3, <1>4, ConfiguredRead DEF AgreeInv, Going

-------------------------------------------------------------------------------
(* The proxy channel's thread: a datapath goes down, and mapping packets. *)

LEMMA SetDpDownAgrees ==
  ASSUME AgreeInv, NEW x \in Dp, SetDpDown(x)
  PROVE  AskedAgreesInv' /\ ConfiguredInv'
<1>1. /\ UNCHANGED <<rftable, cthread, asked>> /\ pthread.pc = "idle"
      /\ configured' = configured \ {x}
      /\ pthread'.pc = "down" /\ pthread'.x = x
  BY DEF SetDpDown, IdleP
<1>2. AskedAgreesInv'
  BY <1>1, AskedRead DEF AgreeInv, Going
<1>3. ConfiguredInv'
  BY <1>1, SameQueries DEF AgreeInv, ConfiguredInv, Going
<1>. QED
  BY <1>2, <1>3

LEMMA DownLookupAgrees ==
  ASSUME FiniteDocuments, AgreeInv, DownLookup
  PROVE  AskedAgreesInv' /\ ConfiguredInv'
<1>1. /\ UNCHANGED <<rftable, cthread, asked, configured>> /\ cthread.pc = "idle"
      /\ pthread.pc = "down" /\ pthread \in PState /\ Going
  BY DEF DownLookup, AgreeInv, SerialInv, IInv, TypeOK, NoOverlap, Going
<1>2. CASE pthread.todo = {} /\ pthread' = IdleP
  <2>1. pthread'.pc = "idle"
    BY <1>2 DEF IdleP
  <2>2. \A d \in DpPort : DpOf[d] = pthread.x => RowsOfDpPort(d) = {}
    BY <1>1, <1>2, NothingLeft DEF AgreeInv, SerialInv
  <2>3. \A i \in Rows : rftable[i].dp # NULL => rftable[i].dp \in DpPort
    BY RowType DEF AgreeInv, SerialInv, IInv, Entry
  <2>4. OnePortOf(pthread.x)
    BY <2>2, <2>3 DEF OnePortOf, RowsOfDp, RowsOfDpPort
  <2>5. ASSUME NEW v \in VmPort, HasDp(v)
        PROVE  asked[v] = "map"
    <3>1. PICK i \in Rows : rftable[i].vm = v /\ rftable[i].dp # NULL
      BY <2>5 DEF HasDp, RowsOfVm
    <3>2. <<v, rftable[i].dp>> \in Config
      BY <3>1, NullAssumption
      DEF AgreeInv, SerialInv, IInv, RowsFollowConfig, FollowsConfig
    <3>3. PICK c \in Config : c = <<v, rftable[i].dp>>
      BY <3>2
    <3>4. c[1] = v /\ c[2] = rftable[i].dp /\ c[2] \in DpPort
      BY <3>3, ConfigPair
    <3>5. DpOf[c[2]] # pthread.x
      BY <2>2, <3>1, <3>4 DEF RowsOfDpPort
    <3>. QED
      BY <1>1, <2>5, <3>4, <3>5 DEF AgreeInv, AskedAgreesInv
  <2>6. AskedAgreesInv'
    BY <1>1, <2>1, <2>5, SameQueries DEF AgreeInv, AskedAgreesInv
  <2>7. ConfiguredInv'
    BY <1>1, <2>1, <2>4, SameQueries DEF AgreeInv, ConfiguredInv
  <2>. QED
    BY <2>6, <2>7
<1>3. ASSUME pthread'.pc \in {"down", "down_save"}, pthread'.x = pthread.x
      PROVE  AskedAgreesInv' /\ ConfiguredInv'
  BY <1>1, <1>3, AskedRead, ConfiguredRead DEF AgreeInv, Going
<1>4. ASSUME NEW t, pthread' = [pthread EXCEPT !.todo = @ \ {t}]
      PROVE  pthread'.pc \in {"down", "down_save"} /\ pthread'.x = pthread.x
  BY <1>1, <1>4 DEF PState
<1>5. ASSUME NEW t, NEW i, NEW e,
             pthread' = [pthread EXCEPT !.pc = "down_save", !.id = i, !.entry = e,
                           !.todo = @ \ {t}]
      PROVE  pthread'.pc \in {"down", "down_save"} /\ pthread'.x = pthread.x
  BY <1>1, <1>5 DEF PState
<1>. QED
  BY <1>2, <1>3, <1>4, <1>5 DEF DownLookup

LEMMA DownSaveAgrees ==
  ASSUME OneToOne, AgreeInv, DownSave
  PROVE  AskedAgreesInv' /\ ConfiguredInv'
<1>. DEFINE i == pthread.id
            e == pthread.entry
<1>1. /\ i \in Doc /\ e \in Entry /\ e.dp = NULL
      /\ rftable[i] \in Entry /\ rftable[i].dp # NULL /\ rftable[i].dp \in DpPort
      /\ e.vm = rftable[i].vm /\ DpOf[rftable[i].dp] = pthread.x
  BY DEF DownSave, AgreeInv, SerialInv, IInv, ProxySafe, ProxyCurrent, Entry
<1>2. /\ rftable' = [rftable EXCEPT ![i] = e] /\ pthread.pc = "down_save"
      /\ UNCHANGED <<cthread, asked, configured>> /\ cthread.pc = "idle"
      /\ pthread \in PState /\ TypeOK /\ Going
  BY DEF DownSave, Save, AgreeInv, SerialInv, IInv, TypeOK, NoOverlap, Going
<1>3. /\ pthread'.x = pthread.x /\ Going'
      /\ \/ pthread'.pc = "down" /\ e.vm = NULL
         \/ pthread'.pc = "down_reset" /\ pthread'.entry = e /\ e.vm # NULL
  BY <1>2 DEF DownSave, PState, Going
<1>. HIDE DEF i, e
<1>4. rftable[i] # NULL /\ i \in Rows
  BY <1>1, NullAssumption DEF Rows
<1>5. e.vm # NULL => /\ e.vm \in VmPort
                     /\ \A c \in Config : c[1] = e.vm => DpOf[c[2]] = pthread.x
  <2>. SUFFICES ASSUME e.vm # NULL
                PROVE  /\ e.vm \in VmPort
                       /\ \A c \in Config : c[1] = e.vm => DpOf[c[2]] = pthread.x
    OBVIOUS
  <2>1. <<e.vm, rftable[i].dp>> \in Config
    BY <1>1, <1>4 DEF AgreeInv, SerialInv, IInv, RowsFollowConfig, FollowsConfig
  <2>. QED
    BY <1>1, <2>1, OnePartner
<1>6. \A v \in VmPort : HasDp(v)' <=> \E j \in RowsOfVm(v) \ {i} : rftable[j].dp # NULL
  BY <1>1, <1>2, HasDpWritten
<1>7. \A v \in VmPort : HasDp(v)' => HasDp(v)
  BY <1>6 DEF HasDp
<1>8. \A v \in VmPort : HasDp(v) => HasDp(v)' \/ v = e.vm
  BY <1>1, <1>6 DEF HasDp, RowsOfVm
<1>9. AskedAgreesInv'
  <2>1. \A v \in VmPort : v # NULL
    BY NullAssumption
  <2>2. ASSUME NEW v \in VmPort, asked'[v] = "map"
        PROVE  HasDp(v)' \/ (pthread'.pc = "down_reset" /\ pthread'.entry.vm = v)
    BY <1>2, <1>3, <1>8, <2>1, <2>2 DEF AgreeInv, AskedAgreesInv
  <2>3. ASSUME NEW v \in VmPort, HasDp(v)'
        PROVE  \/ asked'[v] = "map"
               \/ Going' /\ \A c \in Config : c[1] = v => DpOf[c[2]] = pthread'.x
    BY <1>2, <1>3, <1>7, <2>3 DEF AgreeInv, AskedAgreesInv
  <2>. QED
    BY <1>2, <1>3, <1>5, <2>2, <2>3 DEF AskedAgreesInv
<1>10. ConfiguredInv'
  BY <1>1, <1>2, <1>3, ConfiguredWrite DEF AgreeInv
<1>. QED
  BY <1>9, <1>10

LEMMA DownResetAgrees ==
  ASSUME AgreeInv, DownReset
  PROVE  AskedAgreesInv' /\ ConfiguredInv'
<1>1. /\ UNCHANGED <<rftable, cthread, configured>> /\ cthread.pc = "idle"
      /\ pthread.pc = "down_reset" /\ pthread \in PState /\ Going
      /\ asked' = [asked EXCEPT ![pthread.entry.vm] = "reset"]
      /\ asked \in [VmPort -> {"none", "map", "reset"}]
  BY DEF DownReset, AgreeInv, SerialInv, IInv, TypeOK, NoOverlap, Going
<1>2. \A v \in VmPort : asked'[v] = IF v = pthread.entry.vm THEN "reset" ELSE asked[v]
  BY <1>1
<1>3. pthread'.pc = "down" /\ pthread'.x = pthread.x /\ Going'
  BY <1>1 DEF DownReset, PState, Going
<1>4. AskedAgreesInv'
  BY <1>1, <1>2, <1>3, SameQueries DEF AgreeInv, AskedAgreesInv
<1>. QED
  BY <1>1, <1>3, <1>4, ConfiguredRead DEF AgreeInv, Going

LEMMA MapPortAgrees ==
  ASSUME AgreeInv, NEW v \in VmPort, NEW s \in VsPort, MapPort(v, s)
  PROVE  AskedAgreesInv' /\ ConfiguredInv'
<1>1. /\ UNCHANGED <<rftable, cthread, asked, configured>>
      /\ pthread.pc = "idle" /\ pthread'.pc = "map_save"
  BY DEF MapPort, IdleP
<1>. QED
  BY <1>1, AskedRead, ConfiguredRead DEF AgreeInv, Going

LEMMA MapSaveAgrees ==
  ASSUME AgreeInv, MapSave
  PROVE  AskedAgreesInv' /\ ConfiguredInv'
<1>. DEFINE i == pthread.id
            e == pthread.entry
<1>1. /\ i \in Doc /\ e \in Entry
      /\ rftable[i] \in Entry /\ rftable[i].vm = e.vm /\ rftable[i].dp = e.dp
  BY DEF MapSave, AgreeInv, SerialInv, IInv, ProxySafe
<1>2. /\ rftable' = [rftable EXCEPT ![i] = e] /\ pthread.pc = "map_save"
      /\ pthread' = [pthread EXCEPT !.pc = "map_send"] /\ pthread \in PState
      /\ UNCHANGED <<cthread, asked, configured>> /\ TypeOK
  BY DEF MapSave, Save, AgreeInv, SerialInv, IInv, TypeOK
<1>. HIDE DEF i, e
<1>3. pthread'.pc = "map_send" /\ rftable[i] # NULL
  BY <1>1, <1>2, NullAssumption DEF PState
<1>4. \A v \in VmPort : HasDp(v)' <=> HasDp(v)
  BY <1>1, <1>2, <1>3, AskedWrite DEF AgreeInv
<1>5. cthread.pc # "ask_map"
  BY <1>2 DEF AgreeInv, SerialInv, NoOverlap
<1>6. AskedAgreesInv'
  BY <1>2, <1>3, <1>4, <1>5 DEF AgreeInv, AskedAgreesInv, Going
<1>. QED
  BY <1>1, <1>2, <1>3, <1>6, ConfiguredWrite DEF AgreeInv, Going

LEMMA MapSendAgrees ==
  ASSUME AgreeInv, MapSend
  PROVE  AskedAgreesInv' /\ ConfiguredInv'
<1>1. /\ UNCHANGED <<rftable, cthread, asked, configured>>
      /\ pthread.pc = "map_send" /\ pthread'.pc = "idle"
  BY DEF MapSend, IdleP
<1>. QED
  BY <1>1, AskedRead, ConfiguredRead DEF AgreeInv, Going

-------------------------------------------------------------------------------
(* The specification. *)

LEMMA InitAgrees == Init => AgreeInv
<1>. SUFFICES ASSUME Init PROVE AgreeInv
  OBVIOUS
<1>1. Rows = {} /\ cthread.pc = "idle" /\ pthread.pc = "idle"
  BY DEF Init, Rows, IdleC, IdleP
<1>2. \A v \in VmPort : ~HasDp(v) /\ asked[v] # "map"
  BY <1>1 DEF Init, HasDp, RowsOfVm
<1>3. AskedAgreesInv /\ ConfiguredInv
  BY <1>1, <1>2 DEF AskedAgreesInv, ConfiguredInv, OnePortOf, RowsOfDp
<1>. QED
  BY <1>3, InitSerial DEF AgreeInv

LEMMA NextAgrees ==
  ASSUME OneToOne, FiniteDocuments, AgreeInv, [SerialNext]_vars
  PROVE  AgreeInv'
<1>1. SerialInv'
  BY NextSerial DEF AgreeInv
<1>2. CASE CNext
  BY <1>1, <1>2, RegisterVmPortAgrees, VmLookupDpAgrees, VmInsertAgrees, VmSaveAgrees,
     VmAskMapAgrees
  DEF CNext, AgreeInv
<1>3. CASE PNext
  BY <1>1, <1>3, RegisterDpPortAgrees, ReconfigureDpAgrees, ConfigDpAgrees,
     DpLookupVmAgrees, DpInsertAgrees, DpSaveAgrees, DpAskMapAgrees,
     SetDpDownAgrees, DownLookupAgrees, DownSaveAgrees, DownResetAgrees,
     MapPortAgrees, MapSaveAgrees, MapSendAgrees
  DEF PNext, AgreeInv
<1>4. CASE UNCHANGED vars
  <2>1. UNCHANGED <<rftable, cthread, pthread, asked, configured>>
    BY <1>4 DEF vars
  <2>. QED
    BY <1>1, <2>1, AskedRead, ConfiguredRead DEF AgreeInv, Going
<1>. QED
  BY <1>2, <1>3, <1>4 DEF SerialNext

THEOREM AgreeInductive ==
  ASSUME OneToOne, FiniteDocuments
  PROVE  SerialSpec => []AgreeInv
<1>1. AgreeInv /\ [SerialNext]_vars => AgreeInv'
  BY NextAgrees
<1>. QED
  BY InitAgrees, <1>1, PTL DEF SerialSpec

(* When handlers run one at a time, the newest PortConfig of a VM port     *)
(* tells its client the truth between them, however often ports registered *)
(* and datapaths went down (config_vm_port, reset_vm_port).                *)
THEOREM SerialAskedAgrees ==
  ASSUME OneToOne, FiniteDocuments
  PROVE  SerialSpec => []AskedAgrees
<1>1. AgreeInv => AskedAgrees
  BY DEF AgreeInv, AskedAgreesInv, AskedAgrees, Quiet, HasDp, Going
<1>. QED
  BY AgreeInductive, <1>1, PTL

(* When handlers run one at a time, a datapath with two ports in the table *)
(* was sent its default flows since it last went down (config_dp).         *)
THEOREM SerialTwoPortsConfigured ==
  ASSUME OneToOne, FiniteDocuments
  PROVE  SerialSpec => []TwoPortsConfigured
<1>1. AgreeInv => TwoPortsConfigured
  <2>. SUFFICES ASSUME AgreeInv, Quiet, NEW i \in Rows, NEW j \in Rows,
                       rftable[i].dp # NULL, rftable[j].dp # NULL,
                       rftable[i].dp # rftable[j].dp,
                       DpOf[rftable[i].dp] = DpOf[rftable[j].dp]
                PROVE  DpOf[rftable[i].dp] \in configured
    BY DEF TwoPortsConfigured
  <2>. DEFINE x == DpOf[rftable[i].dp]
  <2>1. x \in Dp
    BY RowType, DpOfAssumption DEF AgreeInv, SerialInv, IInv, Entry
  <2>2. ~OnePortOf(x)
    BY DEF OnePortOf, RowsOfDp
  <2>. QED
    BY <2>1, <2>2 DEF AgreeInv, ConfiguredInv, Quiet, Going
<1>. QED
  BY AgreeInductive, <1>1, PTL

-------------------------------------------------------------------------------
(* The table implements PortAssociation.  A write that associates or       *)
(* inserts is the registration; listing the entries of a datapath is its   *)
(* going down; everything else is a stutter.                               *)

AbstractStutter == UNCHANGED <<RegisteredVms, RegisteredDpPorts, Associations>>

LEMMA ConfigIsPairs == \A c \in Config : c = <<c[1], c[2]>>
  BY ConfigAssumption

(* The three abstract variables, row by row.                               *)
LEMMA AbstractRows ==
  ASSUME TypeOK
  PROVE  /\ \A v : v \in RegisteredVms <=> v \in VmPort /\ \E i \in Rows : rftable[i].vm = v
         /\ \A d : d \in RegisteredDpPorts <=>
              /\ d \in DpPort /\ DpOf[d] \notin GoingDown
              /\ \E i \in Rows : rftable[i].dp = d
         /\ \A p : p \in Associations <=> \E i \in Rows :
              /\ rftable[i].vm # NULL
              /\ rftable[i].dp \in DpPort /\ DpOf[rftable[i].dp] \notin GoingDown
              /\ p = <<rftable[i].vm, rftable[i].dp>>
<1>1. \A d : d \in RegisteredDpPorts <=>
              /\ d \in DpPort /\ DpOf[d] \notin GoingDown
              /\ \E i \in Rows : rftable[i].dp = d
  BY DEF RegisteredDpPorts, RowsOfDpPort
<1>2. \A v : v \in RegisteredVms <=> v \in VmPort /\ \E i \in Rows : rftable[i].vm = v
  BY DEF RegisteredVms, RowsOfVm
<1>. QED
  BY <1>1, <1>2 DEF Associations

LEMMA ReadIsStutter ==
  ASSUME UNCHANGED rftable, GoingDown' = GoingDown
  PROVE  AbstractStutter
<1>1. Rows' = Rows
  BY DEF Rows
<1>2. RegisteredVms' = RegisteredVms
  BY <1>1 DEF RegisteredVms, RowsOfVm
<1>3. RegisteredDpPorts' = RegisteredDpPorts
  BY <1>1 DEF RegisteredDpPorts, RowsOfDpPort
<1>4. Associations' = Associations
  BY <1>1, <1>3 DEF Associations
<1>. QED
  BY <1>2, <1>3, <1>4 DEF AbstractStutter

(* A write of fields that nothing abstract depends on.                     *)
LEMMA WriteIsStutter ==
  ASSUME TypeOK, TypeOK', NEW i \in Doc, NEW e \in Entry, rftable[i] \in Entry,
         rftable' = [rftable EXCEPT ![i] = e], GoingDown' = GoingDown,
         e.vm = rftable[i].vm,
         \/ e.dp = rftable[i].dp
         \/ e.dp = NULL /\ DpOf[rftable[i].dp] \in GoingDown
  PROVE  AbstractStutter
<1>1. /\ \A j \in Doc : rftable'[j] = IF j = i THEN e ELSE rftable[j]
      /\ Rows' = Rows /\ i \in Rows /\ \A j \in Rows : j \in Doc
  BY OneRowWritten, NullAssumption DEF Rows
<1>2. \A j \in Rows :
        /\ rftable'[j].vm = rftable[j].vm
        /\ \A d \in DpPort : DpOf[d] \notin GoingDown =>
             (rftable'[j].dp = d <=> rftable[j].dp = d)
  BY <1>1, NullAssumption
<1>3. \A v : v \in RegisteredVms' <=> v \in RegisteredVms
  BY <1>1, <1>2 DEF RegisteredVms, RowsOfVm
<1>4. \A d : d \in RegisteredDpPorts' <=> d \in RegisteredDpPorts
  BY <1>1, <1>2 DEF RegisteredDpPorts, RowsOfDpPort
<1>5. \A j \in Rows : rftable'[j].dp \in RegisteredDpPorts =>
        rftable[j].dp = rftable'[j].dp
  BY <1>2 DEF RegisteredDpPorts
<1>6. \A j \in Rows : rftable[j].dp \in RegisteredDpPorts =>
        rftable[j].dp = rftable'[j].dp
  BY <1>2 DEF RegisteredDpPorts
<1>7. \A p : p \in Associations' <=> p \in Associations
  BY <1>1, <1>2, <1>4, <1>5, <1>6 DEF Associations
<1>. QED
  BY <1>3, <1>4, <1>7 DEF AbstractStutter

(* A write that fills fields in, or a new document.                        *)
LEMMA WriteAddsFields ==
  ASSUME TypeOK, TypeOK', NEW i \in Doc, NEW e \in Entry,
         rftable' = [rftable EXCEPT ![i] = e], GoingDown = {}, GoingDown' = {},
         rftable[i] # NULL => /\ rftable[i].vm \in {NULL, e.vm}
                              /\ rftable[i].dp \in {NULL, e.dp}
  PROVE  /\ \A v : v \in RegisteredVms' <=>
              v \in RegisteredVms \/ (v = e.vm /\ v \in VmPort)
         /\ \A d : d \in RegisteredDpPorts' <=>
              d \in RegisteredDpPorts \/ (d = e.dp /\ d \in DpPort)
         /\ \A p : p \in Associations' <=>
              \/ p \in Associations
              \/ e.vm # NULL /\ e.dp # NULL /\ p = <<e.vm, e.dp>>
<1>1. /\ \A j \in Doc : rftable'[j] = IF j = i THEN e ELSE rftable[j]
      /\ \A j : j \in Rows' <=> j \in Rows \/ j = i
      /\ \A j \in Rows : j \in Doc
  BY OneRowWritten DEF Rows
<1>2. NULL \notin VmPort /\ NULL \notin DpPort
  BY NullAssumption
<1>3. \A v : v \in RegisteredVms' <=> v \in VmPort /\ \E j \in Rows' : rftable'[j].vm = v
  BY AbstractRows DEF RegisteredVms, RowsOfVm
<1>4. \A d : d \in RegisteredDpPorts' <=> d \in DpPort /\ \E j \in Rows' : rftable'[j].dp = d
  BY DEF RegisteredDpPorts, RowsOfDpPort
<1>5. \A d : d \in RegisteredDpPorts <=> d \in DpPort /\ \E j \in Rows : rftable[j].dp = d
  BY DEF RegisteredDpPorts, RowsOfDpPort
<1>6. \A v : v \in RegisteredVms' <=> v \in RegisteredVms \/ (v = e.vm /\ v \in VmPort)
  BY <1>1, <1>2, <1>3 DEF RegisteredVms, RowsOfVm, Rows
<1>7. \A d : d \in RegisteredDpPorts' <=> d \in RegisteredDpPorts \/ (d = e.dp /\ d \in DpPort)
  BY <1>1, <1>2, <1>4, <1>5 DEF Rows
<1>8. e.dp \in DpPort \cup {NULL}
  BY DEF Entry
<1>9. \A p : p \in Associations <=> \E j \in Rows :
        /\ rftable[j].vm # NULL /\ rftable[j].dp \in DpPort
        /\ p = <<rftable[j].vm, rftable[j].dp>>
  BY AbstractRows
<1>10. \A p : p \in Associations' <=> \E j \in Rows' :
         /\ rftable'[j].vm # NULL /\ rftable'[j].dp \in DpPort
         /\ p = <<rftable'[j].vm, rftable'[j].dp>>
  <2>1. \A j \in Rows' : rftable'[j].dp \in RegisteredDpPorts' <=> rftable'[j].dp \in DpPort
    BY <1>4
  <2>. QED
    BY <2>1 DEF Associations
<1>11. ASSUME NEW p, NEW j \in Rows, rftable[j].vm # NULL, rftable[j].dp \in DpPort,
              p = <<rftable[j].vm, rftable[j].dp>>
       PROVE  p \in Associations'
  <2>1. j \in Rows' /\ rftable'[j].vm = rftable[j].vm /\ rftable'[j].dp = rftable[j].dp
    BY <1>1, <1>2, <1>11 DEF Rows
  <2>. QED
    BY <1>10, <1>11, <2>1
<1>12. ASSUME NEW p, e.vm # NULL, e.dp # NULL, p = <<e.vm, e.dp>>
       PROVE  p \in Associations'
  BY <1>1, <1>8, <1>10, <1>12
<1>13. ASSUME NEW p \in Associations'
       PROVE  \/ p \in Associations
              \/ e.vm # NULL /\ e.dp # NULL /\ p = <<e.vm, e.dp>>
  <2>1. PICK j \in Rows' : /\ rftable'[j].vm # NULL /\ rftable'[j].dp \in DpPort
                           /\ p = <<rftable'[j].vm, rftable'[j].dp>>
    BY <1>10, <1>13
  <2>2. CASE j = i
    BY <1>1, <1>2, <2>1, <2>2
  <2>3. CASE j # i
    <3>1. j \in Rows /\ rftable'[j] = rftable[j]
      BY <1>1, <2>3
    <3>. QED
      BY <1>9, <2>1, <3>1
  <2>. QED
    BY <2>2, <2>3
<1>14. \A p : p \in Associations' <=> \/ p \in Associations
                                      \/ e.vm # NULL /\ e.dp # NULL /\ p = <<e.vm, e.dp>>
  BY <1>9, <1>11, <1>12, <1>13
<1>. QED
  BY <1>6, <1>7, <1>14

(* The steps that register. *)
LEMMA VmInsertRegisters ==
  ASSUME SerialInv, SerialInv', VmInsert
  PROVE  \E v \in VmPort : Abstract!RegisterVm(v)
<1>. DEFINE v == cthread.vm
            e == IdleVm(v)
<1>1. PICK i \in Doc : rftable[i] = NULL /\ rftable' = [rftable EXCEPT ![i] = e]
  BY DEF VmInsert, Insert
<1>2. /\ v \in VmPort /\ e \in Entry /\ e.vm = v /\ e.dp = NULL
      /\ pthread.pc = "idle" /\ pthread'.pc = "idle" /\ TypeOK /\ TypeOK'
      /\ \A c \in Config : c[1] = v => RowsOfDpPort(c[2]) = {}
  BY IdleType DEF VmInsert, IdleVm, SerialInv, IInv, ClientSafe, ClientCurrent, NoOverlap
<1>3. GoingDown = {} /\ GoingDown' = {}
  BY <1>2 DEF GoingDown
<1>. HIDE DEF e, v
<1>4. /\ \A u : u \in RegisteredVms' <=> u \in RegisteredVms \/ u = v
      /\ \A d : d \in RegisteredDpPorts' <=> d \in RegisteredDpPorts
      /\ \A p : p \in Associations' <=> p \in Associations
  BY <1>1, <1>2, <1>3, WriteAddsFields, NullAssumption
<1>5. \A c \in Config : ~(c[1] = v /\ c[2] \in RegisteredDpPorts)
  BY <1>2 DEF RegisteredDpPorts
<1>6. Abstract!RegisterVm(v)
  BY <1>4, <1>5 DEF Abstract!RegisterVm
<1>. QED
  BY <1>2, <1>6

LEMMA VmSaveRegisters ==
  ASSUME OneToOne, SerialInv, SerialInv', VmSave
  PROVE  \E v \in VmPort : Abstract!RegisterVm(v)
<1>. DEFINE i == cthread.id
            e == cthread.entry
<1>1. /\ i \in Doc /\ e \in Entry /\ <<e.vm, e.dp>> \in Config
      /\ rftable[i] = IdleDp(e.dp) /\ rftable' = [rftable EXCEPT ![i] = e]
      /\ pthread.pc = "idle" /\ pthread'.pc = "idle" /\ TypeOK /\ TypeOK'
  BY DEF VmSave, Save, SerialInv, IInv, ClientSafe, ClientCurrent, NoOverlap
<1>2. GoingDown = {} /\ GoingDown' = {}
  BY <1>1 DEF GoingDown
<1>. HIDE DEF i, e
<1>3. /\ e.vm \in VmPort /\ e.dp \in DpPort /\ e.vm # NULL /\ e.dp # NULL
      /\ rftable[i] # NULL /\ rftable[i].vm = NULL /\ rftable[i].dp = e.dp
  BY <1>1, OnePartner, IdleType, NullAssumption DEF IdleDp
<1>4. e.dp \in RegisteredDpPorts
  BY <1>1, <1>2, <1>3 DEF RegisteredDpPorts, RowsOfDpPort, Rows
<1>5. /\ \A u : u \in RegisteredVms' <=> u \in RegisteredVms \/ u = e.vm
      /\ \A d : d \in RegisteredDpPorts' <=> d \in RegisteredDpPorts
      /\ \A p : p \in Associations' <=> p \in Associations \/ p = <<e.vm, e.dp>>
  BY <1>1, <1>2, <1>3, <1>4, WriteAddsFields
<1>6. \A c : c \in Config /\ c[1] = e.vm /\ c[2] \in RegisteredDpPorts <=> c = <<e.vm, e.dp>>
  BY <1>1, <1>4, OnePartner, ConfigIsPairs
<1>7. Abstract!RegisterVm(e.vm)
  BY <1>5, <1>6 DEF Abstract!RegisterVm
<1>. QED
  BY <1>3, <1>7

LEMMA DpInsertRegisters ==
  ASSUME SerialInv, SerialInv', DpInsert
  PROVE  \E d \in DpPort : Abstract!RegisterDp(d)
<1>. DEFINE d == pthread.dp
            e == IdleDp(d)
<1>1. PICK i \in Doc : rftable[i] = NULL /\ rftable' = [rftable EXCEPT ![i] = e]
  BY DEF DpInsert, Insert
<1>2. /\ d \in DpPort /\ e \in Entry /\ e.dp = d /\ e.vm = NULL
      /\ pthread.pc = "insert" /\ pthread' = IdleP /\ TypeOK /\ TypeOK'
      /\ \A c \in Config : c[2] = d => RowsOfVm(c[1]) = {}
  BY IdleType DEF DpInsert, IdleDp, SerialInv, IInv, ProxySafe, ProxyCurrent
<1>3. GoingDown = {} /\ GoingDown' = {}
  BY <1>2 DEF GoingDown, IdleP
<1>. HIDE DEF e, d
<1>4. /\ \A u : u \in RegisteredVms' <=> u \in RegisteredVms
      /\ \A f : f \in RegisteredDpPorts' <=> f \in RegisteredDpPorts \/ f = d
      /\ \A p : p \in Associations' <=> p \in Associations
  BY <1>1, <1>2, <1>3, WriteAddsFields, NullAssumption
<1>5. \A c \in Config : ~(c[2] = d /\ c[1] \in RegisteredVms)
  BY <1>2 DEF RegisteredVms
<1>6. Abstract!RegisterDp(d)
  BY <1>4, <1>5 DEF Abstract!RegisterDp
<1>. QED
  BY <1>2, <1>6

LEMMA DpSaveRegisters ==
  ASSUME OneToOne, SerialInv, SerialInv', DpSave
  PROVE  \E d \in DpPort : Abstract!RegisterDp(d)
<1>. DEFINE i == pthread.id
            e == pthread.entry
<1>1. /\ i \in Doc /\ e \in Entry /\ <<e.vm, e.dp>> \in Config
      /\ rftable[i] \in Entry /\ rftable[i] = IdleVm(e.vm)
      /\ rftable' = [rftable EXCEPT ![i] = e]
      /\ pthread.pc = "save" /\ TypeOK /\ TypeOK'
  BY DEF DpSave, Save, SerialInv, IInv, ProxySafe
<1>2. pthread'.pc = "ask_map"
  BY DEF DpSave, SerialInv, IInv, TypeOK, PState
<1>3. GoingDown = {} /\ GoingDown' = {}
  BY <1>1, <1>2 DEF GoingDown
<1>. HIDE DEF i, e
<1>4. /\ e.vm \in VmPort /\ e.dp \in DpPort /\ e.vm # NULL /\ e.dp # NULL
      /\ rftable[i] # NULL /\ rftable[i].vm = e.vm /\ rftable[i].dp = NULL
  BY <1>1, OnePartner, NullAssumption DEF IdleVm
<1>5. e.vm \in RegisteredVms
  BY <1>1, <1>4 DEF RegisteredVms, RowsOfVm, Rows
<1>6. /\ \A u : u \in RegisteredVms' <=> u \in RegisteredVms
      /\ \A d : d \in RegisteredDpPorts' <=> d \in RegisteredDpPorts \/ d = e.dp
      /\ \A p : p \in Associations' <=> p \in Associations \/ p = <<e.vm, e.dp>>
  BY <1>1, <1>3, <1>4, <1>5, WriteAddsFields
<1>7. \A c : c \in Config /\ c[2] = e.dp /\ c[1] \in RegisteredVms <=> c = <<e.vm, e.dp>>
  BY <1>1, <1>5, OnePartner, ConfigIsPairs
<1>8. Abstract!RegisterDp(e.dp)
  BY <1>6, <1>7 DEF Abstract!RegisterDp
<1>. QED
  BY <1>4, <1>8

(* A datapath goes down. *)
LEMMA SetDpDownTakesAll ==
  ASSUME SerialInv, SerialInv', NEW x \in Dp, SetDpDown(x)
  PROVE  Abstract!DatapathDown(x)
<1>1. /\ UNCHANGED rftable /\ pthread.pc = "idle" /\ TypeOK /\ TypeOK'
      /\ pthread'.pc = "down" /\ pthread'.x = x
  BY DEF SetDpDown, IdleP, SerialInv, IInv
<1>2. GoingDown = {} /\ GoingDown' = {x}
  BY <1>1 DEF GoingDown
<1>3. Rows' = Rows
  BY <1>1 DEF Rows
<1>4. RegisteredVms' = RegisteredVms
  BY <1>1, <1>3 DEF RegisteredVms, RowsOfVm
<1>5. \A d : d \in RegisteredDpPorts' <=>
               d \in RegisteredDpPorts /\ d \notin Abstract!PortsOf(x)
  BY <1>1, <1>2, <1>3 DEF RegisteredDpPorts, RowsOfDpPort, Abstract!PortsOf
<1>6. \A p : p \in Associations' <=> p \in Associations /\ p[2] \notin Abstract!PortsOf(x)
  BY <1>1, <1>3, <1>5 DEF Associations
<1>. QED
  BY <1>4, <1>5, <1>6 DEF Abstract!DatapathDown

LEMMA DownLookupStutters ==
  ASSUME FiniteDocuments, SerialInv, DownLookup
  PROVE  AbstractStutter
<1>1. UNCHANGED rftable /\ pthread.pc = "down" /\ pthread \in PState /\ TypeOK
  BY DEF DownLookup, SerialInv, IInv, TypeOK
<1>2. GoingDown = {pthread.x}
  BY <1>1 DEF GoingDown
<1>3. CASE pthread.todo = {} /\ pthread' = IdleP
  <2>1. GoingDown' = {}
    BY <1>3 DEF GoingDown, IdleP
  <2>2. \A d \in DpPort : DpOf[d] = pthread.x => RowsOfDpPort(d) = {}
    BY <1>1, <1>3, NothingLeft DEF SerialInv
  <2>3. Rows' = Rows
    BY <1>1 DEF Rows
  <2>4. RegisteredVms' = RegisteredVms
    BY <1>1, <2>3 DEF RegisteredVms, RowsOfVm
  <2>5. RegisteredDpPorts' = RegisteredDpPorts
    BY <1>1, <1>2, <2>1, <2>2, <2>3 DEF RegisteredDpPorts, RowsOfDpPort
  <2>6. Associations' = Associations
    BY <1>1, <2>3, <2>5 DEF Associations
  <2>. QED
    BY <2>4, <2>5, <2>6 DEF AbstractStutter
<1>4. ASSUME pthread'.pc \in {"down", "down_save"}, pthread'.x = pthread.x
      PROVE  AbstractStutter
  BY <1>1, <1>2, <1>4, ReadIsStutter DEF GoingDown
<1>5. ASSUME NEW t, pthread' = [pthread EXCEPT !.todo = @ \ {t}]
      PROVE  pthread'.pc \in {"down", "down_save"} /\ pthread'.x = pthread.x
  BY <1>1, <1>5 DEF PState
<1>6. ASSUME NEW t, NEW i, NEW e,
             pthread' = [pthread EXCEPT !.pc = "down_save", !.id = i, !.entry = e,
                           !.todo = @ \ {t}]
      PROVE  pthread'.pc \in {"down", "down_save"} /\ pthread'.x = pthread.x
  BY <1>1, <1>6 DEF PState
<1>. QED
  BY <1>3, <1>4, <1>5, <1>6 DEF DownLookup

LEMMA DownSaveStutters ==
  ASSUME SerialInv, SerialInv', DownSave
  PROVE  AbstractStutter
<1>1. /\ pthread.id \in Doc /\ pthread.entry \in Entry /\ pthread.entry.dp = NULL
      /\ rftable[pthread.id] \in Entry /\ pthread.entry.vm = rftable[pthread.id].vm
      /\ DpOf[rftable[pthread.id].dp] = pthread.x
      /\ rftable' = [rftable EXCEPT ![pthread.id] = pthread.entry]
      /\ pthread.pc = "down_save" /\ pthread \in PState /\ TypeOK /\ TypeOK'
  BY DEF DownSave, Save, SerialInv, IInv, ProxySafe, ProxyCurrent, TypeOK
<1>2. pthread'.pc \in {"down", "down_reset"} /\ pthread'.x = pthread.x
  BY <1>1 DEF DownSave, PState
<1>3. GoingDown = {pthread.x} /\ GoingDown' = {pthread.x}
  BY <1>1, <1>2 DEF GoingDown
<1>. QED
  BY <1>1, <1>3, WriteIsStutter

LEMMA MapSaveStutters ==
  ASSUME SerialInv, SerialInv', MapSave
  PROVE  AbstractStutter
<1>1. /\ pthread.id \in Doc /\ pthread.entry \in Entry
      /\ rftable[pthread.id] \in Entry
      /\ pthread.entry.vm = rftable[pthread.id].vm
      /\ pthread.entry.dp = rftable[pthread.id].dp
      /\ rftable' = [rftable EXCEPT ![pthread.id] = pthread.entry]
      /\ pthread.pc = "map_save" /\ pthread \in PState /\ TypeOK /\ TypeOK'
  BY DEF MapSave, Save, SerialInv, IInv, ProxySafe, TypeOK
<1>2. pthread'.pc = "map_send"
  BY <1>1 DEF MapSave, PState
<1>3. GoingDown = {} /\ GoingDown' = {}
  BY <1>1, <1>2 DEF GoingDown
<1>. QED
  BY <1>1, <1>3, WriteIsStutter

(* The steps that only read, outside of a datapath's going down.           *)
LEMMA OtherStepsStutter ==
  ASSUME SerialInv,
         \/ \E v \in VmPort : RegisterVmPort(v)
         \/ VmLookupDp \/ VmAskMap
         \/ \E d \in DpPort : RegisterDpPort(d)
         \/ \E x \in Dp : ReconfigureDp(x)
         \/ ConfigDp \/ DpLookupVm \/ DpAskMap \/ DownReset
         \/ \E v \in VmPort, s \in VsPort : MapPort(v, s)
         \/ MapSend
         \/ UNCHANGED vars
  PROVE  AbstractStutter
<1>1. pthread \in PState
  BY DEF SerialInv, IInv, TypeOK
<1>2. CASE \/ \E v \in VmPort : RegisterVmPort(v)
           \/ VmLookupDp \/ VmAskMap
           \/ UNCHANGED vars
  <2>1. UNCHANGED <<rftable, pthread>>
    BY <1>2 DEF RegisterVmPort, VmLookupDp, VmAskMap, vars
  <2>. QED
    BY <2>1, ReadIsStutter DEF GoingDown
<1>3. CASE DownReset
  <2>1. /\ UNCHANGED rftable /\ pthread.pc = "down_reset"
        /\ pthread'.pc = "down" /\ pthread'.x = pthread.x
    BY <1>1, <1>3 DEF DownReset, PState
  <2>. QED
    BY <2>1, ReadIsStutter DEF GoingDown
<1>4. ASSUME UNCHANGED rftable,
             pthread.pc \notin {"down", "down_save", "down_reset"},
             pthread'.pc \notin {"down", "down_save", "down_reset"}
      PROVE  AbstractStutter
  BY <1>4, ReadIsStutter DEF GoingDown
<1>5. CASE \/ \E d \in DpPort : RegisterDpPort(d)
           \/ \E x \in Dp : ReconfigureDp(x)
           \/ ConfigDp
           \/ \E v \in VmPort, s \in VsPort : MapPort(v, s)
  <2>1. CASE \E d \in DpPort : RegisterDpPort(d)
    <3>1. PICK d \in DpPort : RegisterDpPort(d)
      BY <2>1
    <3>2. pthread'.pc = IF RowsOfDp(DpOf[d]) # {} THEN "configure" ELSE "lookup_vm"
      BY <3>1 DEF RegisterDpPort, IdleP
    <3>3. UNCHANGED rftable /\ pthread.pc = "idle"
      BY <3>1 DEF RegisterDpPort
    <3>4. pthread'.pc \in {"configure", "lookup_vm"}
      BY <3>2
    <3>. QED
      BY <1>4, <3>3, <3>4
  <2>2. CASE \E x \in Dp : ReconfigureDp(x)
    <3>1. PICK x \in Dp : ReconfigureDp(x)
      BY <2>2
    <3>2. pthread'.pc = "configure"
      BY <3>1 DEF ReconfigureDp, IdleP
    <3>. QED
      BY <1>4, <3>1, <3>2 DEF ReconfigureDp
  <2>3. CASE ConfigDp
    <3>1. pthread'.pc \in {"idle", "lookup_vm"}
      BY <1>1, <2>3 DEF ConfigDp, IdleP, PState
    <3>. QED
      BY <1>4, <2>3, <3>1 DEF ConfigDp
  <2>4. CASE \E v \in VmPort, s \in VsPort : MapPort(v, s)
    <3>1. ASSUME NEW i, NEW e,
                 pthread' = [IdleP EXCEPT !.pc = "map_save", !.id = i, !.entry = e]
          PROVE  pthread'.pc = "map_save"
      BY <3>1 DEF IdleP
    <3>. QED
      BY <1>4, <2>4, <3>1 DEF MapPort
  <2>. QED
    BY <1>5, <2>1, <2>2, <2>3, <2>4
<1>6. CASE DpLookupVm
  <2>1. ASSUME NEW i, NEW e, pthread' = [pthread EXCEPT !.pc = "save", !.id = i, !.entry = e]
        PROVE  pthread'.pc = "save"
    BY <1>1, <2>1 DEF PState
  <2>2. ASSUME pthread' = [pthread EXCEPT !.pc = "insert"]
        PROVE  pthread'.pc = "insert"
    BY <1>1, <2>2 DEF PState
  <2>3. IdleP.pc = "idle"
    BY DEF IdleP
  <2>4. pthread'.pc \in {"save", "insert", "idle"}
    BY <1>6, <2>1, <2>2, <2>3 DEF DpLookupVm
  <2>. QED
    BY <1>4, <1>6, <2>4 DEF DpLookupVm
<1>7. CASE DpAskMap \/ MapSend
  BY <1>4, <1>7 DEF DpAskMap, MapSend, IdleP
<1>. QED
  BY <1>2, <1>3, <1>5, <1>6, <1>7

LEMMA StepImplements ==
  ASSUME OneToOne, FiniteDocuments, SerialInv, SerialInv', [SerialNext]_vars
  PROVE  Abstract!Next \/ AbstractStutter
<1>1. CASE CNext
  BY <1>1, VmInsertRegisters, VmSaveRegisters, OtherStepsStutter DEF CNext, Abstract!Next
<1>2. CASE PNext
  <2>1. CASE \/ DpInsert \/ DpSave
             \/ \E x \in Dp : SetDpDown(x)
             \/ DownLookup \/ DownSave \/ MapSave
    BY <2>1, DpInsertRegisters, DpSaveRegisters, SetDpDownTakesAll, DownLookupStutters,
       DownSaveStutters, MapSaveStutters
    DEF Abstract!Next
  <2>2. CASE \/ \E d \in DpPort : RegisterDpPort(d)
             \/ \E x \in Dp : ReconfigureDp(x)
             \/ ConfigDp \/ DpLookupVm \/ DpAskMap \/ DownReset
             \/ \E v \in VmPort, s \in VsPort : MapPort(v, s)
             \/ MapSend
    BY <2>2, OtherStepsStutter
  <2>. QED
    BY <1>2, <2>1, <2>2 DEF PNext
<1>3. CASE UNCHANGED vars
  BY <1>3, OtherStepsStutter
<1>. QED
  BY <1>1, <1>2, <1>3 DEF SerialNext

(* When handlers run one at a time, rfserver's table is the association of *)
(* whatever is registered and configured, in every step: whichever port    *)
(* registers second associates both, a datapath that goes down takes all   *)
(* its associations at once, and nothing else changes any (PortAssociation *)
(* against register_vm_port, register_dp_port, set_dp_down, map_port).     *)
THEOREM SerialImplements ==
  ASSUME OneToOne, FiniteDocuments
  PROVE  SerialSpec => ImplementsPortAssociation
<1>1. Init => Abstract!Init
  <2>. SUFFICES ASSUME Init PROVE Abstract!Init
    OBVIOUS
  <2>1. Rows = {}
    BY DEF Init, Rows
  <2>. QED
    BY <2>1 DEF Abstract!Init, RegisteredVms, RegisteredDpPorts, Associations,
       RowsOfVm, RowsOfDpPort
<1>2. SerialInv /\ SerialInv' /\ [SerialNext]_vars => [Abstract!Next]_(Abstract!avars)
  BY StepImplements DEF AbstractStutter, Abstract!avars
<1>. QED
  BY SerialInductive, <1>1, <1>2, PTL DEF SerialSpec, ImplementsPortAssociation, Abstract!Spec
===============================================================================
