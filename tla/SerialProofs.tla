----------------------------- MODULE SerialProofs ------------------------------
(***************************************************************************)
(* Proofs about RFServer when its handlers do not overlap (SerialSpec): a   *)
(* copy is current when it is saved, so neither of the two racing steps    *)
(* happens and nothing is missed.                                          *)
(***************************************************************************)
EXTENDS RFServerProofs, FiniteSetTheorems

(* The configuration pairs a port with one port at most. *)
OneToOne == \A c, e \in Config : c[1] = e[1] <=> c[2] = e[2]

Going == pthread.pc \in {"down", "down_save", "down_reset"}

(* An idle VM port and the idle datapath port configured for it are both   *)
(* registered only while the datapath is put down.                         *)
NoneMissed ==
    \A c \in Config, i, j \in Doc :
        rftable[i] = IdleVm(c[1]) /\ rftable[j] = IdleDp(c[2])
        => Going /\ DpOf[c[2]] = pthread.x

(* What the client thread saw is still so. *)
ClientCurrent ==
    /\ cthread.pc = "insert" =>
         \A c \in Config : c[1] = cthread.vm => RowsOfDpPort(c[2]) = {}
    /\ cthread.pc = "save" => rftable[cthread.id] = IdleDp(cthread.dp)

(* The entries of a port that remain to be put down, and how often the     *)
(* port will be looked up: once for each of them at least.                 *)
Left(d) == IF pthread.pc = "down_save" THEN RowsOfDpPort(d) \ {pthread.id}
                                       ELSE RowsOfDpPort(d)

TodoOf(d) == {i \in Doc : <<i, d>> \in pthread.todo}

ProxyCurrent ==
    /\ pthread.pc = "insert" =>
         \A c \in Config : c[2] = pthread.dp => RowsOfVm(c[1]) = {}
    /\ pthread.pc = "down_save" =>
         pthread.entry.vm = rftable[pthread.id].vm /\ DpOf[rftable[pthread.id].dp] = pthread.x
    /\ Going =>
         /\ \A t \in pthread.todo : DpOf[t[2]] = pthread.x
         /\ \A d \in DpPort : DpOf[d] = pthread.x =>
              Cardinality(Left(d)) <= Cardinality(TodoOf(d))

SerialInv == IInv /\ NoOverlap /\ NoneMissed /\ ClientCurrent /\ ProxyCurrent

-------------------------------------------------------------------------------
(* Reads and writes. *)

LEMMA ReadMissesNone ==
  ASSUME NoneMissed, UNCHANGED rftable, Going => Going' /\ pthread'.x = pthread.x
  PROVE  NoneMissed' /\ StrictLifeStep
  BY DEF NoneMissed, StrictLifeStep

LEMMA WriteMissesNone ==
  ASSUME TypeOK, NoneMissed, NEW i \in Doc, NEW e, rftable' = [rftable EXCEPT ![i] = e],
         Going => Going' /\ pthread'.x = pthread.x,
         \A c \in Config :
           /\ e = IdleVm(c[1]) => \/ RowsOfDpPort(c[2]) = {}
                                  \/ Going' /\ DpOf[c[2]] = pthread'.x
           /\ e = IdleDp(c[2]) => RowsOfVm(c[1]) = {}
  PROVE  NoneMissed'
<1>. SUFFICES ASSUME NEW c \in Config, NEW k \in Doc, NEW j \in Doc,
                     rftable'[k] = IdleVm(c[1]), rftable'[j] = IdleDp(c[2])
              PROVE  Going' /\ DpOf[c[2]] = pthread'.x
  BY DEF NoneMissed
<1>1. \A l \in Doc : rftable'[l] = IF l = i THEN e ELSE rftable[l]
  BY DEF TypeOK
<1>2. c[1] \in VmPort /\ c[2] \in DpPort /\ c[1] # NULL /\ c[2] # NULL
  BY ConfigPair, NullAssumption
<1>3. /\ IdleVm(c[1]) # NULL /\ IdleVm(c[1]).vm = c[1]
      /\ IdleDp(c[2]) # NULL /\ IdleDp(c[2]).dp = c[2]
      /\ IdleVm(c[1]) # IdleDp(c[2])
  BY <1>2, IdleType, NullAssumption DEF IdleVm, IdleDp
<1>4. CASE k # i /\ j # i
  BY <1>1, <1>4 DEF NoneMissed
<1>5. CASE k = i /\ j # i
  <2>1. j \in RowsOfDpPort(c[2])
    BY <1>1, <1>3, <1>5 DEF RowsOfDpPort, Rows
  <2>. QED
    BY <1>1, <1>5, <2>1
<1>6. CASE k # i /\ j = i
  <2>1. k \in RowsOfVm(c[1])
    BY <1>1, <1>3, <1>6 DEF RowsOfVm, Rows
  <2>. QED
    BY <1>1, <1>6, <2>1
<1>7. CASE k = i /\ j = i
  BY <1>3, <1>7
<1>. QED
  BY <1>4, <1>5, <1>6, <1>7

LEMMA StrictWrite ==
  ASSUME TypeOK, NEW i \in Doc, NEW e, rftable' = [rftable EXCEPT ![i] = e],
         \/ Born(rftable[i], e) \/ Associated(rftable[i], e) \/ Activated(rftable[i], e)
         \/ PutDown(rftable[i], e)
  PROVE  StrictLifeStep
  BY DEF TypeOK, StrictLifeStep

(* What is neither an idle VM port nor an idle datapath port misses none.  *)
LEMMA PairWrite ==
  ASSUME NEW e, e.vm # NULL, e.dp # NULL
  PROVE  \A c \in Config : e # IdleVm(c[1]) /\ e # IdleDp(c[2])
  BY DEF IdleVm, IdleDp

-------------------------------------------------------------------------------
(* The client channel's thread. *)

LEMMA RegisterVmPortSerial ==
  ASSUME SerialInv, NoOverlap', NEW v \in VmPort, RegisterVmPort(v)
  PROVE  SerialInv' /\ StrictLifeStep
<1>1. IInv' /\ UNCHANGED <<rftable, pthread>>
  BY RegisterVmPortStep DEF SerialInv, RegisterVmPort
<1>2. NoneMissed' /\ StrictLifeStep
  BY <1>1, ReadMissesNone DEF SerialInv, Going
<1>3. \/ cthread' = [IdleC EXCEPT !.pc = "insert", !.vm = v] /\ \A c \in Config : c[1] # v
      \/ \E c \in Config : cthread' = [IdleC EXCEPT !.pc = "lookup_dp", !.vm = v, !.dp = c[2]]
  BY DEF RegisterVmPort
<1>4. ClientCurrent'
  BY <1>3 DEF ClientCurrent, IdleC
<1>5. pthread.pc = "idle"
  BY <1>1, <1>3 DEF NoOverlap, IdleC
<1>6. ProxyCurrent'
  BY <1>1, <1>5 DEF ProxyCurrent, Going
<1>. QED
  BY <1>1, <1>2, <1>4, <1>6 DEF SerialInv

LEMMA VmLookupDpSerial ==
  ASSUME OneToOne, SerialInv, NoOverlap', VmLookupDp
  PROVE  SerialInv' /\ StrictLifeStep
<1>1. IInv' /\ UNCHANGED <<rftable, pthread>>
  BY VmLookupDpStep DEF SerialInv, VmLookupDp
<1>2. NoneMissed' /\ StrictLifeStep
  BY <1>1, ReadMissesNone DEF SerialInv, Going
<1>3. /\ cthread \in CState /\ <<cthread.vm, cthread.dp>> \in Config
      /\ pthread.pc = "idle"
  BY DEF VmLookupDp, SerialInv, IInv, TypeOK, ClientSafe, NoOverlap
<1>4. ClientCurrent'
  <2>1. CASE RowsOfDpPort(cthread.dp) = {} /\ cthread' = [cthread EXCEPT !.pc = "insert"]
    <3>1. cthread'.pc = "insert" /\ cthread'.vm = cthread.vm
      BY <1>3, <2>1 DEF CState
    <3>2. \A c \in Config : c[1] = cthread.vm => c[2] = cthread.dp
      BY <1>3 DEF OneToOne
    <3>3. \A d : RowsOfDpPort(d)' = RowsOfDpPort(d)
      BY <1>1 DEF RowsOfDpPort, Rows
    <3>. QED
      BY <2>1, <3>1, <3>2, <3>3 DEF ClientCurrent
  <2>2. ASSUME NEW i \in RowsOfDpPort(cthread.dp), IsIdleDpPort(rftable[i]),
               cthread' = [cthread EXCEPT !.pc = "save", !.id = i,
                             !.entry = [rftable[i] EXCEPT !.vm = cthread.vm]]
        PROVE  ClientCurrent'
    <3>1. rftable[i] \in Entry /\ rftable[i].dp = cthread.dp
      BY RowType, QueriesFindRows DEF SerialInv, IInv
    <3>2. rftable[i] = IdleDp(cthread.dp)
      BY <2>2, <3>1, EntryByFields
    <3>3. cthread'.pc = "save" /\ cthread'.id = i /\ cthread'.dp = cthread.dp
      BY <1>3, <2>2 DEF CState
    <3>. QED
      BY <1>1, <3>2, <3>3 DEF ClientCurrent
  <2>3. CASE cthread' = IdleC \/ cthread' = [cthread EXCEPT !.pc = "ask_map"]
    BY <1>3, <2>3 DEF ClientCurrent, IdleC, CState
  <2>. QED
    BY <2>1, <2>2, <2>3 DEF VmLookupDp
<1>5. ProxyCurrent'
  BY <1>1, <1>3 DEF ProxyCurrent, Going
<1>. QED
  BY <1>1, <1>2, <1>4, <1>5 DEF SerialInv

LEMMA VmInsertSerial ==
  ASSUME SerialInv, NoOverlap', VmInsert
  PROVE  SerialInv' /\ StrictLifeStep
<1>. DEFINE e == IdleVm(cthread.vm)
<1>1. PICK i \in Doc : rftable[i] = NULL /\ rftable' = [rftable EXCEPT ![i] = e]
  BY DEF VmInsert, Insert
<1>2. /\ cthread.pc = "insert" /\ cthread' = IdleC /\ UNCHANGED pthread
      /\ cthread.vm \in VmPort /\ cthread.vm # NULL /\ pthread.pc = "idle"
  BY NullAssumption DEF VmInsert, SerialInv, IInv, ClientSafe, NoOverlap
<1>3. e.vm = cthread.vm /\ Born(rftable[i], e)
  BY <1>1, <1>2 DEF Born, IsIdleVmPort, IdleVm
<1>4. \A c \in Config : /\ e = IdleVm(c[1]) => RowsOfDpPort(c[2]) = {}
                        /\ e # IdleDp(c[2])
  BY <1>2 DEF SerialInv, ClientCurrent, IdleVm, IdleDp
<1>. HIDE DEF e
<1>5. NoneMissed'
  BY <1>1, <1>2, <1>4, WriteMissesNone DEF SerialInv, IInv, Going
<1>6. StrictLifeStep
  BY <1>1, <1>3, StrictWrite DEF SerialInv, IInv
<1>7. ClientCurrent' /\ ProxyCurrent'
  BY <1>2 DEF ClientCurrent, ProxyCurrent, Going, IdleC
<1>8. IInv'
  BY VmInsertStep DEF SerialInv
<1>. QED
  BY <1>5, <1>6, <1>7, <1>8 DEF SerialInv

LEMMA VmSaveSerial ==
  ASSUME SerialInv, NoOverlap', VmSave
  PROVE  SerialInv' /\ StrictLifeStep
<1>. DEFINE i == cthread.id
            e == cthread.entry
<1>1. /\ i \in Doc /\ e.vm # NULL /\ e.dp # NULL /\ e.vs = NULL /\ e.dp \in DpPort
      /\ rftable[i] = IdleDp(e.dp)
  BY ConfigPair, NullAssumption, ConfigAssumption
  DEF VmSave, SerialInv, IInv, ClientSafe, ClientCurrent
<1>2. /\ rftable' = [rftable EXCEPT ![i] = e]
      /\ cthread' = [cthread EXCEPT !.pc = "ask_map"] /\ cthread \in CState
      /\ UNCHANGED pthread /\ pthread.pc = "idle"
  BY DEF VmSave, Save, SerialInv, IInv, TypeOK, NoOverlap
<1>. HIDE DEF i, e
<1>3. Associated(rftable[i], e)
  <2>1. IdleDp(e.dp) # NULL
    BY <1>1, IdleType, NullAssumption
  <2>. QED
    BY <1>1, <2>1 DEF Associated, IsIdleDpPort, IdleDp
<1>4. NoneMissed'
  BY <1>1, <1>2, PairWrite, WriteMissesNone DEF SerialInv, IInv, Going
<1>5. StrictLifeStep
  BY <1>1, <1>2, <1>3, StrictWrite DEF SerialInv, IInv
<1>6. ClientCurrent' /\ ProxyCurrent'
  BY <1>2 DEF ClientCurrent, ProxyCurrent, Going, CState
<1>7. IInv'
  BY VmSaveStep DEF SerialInv
<1>. QED
  BY <1>4, <1>5, <1>6, <1>7 DEF SerialInv

LEMMA VmAskMapSerial ==
  ASSUME SerialInv, NoOverlap', VmAskMap
  PROVE  SerialInv' /\ StrictLifeStep
<1>1. IInv' /\ UNCHANGED <<rftable, pthread>> /\ cthread' = IdleC /\ pthread.pc = "idle"
  BY VmAskMapStep DEF SerialInv, VmAskMap, NoOverlap
<1>2. NoneMissed' /\ StrictLifeStep
  BY <1>1, ReadMissesNone DEF SerialInv, Going
<1>3. ClientCurrent' /\ ProxyCurrent'
  BY <1>1 DEF ClientCurrent, ProxyCurrent, Going, IdleC
<1>. QED
  BY <1>1, <1>2, <1>3 DEF SerialInv

-------------------------------------------------------------------------------
(* The proxy channel's thread: registrations. *)

LEMMA RegisterDpPortSerial ==
  ASSUME SerialInv, NoOverlap', NEW d \in DpPort, RegisterDpPort(d)
  PROVE  SerialInv' /\ StrictLifeStep
<1>1. IInv' /\ UNCHANGED <<rftable, cthread>> /\ pthread.pc = "idle"
  BY RegisterDpPortStep DEF SerialInv, RegisterDpPort
<1>2. pthread'.pc \in {"configure", "lookup_vm"}
  BY DEF RegisterDpPort, IdleP
<1>3. NoneMissed' /\ StrictLifeStep
  BY <1>1, ReadMissesNone DEF SerialInv, Going
<1>4. cthread.pc = "idle"
  BY <1>1, <1>2 DEF NoOverlap
<1>5. ClientCurrent' /\ ProxyCurrent'
  BY <1>1, <1>2, <1>4 DEF ClientCurrent, ProxyCurrent, Going
<1>. QED
  BY <1>1, <1>3, <1>5 DEF SerialInv

LEMMA ReconfigureDpSerial ==
  ASSUME SerialInv, NoOverlap', NEW x \in Dp, ReconfigureDp(x)
  PROVE  SerialInv' /\ StrictLifeStep
<1>1. IInv' /\ UNCHANGED <<rftable, cthread>> /\ pthread.pc = "idle"
  BY ReconfigureDpStep DEF SerialInv, ReconfigureDp
<1>2. pthread'.pc = "configure"
  BY DEF ReconfigureDp, IdleP
<1>3. NoneMissed' /\ StrictLifeStep
  BY <1>1, ReadMissesNone DEF SerialInv, Going
<1>4. cthread.pc = "idle"
  BY <1>1, <1>2 DEF NoOverlap
<1>5. ClientCurrent' /\ ProxyCurrent'
  BY <1>1, <1>2, <1>4 DEF ClientCurrent, ProxyCurrent, Going
<1>. QED
  BY <1>1, <1>3, <1>5 DEF SerialInv

LEMMA ConfigDpSerial ==
  ASSUME SerialInv, NoOverlap', ConfigDp
  PROVE  SerialInv' /\ StrictLifeStep
<1>1. /\ IInv' /\ UNCHANGED <<rftable, cthread>>
      /\ pthread.pc = "configure" /\ cthread.pc = "idle"
  BY ConfigDpStep DEF SerialInv, ConfigDp, NoOverlap
<1>2. pthread'.pc \in {"idle", "lookup_vm"}
  BY DEF ConfigDp, IdleP, SerialInv, IInv, TypeOK, PState
<1>3. NoneMissed' /\ StrictLifeStep
  BY <1>1, ReadMissesNone DEF SerialInv, Going
<1>4. ClientCurrent' /\ ProxyCurrent'
  BY <1>1, <1>2 DEF ClientCurrent, ProxyCurrent, Going
<1>. QED
  BY <1>1, <1>3, <1>4 DEF SerialInv

LEMMA DpLookupVmSerial ==
  ASSUME OneToOne, SerialInv, NoOverlap', DpLookupVm
  PROVE  SerialInv' /\ StrictLifeStep
<1>1. /\ IInv' /\ UNCHANGED <<rftable, cthread>>
      /\ pthread.pc = "lookup_vm" /\ cthread.pc = "idle" /\ pthread \in PState
  BY DpLookupVmStep DEF SerialInv, DpLookupVm, NoOverlap, IInv, TypeOK
<1>2. NoneMissed' /\ StrictLifeStep
  BY <1>1, ReadMissesNone DEF SerialInv, Going
<1>3. ProxyCurrent'
  <2>1. ASSUME pthread' = [pthread EXCEPT !.pc = "insert"],
               \A c \in Config : c[2] = pthread.dp => RowsOfVm(c[1]) = {}
        PROVE  ProxyCurrent'
    <3>1. pthread'.pc = "insert" /\ pthread'.dp = pthread.dp
      BY <1>1, <2>1 DEF PState
    <3>2. \A v : RowsOfVm(v)' = RowsOfVm(v)
      BY <1>1 DEF RowsOfVm, Rows
    <3>. QED
      BY <2>1, <3>1, <3>2 DEF ProxyCurrent, Going
  <2>2. ASSUME NEW c \in Config, c[2] = pthread.dp, RowsOfVm(c[1]) = {}
        PROVE  \A e \in Config : e[2] = pthread.dp => RowsOfVm(e[1]) = {}
    BY <2>2 DEF OneToOne
  <2>3. CASE pthread'.pc \in {"idle", "save"}
    BY <2>3 DEF ProxyCurrent, Going
  <2>4. CASE /\ \A c \in Config : c[2] # pthread.dp
             /\ pthread' = [pthread EXCEPT !.pc = "insert"]
    BY <2>1, <2>4
  <2>5. ASSUME NEW c \in Config, c[2] = pthread.dp, RowsOfVm(c[1]) = {},
               pthread' = [pthread EXCEPT !.pc = "insert"]
        PROVE  ProxyCurrent'
    BY <2>1, <2>2, <2>5
  <2>6. CASE pthread' = IdleP
    BY <2>3, <2>6 DEF IdleP
  <2>7. ASSUME NEW i, NEW e,
               pthread' = [pthread EXCEPT !.pc = "save", !.id = i, !.entry = e]
        PROVE  ProxyCurrent'
    <3>1. pthread'.pc = "save"
      BY <1>1, <2>7 DEF PState
    <3>. QED
      BY <2>3, <3>1
  <2>. QED
    BY <2>4, <2>5, <2>6, <2>7 DEF DpLookupVm
<1>4. ClientCurrent'
  BY <1>1 DEF ClientCurrent
<1>. QED
  BY <1>1, <1>2, <1>3, <1>4 DEF SerialInv

LEMMA DpInsertSerial ==
  ASSUME SerialInv, NoOverlap', DpInsert
  PROVE  SerialInv' /\ StrictLifeStep
<1>. DEFINE e == IdleDp(pthread.dp)
<1>1. PICK i \in Doc : rftable[i] = NULL /\ rftable' = [rftable EXCEPT ![i] = e]
  BY DEF DpInsert, Insert
<1>2. /\ pthread.pc = "insert" /\ pthread' = IdleP /\ UNCHANGED cthread
      /\ pthread.dp \in DpPort /\ pthread.dp # NULL /\ cthread.pc = "idle"
  BY NullAssumption DEF DpInsert, SerialInv, IInv, ProxySafe, NoOverlap
<1>3. e.dp = pthread.dp /\ Born(rftable[i], e)
  BY <1>1, <1>2 DEF Born, IsIdleDpPort, IdleDp
<1>4. \A c \in Config : /\ e # IdleVm(c[1])
                        /\ e = IdleDp(c[2]) => RowsOfVm(c[1]) = {}
  BY <1>2 DEF SerialInv, ProxyCurrent, IdleVm, IdleDp
<1>. HIDE DEF e
<1>5. NoneMissed'
  BY <1>1, <1>2, <1>4, WriteMissesNone DEF SerialInv, IInv, Going
<1>6. StrictLifeStep
  BY <1>1, <1>3, StrictWrite DEF SerialInv, IInv
<1>7. ClientCurrent' /\ ProxyCurrent'
  BY <1>2 DEF ClientCurrent, ProxyCurrent, Going, IdleP
<1>8. IInv'
  BY DpInsertStep DEF SerialInv
<1>. QED
  BY <1>5, <1>6, <1>7, <1>8 DEF SerialInv

LEMMA DpSaveSerial ==
  ASSUME SerialInv, NoOverlap', DpSave
  PROVE  SerialInv' /\ StrictLifeStep
<1>. DEFINE i == pthread.id
            e == pthread.entry
<1>1. /\ i \in Doc /\ e.vm # NULL /\ e.dp # NULL /\ e.vs = NULL
      /\ rftable[i] \in Entry /\ rftable[i] = IdleVm(e.vm)
  BY DEF DpSave, SerialInv, IInv, ProxySafe
<1>2. /\ rftable' = [rftable EXCEPT ![i] = e] /\ pthread.pc = "save"
      /\ pthread' = [pthread EXCEPT !.pc = "ask_map"] /\ pthread \in PState
      /\ UNCHANGED cthread /\ cthread.pc = "idle"
  BY DEF DpSave, Save, SerialInv, IInv, TypeOK, NoOverlap
<1>. HIDE DEF i, e
<1>3. Associated(rftable[i], e)
  BY <1>1, NullAssumption DEF Associated, IsIdleVmPort, IdleVm
<1>4. NoneMissed'
  BY <1>1, <1>2, PairWrite, WriteMissesNone DEF SerialInv, IInv, Going
<1>5. StrictLifeStep
  BY <1>1, <1>2, <1>3, StrictWrite DEF SerialInv, IInv
<1>6. ClientCurrent' /\ ProxyCurrent'
  BY <1>2 DEF ClientCurrent, ProxyCurrent, Going, PState
<1>7. IInv'
  BY DpSaveStep DEF SerialInv
<1>. QED
  BY <1>4, <1>5, <1>6, <1>7 DEF SerialInv

LEMMA DpAskMapSerial ==
  ASSUME SerialInv, NoOverlap', DpAskMap
  PROVE  SerialInv' /\ StrictLifeStep
<1>1. /\ IInv' /\ UNCHANGED <<rftable, cthread>> /\ pthread' = IdleP
      /\ pthread.pc = "ask_map" /\ cthread.pc = "idle"
  BY DpAskMapStep DEF SerialInv, DpAskMap, NoOverlap
<1>2. NoneMissed' /\ StrictLifeStep
  BY <1>1, ReadMissesNone DEF SerialInv, Going
<1>3. ClientCurrent' /\ ProxyCurrent'
  BY <1>1 DEF ClientCurrent, ProxyCurrent, Going, IdleP
<1>. QED
  BY <1>1, <1>2, <1>3 DEF SerialInv

-------------------------------------------------------------------------------
(* The proxy channel's thread: a datapath goes down. *)

FiniteDocuments == IsFiniteSet(Doc)

LEMMA CountsAreNat ==
  ASSUME FiniteDocuments, NEW d
  PROVE  /\ IsFiniteSet(RowsOfDpPort(d)) /\ IsFiniteSet(Left(d)) /\ IsFiniteSet(TodoOf(d))
         /\ Cardinality(RowsOfDpPort(d)) \in Nat
         /\ Cardinality(Left(d)) \in Nat
         /\ Cardinality(TodoOf(d)) \in Nat
<1>1. /\ RowsOfDpPort(d) \in SUBSET Doc
      /\ Left(d) \in SUBSET Doc
      /\ TodoOf(d) \in SUBSET Doc
  BY DEF RowsOfDpPort, Rows, Left, TodoOf
<1>. QED
  BY <1>1, FS_Subset, FS_CardinalityType DEF FiniteDocuments

LEMMA SetDpDownSerial ==
  ASSUME FiniteDocuments, SerialInv, NoOverlap', NEW x \in Dp, SetDpDown(x)
  PROVE  SerialInv' /\ StrictLifeStep
<1>. DEFINE T == {<<i, rftable[i].dp>> : i \in RowsOfDp(x)}
<1>1. IInv' /\ UNCHANGED <<rftable, cthread>> /\ pthread.pc = "idle"
  BY SetDpDownStep DEF SerialInv, SetDpDown
<1>2. pthread' = [IdleP EXCEPT !.pc = "down", !.x = x, !.todo = T]
  BY DEF SetDpDown
<1>3. pthread'.pc = "down" /\ pthread'.x = x /\ pthread'.todo = T
  BY <1>2 DEF IdleP
<1>4. NoneMissed' /\ StrictLifeStep
  BY <1>1, ReadMissesNone DEF SerialInv, Going
<1>5. ClientCurrent'
  BY <1>1, <1>3 DEF ClientCurrent, NoOverlap
<1>6. \A t \in pthread'.todo : DpOf[t[2]] = x
  BY <1>3 DEF RowsOfDp
<1>7. ASSUME NEW d \in DpPort, DpOf[d] = x
      PROVE  Cardinality(Left(d)') <= Cardinality(TodoOf(d)')
  <2>1. \A i \in Doc : <<i, d>> \in T <=> i \in RowsOfDp(x) /\ rftable[i].dp = d
    OBVIOUS
  <2>2. d # NULL
    BY NullAssumption
  <2>3. TodoOf(d)' = RowsOfDpPort(d)
    BY <1>3, <1>7, <2>1, <2>2 DEF TodoOf, RowsOfDp, RowsOfDpPort, Rows
  <2>4. Left(d)' = RowsOfDpPort(d)
    BY <1>1, <1>3 DEF Left, RowsOfDpPort, Rows
  <2>. QED
    BY <2>3, <2>4, CountsAreNat
<1>8. ProxyCurrent'
  BY <1>3, <1>6, <1>7 DEF ProxyCurrent
<1>. QED
  BY <1>1, <1>4, <1>5, <1>8 DEF SerialInv

(* Looking up the port of a listed entry takes one from both counts. *)
LEMMA OneFewer ==
  ASSUME FiniteDocuments, ProxyCurrent, pthread.pc = "down", UNCHANGED rftable,
         NEW t \in pthread.todo, t \in Doc \X DpPort, pthread'.todo = pthread.todo \ {t},
         \/ pthread'.pc = "down" /\ RowsOfDpPort(t[2]) = {}
         \/ pthread'.pc = "down_save" /\ pthread'.id \in RowsOfDpPort(t[2]),
         NEW d \in DpPort, DpOf[d] = pthread.x
  PROVE  Cardinality(Left(d)') <= Cardinality(TodoOf(d)')
<1>1. RowsOfDpPort(d)' = RowsOfDpPort(d)
  BY DEF RowsOfDpPort, Rows
<1>2. Cardinality(RowsOfDpPort(d)) <= Cardinality(TodoOf(d))
  BY DEF ProxyCurrent, Going, Left
<1>3. /\ IsFiniteSet(RowsOfDpPort(d)) /\ IsFiniteSet(TodoOf(d))
      /\ Cardinality(RowsOfDpPort(d)) \in Nat
      /\ Cardinality(TodoOf(d)) \in Nat
  BY CountsAreNat
<1>4. t = <<t[1], t[2]>> /\ t[1] \in Doc
  OBVIOUS
<1>5. CASE d # t[2]
  <2>1. TodoOf(d)' = TodoOf(d)
    BY <1>4, <1>5 DEF TodoOf
  <2>2. Left(d)' = RowsOfDpPort(d)
    BY <1>1, <1>5 DEF Left, RowsOfDpPort
  <2>. QED
    BY <1>2, <2>1, <2>2
<1>6. CASE d = t[2]
  <2>1. TodoOf(d)' = TodoOf(d) \ {t[1]} /\ t[1] \in TodoOf(d)
    BY <1>4, <1>6 DEF TodoOf
  <2>2. Cardinality(TodoOf(d)') = Cardinality(TodoOf(d)) - 1
    <3>1. Cardinality(TodoOf(d) \ {t[1]}) = Cardinality(TodoOf(d)) - 1
      BY <1>3, <2>1, FS_RemoveElement
    <3>. QED
      BY <2>1, <3>1
  <2>3. CASE pthread'.pc = "down" /\ RowsOfDpPort(d) = {}
    <3>1. Left(d)' = {}
      BY <1>1, <2>3 DEF Left
    <3>2. TodoOf(d) # {}
      BY <2>1
    <3>3. Cardinality(TodoOf(d)) # 0
      BY <1>3, <3>2, FS_EmptySet
    <3>. QED
      BY <1>3, <2>2, <3>1, <3>3, FS_EmptySet
  <2>4. CASE pthread'.pc = "down_save" /\ pthread'.id \in RowsOfDpPort(d)
    <3>1. Left(d)' = RowsOfDpPort(d) \ {pthread'.id}
      BY <1>1, <2>4 DEF Left
    <3>2. Cardinality(Left(d)') = Cardinality(RowsOfDpPort(d)) - 1
      BY <1>3, <2>4, <3>1, FS_RemoveElement
    <3>. QED
      BY <1>2, <1>3, <2>2, <3>2
  <2>. QED
    BY <1>6, <2>3, <2>4
<1>. QED
  BY <1>5, <1>6

(* When every look-up was made, the datapath has no port left.             *)
LEMMA NothingLeft ==
  ASSUME FiniteDocuments, ProxyCurrent, pthread.pc = "down", pthread.todo = {}
  PROVE  \A d \in DpPort : DpOf[d] = pthread.x => RowsOfDpPort(d) = {}
<1>. SUFFICES ASSUME NEW d \in DpPort, DpOf[d] = pthread.x
              PROVE  RowsOfDpPort(d) = {}
  OBVIOUS
<1>1. Cardinality(RowsOfDpPort(d)) <= Cardinality(TodoOf(d))
  BY DEF ProxyCurrent, Left, Going
<1>2. TodoOf(d) = {}
  BY DEF TodoOf
<1>3. IsFiniteSet(RowsOfDpPort(d)) /\ Cardinality(RowsOfDpPort(d)) \in Nat
  BY CountsAreNat
<1>. QED
  BY <1>1, <1>2, <1>3, FS_EmptySet

LEMMA DownLookupSerial ==
  ASSUME FiniteDocuments, SerialInv, NoOverlap', DownLookup
  PROVE  SerialInv' /\ StrictLifeStep
<1>1. /\ IInv' /\ UNCHANGED <<rftable, cthread>> /\ pthread.pc = "down"
      /\ pthread \in PState /\ cthread.pc = "idle" /\ Going
  BY DownLookupStep DEF SerialInv, DownLookup, IInv, TypeOK, NoOverlap, Going
<1>2. ClientCurrent'
  BY <1>1 DEF ClientCurrent
<1>3. CASE pthread.todo = {} /\ pthread' = IdleP
  <2>1. \A d \in DpPort : DpOf[d] = pthread.x => RowsOfDpPort(d) = {}
    BY <1>1, <1>3, NothingLeft DEF SerialInv
  <2>2. ASSUME NEW c \in Config, NEW i \in Doc, NEW j \in Doc,
               rftable[i] = IdleVm(c[1]), rftable[j] = IdleDp(c[2])
        PROVE  FALSE
    <3>1. DpOf[c[2]] = pthread.x /\ c[2] \in DpPort
      BY <2>2, ConfigPair DEF SerialInv, NoneMissed
    <3>2. rftable[j] # NULL /\ rftable[j].dp = c[2]
      BY <2>2, <3>1, IdleType, NullAssumption DEF IdleDp
    <3>3. j \in RowsOfDpPort(c[2])
      BY <3>2 DEF RowsOfDpPort, Rows
    <3>. QED
      BY <2>1, <3>1, <3>3
  <2>3. NoneMissed'
    BY <1>1, <2>2 DEF NoneMissed
  <2>4. StrictLifeStep
    BY <1>1 DEF StrictLifeStep
  <2>5. ProxyCurrent'
    BY <1>3 DEF ProxyCurrent, Going, IdleP
  <2>. QED
    BY <1>1, <1>2, <2>3, <2>4, <2>5 DEF SerialInv
<1>4. ASSUME NEW t \in pthread.todo, pthread'.todo = pthread.todo \ {t},
             pthread'.x = pthread.x,
             \/ pthread'.pc = "down" /\ RowsOfDpPort(t[2]) = {}
             \/ /\ pthread'.pc = "down_save"
                /\ pthread'.id \in RowsOfDpPort(t[2])
                /\ pthread'.entry.vm = rftable[pthread'.id].vm
      PROVE  SerialInv' /\ StrictLifeStep
  <2>1. t \in Doc \X DpPort /\ DpOf[t[2]] = pthread.x
    BY <1>1 DEF PState, SerialInv, ProxyCurrent
  <2>2. NoneMissed' /\ StrictLifeStep
    BY <1>1, <1>4, ReadMissesNone DEF SerialInv, Going
  <2>3. \A d \in DpPort : DpOf[d] = pthread.x => Cardinality(Left(d)') <= Cardinality(TodoOf(d)')
    BY <1>1, <1>4, <2>1, OneFewer DEF SerialInv
  <2>4. pthread'.pc = "down_save" => DpOf[rftable[pthread'.id].dp] = pthread.x
    BY <1>4, <2>1 DEF RowsOfDpPort
  <2>5. \A u \in pthread'.todo : DpOf[u[2]] = pthread.x
    BY <1>1, <1>4 DEF SerialInv, ProxyCurrent
  <2>6. ProxyCurrent'
    BY <1>1, <1>4, <2>3, <2>4, <2>5 DEF ProxyCurrent
  <2>. QED
    BY <1>1, <1>2, <2>2, <2>6 DEF SerialInv
<1>5. ASSUME NEW t \in pthread.todo, RowsOfDpPort(t[2]) = {},
             pthread' = [pthread EXCEPT !.todo = @ \ {t}]
      PROVE  SerialInv' /\ StrictLifeStep
  <2>1. /\ pthread'.pc = "down" /\ pthread'.x = pthread.x
        /\ pthread'.todo = pthread.todo \ {t}
    BY <1>1, <1>5 DEF PState
  <2>. QED
    BY <1>4, <1>5, <2>1
<1>6. ASSUME NEW t \in pthread.todo, NEW i \in RowsOfDpPort(t[2]),
             pthread' = [pthread EXCEPT !.pc = "down_save", !.id = i,
                           !.entry = MakeIdleVm(rftable[i]), !.todo = @ \ {t}]
      PROVE  SerialInv' /\ StrictLifeStep
  <2>1. rftable[i] \in Entry
    BY RowType, QueriesFindRows DEF SerialInv, IInv
  <2>. DEFINE e == MakeIdleVm(rftable[i])
  <2>2. e.vm = rftable[i].vm
    BY <2>1, MakeIdleCopy
  <2>3. pthread' = [pthread EXCEPT !.pc = "down_save", !.id = i, !.entry = e, !.todo = @ \ {t}]
    BY <1>6
  <2>. HIDE DEF e
  <2>4. /\ pthread'.pc = "down_save" /\ pthread'.x = pthread.x
        /\ pthread'.todo = pthread.todo \ {t}
        /\ pthread'.id = i /\ pthread'.entry = e
    BY <1>1, <2>3 DEF PState
  <2>. QED
    BY <1>4, <1>6, <2>2, <2>4
<1>. QED
  BY <1>3, <1>5, <1>6 DEF DownLookup

LEMMA DownSaveSerial ==
  ASSUME OneToOne, FiniteDocuments, SerialInv, NoOverlap', DownSave
  PROVE  SerialInv' /\ StrictLifeStep
<1>. DEFINE i == pthread.id
            e == pthread.entry
<1>1. /\ i \in Doc /\ e \in Entry /\ e.dp = NULL /\ e.vs = NULL
      /\ rftable[i] \in Entry /\ rftable[i].dp # NULL /\ rftable[i].dp \in DpPort
      /\ e.vm = rftable[i].vm /\ DpOf[rftable[i].dp] = pthread.x
  BY DEF DownSave, SerialInv, IInv, ProxySafe, ProxyCurrent, Entry
<1>2. /\ rftable' = [rftable EXCEPT ![i] = e] /\ pthread.pc = "down_save"
      /\ UNCHANGED cthread /\ cthread.pc = "idle" /\ pthread \in PState /\ TypeOK
  BY DEF DownSave, Save, SerialInv, IInv, TypeOK, NoOverlap
<1>3. /\ pthread'.pc \in {"down", "down_reset"}
      /\ pthread'.x = pthread.x /\ pthread'.todo = pthread.todo
  BY <1>2 DEF DownSave, PState
<1>4. IInv' /\ ClientCurrent'
  BY <1>2, DownSaveStep DEF SerialInv, ClientCurrent
<1>. HIDE DEF i, e
<1>5. StrictLifeStep
  <2>1. rftable[i] # NULL
    BY <1>1, NullAssumption
  <2>2. PutDown(rftable[i], e)
    BY <1>1, <2>1 DEF PutDown
  <2>. QED
    BY <1>1, <1>2, <2>2, StrictWrite
<1>6. NoneMissed'
  <2>1. ASSUME NEW c \in Config
        PROVE  /\ e = IdleVm(c[1]) => DpOf[c[2]] = pthread.x
               /\ e # IdleDp(c[2])
    <3>1. c[1] # NULL /\ c[2] # NULL
      BY ConfigPair, NullAssumption
    <3>2. e # IdleDp(c[2])
      BY <1>1, <3>1 DEF IdleDp
    <3>3. ASSUME e = IdleVm(c[1])
          PROVE  DpOf[c[2]] = pthread.x
      <4>1. rftable[i].vm = c[1]
        BY <1>1, <3>3 DEF IdleVm
      <4>2. i \in Rows
        BY <1>1, NullAssumption DEF Rows
      <4>3. <<rftable[i].vm, rftable[i].dp>> \in Config
        BY <1>1, <3>1, <4>1, <4>2 DEF SerialInv, IInv, RowsFollowConfig, FollowsConfig
      <4>4. c[2] = rftable[i].dp
        BY <4>1, <4>3 DEF OneToOne
      <4>. QED
        BY <1>1, <4>4
    <3>. QED
      BY <3>2, <3>3
  <2>2. Going' /\ pthread'.x = pthread.x
    BY <1>3 DEF Going
  <2>. QED
    BY <1>1, <1>2, <2>1, <2>2, WriteMissesNone DEF SerialInv
<1>7. ASSUME NEW d \in DpPort, DpOf[d] = pthread.x
      PROVE  Cardinality(Left(d)') <= Cardinality(TodoOf(d)')
  <2>1. d # NULL
    BY NullAssumption
  <2>2. \A j \in Doc : rftable'[j] = IF j = i THEN e ELSE rftable[j]
    BY <1>2 DEF TypeOK
  <2>3. RowsOfDpPort(d)' = RowsOfDpPort(d) \ {i}
    <3>1. e # NULL
      BY <1>1, NullAssumption
    <3>2. \A j \in Doc : j \in RowsOfDpPort(d)' <=> j \in RowsOfDpPort(d) /\ j # i
      BY <1>1, <2>1, <2>2, <3>1 DEF RowsOfDpPort, Rows
    <3>3. RowsOfDpPort(d)' \subseteq Doc /\ RowsOfDpPort(d) \subseteq Doc
      BY DEF RowsOfDpPort, Rows
    <3>. QED
      BY <3>2, <3>3
  <2>4. Left(d)' = Left(d)
    BY <1>2, <1>3, <2>3 DEF Left, i
  <2>5. TodoOf(d)' = TodoOf(d)
    BY <1>3 DEF TodoOf
  <2>6. Cardinality(Left(d)) <= Cardinality(TodoOf(d))
    BY <1>2, <1>7 DEF SerialInv, ProxyCurrent, Going
  <2>. QED
    BY <2>4, <2>5, <2>6
<1>8. ProxyCurrent'
  <2>1. \A t \in pthread'.todo : DpOf[t[2]] = pthread'.x
    BY <1>2, <1>3 DEF SerialInv, ProxyCurrent, Going
  <2>. QED
    BY <1>3, <1>7, <2>1 DEF ProxyCurrent
<1>. QED
  BY <1>4, <1>5, <1>6, <1>8 DEF SerialInv

LEMMA DownResetSerial ==
  ASSUME SerialInv, NoOverlap', DownReset
  PROVE  SerialInv' /\ StrictLifeStep
<1>1. /\ IInv' /\ UNCHANGED <<rftable, cthread>> /\ pthread.pc = "down_reset"
      /\ pthread \in PState /\ cthread.pc = "idle" /\ Going
  BY DownResetStep DEF SerialInv, DownReset, IInv, TypeOK, NoOverlap, Going
<1>2. /\ pthread'.pc = "down" /\ pthread'.x = pthread.x
      /\ pthread'.todo = pthread.todo
  BY <1>1 DEF DownReset, PState
<1>3. NoneMissed' /\ StrictLifeStep
  BY <1>1, <1>2, ReadMissesNone DEF SerialInv, Going
<1>4. \A d : Left(d)' = Left(d) /\ TodoOf(d)' = TodoOf(d)
  BY <1>1, <1>2 DEF Left, TodoOf, RowsOfDpPort, Rows
<1>5. ProxyCurrent'
  BY <1>1, <1>2, <1>4 DEF SerialInv, ProxyCurrent
<1>6. ClientCurrent'
  BY <1>1 DEF ClientCurrent
<1>. QED
  BY <1>1, <1>3, <1>5, <1>6 DEF SerialInv

-------------------------------------------------------------------------------
(* The proxy channel's thread: mapping packets. *)

LEMMA MapPortSerial ==
  ASSUME SerialInv, NoOverlap', NEW v \in VmPort, NEW s \in VsPort, MapPort(v, s)
  PROVE  SerialInv' /\ StrictLifeStep
<1>1. IInv' /\ UNCHANGED <<rftable, cthread>> /\ pthread.pc = "idle"
  BY MapPortStep DEF SerialInv, MapPort
<1>2. pthread'.pc = "map_save"
  BY DEF MapPort, IdleP
<1>3. NoneMissed' /\ StrictLifeStep
  BY <1>1, ReadMissesNone DEF SerialInv, Going
<1>4. ClientCurrent' /\ ProxyCurrent'
  BY <1>1, <1>2 DEF ClientCurrent, ProxyCurrent, Going, NoOverlap
<1>. QED
  BY <1>1, <1>3, <1>4 DEF SerialInv

LEMMA MapSaveSerial ==
  ASSUME SerialInv, NoOverlap', MapSave
  PROVE  SerialInv' /\ StrictLifeStep
<1>. DEFINE i == pthread.id
            e == pthread.entry
<1>1. /\ i \in Doc /\ e.vm # NULL /\ e.dp # NULL /\ e.vs # NULL
      /\ rftable[i] \in Entry /\ rftable[i].vm = e.vm /\ rftable[i].dp = e.dp
  BY DEF MapSave, SerialInv, IInv, ProxySafe
<1>2. /\ rftable' = [rftable EXCEPT ![i] = e] /\ pthread.pc = "map_save"
      /\ pthread' = [pthread EXCEPT !.pc = "map_send"] /\ pthread \in PState
      /\ UNCHANGED cthread /\ cthread.pc = "idle"
  BY DEF MapSave, Save, SerialInv, IInv, TypeOK, NoOverlap
<1>. HIDE DEF i, e
<1>3. Activated(rftable[i], e)
  BY <1>1, NullAssumption DEF Activated
<1>4. NoneMissed'
  BY <1>1, <1>2, PairWrite, WriteMissesNone DEF SerialInv, IInv, Going
<1>5. StrictLifeStep
  BY <1>1, <1>2, <1>3, StrictWrite DEF SerialInv, IInv
<1>6. ClientCurrent' /\ ProxyCurrent'
  BY <1>2 DEF ClientCurrent, ProxyCurrent, Going, PState
<1>7. IInv'
  BY MapSaveStep DEF SerialInv
<1>. QED
  BY <1>4, <1>5, <1>6, <1>7 DEF SerialInv

LEMMA MapSendSerial ==
  ASSUME SerialInv, NoOverlap', MapSend
  PROVE  SerialInv' /\ StrictLifeStep
<1>1. /\ IInv' /\ UNCHANGED <<rftable, cthread>> /\ pthread' = IdleP
      /\ pthread.pc = "map_send" /\ cthread.pc = "idle"
  BY MapSendStep DEF SerialInv, MapSend, NoOverlap
<1>2. NoneMissed' /\ StrictLifeStep
  BY <1>1, ReadMissesNone DEF SerialInv, Going
<1>3. ClientCurrent' /\ ProxyCurrent'
  BY <1>1 DEF ClientCurrent, ProxyCurrent, Going, IdleP
<1>. QED
  BY <1>1, <1>2, <1>3 DEF SerialInv

-------------------------------------------------------------------------------
(* The specification. *)

LEMMA InitSerial == Init => SerialInv
<1>. SUFFICES ASSUME Init PROVE SerialInv
  OBVIOUS
<1>1. ASSUME NEW c \in Config
      PROVE  NULL # IdleVm(c[1])
  BY ConfigPair, IdleType, NullAssumption
<1>2. NoneMissed
  BY <1>1 DEF Init, NoneMissed
<1>3. NoOverlap /\ ClientCurrent /\ ProxyCurrent
  BY DEF Init, NoOverlap, ClientCurrent, ProxyCurrent, Going, IdleC, IdleP
<1>. QED
  BY InitIInv, <1>2, <1>3 DEF SerialInv

LEMMA NextSerial ==
  ASSUME OneToOne, FiniteDocuments, SerialInv, [SerialNext]_vars
  PROVE  SerialInv' /\ StrictLifeStep
<1>1. CASE CNext /\ NoOverlap'
  BY <1>1, RegisterVmPortSerial, VmLookupDpSerial, VmInsertSerial, VmSaveSerial,
     VmAskMapSerial
  DEF CNext
<1>2. CASE PNext /\ NoOverlap'
  BY <1>2, RegisterDpPortSerial, ReconfigureDpSerial, ConfigDpSerial,
     DpLookupVmSerial, DpInsertSerial, DpSaveSerial, DpAskMapSerial,
     SetDpDownSerial, DownLookupSerial, DownSaveSerial, DownResetSerial,
     MapPortSerial, MapSaveSerial, MapSendSerial
  DEF PNext
<1>3. CASE UNCHANGED vars
  <2>1. UNCHANGED <<rftable, cthread, pthread>>
    BY <1>3 DEF vars
  <2>2. IInv'
    BY <1>3, NextIInv DEF SerialInv
  <2>3. NoneMissed' /\ StrictLifeStep
    BY <2>1, ReadMissesNone DEF SerialInv, Going
  <2>4. NoOverlap' /\ ClientCurrent'
    BY <2>1 DEF SerialInv, NoOverlap, ClientCurrent, RowsOfDpPort, Rows
  <2>5. \A d, v : /\ Left(d)' = Left(d) /\ TodoOf(d)' = TodoOf(d)
                  /\ RowsOfVm(v)' = RowsOfVm(v)
    BY <2>1 DEF Left, TodoOf, RowsOfDpPort, RowsOfVm, Rows
  <2>6. ProxyCurrent'
    BY <2>1, <2>5 DEF SerialInv, ProxyCurrent, Going
  <2>. QED
    BY <2>2, <2>3, <2>4, <2>6 DEF SerialInv
<1>. QED
  BY <1>1, <1>2, <1>3 DEF SerialNext

(* No step drops a document: what is inserted or saved is an entry. *)
LEMMA RowsStay ==
  ASSUME IInv, CNext \/ PNext \/ UNCHANGED vars
  PROVE  \A i \in Rows : i \in Rows'
<1>1. CASE UNCHANGED rftable
  BY <1>1 DEF Rows
<1>2. ASSUME NEW i \in Doc, NEW e \in Entry, rftable' = [rftable EXCEPT ![i] = e]
      PROVE  \A j \in Rows : j \in Rows'
  BY <1>2, NullAssumption DEF IInv, TypeOK, Rows
<1>3. CASE VmInsert
  <2>1. IdleVm(cthread.vm) \in Entry
    BY <1>3, IdleType DEF VmInsert, IInv, ClientSafe
  <2>. QED
    BY <1>2, <1>3, <2>1 DEF VmInsert, Insert
<1>4. CASE VmSave
  BY <1>2, <1>4 DEF VmSave, Save, IInv, ClientSafe
<1>5. CASE DpInsert
  <2>1. IdleDp(pthread.dp) \in Entry
    BY <1>5, IdleType DEF DpInsert, IInv, ProxySafe
  <2>. QED
    BY <1>2, <1>5, <2>1 DEF DpInsert, Insert
<1>6. CASE DpSave \/ DownSave \/ MapSave
  BY <1>2, <1>6 DEF DpSave, DownSave, MapSave, Save, IInv, ProxySafe
<1>7. CASE CNext /\ ~VmInsert /\ ~VmSave
  BY <1>1, <1>7 DEF CNext, RegisterVmPort, VmLookupDp, VmAskMap
<1>8. CASE PNext /\ ~DpInsert /\ ~DpSave /\ ~DownSave /\ ~MapSave
  BY <1>1, <1>8 DEF PNext, RegisterDpPort, ReconfigureDp, ConfigDp, DpLookupVm,
     DpAskMap, SetDpDown, DownLookup, DownReset, MapPort, MapSend
<1>9. CASE UNCHANGED vars
  BY <1>1, <1>9 DEF vars
<1>. QED
  BY <1>3, <1>4, <1>5, <1>6, <1>7, <1>8, <1>9

(* A document that holds a VM port still holds it after a step of its life. *)
LEMMA StrictKeepsVm ==
  ASSUME StrictLifeStep, \A i \in Rows : i \in Rows', NEW v \in VmPort
  PROVE  RowsOfVm(v) # {} => RowsOfVm(v)' # {}
<1>. SUFFICES ASSUME NEW i \in Rows, rftable[i].vm = v
              PROVE  rftable'[i].vm = v
  BY DEF RowsOfVm
<1>. DEFINE e == rftable[i]
            f == rftable'[i]
<1>1. f = e \/ Born(e, f) \/ Associated(e, f) \/ Activated(e, f) \/ PutDown(e, f)
  BY DEF StrictLifeStep, Rows
<1>2. e # NULL /\ e.vm = v /\ v # NULL
  BY NullAssumption DEF Rows
<1>. HIDE DEF e, f
<1>3. f.vm = v
  BY <1>1, <1>2 DEF Born, Associated, Activated, PutDown, IsIdleVmPort, IsIdleDpPort
<1>. QED
  BY <1>3 DEF f

(* What the handlers remember is current, and nothing is missed between    *)
(* them, for every configuration that pairs each port with one other.      *)
THEOREM SerialInductive ==
  ASSUME OneToOne, FiniteDocuments
  PROVE  SerialSpec => []SerialInv
<1>1. SerialInv /\ [SerialNext]_vars => SerialInv'
  BY NextSerial
<1>. QED
  BY InitSerial, <1>1, PTL DEF SerialSpec

(* When handlers run one at a time, a VM port and the datapath port        *)
(* configured for it are never both left idle: whichever registers second  *)
(* finds the first, and a datapath that goes down leaves no idle port      *)
(* behind (register_vm_port, register_dp_port, set_dp_down).               *)
THEOREM SerialMissesNone ==
  ASSUME OneToOne, FiniteDocuments
  PROVE  SerialSpec => []NoMissedAssociation
<1>1. SerialInv => NoMissedAssociation
  BY DEF SerialInv, NoneMissed, NoMissedAssociation, Quiet, Going, Rows
<1>. QED
  BY SerialInductive, <1>1, PTL

(* When handlers run one at a time, no handler saves a stale copy: the two *)
(* racing steps of a document do not happen (every set_entry).             *)
THEOREM SerialStrict ==
  ASSUME OneToOne, FiniteDocuments
  PROVE  SerialSpec => StrictLifecycle
<1>1. SerialInv /\ [SerialNext]_vars => [StrictLifeStep]_vars
  BY NextSerial
<1>. QED
  BY SerialInductive, <1>1, PTL DEF SerialSpec, StrictLifecycle

(* When handlers run one at a time, a VM port that has registered stays in *)
(* the table, whatever its datapath does (set_dp_port_down).               *)
THEOREM SerialKeepsVms ==
  ASSUME OneToOne, FiniteDocuments
  PROVE  SerialSpec => RegisteredVmKept
<1>. DEFINE Kept == \A v \in VmPort : RowsOfVm(v) # {} => RowsOfVm(v)' # {}
<1>1. SerialInv /\ [SerialNext]_vars => [Kept]_vars
  BY NextSerial, StrictKeepsVm, RowsStay DEF SerialInv, SerialNext
<1>. QED
  BY SerialInductive, <1>1, PTL DEF SerialSpec, RegisteredVmKept
===============================================================================
