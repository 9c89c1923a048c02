------------------------------- MODULE ISLProofs -------------------------------
(***************************************************************************)
(* Proofs about the ISL table and the routes sent across it, for every set *)
(* of datapaths and every ISL configuration, with any number of crashes:   *)
(* entries and messages follow the configuration, active entries are up.   *)
(* And until the first crash, for configurations that have an end in one   *)
(* row at most: each end has one entry, links are active from both ends,   *)
(* and the two halves of a route meet.                                     *)
(***************************************************************************)
EXTENDS ISLRoutes, TLAPS

(* What the variables are, as far as the arguments need it.                *)
IslShape ==
    /\ isltable \in [Doc -> IslEntry \cup {NULL}]
    /\ thread = [pc |-> thread.pc, todo |-> thread.todo, me |-> thread.me, other |-> thread.other]
    /\ thread.pc \in {"idle", "register", "remote", "down_own", "down_rem"}
    /\ joined \subseteq Dp
    /\ waiting \subseteq {p \in DpPort : DpOf[p] \in joined}

(* The message that is handled: a port that is up, or a datapath.          *)
Registering(p) == p \in DpPort \ waiting /\ DpOf[p] \in joined

IslMessage ==
    /\ thread.pc = "idle" => message = NULL
    /\ message # NULL =>
         \/ /\ thread.pc \in {"register", "remote"}
            /\ message.port # NULL /\ Registering(message.port)
         \/ /\ thread.pc \in {"down_own", "down_rem"}
            /\ message.port = NULL /\ message.dp \in Dp
    /\ thread.pc \in {"register", "remote"} => Registering(message.port)
    /\ thread.pc \in {"down_own", "down_rem"} => message.dp \in Dp

(* The handler's locals.                                                   *)
IslLocals ==
    /\ thread.pc \in {"register", "remote"} =>
         \A t \in thread.todo : t[1] \in Links /\ PortOf[t[1][1]] = message.port
    /\ thread.pc = "remote" =>
         /\ <<thread.me, thread.other>> \in Links
         /\ Up(thread.me) /\ Up(thread.other)
    /\ thread.pc \in {"down_own", "down_rem"} => thread.todo \subseteq Rows

(* An end in the table is up, or a handler is about to take it out.        *)
OwnUp(i) ==
    \/ Up(isltable[i].own)
    \/ /\ thread.pc = "down_own" /\ i \in thread.todo
       /\ DpOf[PortOf[isltable[i].own]] = message.dp

RemUp(i) ==
    \/ Up(isltable[i].rem)
    \/ /\ thread.pc = "down_own" \/ (thread.pc = "down_rem" /\ i \in thread.todo)
       /\ DpOf[PortOf[isltable[i].rem]] = message.dp

EntriesUp == \A i \in Rows :
    /\ isltable[i].own # NULL => OwnUp(i)
    /\ isltable[i].rem # NULL => RemUp(i)

IslInv == IslShape /\ IslMessage /\ IslLocals /\ EntriesUp /\ IslFollowsConfig

LEMMA LinkEnds ==
  ASSUME NEW c \in Links
  PROVE  /\ c[1] \in End /\ c[2] \in End /\ c = <<c[1], c[2]>> /\ <<c[2], c[1]>> \in Links
         /\ c[1] # NULL /\ c[2] # NULL
<1>1. IslConfig \subseteq End \X End /\ NULL \notin End
  BY IslAssumption
<1>2. \A k \in IslConfig : k[1] \in End /\ k[2] \in End /\ k = <<k[1], k[2]>>
  BY <1>1
<1>. QED
  BY <1>1, <1>2 DEF Links

LEMMA LinksOfPort ==
  ASSUME NEW p, NEW k, NEW t \in LinksOf(p, k)
  PROVE  t[1] \in Links /\ PortOf[t[1][1]] = p
  BY DEF LinksOf, Links

LEMMA InitIslInv == IslInit => IslInv
  BY DEF IslInit, IslInv, Idle, IslShape, IslMessage, IslLocals, EntriesUp, Rows,
         IslFollowsConfig

-------------------------------------------------------------------------------
(* register_dp_port. *)

LEMMA RegisterIslPortStep ==
  ASSUME IslInv, NEW p \in DpPort, RegisterIslPort(p)
  PROVE  IslInv'
<1>1. /\ thread.pc = "idle" /\ p \in waiting
      /\ waiting' = waiting \ {p} /\ message' = [port |-> p, dp |-> NULL]
      /\ thread' = [pc |-> "register", todo |-> LinksOf(p, crashes), me |-> NULL, other |-> NULL]
      /\ UNCHANGED <<isltable, joined>>
  BY DEF RegisterIslPort, Register, Idle
<1>2. p # NULL /\ Registering(p)'
  BY <1>1, IslAssumption DEF IslInv, IslShape, Registering
<1>3. IslShape' /\ IslMessage'
  BY <1>1, <1>2 DEF IslInv, IslShape, IslMessage
<1>4. IslLocals'
  BY <1>1, LinksOfPort DEF IslLocals
<1>5. \A a \in End : Up(a) => Up(a)'
  BY <1>1 DEF Up
<1>6. \A i \in Rows : isltable[i] \in IslEntry
  BY DEF IslInv, IslShape, Rows
<1>7. EntriesUp' /\ IslFollowsConfig'
  BY <1>1, <1>5, <1>6 DEF IslInv, EntriesUp, OwnUp, RemUp, Rows, IslFollowsConfig, IslEntry
<1>. QED
  BY <1>3, <1>4, <1>7 DEF IslInv

(* A handler that registers writes an entry whose ends are up and, if it   *)
(* has both, are those of a link.                                          *)
LEMMA TableWrite ==
  ASSUME IslInv, NEW i \in Doc, NEW e \in IslEntry, Save(i, e),
         UNCHANGED <<joined, waiting, message>>,
         thread.pc \in {"register", "remote"},
         e.own # NULL => Up(e.own), e.rem # NULL => Up(e.rem),
         e.own # NULL /\ e.rem # NULL => <<e.own, e.rem>> \in Links
  PROVE  /\ isltable' \in [Doc -> IslEntry \cup {NULL}]
         /\ EntriesUp' /\ IslFollowsConfig'
<1>1. /\ isltable \in [Doc -> IslEntry \cup {NULL}]
      /\ isltable' \in [Doc -> IslEntry \cup {NULL}]
      /\ isltable'[i] = e
      /\ \A j \in Doc \ {i} : isltable'[j] = isltable[j]
  BY DEF Save, IslInv, IslShape
<1>2. ASSUME NEW j \in Rows'
      PROVE  /\ isltable'[j].own # NULL => Up(isltable'[j].own)
             /\ isltable'[j].rem # NULL => Up(isltable'[j].rem)
             /\ isltable'[j].own # NULL /\ isltable'[j].rem # NULL
                  => <<isltable'[j].own, isltable'[j].rem>> \in Links
  <2>1. CASE j = i
    BY <2>1, <1>1
  <2>2. CASE j # i
    <3>1. j \in Rows /\ isltable'[j] = isltable[j]
      BY <2>2, <1>1 DEF Rows
    <3>. QED
      BY <3>1 DEF IslInv, EntriesUp, OwnUp, RemUp, IslFollowsConfig
  <2>. QED
    BY <2>1, <2>2
<1>3. \A a : Up(a)' <=> Up(a)
  BY DEF Up
<1>4. EntriesUp'
  BY <1>2, <1>3 DEF EntriesUp, OwnUp, RemUp
<1>5. IslFollowsConfig'
  BY <1>2 DEF IslFollowsConfig
<1>. QED
  BY <1>1, <1>4, <1>5

LEMMA InsertIsSave ==
  ASSUME NEW e, Insert(e)
  PROVE  \E i \in Doc : isltable[i] = NULL /\ Save(i, e)
  BY DEF Insert, Save

(* The rest of the invariant, when only the table and the locals change.   *)
LEMMA StillRegistering ==
  ASSUME IslInv, UNCHANGED <<joined, waiting, message>>,
         thread.pc \in {"register", "remote"}, thread'.pc \in {"register", "remote"},
         thread' = [pc |-> thread'.pc, todo |-> thread'.todo,
                    me |-> thread'.me, other |-> thread'.other],
         thread'.todo \subseteq thread.todo,
         thread'.pc = "remote" => /\ <<thread'.me, thread'.other>> \in Links
                                  /\ Up(thread'.me) /\ Up(thread'.other),
         isltable' \in [Doc -> IslEntry \cup {NULL}], EntriesUp', IslFollowsConfig'
  PROVE  IslInv'
<1>1. IslShape'
  BY DEF IslInv, IslShape
<1>2. IslMessage'
  BY DEF IslInv, IslMessage, Registering
<1>3. IslLocals'
  BY DEF IslInv, IslLocals, Up
<1>. QED
  BY <1>1, <1>2, <1>3 DEF IslInv

LEMMA RegisterLinkStep ==
  ASSUME IslInv, RegisterLink
  PROVE  IslInv'
<1>1. PICK t \in thread.todo : LET link == t[1] IN
        \/ /\ RowsByAddr(link[2]) = {}
           /\ Insert([own |-> link[1], rem |-> NULL])
           /\ thread' = [thread EXCEPT !.todo = @ \ {t}]
        \/ \E i \in RowsByAddr(link[2]) :
             /\ IsIdleDpPort(isltable[i])
             /\ Save(i, [isltable[i] EXCEPT !.rem = link[1]])
             /\ thread' = [thread EXCEPT !.pc = "remote", !.todo = @ \ {t},
                                         !.me = link[1], !.other = link[2]]
        \/ \E i \in RowsByAddr(link[2]) :
             /\ ~IsIdleDpPort(isltable[i])
             /\ thread' = [thread EXCEPT !.todo = @ \ {t}]
             /\ UNCHANGED isltable
  BY DEF RegisterLink
<1> DEFINE link == t[1]
<1>2. /\ thread.pc = "register"
      /\ UNCHANGED <<joined, waiting, message>>
      /\ thread = [pc |-> thread.pc, todo |-> thread.todo, me |-> thread.me,
                   other |-> thread.other]
  BY DEF RegisterLink, IslInv, IslShape
<1>3. link \in Links /\ PortOf[link[1]] = message.port /\ Registering(message.port)
  BY <1>2 DEF IslInv, IslLocals, IslMessage
<1>4. /\ link[1] \in End /\ link[2] \in End /\ link = <<link[1], link[2]>>
      /\ <<link[2], link[1]>> \in Links /\ link[1] # NULL /\ link[2] # NULL
  BY <1>3, LinkEnds
<1>5. Up(link[1])
  BY <1>3 DEF Registering, Up
<1>. HIDE DEF link
<1>6. CASE RowsByAddr(link[2]) = {} /\ Insert([own |-> link[1], rem |-> NULL])
           /\ thread' = [thread EXCEPT !.todo = @ \ {t}]
  <2> DEFINE e == [own |-> link[1], rem |-> NULL]
  <2>1. e \in IslEntry /\ e.own = link[1] /\ e.rem = NULL
    BY <1>4 DEF IslEntry
  <2>2. PICK i \in Doc : Save(i, e)
    BY <1>6, InsertIsSave
  <2>. HIDE DEF e
  <2>3. isltable' \in [Doc -> IslEntry \cup {NULL}] /\ EntriesUp' /\ IslFollowsConfig'
    BY <1>2, <1>5, <2>1, <2>2, TableWrite
  <2>. QED
    BY <1>2, <1>6, <2>3, StillRegistering
<1>7. ASSUME NEW i \in RowsByAddr(link[2]), IsIdleDpPort(isltable[i]),
             Save(i, [isltable[i] EXCEPT !.rem = link[1]]),
             thread' = [thread EXCEPT !.pc = "remote", !.todo = @ \ {t},
                                      !.me = link[1], !.other = link[2]]
      PROVE  IslInv'
  <2> DEFINE e == [isltable[i] EXCEPT !.rem = link[1]]
  <2>1. i \in Rows /\ i \in Doc /\ isltable[i] \in IslEntry /\ isltable[i].own = link[2]
    BY <1>7 DEF RowsByAddr, Rows, IslInv, IslShape
  <2>2. e \in IslEntry /\ e.own = link[2] /\ e.rem = link[1]
    BY <2>1, <1>4 DEF IslEntry
  <2>3. Up(link[2])
    BY <2>1, <1>2, <1>4 DEF IslInv, EntriesUp, OwnUp
  <2>4. Save(i, e)
    BY <1>7
  <2>. HIDE DEF e
  <2>5. isltable' \in [Doc -> IslEntry \cup {NULL}] /\ EntriesUp' /\ IslFollowsConfig'
    BY <1>2, <1>4, <1>5, <2>1, <2>2, <2>3, <2>4, TableWrite
  <2>6. /\ thread' = [pc |-> "remote", todo |-> thread.todo \ {t},
                      me |-> link[1], other |-> link[2]]
    BY <1>2, <1>7
  <2>. QED
    BY <1>2, <1>3, <1>4, <1>5, <2>3, <2>5, <2>6, StillRegistering
<1>8. CASE thread' = [thread EXCEPT !.todo = @ \ {t}] /\ UNCHANGED isltable
  <2>1. isltable' \in [Doc -> IslEntry \cup {NULL}] /\ IslFollowsConfig'
    BY <1>8 DEF IslInv, IslShape, IslFollowsConfig, Rows
  <2>2. EntriesUp'
    BY <1>2, <1>8 DEF IslInv, EntriesUp, OwnUp, RemUp, Rows, Up
  <2>. QED
    BY <1>2, <1>8, <2>1, <2>2, StillRegistering
<1>. QED
  BY <1>1, <1>6, <1>7, <1>8 DEF link

LEMMA RegisterRemoteStep ==
  ASSUME IslInv, RegisterRemote
  PROVE  IslInv'
<1> DEFINE me == thread.me
           other == thread.other
<1>1. /\ thread.pc = "remote" /\ UNCHANGED <<joined, waiting, message>>
      /\ thread' = [thread EXCEPT !.pc = "register"]
      /\ thread = [pc |-> thread.pc, todo |-> thread.todo, me |-> thread.me,
                   other |-> thread.other]
  BY DEF RegisterRemote, IslInv, IslShape
<1>2. <<me, other>> \in Links /\ Up(me) /\ Up(other)
  BY <1>1 DEF IslInv, IslLocals
<1>3. me \in End /\ other \in End
  BY <1>2, LinkEnds
<1>. HIDE DEF me, other
<1>4. CASE Insert([own |-> me, rem |-> other])
  <2> DEFINE e == [own |-> me, rem |-> other]
  <2>1. e \in IslEntry /\ e.own = me /\ e.rem = other
    BY <1>3 DEF IslEntry
  <2>2. PICK i \in Doc : Save(i, e)
    BY <1>4, InsertIsSave
  <2>. HIDE DEF e
  <2>. QED
    BY <1>1, <1>2, <2>1, <2>2, TableWrite, StillRegistering
<1>5. ASSUME NEW i \in RowsByRemote(other), Save(i, [isltable[i] EXCEPT !.own = me])
      PROVE  IslInv'
  <2> DEFINE e == [isltable[i] EXCEPT !.own = me]
  <2>1. i \in Rows /\ i \in Doc /\ isltable[i] \in IslEntry /\ isltable[i].rem = other
    BY <1>5 DEF RowsByRemote, Rows, IslInv, IslShape
  <2>2. e \in IslEntry /\ e.own = me /\ e.rem = other
    BY <2>1, <1>3 DEF IslEntry
  <2>3. Save(i, e)
    BY <1>5
  <2>. HIDE DEF e
  <2>. QED
    BY <1>1, <1>2, <2>1, <2>2, <2>3, TableWrite, StillRegistering
<1>6. CASE UNCHANGED isltable
  <2>1. isltable' \in [Doc -> IslEntry \cup {NULL}] /\ IslFollowsConfig'
    BY <1>6 DEF IslInv, IslShape, IslFollowsConfig, Rows
  <2>2. EntriesUp'
    BY <1>1, <1>6 DEF IslInv, EntriesUp, OwnUp, RemUp, Rows, Up
  <2>. QED
    BY <1>1, <2>1, <2>2, StillRegistering
<1>. QED
  BY <1>4, <1>5, <1>6 DEF RegisterRemote, me, other

LEMMA RegisteredStep ==
  ASSUME IslInv, Registered
  PROVE  IslInv'
<1>1. /\ thread.pc = "register" /\ message' = NULL
      /\ thread' = [pc |-> "idle", todo |-> {}, me |-> NULL, other |-> NULL]
      /\ UNCHANGED <<isltable, joined, waiting>>
  BY DEF Registered, Idle
<1>2. IslShape' /\ IslMessage' /\ IslLocals'
  BY <1>1 DEF IslInv, IslShape, IslMessage, IslLocals
<1>3. EntriesUp' /\ IslFollowsConfig'
  BY <1>1 DEF IslInv, EntriesUp, OwnUp, RemUp, Rows, Up, IslFollowsConfig
<1>. QED
  BY <1>2, <1>3 DEF IslInv

-------------------------------------------------------------------------------
(* set_dp_down. *)

LEMMA RowTypes ==
  ASSUME IslInv, NEW i \in Rows
  PROVE  /\ i \in Doc /\ isltable[i] \in IslEntry
         /\ isltable[i].own # NULL => isltable[i].own \in End
         /\ isltable[i].rem # NULL => isltable[i].rem \in End
  BY DEF IslInv, IslShape, Rows, IslEntry

(* The handler starts over the entries that lose their own end.            *)
LEMMA StartsDown ==
  ASSUME IslInv, NEW x \in Dp,
         thread' = [pc |-> "down_own", todo |-> {i \in Rows : isltable[i].own \in DpEnds(x)},
                    me |-> NULL, other |-> NULL],
         message'.port = NULL, message'.dp = x,
         UNCHANGED <<isltable, waiting>>,
         joined' \subseteq joined, joined \ {x} \subseteq joined',
         \A p \in waiting : DpOf[p] \in joined',
         thread.pc = "idle" \/ (thread.pc \in {"down_own", "down_rem"} /\ message.dp = x)
  PROVE  IslInv'
<1>1. IslShape' /\ IslMessage' /\ IslFollowsConfig'
  BY DEF IslInv, IslShape, IslMessage, IslFollowsConfig, Rows
<1>2. IslLocals'
  BY DEF IslLocals, Rows
<1>3. \A a \in End : Up(a) => Up(a)' \/ DpOf[PortOf[a]] = x
  BY DEF Up
<1>4. EntriesUp'
  <2> SUFFICES ASSUME NEW i \in Rows
               PROVE  /\ isltable[i].own # NULL => OwnUp(i)'
                      /\ isltable[i].rem # NULL => RemUp(i)'
    BY DEF EntriesUp, Rows
  <2>1. /\ isltable[i].own # NULL => isltable[i].own \in End
        /\ isltable[i].rem # NULL => isltable[i].rem \in End
    BY RowTypes
  <2>2. isltable[i].own # NULL => Up(isltable[i].own) \/ DpOf[PortOf[isltable[i].own]] = x
    BY DEF IslInv, EntriesUp, OwnUp
  <2>3. isltable[i].rem # NULL => Up(isltable[i].rem) \/ DpOf[PortOf[isltable[i].rem]] = x
    BY DEF IslInv, EntriesUp, RemUp
  <2>4. ASSUME isltable[i].own # NULL
        PROVE  OwnUp(i)'
    <3>1. DpOf[PortOf[isltable[i].own]] = x => i \in thread'.todo
      BY <2>1, <2>4 DEF DpEnds
    <3>. QED
      BY <1>3, <2>1, <2>2, <2>4, <3>1 DEF OwnUp
  <2>5. ASSUME isltable[i].rem # NULL
        PROVE  RemUp(i)'
    BY <1>3, <2>1, <2>3, <2>5 DEF RemUp
  <2>. QED
    BY <2>4, <2>5
<1>. QED
  BY <1>1, <1>2, <1>4 DEF IslInv

LEMMA SetDpDownStep ==
  ASSUME IslInv, NEW x \in Dp, SetDpDown(x)
  PROVE  IslInv'
<1>1. /\ thread.pc = "idle" /\ joined' = joined \ {x}
      /\ message' = [port |-> NULL, dp |-> x]
      /\ thread' = [pc |-> "down_own", todo |-> {i \in Rows : isltable[i].own \in DpEnds(x)},
                    me |-> NULL, other |-> NULL]
      /\ \A p \in waiting : DpOf[p] # x
      /\ UNCHANGED <<isltable, waiting>>
  BY DEF SetDpDown, Down, Idle
<1>2. \A p \in waiting : DpOf[p] \in joined'
  BY <1>1 DEF IslInv, IslShape
<1>. QED
  BY <1>1, <1>2, StartsDown

(* One entry loses an end.                                                 *)
LEMMA DownOwnStep ==
  ASSUME IslInv, DownOwn
  PROVE  IslInv'
<1>1. PICK i \in thread.todo :
        /\ isltable' = [isltable EXCEPT ![i] = [isltable[i] EXCEPT !.own = NULL]]
        /\ thread' = [thread EXCEPT !.todo = @ \ {i}]
  BY DEF DownOwn, Save
<1>2. /\ thread.pc = "down_own" /\ UNCHANGED <<message, joined, waiting>>
      /\ i \in Rows /\ i \in Doc /\ isltable[i] \in IslEntry /\ thread.todo \subseteq Rows
  BY RowTypes DEF DownOwn, IslInv, IslLocals
<1>3. thread' = [pc |-> "down_own", todo |-> thread.todo \ {i},
                 me |-> thread.me, other |-> thread.other]
  BY <1>1, <1>2 DEF IslInv, IslShape
<1> DEFINE e == [isltable[i] EXCEPT !.own = NULL]
<1>4. e \in IslEntry /\ e.own = NULL /\ e.rem = isltable[i].rem
  BY <1>2 DEF IslEntry
<1>5. isltable' = [isltable EXCEPT ![i] = e]
  BY <1>1
<1>. HIDE DEF e
<1>6. /\ isltable' \in [Doc -> IslEntry \cup {NULL}] /\ isltable'[i] = e
      /\ \A j \in Doc \ {i} : isltable'[j] = isltable[j]
  BY <1>2, <1>4, <1>5 DEF IslInv, IslShape
<1>7. IslShape' /\ IslMessage'
  BY <1>2, <1>3, <1>6 DEF IslInv, IslShape, IslMessage
<1>8. IslLocals'
  BY <1>2, <1>3, <1>4, <1>6 DEF IslLocals, Rows
<1>9. EntriesUp' /\ IslFollowsConfig'
  <2> SUFFICES ASSUME NEW j \in Rows'
               PROVE  /\ isltable'[j].own # NULL => OwnUp(j)'
                      /\ isltable'[j].rem # NULL => RemUp(j)'
                      /\ isltable'[j].own # NULL /\ isltable'[j].rem # NULL =>
                            <<isltable'[j].own, isltable'[j].rem>> \in Links
    BY DEF EntriesUp, IslFollowsConfig
  <2>1. CASE j = i
    <3>1. isltable[i].rem # NULL => RemUp(i)
      BY <1>2 DEF IslInv, EntriesUp
    <3>. QED
      BY <2>1, <3>1, <1>2, <1>3, <1>4, <1>6 DEF RemUp, Up
  <2>2. CASE j # i
    <3>1. j \in Rows /\ isltable'[j] = isltable[j]
      BY <2>2, <1>6 DEF Rows
    <3>. QED
      BY <2>2, <3>1, <1>2, <1>3 DEF IslInv, EntriesUp, IslFollowsConfig, OwnUp, RemUp, Up
  <2>. QED
    BY <2>1, <2>2
<1>. QED
  BY <1>7, <1>8, <1>9 DEF IslInv

LEMMA DownTurnStep ==
  ASSUME IslInv, DownTurn
  PROVE  IslInv'
<1>1. /\ thread.pc = "down_own" /\ thread.todo = {}
      /\ UNCHANGED <<isltable, message, joined, waiting>>
      /\ thread' = [thread EXCEPT !.pc = "down_rem",
                       !.todo = {i \in Rows : isltable[i].rem \in DpEnds(message.dp)}]
  BY DEF DownTurn
<1>2. thread' = [pc |-> "down_rem", todo |-> {i \in Rows : isltable[i].rem \in DpEnds(message.dp)},
                 me |-> thread.me, other |-> thread.other]
  BY <1>1 DEF IslInv, IslShape
<1>3. IslShape' /\ IslMessage' /\ IslFollowsConfig'
  BY <1>1, <1>2 DEF IslInv, IslShape, IslMessage, IslFollowsConfig, Rows
<1>4. IslLocals'
  BY <1>1, <1>2 DEF IslLocals, Rows
<1>5. EntriesUp'
  <2> SUFFICES ASSUME NEW i \in Rows
               PROVE  /\ isltable[i].own # NULL => OwnUp(i)'
                      /\ isltable[i].rem # NULL => RemUp(i)'
    BY <1>1 DEF EntriesUp, Rows
  <2>1. isltable[i].own # NULL => OwnUp(i)'
    BY <1>1 DEF IslInv, EntriesUp, OwnUp, Up
  <2>2. ASSUME isltable[i].rem # NULL
        PROVE  RemUp(i)'
    <3>1. isltable[i].rem \in End
      BY <2>2, RowTypes
    <3>2. DpOf[PortOf[isltable[i].rem]] = message.dp => i \in thread'.todo
      BY <1>2, <3>1 DEF DpEnds
    <3>. QED
      BY <1>1, <1>2, <2>2, <3>2 DEF IslInv, EntriesUp, RemUp, Up
  <2>. QED
    BY <2>1, <2>2
<1>. QED
  BY <1>3, <1>4, <1>5 DEF IslInv

LEMMA DownRemStep ==
  ASSUME IslInv, DownRem
  PROVE  IslInv'
<1>1. PICK i \in thread.todo :
        /\ isltable' = [isltable EXCEPT ![i] = [isltable[i] EXCEPT !.rem = NULL]]
        /\ thread' = [thread EXCEPT !.todo = @ \ {i}]
  BY DEF DownRem, Save
<1>2. /\ thread.pc = "down_rem" /\ UNCHANGED <<message, joined, waiting>>
      /\ i \in Rows /\ i \in Doc /\ isltable[i] \in IslEntry /\ thread.todo \subseteq Rows
  BY RowTypes DEF DownRem, IslInv, IslLocals
<1>3. thread' = [pc |-> "down_rem", todo |-> thread.todo \ {i},
                 me |-> thread.me, other |-> thread.other]
  BY <1>1, <1>2 DEF IslInv, IslShape
<1> DEFINE e == [isltable[i] EXCEPT !.rem = NULL]
<1>4. e \in IslEntry /\ e.rem = NULL /\ e.own = isltable[i].own
  BY <1>2 DEF IslEntry
<1>5. isltable' = [isltable EXCEPT ![i] = e]
  BY <1>1
<1>. HIDE DEF e
<1>6. /\ isltable' \in [Doc -> IslEntry \cup {NULL}] /\ isltable'[i] = e
      /\ \A j \in Doc \ {i} : isltable'[j] = isltable[j]
  BY <1>2, <1>4, <1>5 DEF IslInv, IslShape
<1>7. IslShape' /\ IslMessage'
  BY <1>2, <1>3, <1>6 DEF IslInv, IslShape, IslMessage
<1>8. IslLocals'
  BY <1>2, <1>3, <1>4, <1>6 DEF IslLocals, Rows
<1>9. EntriesUp' /\ IslFollowsConfig'
  <2> SUFFICES ASSUME NEW j \in Rows'
               PROVE  /\ isltable'[j].own # NULL => OwnUp(j)'
                      /\ isltable'[j].rem # NULL => RemUp(j)'
                      /\ isltable'[j].own # NULL /\ isltable'[j].rem # NULL =>
                            <<isltable'[j].own, isltable'[j].rem>> \in Links
    BY DEF EntriesUp, IslFollowsConfig
  <2>1. CASE j = i
    <3>1. isltable[i].own # NULL => OwnUp(i)
      BY <1>2 DEF IslInv, EntriesUp
    <3>. QED
      BY <2>1, <3>1, <1>2, <1>3, <1>4, <1>6 DEF OwnUp, Up
  <2>2. CASE j # i
    <3>1. j \in Rows /\ isltable'[j] = isltable[j]
      BY <2>2, <1>6 DEF Rows
    <3>. QED
      BY <2>2, <3>1, <1>2, <1>3 DEF IslInv, EntriesUp, IslFollowsConfig, OwnUp, RemUp, Up
  <2>. QED
    BY <2>1, <2>2
<1>. QED
  BY <1>7, <1>8, <1>9 DEF IslInv

LEMMA DownEndStep ==
  ASSUME IslInv, DownEnd
  PROVE  IslInv'
<1>1. /\ thread.pc = "down_rem" /\ thread.todo = {} /\ message' = NULL
      /\ thread' = [pc |-> "idle", todo |-> {}, me |-> NULL, other |-> NULL]
      /\ UNCHANGED <<isltable, joined, waiting>>
  BY DEF DownEnd, Idle
<1>2. IslShape' /\ IslMessage' /\ IslLocals'
  BY <1>1 DEF IslInv, IslShape, IslMessage, IslLocals
<1>3. EntriesUp' /\ IslFollowsConfig'
  BY <1>1 DEF IslInv, EntriesUp, OwnUp, RemUp, Rows, Up, IslFollowsConfig
<1>. QED
  BY <1>2, <1>3 DEF IslInv

-------------------------------------------------------------------------------
(* Datapaths that join, and crashes. *)

LEMMA JoinStep ==
  ASSUME IslInv, NEW x \in Dp, Join(x)
  PROVE  IslInv'
<1>1. /\ x \notin joined /\ joined' = joined \cup {x}
      /\ waiting' = waiting \cup {p \in DpPort : DpOf[p] = x}
      /\ UNCHANGED <<isltable, thread, message>>
  BY DEF Join
<1>2. \A p : Registering(p) => Registering(p)'
  BY <1>1 DEF Registering
<1>3. \A a : Up(a) => Up(a)'
  BY <1>1 DEF Up
<1>4. IslShape' /\ IslMessage' /\ IslFollowsConfig'
  BY <1>1, <1>2 DEF IslInv, IslShape, IslMessage, IslFollowsConfig, Rows
<1>5. IslLocals' /\ EntriesUp'
  BY <1>1, <1>3 DEF IslInv, IslLocals, EntriesUp, OwnUp, RemUp, Rows
<1>. QED
  BY <1>4, <1>5 DEF IslInv

LEMMA CrashStep ==
  ASSUME IslInv, Crash
  PROVE  IslInv'
<1>1. message # NULL /\ UNCHANGED <<isltable, message, joined, waiting>>
  BY DEF Crash
<1>2. CASE message.port # NULL
  <2>1. thread' = [pc |-> "register", todo |-> LinksOf(message.port, crashes'),
                   me |-> NULL, other |-> NULL]
    BY <1>2 DEF Crash, Register, Idle
  <2>2. thread.pc \in {"register", "remote"} /\ Registering(message.port)
    BY <1>1, <1>2 DEF IslInv, IslMessage
  <2>3. IslShape' /\ IslMessage' /\ IslFollowsConfig'
    BY <1>1, <1>2, <2>1, <2>2
    DEF IslInv, IslShape, IslMessage, Registering, IslFollowsConfig, Rows
  <2>4. IslLocals'
    BY <1>1, <2>1, LinksOfPort DEF IslLocals
  <2>5. EntriesUp'
    BY <1>1, <2>2 DEF IslInv, EntriesUp, OwnUp, RemUp, Rows, Up
  <2>. QED
    BY <2>3, <2>4, <2>5 DEF IslInv
<1>3. CASE message.port = NULL
  <2>1. thread' = [pc |-> "down_own",
                   todo |-> {i \in Rows : isltable[i].own \in DpEnds(message.dp)},
                   me |-> NULL, other |-> NULL]
    BY <1>3 DEF Crash, Down, Idle
  <2>2. thread.pc \in {"down_own", "down_rem"} /\ message.dp \in Dp
    BY <1>1, <1>3 DEF IslInv, IslMessage
  <2>3. \A p \in waiting : DpOf[p] \in joined
    BY DEF IslInv, IslShape
  <2>. QED
    BY <1>1, <1>3, <2>1, <2>2, <2>3, StartsDown
<1>. QED
  BY <1>2, <1>3

LEMMA NextIslInv ==
  ASSUME IslInv, [IslNext]_islVars
  PROVE  IslInv'
<1>1. CASE IslNext
  BY <1>1, RegisterIslPortStep, RegisterLinkStep, RegisterRemoteStep, RegisteredStep,
     SetDpDownStep, DownOwnStep, DownTurnStep, DownRemStep, DownEndStep, JoinStep, CrashStep
  DEF IslNext
<1>2. CASE UNCHANGED islVars
  BY <1>2 DEF islVars, IslInv, IslShape, IslMessage, IslLocals, EntriesUp, OwnUp, RemUp, Rows,
              Up, Registering, IslFollowsConfig
<1>. QED
  BY <1>1, <1>2

-------------------------------------------------------------------------------
(* The theorems. *)

(* Every step with routes is one of the bare table.                        *)
LEMMA RoutesAreIsl ==
  ASSUME [RoutesNext]_<<islVars, routeVars>>
  PROVE  [IslNext]_islVars
  BY DEF RoutesNext, RegisterRouteMod, ListPorts, SendOwn, ListRemotes, SendRemote, TableStep,
         CrashBoth, IslNext

THEOREM IslInductive == RoutesSpec => []IslInv
<1>1. RoutesInit => IslInv
  BY InitIslInv DEF RoutesInit
<1>2. IslInv /\ [RoutesNext]_<<islVars, routeVars>> => IslInv'
  BY NextIslInv, RoutesAreIsl
<1>. QED
  BY <1>1, <1>2, PTL DEF RoutesSpec

(* No crash, order of joining and leaving, or repeated message makes an    *)
(* entry lead where the ISL configuration has no link (_register_islconf,  *)
(* set_dp_down).                                                           *)
THEOREM TableFollowsConfig == RoutesSpec => []IslFollowsConfig
<1>1. IslInv => IslFollowsConfig
  BY DEF IslInv
<1>. QED
  BY IslInductive, <1>1, PTL

(* When no handler runs, both ends of an active entry are up, however      *)
(* often rfserver has died (_register_islconf, set_dp_down).               *)
THEOREM ActiveEntriesUp == RoutesSpec => []ActiveIsUp
<1>1. IslInv => ActiveIsUp
  BY DEF IslInv, EntriesUp, OwnUp, RemUp, ActiveIsUp
<1>. QED
  BY IslInductive, <1>1, PTL

-------------------------------------------------------------------------------
(* Routes. *)

(* The neighbours' entries that register_route_mod has listed are those of *)
(* links, and so are the messages it has sent.                             *)
RouteInv ==
    /\ rthread = [pc |-> rthread.pc, dp |-> rthread.dp, out |-> rthread.out, todo |-> rthread.todo]
    /\ rthread.pc = "send" => \A e \in rthread.todo : <<e.own, e.rem>> \in Links
    /\ CrossesConfiguredLinks

LEMMA BackToIdle ==
  ASSUME rthread' = IdleR, CrossesConfiguredLinks'
  PROVE  RouteInv'
<1>1. rthread' = [pc |-> "idle", dp |-> NULL, out |-> NULL, todo |-> {}]
  BY DEF IdleR
<1>2. rthread'.pc = "idle" /\ rthread' = [pc |-> rthread'.pc, dp |-> rthread'.dp,
                                          out |-> rthread'.out, todo |-> rthread'.todo]
  BY <1>1
<1>. QED
  BY <1>2 DEF RouteInv

LEMMA SendOwnStep ==
  ASSUME RouteInv, SendOwn
  PROVE  RouteInv'
<1>1. \A m \in sent' : m \in sent \/ m.action.dst = NULL
  BY DEF SendOwn, SendWithMatches, ToPort
<1>2. rthread'.pc = "remotes"
      /\ rthread' = [pc |-> "remotes", dp |-> rthread.dp, out |-> rthread.out, todo |-> {}]
  BY DEF SendOwn, RouteInv
<1>3. CrossesConfiguredLinks'
  BY <1>1 DEF RouteInv, CrossesConfiguredLinks
<1>. QED
  BY <1>2, <1>3 DEF RouteInv

LEMMA ListRemotesStep ==
  ASSUME IslInv, RouteInv, ListRemotes
  PROVE  RouteInv'
<1> DEFINE remote == {isltable[i] : i \in {k \in Rows :
                        isltable[k].rem \in DpEnds(rthread.dp) /\ IsActive(isltable[k])}}
<1>1. \A e \in remote : <<e.own, e.rem>> \in Links
  <2> SUFFICES ASSUME NEW k \in Rows, isltable[k].rem \in DpEnds(rthread.dp), IsActive(isltable[k])
               PROVE  <<isltable[k].own, isltable[k].rem>> \in Links
    OBVIOUS
  <2>1. isltable[k].rem # NULL
    BY IslAssumption DEF DpEnds
  <2>2. isltable[k].own # NULL
    BY <2>1 DEF IsActive, IsIdleRemote
  <2>. QED
    BY <2>1, <2>2 DEF IslInv, IslFollowsConfig
<1>2. CASE rthread' = IdleR
  BY <1>2, BackToIdle DEF ListRemotes, RouteInv, CrossesConfiguredLinks
<1>3. CASE rthread' = [rthread EXCEPT !.pc = "send", !.todo = remote]
  <2>1. rthread' = [pc |-> "send", dp |-> rthread.dp, out |-> rthread.out, todo |-> remote]
    BY <1>3 DEF RouteInv
  <2>. HIDE DEF remote
  <2>2. rthread'.pc = "send" /\ rthread'.todo = remote
        /\ rthread' = [pc |-> rthread'.pc, dp |-> rthread'.dp, out |-> rthread'.out,
                       todo |-> rthread'.todo]
    BY <2>1
  <2>3. Links' = Links /\ CrossesConfiguredLinks'
    BY DEF ListRemotes, RouteInv, CrossesConfiguredLinks, Links
  <2>. QED
    BY <1>1, <2>2, <2>3 DEF RouteInv
<1>. QED
  BY <1>2, <1>3 DEF ListRemotes

LEMMA SendRemoteStep ==
  ASSUME RouteInv, SendRemote
  PROVE  RouteInv'
<1>1. PICK e \in rthread.todo :
        /\ sent' = sent \cup SendWithMatches(DpOf[PortOf[e.own]], Across(e),
                                             PortEntries(DpOf[PortOf[e.own]]))
        /\ rthread' = IF rthread.todo = {e} THEN IdleR
                                            ELSE [rthread EXCEPT !.todo = @ \ {e}]
  BY DEF SendRemote
<1>2. <<e.own, e.rem>> \in Links /\ rthread.pc = "send"
  BY DEF SendRemote, RouteInv
<1> DEFINE x == DpOf[PortOf[e.own]]
<1>3. ASSUME NEW m \in sent', m \notin sent
      PROVE  /\ m.action.src = e.own /\ m.action.dst = e.rem /\ m.action.port = PortOf[e.own]
             /\ m.dp = x /\ m.in \in External[x]
  <2>1. PICK k \in PortEntries(x) :
          m = [dp |-> x, eth |-> k.eth, in |-> k.port, action |-> Across(e)]
    BY <1>1, <1>3 DEF SendWithMatches
  <2>2. k.port \in External[x]
    BY DEF PortEntries, ActivePorts
  <2>. QED
    BY <2>1, <2>2 DEF Across
<1>4. CrossesConfiguredLinks'
  BY <1>2, <1>3 DEF RouteInv, CrossesConfiguredLinks
<1>5. CASE rthread' = IdleR
  BY <1>4, <1>5, BackToIdle
<1>6. CASE rthread' = [rthread EXCEPT !.todo = @ \ {e}]
  <2>1. rthread' = [pc |-> "send", dp |-> rthread.dp, out |-> rthread.out,
                    todo |-> rthread.todo \ {e}]
    BY <1>2, <1>6 DEF RouteInv
  <2>2. /\ rthread'.todo \subseteq rthread.todo
        /\ rthread' = [pc |-> rthread'.pc, dp |-> rthread'.dp, out |-> rthread'.out,
                       todo |-> rthread'.todo]
    BY <2>1
  <2>. QED
    BY <1>2, <1>4, <2>2 DEF RouteInv
<1>. QED
  BY <1>1, <1>5, <1>6

LEMMA OtherRouteSteps ==
  ASSUME RouteInv,
         \/ \E x \in Dp, p \in Output : RegisterRouteMod(x, p)
         \/ ListPorts
         \/ TableStep
         \/ CrashBoth
         \/ UNCHANGED <<islVars, routeVars>>
  PROVE  RouteInv'
<1>1. ASSUME NEW x \in Dp, NEW p \in Output, RegisterRouteMod(x, p)
      PROVE  RouteInv'
  BY <1>1 DEF RegisterRouteMod, IdleR, RouteInv, CrossesConfiguredLinks
<1>2. CASE ListPorts
  <2>1. rthread' = [pc |-> "links", dp |-> rthread.dp, out |-> rthread.out,
                    todo |-> PortEntries(rthread.dp)]
    BY <1>2 DEF ListPorts, RouteInv
  <2>. QED
    BY <1>2, <2>1 DEF ListPorts, RouteInv, CrossesConfiguredLinks
<1>3. CASE TableStep \/ UNCHANGED <<islVars, routeVars>>
  BY <1>3 DEF TableStep, Disturb, routeVars, RouteInv, CrossesConfiguredLinks
<1>4. CASE CrashBoth
  <2>1. CASE rthread' = IdleR
    BY <1>4, <2>1, BackToIdle DEF CrashBoth, Disturb, RouteInv, CrossesConfiguredLinks
  <2>2. CASE rthread' = [rthread EXCEPT !.pc = "ports", !.todo = {}]
    <3>1. rthread' = [pc |-> "ports", dp |-> rthread.dp, out |-> rthread.out, todo |-> {}]
      BY <2>2 DEF RouteInv
    <3>. QED
      BY <1>4, <3>1 DEF CrashBoth, Disturb, RouteInv, CrossesConfiguredLinks
  <2>. QED
    BY <1>4, <2>1, <2>2 DEF CrashBoth
<1>. QED
  BY <1>1, <1>2, <1>3, <1>4

(* Whatever interleaves and crashes, a message sends packets across no     *)
(* link but one of the configuration, from its own end and to the address  *)
(* of the other, and takes them from external ports only                   *)
(* (register_route_mod).                                                   *)
THEOREM RoutesCrossLinks == RoutesSpec => []CrossesConfiguredLinks
<1>1. RoutesInit => RouteInv
  BY DEF RoutesInit, IdleR, RouteInv, CrossesConfiguredLinks
<1>2. IslInv /\ RouteInv /\ [RoutesNext]_<<islVars, routeVars>> => RouteInv'
  BY SendOwnStep, ListRemotesStep, SendRemoteStep, OtherRouteSteps DEF RoutesNext
<1>3. RouteInv => CrossesConfiguredLinks
  BY DEF RouteInv
<1>. QED
  BY IslInductive, <1>1, <1>2, <1>3, PTL DEF RoutesSpec

-------------------------------------------------------------------------------
(* Until rfserver dies: each end has one entry, and links whose ends are    *)
(* up are active from both.                                                 *)

(* The ISL configuration has an end in one of its rows at most. *)
OneLinkEach ==
    \A c, k \in IslConfig : c # k => {c[1], c[2]} \cap {k[1], k[2]} = {}

Unknown(a) == \A i \in Rows : isltable[i].own # a /\ isltable[i].rem # a

HasOwn(a) == \E i \in Rows : isltable[i].own = a

HasEntry(c) == \E i \in Rows : isltable[i] = [own |-> c[1], rem |-> c[2]]

Unique ==
    \A i, j \in Rows :
        isltable[i].own # NULL /\ isltable[i].own = isltable[j].own => i = j

(* An end that is to be registered is in no entry; the end whose entry is  *)
(* the second write has none yet, the first one was made.  What is to be   *)
(* put down belongs to the datapath of the message, of which no end is up. *)
LinkLocals ==
    /\ thread.pc \in {"register", "remote"} =>
         \A t \in thread.todo : t = <<t[1], 0>> /\ Unknown(t[1][1])
    /\ thread.pc = "remote" =>
         /\ ~HasOwn(thread.me)
         /\ HasEntry(<<thread.other, thread.me>>)
         /\ \A t \in thread.todo : t[1][1] # thread.me
    /\ thread.pc = "down_own" =>
         \A i \in thread.todo : isltable[i].own \in DpEnds(message.dp)
    /\ thread.pc = "down_rem" =>
         \A i \in thread.todo : isltable[i].rem \in DpEnds(message.dp)
    /\ thread.pc \in {"down_own", "down_rem"} => \A a \in DpEnds(message.dp) : ~Up(a)

(* An end that is up has its entry, and is linked if the other is up too,  *)
(* unless the handler has still to write it.                               *)
Pending(a) ==
    \/ thread.pc \in {"register", "remote"} /\ (\E t \in thread.todo : t[1][1] = a)
    \/ thread.pc = "remote" /\ thread.me = a

Covered ==
    \A c \in Links : Up(c[1]) =>
        /\ Pending(c[1]) \/ HasOwn(c[1])
        /\ Up(c[2]) => Pending(c[1]) \/ Pending(c[2]) \/ HasEntry(c)

LinkInv == Unique /\ LinkLocals /\ Covered

(* Facts about the links. *)
LEMMA OnlyLink ==
  ASSUME OneLinkEach, NEW c \in Links, NEW k \in Links, c[1] = k[1]
  PROVE  c = k
<1>1. \A x \in IslConfig : /\ x = <<x[1], x[2]>> /\ x[1] # x[2]
                           /\ <<x[2], x[1]>>[1] = x[2] /\ <<x[2], x[1]>>[2] = x[1]
  BY IslAssumption, IslConfigAssumption
<1>2. \A x, y \in IslConfig : \/ x = y
                              \/ /\ x[1] # y[1] /\ x[1] # y[2]
                                 /\ x[2] # y[1] /\ x[2] # y[2]
  BY DEF OneLinkEach
<1>3. PICK x \in IslConfig : c = x \/ c = <<x[2], x[1]>>
  BY DEF Links
<1>4. PICK y \in IslConfig : k = y \/ k = <<y[2], y[1]>>
  BY DEF Links
<1>5. c[1] \in {x[1], x[2]} /\ k[1] \in {y[1], y[2]}
  BY <1>1, <1>3, <1>4
<1>6. x = y
  BY <1>2, <1>5
<1>. QED
  BY <1>1, <1>3, <1>4, <1>6

LEMMA LinkApart ==
  ASSUME NEW c \in Links
  PROVE  /\ DpOf[PortOf[c[1]]] # DpOf[PortOf[c[2]]] /\ c[1] # c[2]
         /\ c[1] \in End /\ c[2] \in End /\ c[1] # NULL /\ c[2] # NULL
         /\ c = <<c[1], c[2]>> /\ <<c[2], c[1]>> \in Links
         /\ <<c[2], c[1]>>[1] = c[2] /\ <<c[2], c[1]>>[2] = c[1]
<1>1. \A x \in IslConfig : <<x[2], x[1]>>[1] = x[2] /\ <<x[2], x[1]>>[2] = x[1]
  OBVIOUS
<1>. QED
  BY <1>1, LinkEnds, IslConfigAssumption DEF Links

(* What a write makes of the queries. *)
LEMMA Written ==
  ASSUME IslInv, NEW i \in Doc, NEW e \in IslEntry, Save(i, e)
  PROVE  /\ \A j \in Rows' : j \in Doc /\ isltable'[j] = (IF j = i THEN e ELSE isltable[j])
         /\ Rows' = Rows \cup {i}
         /\ isltable'[i] = e
  BY IslAssumption DEF IslInv, IslShape, Save, Rows, IslEntry

(* An end that is not up is in no entry, while nothing is put down. *)
LEMMA DownIsUnknown ==
  ASSUME IslInv, thread.pc \notin {"down_own", "down_rem"}, NEW a \in End, ~Up(a)
  PROVE  Unknown(a)
<1>1. a # NULL
  BY IslAssumption
<1>. QED
  BY <1>1 DEF IslInv, EntriesUp, OwnUp, RemUp, Unknown

(* No step but a write changes what the table says. *)
LEMMA SameTable ==
  ASSUME UNCHANGED isltable
  PROVE  /\ Rows' = Rows /\ (Unique' <=> Unique)
         /\ \A a : (Unknown(a)' <=> Unknown(a)) /\ (HasOwn(a)' <=> HasOwn(a))
         /\ \A c : HasEntry(c)' <=> HasEntry(c)
  BY DEF Rows, Unique, Unknown, HasOwn, HasEntry

LEMMA RegisterIslPortLinks ==
  ASSUME IslInv, LinkInv, crashes = 0, NEW p \in DpPort, RegisterIslPort(p)
  PROVE  LinkInv'
<1>1. /\ thread.pc = "idle" /\ p \in waiting /\ waiting' = waiting \ {p}
      /\ thread'.pc = "register" /\ thread'.todo = LinksOf(p, 0)
      /\ UNCHANGED <<isltable, joined>>
  BY DEF RegisterIslPort, Register, Idle
<1>2. \A t \in LinksOf(p, 0) : t = <<t[1], 0>> /\ t[1] \in Links /\ PortOf[t[1][1]] = p
  <2>1. TAKE t \in LinksOf(p, 0)
  <2>2. t[1] \in Links /\ PortOf[t[1][1]] = p
    BY LinksOfPort
  <2>3. 0..0 = {0}
    OBVIOUS
  <2>4. t = <<t[1], 0>>
    BY <2>3 DEF LinksOf
  <2>. QED
    BY <2>2, <2>4
<1>3. \A t \in LinksOf(p, 0) : Unknown(t[1][1])
  <2>1. TAKE t \in LinksOf(p, 0)
  <2>2. t[1][1] \in End /\ ~Up(t[1][1])
    BY <1>1, <1>2, LinkApart DEF Up
  <2>. QED
    BY <1>1, <2>2, DownIsUnknown
<1>4. LinkLocals'
  BY <1>1, <1>2, <1>3, SameTable DEF LinkLocals
<1>5. \A c \in Links : PortOf[c[1]] = p => \E t \in LinksOf(p, 0) : t[1] = c
  <2>1. TAKE c \in Links
  <2>2. HAVE PortOf[c[1]] = p
  <2>3. 0 \in 0..0
    OBVIOUS
  <2>4. c \in {k \in IslConfig : PortOf[k[1]] = p}
               \cup {<<k[2], k[1]>> : k \in {l \in IslConfig : PortOf[l[2]] = p}}
    <3>1. CASE c \in IslConfig
      BY <2>2, <3>1
    <3>2. ASSUME NEW k \in IslConfig, c = <<k[2], k[1]>>
          PROVE  c \in {<<l[2], l[1]>> : l \in {l \in IslConfig : PortOf[l[2]] = p}}
      BY <2>2, <3>2
    <3>. QED
      BY <3>1, <3>2 DEF Links
  <2>5. <<c, 0>> \in LinksOf(p, 0)
    BY <2>3, <2>4 DEF LinksOf
  <2>. QED
    BY <2>5
<1>6. Covered'
  <2> SUFFICES ASSUME NEW c \in Links, Up(c[1])'
               PROVE  /\ Pending(c[1])' \/ HasOwn(c[1])'
                      /\ Up(c[2])' => Pending(c[1])' \/ Pending(c[2])' \/ HasEntry(c)'
    BY DEF Covered, Links
  <2>1. \A a \in End : Up(a)' => Up(a) \/ PortOf[a] = p
    BY <1>1 DEF Up
  <2>2. \A k \in Links : PortOf[k[1]] = p => Pending(k[1])'
    BY <1>1, <1>5 DEF Pending
  <2>3. \A a : ~Pending(a)
    BY <1>1 DEF Pending
  <2>4. /\ c[1] \in End /\ c[2] \in End /\ <<c[2], c[1]>> \in Links
        /\ <<c[2], c[1]>>[1] = c[2]
    BY LinkApart
  <2>5. PortOf[c[2]] = p => Pending(c[2])'
    BY <2>2, <2>4
  <2>. QED
    BY <1>1, <2>1, <2>2, <2>3, <2>4, <2>5, SameTable DEF LinkInv, Covered
<1>7. Unique'
  BY <1>1, SameTable DEF LinkInv
<1>. QED
  BY <1>4, <1>6, <1>7 DEF LinkInv

LEMMA RegisterLinkLinks ==
  ASSUME OneLinkEach, IslInv, LinkInv, RegisterLink
  PROVE  LinkInv'
<1>1. PICK t \in thread.todo : LET link == t[1] IN
        \/ /\ RowsByAddr(link[2]) = {}
           /\ Insert([own |-> link[1], rem |-> NULL])
           /\ thread' = [thread EXCEPT !.todo = @ \ {t}]
        \/ \E i \in RowsByAddr(link[2]) :
             /\ IsIdleDpPort(isltable[i])
             /\ Save(i, [isltable[i] EXCEPT !.rem = link[1]])
             /\ thread' = [thread EXCEPT !.pc = "remote", !.todo = @ \ {t},
                                         !.me = link[1], !.other = link[2]]
        \/ \E i \in RowsByAddr(link[2]) :
             /\ ~IsIdleDpPort(isltable[i])
             /\ thread' = [thread EXCEPT !.todo = @ \ {t}]
             /\ UNCHANGED isltable
  BY DEF RegisterLink
<1> DEFINE me == t[1][1]
           other == t[1][2]
<1>2. /\ thread.pc = "register" /\ UNCHANGED <<joined, waiting, message>>
      /\ thread = [pc |-> thread.pc, todo |-> thread.todo, me |-> thread.me,
                   other |-> thread.other]
  BY DEF RegisterLink, IslInv, IslShape
<1>3. /\ \A k \in thread.todo : /\ k[1] \in Links /\ PortOf[k[1][1]] = message.port
                                /\ k = <<k[1], 0>> /\ Unknown(k[1][1])
      /\ Up(me)
  BY <1>2 DEF IslInv, IslLocals, IslMessage, LinkInv, LinkLocals, Registering, Up
<1>4. /\ t[1] \in Links /\ t[1] = <<me, other>> /\ <<other, me>> \in Links
      /\ DpOf[PortOf[me]] # DpOf[PortOf[other]] /\ me # other
      /\ me \in End /\ other \in End /\ me # NULL /\ other # NULL
  BY <1>3, LinkApart
<1>5. /\ \A k \in thread.todo \ {t} : k[1][1] # me
      /\ \A k \in thread.todo : k[1][1] # other
  <2>1. \A k \in thread.todo : k[1][1] = me => k = t
    BY <1>3, <1>4, OnlyLink
  <2>2. \A k \in thread.todo : PortOf[k[1][1]] # PortOf[other]
    BY <1>3, <1>4
  <2>. QED
    BY <2>1, <2>2
<1>6. \A a : Up(a)' <=> Up(a)
  BY <1>2 DEF Up
<1>7. ~Pending(other) /\ Pending(me) /\ Unknown(me)
  BY <1>2, <1>3, <1>5 DEF Pending
<1>. HIDE DEF me, other
<1>8. CASE RowsByAddr(other) = {} /\ Insert([own |-> me, rem |-> NULL])
           /\ thread' = [thread EXCEPT !.todo = @ \ {t}]
  <2> DEFINE e == [own |-> me, rem |-> NULL]
  <2>1. e \in IslEntry /\ e.own = me /\ e.rem = NULL
    BY <1>4 DEF IslEntry
  <2>2. PICK i \in Doc : isltable[i] = NULL /\ Save(i, e)
    BY <1>8, InsertIsSave
  <2>. HIDE DEF e
  <2>3. /\ \A j \in Rows' : j \in Doc /\ isltable'[j] = (IF j = i THEN e ELSE isltable[j])
        /\ Rows' = Rows \cup {i} /\ i \notin Rows
    BY <2>1, <2>2, Written DEF Rows
  <2>4. thread'.pc = "register" /\ thread'.todo = thread.todo \ {t}
    BY <1>2, <1>8
  <2>5. Unique'
    BY <1>7, <2>1, <2>3 DEF LinkInv, Unique, Unknown
  <2>6. LinkLocals'
    <3>1. \A k \in thread.todo \ {t} : Unknown(k[1][1])'
      <4>1. TAKE k \in thread.todo \ {t}
      <4>2. k[1][1] # me /\ k[1][1] # NULL /\ Unknown(k[1][1])
        BY <1>3, <1>5, LinkApart
      <4>. QED
        BY <2>1, <2>3, <4>2 DEF Unknown
    <3>. QED
      BY <1>3, <2>4, <3>1 DEF LinkLocals
  <2>7. ~HasOwn(other)
    BY <1>8 DEF HasOwn, RowsByAddr
  <2>8. ~Up(other)
    BY <1>4, <1>7, <2>7, LinkApart DEF LinkInv, Covered
  <2>9. \A a : a # me => (Pending(a)' <=> Pending(a))
    BY <1>2, <2>4 DEF Pending, me
  <2>10. /\ HasOwn(me)' /\ \A a : HasOwn(a) => HasOwn(a)'
         /\ \A c : HasEntry(c) => HasEntry(c)'
    BY <2>1, <2>3 DEF HasOwn, HasEntry
  <2>11. Covered'
    <3> SUFFICES ASSUME NEW c \in Links, Up(c[1])
                 PROVE  /\ Pending(c[1])' \/ HasOwn(c[1])'
                        /\ Up(c[2]) => Pending(c[1])' \/ Pending(c[2])' \/ HasEntry(c)'
      BY <1>6 DEF Covered, Links
    <3>1. CASE c[1] # me /\ c[2] # me
      BY <2>9, <2>10, <3>1 DEF LinkInv, Covered
    <3>2. CASE c[1] = me
      <4>1. c = t[1]
        BY <1>4, <3>2, OnlyLink
      <4>. QED
        BY <1>4, <2>8, <2>10, <3>2, <4>1
    <3>3. CASE c[2] = me
      <4>1. <<c[2], c[1]>> \in Links /\ <<c[2], c[1]>>[1] = me /\ <<c[2], c[1]>>[2] = c[1]
        BY <3>3, LinkApart
      <4>2. <<c[2], c[1]>> = t[1]
        BY <1>4, <4>1, OnlyLink
      <4>3. c[1] = other
        BY <1>4, <4>1, <4>2
      <4>. QED
        BY <2>8, <4>3
    <3>. QED
      BY <3>1, <3>2, <3>3
  <2>. QED
    BY <2>5, <2>6, <2>11 DEF LinkInv
<1>9. ASSUME NEW i \in RowsByAddr(other), IsIdleDpPort(isltable[i]),
             Save(i, [isltable[i] EXCEPT !.rem = me]),
             thread' = [thread EXCEPT !.pc = "remote", !.todo = @ \ {t},
                                      !.me = me, !.other = other]
      PROVE  LinkInv'
  <2> DEFINE e == [isltable[i] EXCEPT !.rem = me]
  <2>1. /\ i \in Rows /\ i \in Doc /\ isltable[i] \in IslEntry
        /\ isltable[i].own = other /\ isltable[i].rem = NULL
    BY <1>9 DEF RowsByAddr, Rows, IslInv, IslShape, IsIdleDpPort
  <2>2. /\ e \in IslEntry /\ e.own = other /\ e.rem = me /\ e = [own |-> other, rem |-> me]
    BY <2>1, <1>4 DEF IslEntry
  <2>3. Save(i, e)
    BY <1>9
  <2>. HIDE DEF e
  <2>4. /\ \A j \in Rows' : j \in Doc /\ isltable'[j] = (IF j = i THEN e ELSE isltable[j])
        /\ Rows' = Rows
    BY <2>1, <2>2, <2>3, Written
  <2>5. /\ thread'.pc = "remote" /\ thread'.todo = thread.todo \ {t}
        /\ thread'.me = me /\ thread'.other = other
    BY <1>2, <1>9
  <2>6. Unique'
    BY <2>1, <2>2, <2>4 DEF LinkInv, Unique
  <2>7. \A j \in Rows : isltable[j].own # me
    BY <1>7 DEF Unknown
  <2>8. LinkLocals'
    <3>1. \A k \in thread.todo \ {t} : Unknown(k[1][1])'
      <4>1. TAKE k \in thread.todo \ {t}
      <4>2. k[1][1] # me /\ k[1][1] # other /\ Unknown(k[1][1])
        BY <1>3, <1>5
      <4>. QED
        BY <2>2, <2>4, <4>2 DEF Unknown
    <3>2. ~HasOwn(me)'
      BY <1>4, <2>2, <2>4, <2>7 DEF HasOwn
    <3>3. HasEntry(<<other, me>>)'
      BY <2>1, <2>2, <2>4 DEF HasEntry
    <3>. QED
      BY <1>3, <1>5, <2>5, <3>1, <3>2, <3>3 DEF LinkLocals
  <2>9. \A a : Pending(a) => Pending(a)'
    BY <1>2, <2>5 DEF Pending, me
  <2>10. /\ \A a : HasOwn(a) => HasOwn(a)'
         /\ \A c \in Links : HasEntry(c) => HasEntry(c)'
    <3>1. \A a : HasOwn(a) => HasOwn(a)'
      BY <2>1, <2>2, <2>4 DEF HasOwn
    <3>2. ASSUME NEW c \in Links, NEW j \in Rows, isltable[j] = [own |-> c[1], rem |-> c[2]]
          PROVE  HasEntry(c)'
      <4>1. isltable[j].rem = c[2] /\ c[2] # NULL
        <5>1. c[2] # NULL
          BY LinkApart
        <5>2. isltable[j].rem = c[2]
          BY <3>2
        <5>. QED
          BY <5>1, <5>2
      <4>2. j # i
        BY <2>1, <4>1
      <4>. QED
        BY <2>4, <3>2, <4>2 DEF HasEntry
    <3>. QED
      BY <3>1, <3>2 DEF HasEntry
  <2>11. Covered'
    BY <1>6, <2>9, <2>10 DEF LinkInv, Covered, Links
  <2>. QED
    BY <2>6, <2>8, <2>11 DEF LinkInv
<1>10. ASSUME NEW i \in RowsByAddr(other), ~IsIdleDpPort(isltable[i])
       PROVE  FALSE
  <2>1. i \in Rows /\ isltable[i].own = other /\ isltable[i].rem # NULL
    BY <1>4, <1>10 DEF RowsByAddr, IsIdleDpPort
  <2>2. <<isltable[i].own, isltable[i].rem>> \in Links
    BY <1>4, <2>1 DEF IslInv, IslFollowsConfig
  <2>3. <<other, isltable[i].rem>> = <<other, me>>
    BY <1>4, <2>1, <2>2, OnlyLink
  <2>. QED
    BY <1>7, <2>1, <2>3 DEF Unknown
<1>. QED
  BY <1>1, <1>8, <1>9, <1>10 DEF me, other

LEMMA RegisterRemoteLinks ==
  ASSUME OneLinkEach, IslInv, LinkInv, RegisterRemote
  PROVE  LinkInv'
<1>0. PICK me, other : me = thread.me /\ other = thread.other
  OBVIOUS
<1>1. /\ thread.pc = "remote" /\ UNCHANGED <<joined, waiting, message>>
      /\ thread = [pc |-> thread.pc, todo |-> thread.todo, me |-> thread.me,
                   other |-> thread.other]
      /\ thread' = [thread EXCEPT !.pc = "register"]
  BY DEF RegisterRemote, IslInv, IslShape
<1>2. thread'.pc = "register" /\ thread'.todo = thread.todo
  BY <1>1
<1>3. /\ <<me, other>> \in Links /\ PortOf[other] # PortOf[me]
      /\ me \in End /\ other \in End /\ me # NULL /\ other # NULL /\ me # other
  <2>1. <<me, other>> \in Links
    BY <1>0, <1>1 DEF IslInv, IslLocals
  <2>. QED
    BY <2>1, LinkApart
<1>4. /\ ~HasOwn(me) /\ HasEntry(<<other, me>>)
      /\ \A t \in thread.todo : t = <<t[1], 0>> /\ Unknown(t[1][1]) /\ t[1][1] # me
  BY <1>0, <1>1 DEF LinkInv, LinkLocals
<1>5. PICK k \in Rows : isltable[k] = [own |-> other, rem |-> me]
  BY <1>4 DEF HasEntry
<1>6. \A t \in thread.todo : t[1][1] # other
  BY <1>4, <1>5 DEF Unknown
<1>7. \A a : Up(a)' <=> Up(a)
  BY <1>1 DEF Up
<1>8. \A a : a # me => (Pending(a)' <=> Pending(a))
  BY <1>0, <1>1, <1>2 DEF Pending
<1>9. ASSUME NEW i \in Doc, NEW e \in IslEntry, Save(i, e), e.own = me, e.rem = other,
             \/ isltable[i] = NULL
             \/ i \in Rows /\ isltable[i].own = NULL
      PROVE  LinkInv'
  <2>1. /\ \A j \in Rows' : j \in Doc /\ isltable'[j] = (IF j = i THEN e ELSE isltable[j])
        /\ Rows' = Rows \cup {i}
    BY <1>9, Written
  <2>2. \A j \in Rows : isltable[j].own # NULL => j # i
    BY <1>9 DEF Rows
  <2>3. \A j \in Rows : isltable[j].own # me
    BY <1>0, <1>4 DEF HasOwn
  <2>4. Unique'
    BY <1>9, <2>1, <2>2, <2>3 DEF LinkInv, Unique
  <2>5. LinkLocals'
    <3>1. \A t \in thread.todo : Unknown(t[1][1])'
      <4>1. TAKE t \in thread.todo
      <4>2. t[1][1] # me /\ t[1][1] # other /\ Unknown(t[1][1])
        BY <1>0, <1>4, <1>6
      <4>. QED
        BY <1>9, <2>1, <4>2 DEF Unknown
    <3>. QED
      BY <1>2, <1>4, <3>1 DEF LinkLocals
  <2>6. \A a : a # NULL /\ HasOwn(a) => HasOwn(a)'
    BY <2>1, <2>2 DEF HasOwn
  <2>7. \A c \in Links : HasEntry(c) => HasEntry(c)'
    <3> SUFFICES ASSUME NEW c \in Links, NEW j \in Rows,
                        isltable[j] = [own |-> c[1], rem |-> c[2]]
                 PROVE  HasEntry(c)'
      BY DEF HasEntry
    <3>1. c[1] # NULL
      BY LinkApart
    <3>2. isltable[j].own = c[1]
      OBVIOUS
    <3>3. j # i
      BY <2>2, <3>1, <3>2
    <3>. QED
      BY <2>1, <3>3 DEF HasEntry
  <2>8. HasOwn(me)'
    BY <1>9, <2>1 DEF HasOwn
  <2>9. HasEntry(<<me, other>>)'
    <3>1. e = [own |-> me, rem |-> other]
      BY <1>9 DEF IslEntry
    <3>2. i \in Rows' /\ isltable'[i] = e
      BY <2>1
    <3>. QED
      BY <3>1, <3>2 DEF HasEntry
  <2>10. <<other, me>> \in Links
    BY <1>3, LinkApart
  <2>11. HasEntry(<<other, me>>)'
    BY <1>0, <1>4, <2>7, <2>10
  <2>12. Covered'
    <3> SUFFICES ASSUME NEW c \in Links, Up(c[1])
                 PROVE  /\ Pending(c[1])' \/ HasOwn(c[1])'
                        /\ Up(c[2]) => Pending(c[1])' \/ Pending(c[2])' \/ HasEntry(c)'
      BY <1>7 DEF Covered, Links
    <3>1. c[1] # NULL
      BY LinkApart
    <3>2. CASE c[1] # me /\ c[2] # me
      BY <1>8, <2>6, <2>7, <3>1, <3>2 DEF LinkInv, Covered
    <3>3. CASE c[1] = me
      <4>1. c = <<me, other>>
        BY <1>3, <3>3, OnlyLink
      <4>. QED
        BY <2>8, <2>9, <3>3, <4>1
    <3>4. CASE c[2] = me
      <4>1. /\ <<c[2], c[1]>> \in Links /\ <<c[2], c[1]>>[1] = me
            /\ c = <<c[1], c[2]>> /\ <<c[2], c[1]>>[2] = c[1]
        BY <3>4, LinkApart
      <4>2. <<c[2], c[1]>> = <<me, other>>
        BY <1>3, <4>1, OnlyLink
      <4>3. c[1] = other
        BY <4>1, <4>2
      <4>4. c = <<other, me>>
        BY <3>4, <4>1, <4>3
      <4>5. HasOwn(other)'
        <5>1. isltable[k].own = other
          BY <1>5
        <5>2. HasOwn(other)
          BY <5>1 DEF HasOwn
        <5>. QED
          BY <1>3, <2>6, <5>2
      <4>. QED
        BY <2>11, <4>3, <4>4, <4>5
    <3>. QED
      BY <3>2, <3>3, <3>4
  <2>. QED
    BY <2>4, <2>5, <2>12 DEF LinkInv
<1>10. CASE Insert([own |-> me, rem |-> other])
  <2> DEFINE e == [own |-> me, rem |-> other]
  <2>1. PICK i \in Doc : isltable[i] = NULL /\ Save(i, e)
    BY <1>10, InsertIsSave
  <2>2. e \in IslEntry /\ e.own = me /\ e.rem = other
    BY <1>3 DEF IslEntry
  <2>. HIDE DEF e
  <2>. QED
    BY <1>9, <2>1, <2>2
<1>11. ASSUME NEW i \in RowsByRemote(other)
       PROVE  /\ isltable[i].own = NULL /\ IsIdleRemote(isltable[i])
              /\ i \in Rows /\ i \in Doc /\ isltable[i] \in IslEntry /\ isltable[i].rem = other
  <2>1. i \in Rows /\ i \in Doc /\ isltable[i] \in IslEntry /\ isltable[i].rem = other
    BY <1>11 DEF RowsByRemote, Rows, IslInv, IslShape
  <2>2. ASSUME isltable[i].own # NULL
        PROVE  FALSE
    <3> DEFINE c == <<isltable[i].own, other>>
    <3>1. c \in Links
      BY <1>3, <2>1, <2>2 DEF IslInv, IslFollowsConfig
    <3>2. <<c[2], c[1]>> \in Links /\ <<c[2], c[1]>>[1] = other
          /\ <<c[2], c[1]>>[2] = isltable[i].own
      BY <3>1, LinkApart
    <3>3. <<other, me>> \in Links /\ <<other, me>>[1] = other /\ <<other, me>>[2] = me
      BY <1>3, LinkApart
    <3>4. isltable[i].own = me
      BY <3>2, <3>3, OnlyLink
    <3>. QED
      BY <1>0, <1>4, <2>1, <3>4 DEF HasOwn
  <2>. QED
    BY <1>3, <2>1, <2>2 DEF IsIdleRemote
<1>12. ASSUME NEW i \in RowsByRemote(other), Save(i, [isltable[i] EXCEPT !.own = me])
       PROVE  LinkInv'
  <2> DEFINE e == [isltable[i] EXCEPT !.own = me]
  <2>1. /\ isltable[i].own = NULL
        /\ i \in Rows /\ i \in Doc /\ isltable[i] \in IslEntry /\ isltable[i].rem = other
    BY <1>11, <1>12
  <2>2. e \in IslEntry /\ e.own = me /\ e.rem = other
    BY <1>3, <2>1 DEF IslEntry
  <2>3. Save(i, e)
    BY <1>12
  <2>. HIDE DEF e
  <2>. QED
    BY <1>9, <2>1, <2>2, <2>3
<1>13. \/ Insert([own |-> me, rem |-> other])
       \/ \E i \in RowsByRemote(other) :
            IF IsIdleRemote(isltable[i])
            THEN Save(i, [isltable[i] EXCEPT !.own = me])
            ELSE UNCHANGED isltable
  BY <1>0 DEF RegisterRemote
<1>. QED
  BY <1>10, <1>11, <1>12, <1>13

LEMMA RegisteredLinks ==
  ASSUME LinkInv, Registered
  PROVE  LinkInv'
<1>1. /\ thread.pc = "register" /\ thread.todo = {} /\ thread'.pc = "idle"
      /\ UNCHANGED <<isltable, joined, waiting>>
  BY DEF Registered, Idle
<1>2. \A a : ~Pending(a) /\ (Up(a)' <=> Up(a))
  BY <1>1 DEF Pending, Up
<1>3. Covered'
  BY <1>1, <1>2, SameTable DEF LinkInv, Covered, Links
<1>. QED
  BY <1>1, <1>3, SameTable DEF LinkInv, LinkLocals

-------------------------------------------------------------------------------
(* What is put down is not up. *)

LEMMA SetDpDownLinks ==
  ASSUME LinkInv, NEW x \in Dp, SetDpDown(x)
  PROVE  LinkInv'
<1>1. /\ thread.pc = "idle" /\ joined' = joined \ {x} /\ message'.dp = x
      /\ thread'.pc = "down_own"
      /\ thread'.todo = {i \in Rows : isltable[i].own \in DpEnds(x)}
      /\ UNCHANGED <<isltable, waiting>>
  BY DEF SetDpDown, Down, Idle
<1>2. \A a : ~Pending(a) /\ (Up(a)' => Up(a))
  BY <1>1 DEF Pending, Up
<1>3. Covered'
  BY <1>1, <1>2, SameTable DEF LinkInv, Covered, Links
<1>4. LinkLocals'
  BY <1>1 DEF LinkLocals, DpEnds, Up
<1>. QED
  BY <1>1, <1>3, <1>4, SameTable DEF LinkInv

(* An entry that loses an end which is not up. *)
LEMMA DownWriteLinks ==
  ASSUME IslInv, LinkInv, NEW i \in thread.todo, NEW e \in IslEntry, Save(i, e),
         thread.pc \in {"down_own", "down_rem"}, thread'.pc = thread.pc,
         thread'.todo = thread.todo \ {i},
         UNCHANGED <<message, joined, waiting>>,
         \/ thread.pc = "down_own" /\ e.own = NULL
         \/ thread.pc = "down_rem" /\ e.own = isltable[i].own
  PROVE  LinkInv'
<1>1. /\ i \in Rows /\ i \in Doc
      /\ \A a \in DpEnds(message.dp) : ~Up(a)
      /\ thread.pc = "down_own" => \A j \in thread.todo : isltable[j].own \in DpEnds(message.dp)
      /\ thread.pc = "down_rem" => \A j \in thread.todo : isltable[j].rem \in DpEnds(message.dp)
  BY DEF IslInv, IslLocals, LinkInv, LinkLocals, Rows
<1>2. /\ \A j \in Rows' : j \in Doc /\ isltable'[j] = (IF j = i THEN e ELSE isltable[j])
      /\ Rows' = Rows
  <2>1. /\ \A j \in Rows' : j \in Doc /\ isltable'[j] = (IF j = i THEN e ELSE isltable[j])
        /\ Rows' = Rows \cup {i}
    BY <1>1, Written
  <2>. QED
    BY <1>1, <2>1
<1>3. \A a : (Up(a)' <=> Up(a)) /\ ~Pending(a)
  BY DEF Up, Pending
<1>4. Unique'
  BY <1>1, <1>2 DEF LinkInv, Unique
<1>5. thread.todo \subseteq Rows
  BY DEF IslInv, IslLocals
<1>6. LinkLocals'
  BY <1>1, <1>2, <1>3, <1>5 DEF LinkLocals, DpEnds
<1>7. \A a : a # NULL /\ Up(a) /\ HasOwn(a) => HasOwn(a)'
  BY <1>1, <1>2 DEF HasOwn
<1>8. ASSUME NEW c \in Links, Up(c[1]), Up(c[2]), HasEntry(c)
      PROVE  HasEntry(c)'
  <2>1. PICK j \in Rows : isltable[j] = [own |-> c[1], rem |-> c[2]]
    BY <1>8 DEF HasEntry
  <2>2. isltable[j].own = c[1] /\ isltable[j].rem = c[2]
    BY <2>1
  <2>3. j # i
    BY <1>1, <1>8, <2>2
  <2>. QED
    BY <1>2, <2>1, <2>3 DEF HasEntry
<1>9. Covered'
  <2> SUFFICES ASSUME NEW c \in Links, Up(c[1])
               PROVE  /\ Pending(c[1])' \/ HasOwn(c[1])'
                      /\ Up(c[2]) => Pending(c[1])' \/ Pending(c[2])' \/ HasEntry(c)'
    BY <1>3 DEF Covered, Links
  <2>1. c[1] # NULL
    BY LinkApart
  <2>. QED
    BY <1>3, <1>7, <1>8, <2>1 DEF LinkInv, Covered
<1>. QED
  BY <1>4, <1>6, <1>9 DEF LinkInv

LEMMA DownStepLinks ==
  ASSUME IslInv, LinkInv, DownOwn \/ DownRem
  PROVE  LinkInv'
<1>1. thread = [pc |-> thread.pc, todo |-> thread.todo, me |-> thread.me,
                other |-> thread.other]
  BY DEF IslInv, IslShape
<1>2. CASE DownOwn
  <2>1. PICK i \in thread.todo : /\ Save(i, [isltable[i] EXCEPT !.own = NULL])
                                 /\ thread' = [thread EXCEPT !.todo = @ \ {i}]
    BY <1>2 DEF DownOwn
  <2>2. thread.pc = "down_own" /\ UNCHANGED <<message, joined, waiting>>
    BY <1>2 DEF DownOwn
  <2>3. isltable[i] \in IslEntry
    BY <2>2, RowTypes DEF IslInv, IslLocals
  <2> DEFINE e == [isltable[i] EXCEPT !.own = NULL]
  <2>4. e \in IslEntry /\ e.own = NULL
    BY <2>3 DEF IslEntry
  <2>5. Save(i, e)
    BY <2>1
  <2>. HIDE DEF e
  <2>6. thread'.pc = thread.pc /\ thread'.todo = thread.todo \ {i}
    BY <1>1, <2>1
  <2>. QED
    BY <2>2, <2>4, <2>5, <2>6, DownWriteLinks
<1>3. CASE DownRem
  <2>1. PICK i \in thread.todo : /\ Save(i, [isltable[i] EXCEPT !.rem = NULL])
                                 /\ thread' = [thread EXCEPT !.todo = @ \ {i}]
    BY <1>3 DEF DownRem
  <2>2. thread.pc = "down_rem" /\ UNCHANGED <<message, joined, waiting>>
    BY <1>3 DEF DownRem
  <2>3. isltable[i] \in IslEntry
    BY <2>2, RowTypes DEF IslInv, IslLocals
  <2> DEFINE e == [isltable[i] EXCEPT !.rem = NULL]
  <2>4. e \in IslEntry /\ e.own = isltable[i].own
    BY <2>3 DEF IslEntry
  <2>5. Save(i, e)
    BY <2>1
  <2>. HIDE DEF e
  <2>6. thread'.pc = thread.pc /\ thread'.todo = thread.todo \ {i}
    BY <1>1, <2>1
  <2>. QED
    BY <2>2, <2>4, <2>5, <2>6, DownWriteLinks
<1>. QED
  BY <1>2, <1>3

LEMMA DownTurnLinks ==
  ASSUME IslInv, LinkInv, DownTurn
  PROVE  LinkInv'
<1>1. /\ thread.pc = "down_own" /\ UNCHANGED <<isltable, message, joined, waiting>>
      /\ thread' = [thread EXCEPT !.pc = "down_rem",
                       !.todo = {i \in Rows : isltable[i].rem \in DpEnds(message.dp)}]
      /\ thread = [pc |-> thread.pc, todo |-> thread.todo, me |-> thread.me,
                   other |-> thread.other]
  BY DEF DownTurn, IslInv, IslShape
<1>2. /\ thread'.pc = "down_rem"
      /\ thread'.todo = {i \in Rows : isltable[i].rem \in DpEnds(message.dp)}
  BY <1>1
<1>3. \A a : ~Pending(a) /\ (Up(a)' <=> Up(a))
  BY <1>1 DEF Pending, Up
<1>4. LinkLocals'
  BY <1>1, <1>2, <1>3 DEF LinkInv, LinkLocals, DpEnds
<1>5. Covered'
  BY <1>1, <1>3, SameTable DEF LinkInv, Covered, Links
<1>. QED
  BY <1>1, <1>4, <1>5, SameTable DEF LinkInv

LEMMA DownEndLinks ==
  ASSUME LinkInv, DownEnd
  PROVE  LinkInv'
<1>1. /\ thread.pc = "down_rem" /\ thread'.pc = "idle"
      /\ UNCHANGED <<isltable, joined, waiting>>
  BY DEF DownEnd, Idle
<1>2. \A a : ~Pending(a) /\ (Up(a)' <=> Up(a))
  BY <1>1 DEF Pending, Up
<1>3. Covered'
  BY <1>1, <1>2, SameTable DEF LinkInv, Covered, Links
<1>. QED
  BY <1>1, <1>3, SameTable DEF LinkInv, LinkLocals

(* The ports of a datapath that joins wait. *)
LEMMA JoinLinks ==
  ASSUME LinkInv, NEW x \in Dp, Join(x)
  PROVE  LinkInv'
<1>1. /\ x \notin joined /\ joined' = joined \cup {x}
      /\ waiting' = waiting \cup {p \in DpPort : DpOf[p] = x}
      /\ UNCHANGED <<isltable, thread, message>>
  BY DEF Join
<1>2. \A a \in End : Up(a)' => Up(a)
  BY <1>1, IslAssumption DEF Up
<1>3. \A a : Pending(a)' <=> Pending(a)
  BY <1>1 DEF Pending
<1>4. LinkLocals'
  BY <1>1, <1>2, SameTable DEF LinkInv, LinkLocals, DpEnds
<1>5. Covered'
  <2>1. \A c \in Links : c[1] \in End /\ c[2] \in End
    BY LinkApart
  <2>. QED
    BY <1>1, <1>2, <1>3, <2>1, SameTable DEF LinkInv, Covered, Links
<1>. QED
  BY <1>1, <1>4, <1>5, SameTable DEF LinkInv

-------------------------------------------------------------------------------
AliveInv == crashes \in Nat /\ (crashes = 0 => LinkInv)

LEMMA NextAlive ==
  ASSUME OneLinkEach, IslInv, AliveInv, [IslNext]_islVars
  PROVE  AliveInv'
<1>1. CASE Crash
  BY <1>1 DEF Crash, AliveInv
<1>2. CASE UNCHANGED islVars
  <2>1. \A a : (Pending(a)' <=> Pending(a)) /\ (Up(a)' <=> Up(a))
    BY <1>2 DEF islVars, Pending, Up
  <2>2. LinkInv => LinkInv'
    BY <1>2, <2>1, SameTable DEF islVars, LinkInv, LinkLocals, Covered, Links, DpEnds
  <2>. QED
    BY <1>2, <2>2 DEF islVars, AliveInv
<1>3. CASE \E p \in DpPort : RegisterIslPort(p)
  BY <1>3, RegisterIslPortLinks DEF AliveInv, RegisterIslPort
<1>4. CASE RegisterLink
  BY <1>4, RegisterLinkLinks DEF AliveInv, RegisterLink
<1>5. CASE RegisterRemote
  BY <1>5, RegisterRemoteLinks DEF AliveInv, RegisterRemote
<1>6. CASE Registered
  BY <1>6, RegisteredLinks DEF AliveInv, Registered
<1>7. CASE \E x \in Dp : SetDpDown(x)
  BY <1>7, SetDpDownLinks DEF AliveInv, SetDpDown
<1>8. CASE DownOwn \/ DownRem
  BY <1>8, DownStepLinks DEF AliveInv, DownOwn, DownRem
<1>9. CASE DownTurn
  BY <1>9, DownTurnLinks DEF AliveInv, DownTurn
<1>10. CASE DownEnd
  BY <1>10, DownEndLinks DEF AliveInv, DownEnd
<1>11. CASE \E x \in Dp : Join(x)
  BY <1>11, JoinLinks DEF AliveInv, Join
<1>. QED
  BY <1>1, <1>2, <1>3, <1>4, <1>5, <1>6, <1>7, <1>8, <1>9, <1>10, <1>11 DEF IslNext

(* What the table is like until rfserver dies, for configurations that     *)
(* have an end in one row at most.                                         *)
THEOREM LinksInductive ==
  ASSUME OneLinkEach
  PROVE  RoutesSpec => []AliveInv
<1>1. RoutesInit => AliveInv
  BY DEF RoutesInit, IslInit, Idle, AliveInv, LinkInv, Unique, LinkLocals, Covered, Rows, Up
<1>2. IslInv /\ AliveInv /\ [RoutesNext]_<<islVars, routeVars>> => AliveInv'
  BY NextAlive, RoutesAreIsl
<1>. QED
  BY IslInductive, <1>1, <1>2, PTL DEF RoutesSpec

(* Until rfserver dies, no end of a link has two entries (the TODO of      *)
(* set_entry: "enforce uniqueness restriction").                           *)
THEOREM EndsHaveOneEntry ==
  ASSUME OneLinkEach
  PROVE  RoutesSpec => []OneEntryEach
<1>1. AliveInv => OneEntryEach
  BY DEF AliveInv, LinkInv, Unique, OneEntryEach
<1>. QED
  BY LinksInductive, <1>1, PTL

(* Until rfserver dies, a link whose ends are both up is active from both  *)
(* (_register_islconf: associating this end and the remote one).           *)
THEOREM LinksBothWays ==
  ASSUME OneLinkEach
  PROVE  RoutesSpec => []LinkedBothWays
<1>1. AliveInv => LinkedBothWays
  <2> SUFFICES ASSUME AliveInv, thread.pc = "idle", crashes = 0,
                      NEW c \in Links, Up(c[1]), Up(c[2])
               PROVE  \E i \in Rows : isltable[i] = [own |-> c[1], rem |-> c[2]]
    BY DEF LinkedBothWays
  <2>1. ~Pending(c[1]) /\ ~Pending(c[2])
    BY DEF Pending
  <2>. QED
    BY <2>1 DEF AliveInv, LinkInv, Covered, HasEntry
<1>. QED
  BY LinksInductive, <1>1, PTL

-------------------------------------------------------------------------------
(* The two halves of a route. *)

OwnMessages(x, p) == SendWithMatches(x, ToPort(p), PortEntries(x) \cup LinkEntries(x))

Neighbours(x) ==
    {isltable[i] : i \in {k \in Rows : isltable[k].rem \in DpEnds(x) /\ IsActive(isltable[k])}}

ToNeighbour(e) ==
    SendWithMatches(DpOf[PortOf[e.own]], Across(e), PortEntries(DpOf[PortOf[e.own]]))

(* The messages of a RouteMod for the neighbours not in `todo'. *)
SentBut(S, x, p, todo) ==
    /\ OwnMessages(x, p) \subseteq S
    /\ \A e \in Neighbours(x) \ todo : ToNeighbour(e) \subseteq S
    /\ \A m \in S : m \in OwnMessages(x, p) \/ \E e \in Neighbours(x) : m \in ToNeighbour(e)

Meet(S) ==
    /\ \A m \in S : m.action.dst # NULL =>
         \E n \in S : n.dp # m.dp /\ n.eth = m.action.dst /\ n.in = PortOf[n.eth]
    /\ \A n \in S : n.eth \in End =>
         \E l \in Links : /\ l[2] = n.eth
                          /\ \A p \in External[DpOf[PortOf[l[1]]]] :
                               \E m \in S : m.in = p /\ m.action.dst = n.eth

(* How far the handler of a RouteMod has come, if nothing was written since *)
(* it started.                                                             *)
Progress ==
    rthread.pc # "idle" /\ ~disturbed /\ crashes = 0 =>
        /\ thread.pc = "idle"
        /\ rthread.dp \in Dp /\ rthread.out \in External[rthread.dp]
        /\ rthread.pc \in {"ports", "links"} => sent = {}
        /\ rthread.pc = "links" => rthread.todo = PortEntries(rthread.dp)
        /\ rthread.pc = "remotes" => sent = OwnMessages(rthread.dp, rthread.out)
        /\ rthread.pc = "send" => /\ rthread.todo \subseteq Neighbours(rthread.dp)
                                  /\ SentBut(sent, rthread.dp, rthread.out, rthread.todo)

MeetInv == Progress /\ HalvesMeet

(* An active entry has its counterpart. *)
LEMMA Mutual ==
  ASSUME IslInv, LinkInv, thread.pc = "idle",
         NEW i \in Rows, isltable[i].own # NULL, isltable[i].rem # NULL
  PROVE  /\ <<isltable[i].own, isltable[i].rem>> \in Links
         /\ <<isltable[i].rem, isltable[i].own>> \in Links
         /\ Up(isltable[i].own) /\ Up(isltable[i].rem)
         /\ \E k \in Rows : isltable[k] = [own |-> isltable[i].rem, rem |-> isltable[i].own]
<1>1. Up(isltable[i].own) /\ Up(isltable[i].rem)
  BY DEF IslInv, EntriesUp, OwnUp, RemUp
<1> DEFINE c == <<isltable[i].own, isltable[i].rem>>
           d == <<isltable[i].rem, isltable[i].own>>
<1>2. c \in Links /\ c[1] = isltable[i].own /\ c[2] = isltable[i].rem
  BY DEF IslInv, IslFollowsConfig
<1>3. d \in Links /\ d[1] = isltable[i].rem /\ d[2] = isltable[i].own
  BY <1>2, LinkApart
<1>4. ~Pending(d[1]) /\ ~Pending(d[2])
  BY DEF Pending
<1>. HIDE DEF d
<1>5. HasEntry(d)
  BY <1>1, <1>3, <1>4 DEF LinkInv, Covered
<1>. QED
  BY <1>1, <1>2, <1>3, <1>5 DEF HasEntry, d

LEMMA MutualActive ==
  ASSUME IslInv, NEW i \in Rows, IsActive(isltable[i])
  PROVE  /\ isltable[i].own # NULL <=> isltable[i].rem # NULL
         /\ \A x \in Dp : /\ isltable[i].own \in DpEnds(x) => isltable[i].own # NULL
                          /\ isltable[i].rem \in DpEnds(x) => isltable[i].rem # NULL
  BY IslAssumption DEF IsActive, IsIdleDpPort, IsIdleRemote, DpEnds

(* External ports are neither ports nor ends of links. *)
LEMMA ExternalApart ==
  ASSUME NEW x \in Dp
  PROVE  \A p \in External[x] : p \notin DpPort /\ p \notin End
  BY RoutesAssumption

LEMMA AllSentMeet ==
  ASSUME IslInv, LinkInv, thread.pc = "idle", NEW x \in Dp, NEW p \in External[x],
         NEW S, SentBut(S, x, p, {})
  PROVE  Meet(S)
<1>1. \A a \in End : PortOf[a] \in DpPort /\ DpOf[PortOf[a]] \in Dp /\ a # NULL
  BY IslAssumption
<1>2. \A m \in OwnMessages(x, p) : m.action.dst = NULL
  BY DEF OwnMessages, SendWithMatches, ToPort
<1>3. ASSUME NEW m \in S, m.action.dst # NULL
      PROVE  \E n \in S : n.dp # m.dp /\ n.eth = m.action.dst /\ n.in = PortOf[n.eth]
  <2>1. PICK e \in Neighbours(x) : m \in ToNeighbour(e)
    BY <1>2, <1>3 DEF SentBut
  <2>2. PICK i \in Rows : /\ e = isltable[i] /\ isltable[i].rem \in DpEnds(x)
                          /\ IsActive(isltable[i])
    BY DEF Neighbours
  <2>3. isltable[i].own # NULL /\ isltable[i].rem # NULL
    BY <2>2, MutualActive
  <2>4. /\ <<e.own, e.rem>> \in Links
        /\ \E k \in Rows : isltable[k] = [own |-> e.rem, rem |-> e.own]
    BY <2>2, <2>3, Mutual
  <2>5. PICK k \in Rows : isltable[k] = [own |-> e.rem, rem |-> e.own]
    BY <2>4
  <2>6. isltable[k].own = e.rem /\ isltable[k].rem = e.own
    BY <2>5
  <2>7. isltable[k].own \in DpEnds(x) /\ IsActive(isltable[k])
    BY <2>2, <2>3, <2>6 DEF IsActive, IsIdleDpPort, IsIdleRemote
  <2>8. [port |-> PortOf[e.rem], eth |-> e.rem] \in LinkEntries(x)
    BY <2>6, <2>7 DEF LinkEntries
  <2>9. PortOf[e.rem] # p
    BY <1>1, <2>2, ExternalApart DEF DpEnds
  <2> DEFINE n == [dp |-> x, eth |-> e.rem, in |-> PortOf[e.rem], action |-> ToPort(p)]
             r == [port |-> PortOf[e.rem], eth |-> e.rem]
  <2>10. n \in OwnMessages(x, p)
    <3>1. r \in PortEntries(x) \cup LinkEntries(x) /\ r.port # ToPort(p).port
      BY <2>8, <2>9 DEF ToPort
    <3>2. n = [dp |-> x, eth |-> r.eth, in |-> r.port, action |-> ToPort(p)]
      OBVIOUS
    <3>. HIDE DEF n, r
    <3>. QED
      BY <3>1, <3>2 DEF OwnMessages, SendWithMatches
  <2>11. m.dp = DpOf[PortOf[e.own]] /\ m.action.dst = e.rem
    BY <2>1 DEF ToNeighbour, SendWithMatches, Across
  <2>12. DpOf[PortOf[e.own]] # x
    <3>1. DpOf[PortOf[<<e.own, e.rem>>[1]]] # DpOf[PortOf[<<e.own, e.rem>>[2]]]
      BY <2>4, LinkApart
    <3>. QED
      BY <2>2, <3>1 DEF DpEnds
  <2>13. n \in S
    BY <2>10 DEF SentBut
  <2>. QED
    BY <2>11, <2>12, <2>13
<1>4. ASSUME NEW n \in S, n.eth \in End
      PROVE  \E l \in Links : /\ l[2] = n.eth
                              /\ \A q \in External[DpOf[PortOf[l[1]]]] :
                                   \E m \in S : m.in = q /\ m.action.dst = n.eth
  <2>1. \A y \in Dp : \A k \in PortEntries(y) : k.eth \notin End
    BY ExternalApart DEF PortEntries, ActivePorts
  <2>2. ASSUME NEW e \in Neighbours(x), n \in ToNeighbour(e)
        PROVE  FALSE
    <3>1. PICK i \in Rows : /\ e = isltable[i] /\ isltable[i].rem \in DpEnds(x)
                            /\ IsActive(isltable[i])
      BY DEF Neighbours
    <3>2. isltable[i].own # NULL
      BY <3>1, MutualActive
    <3>3. DpOf[PortOf[e.own]] \in Dp
      BY <1>1, <3>1, <3>2, RowTypes
    <3>4. \E k \in PortEntries(DpOf[PortOf[e.own]]) : n.eth = k.eth
      BY <2>2 DEF ToNeighbour, SendWithMatches
    <3>. QED
      BY <1>4, <2>1, <3>3, <3>4
  <2>3. n \in OwnMessages(x, p)
    BY <2>2 DEF SentBut
  <2>4. PICK r \in PortEntries(x) \cup LinkEntries(x) : n.eth = r.eth
    BY <2>3 DEF OwnMessages, SendWithMatches
  <2>5. r \in LinkEntries(x)
    BY <1>4, <2>1, <2>4
  <2>6. PICK i \in Rows : /\ isltable[i].own \in DpEnds(x) /\ IsActive(isltable[i])
                          /\ n.eth = isltable[i].own
    BY <2>4, <2>5 DEF LinkEntries
  <2>7. isltable[i].own # NULL /\ isltable[i].rem # NULL
    BY <2>6, MutualActive
  <2>8. PICK own, rem : own = isltable[i].own /\ rem = isltable[i].rem
    OBVIOUS
  <2>9. <<rem, own>> \in Links /\ Up(rem)
    BY <2>7, <2>8, Mutual
  <2>10. PICK k \in Rows : isltable[k] = [own |-> rem, rem |-> own]
    BY <2>7, <2>8, Mutual
  <2>11. PICK e, y : e = isltable[k] /\ y = DpOf[PortOf[rem]]
    OBVIOUS
  <2>12. e.own = rem /\ e.rem = own
    BY <2>10, <2>11
  <2>13. e \in Neighbours(x)
    BY <2>6, <2>7, <2>8, <2>11, <2>12 DEF Neighbours, IsActive, IsIdleDpPort, IsIdleRemote
  <2>14. ASSUME NEW q \in External[y]
         PROVE  \E m \in S : m.in = q /\ m.action.dst = n.eth
    <3>1. PICK f : f = [port |-> q, eth |-> q]
      OBVIOUS
    <3>2. PICK m : m = [dp |-> y, eth |-> f.eth, in |-> f.port, action |-> Across(e)]
      OBVIOUS
    <3>3. rem \in End /\ y \in Dp /\ y \in joined
      BY <1>1, <2>7, <2>8, <2>9, <2>11, RowTypes DEF Up
    <3>4. f \in PortEntries(y)
      BY <3>1, <3>3 DEF PortEntries, ActivePorts
    <3>5. f.port # Across(e).port
      BY <1>1, <2>12, <2>14, <3>1, <3>3, ExternalApart DEF Across
    <3>6. y = DpOf[PortOf[e.own]]
      BY <2>11, <2>12
    <3>7. m \in ToNeighbour(e)
      BY <3>2, <3>4, <3>5, <3>6 DEF ToNeighbour, SendWithMatches
    <3>8. m \in S
      BY <2>13, <3>7 DEF SentBut
    <3>9. m.in = q /\ m.action.dst = n.eth
      BY <2>6, <2>8, <2>12, <3>1, <3>2 DEF Across
    <3>. QED
      BY <3>8, <3>9
  <2>15. <<rem, own>>[1] = rem /\ <<rem, own>>[2] = n.eth
    BY <2>6, <2>8
  <2>. QED
    BY <2>9, <2>11, <2>14, <2>15
<1>. QED
  BY <1>3, <1>4 DEF Meet

LEMMA MeetIsHalvesMeet ==
  (rthread.pc = "idle" /\ ~disturbed /\ crashes = 0 => Meet(sent)) <=> HalvesMeet
  BY DEF Meet, HalvesMeet

LEMMA RouteModMeets ==
  ASSUME NEW x \in Dp, NEW p \in Output, RegisterRouteMod(x, p)
  PROVE  MeetInv'
<1>1. /\ rthread'.pc = "ports" /\ rthread'.dp = x /\ rthread'.out = p
      /\ sent' = {} /\ disturbed' = (thread.pc # "idle") /\ UNCHANGED islVars
      /\ p \in External[x]
  BY DEF RegisterRouteMod, IdleR, ActivePorts
<1>2. Progress'
  BY <1>1 DEF Progress, islVars
<1>. QED
  BY <1>1, <1>2 DEF MeetInv, HalvesMeet

(* While the handler runs the table is the same, or it was disturbed. *)
LEMMA SameRoutes ==
  ASSUME UNCHANGED islVars
  PROVE  /\ \A x : PortEntries(x)' = PortEntries(x) /\ LinkEntries(x)' = LinkEntries(x)
         /\ \A x : Neighbours(x)' = Neighbours(x)
         /\ \A e : ToNeighbour(e)' = ToNeighbour(e)
         /\ \A x, p : OwnMessages(x, p)' = OwnMessages(x, p)
         /\ \A S, x, p, todo : SentBut(S, x, p, todo)' <=> SentBut(S, x, p, todo)
<1>1. /\ \A x : PortEntries(x)' = PortEntries(x) /\ LinkEntries(x)' = LinkEntries(x)
      /\ \A x : Neighbours(x)' = Neighbours(x)
  BY DEF islVars, PortEntries, ActivePorts, LinkEntries, Neighbours, Rows, DpEnds
<1>2. \A e : ToNeighbour(e)' = ToNeighbour(e)
  BY <1>1 DEF ToNeighbour
<1>3. \A x, p : OwnMessages(x, p)' = OwnMessages(x, p)
  BY <1>1 DEF OwnMessages
<1>. QED
  BY <1>1, <1>2, <1>3 DEF SentBut

LEMMA ListSendMeets ==
  ASSUME RouteInv, MeetInv, ListPorts \/ SendOwn
  PROVE  MeetInv'
<1>1. UNCHANGED <<islVars, disturbed>> /\ UNCHANGED <<thread, crashes>>
  BY DEF ListPorts, SendOwn, islVars
<1>2. rthread = [pc |-> rthread.pc, dp |-> rthread.dp, out |-> rthread.out,
                 todo |-> rthread.todo]
  BY DEF RouteInv
<1>3. CASE ListPorts
  <2>1. /\ rthread.pc = "ports" /\ rthread'.pc = "links" /\ rthread'.dp = rthread.dp
        /\ rthread'.out = rthread.out /\ rthread'.todo = PortEntries(rthread.dp) /\ sent' = sent
    BY <1>2, <1>3 DEF ListPorts
  <2>2. Progress'
    BY <1>1, <2>1, SameRoutes DEF MeetInv, Progress
  <2>. QED
    BY <2>1, <2>2 DEF MeetInv, HalvesMeet
<1>4. CASE SendOwn
  <2>1. /\ rthread.pc = "links" /\ rthread'.pc = "remotes" /\ rthread'.dp = rthread.dp
        /\ rthread'.out = rthread.out
        /\ sent' = sent \cup SendWithMatches(rthread.dp, ToPort(rthread.out),
                                             rthread.todo \cup LinkEntries(rthread.dp))
    BY <1>2, <1>4 DEF SendOwn
  <2>2. ~disturbed /\ crashes = 0 => sent' = OwnMessages(rthread.dp, rthread.out)
    BY <2>1 DEF MeetInv, Progress, OwnMessages
  <2>3. Progress'
    BY <1>1, <2>1, <2>2, SameRoutes DEF MeetInv, Progress
  <2>. QED
    BY <2>1, <2>3 DEF MeetInv, HalvesMeet
<1>. QED
  BY <1>3, <1>4

(* The handler ends when all messages are sent. *)
LEMMA EndMeets ==
  ASSUME IslInv, AliveInv, UNCHANGED <<islVars, disturbed>>, rthread' = IdleR,
         ~disturbed /\ crashes = 0 =>
             /\ thread.pc = "idle" /\ rthread.dp \in Dp
             /\ rthread.out \in External[rthread.dp]
             /\ SentBut(sent', rthread.dp, rthread.out, {})
  PROVE  MeetInv'
<1>1. rthread'.pc = "idle" /\ crashes' = crashes
  BY DEF IdleR, islVars
<1>2. Progress'
  BY <1>1 DEF Progress
<1>3. ~disturbed /\ crashes = 0 => Meet(sent')
  BY AllSentMeet DEF AliveInv
<1>4. HalvesMeet'
  BY <1>1, <1>3 DEF HalvesMeet, Meet
<1>. QED
  BY <1>2, <1>4 DEF MeetInv

LEMMA ListRemotesMeets ==
  ASSUME IslInv, AliveInv, RouteInv, MeetInv, ListRemotes
  PROVE  MeetInv'
<1>1. /\ UNCHANGED <<islVars, disturbed, sent>> /\ UNCHANGED <<thread, crashes>>
      /\ rthread.pc = "remotes"
      /\ rthread' = IF Neighbours(rthread.dp) = {} THEN IdleR
                    ELSE [rthread EXCEPT !.pc = "send", !.todo = Neighbours(rthread.dp)]
  BY DEF ListRemotes, Neighbours, islVars
<1>2. rthread = [pc |-> rthread.pc, dp |-> rthread.dp, out |-> rthread.out,
                 todo |-> rthread.todo]
  BY DEF RouteInv
<1>3. ~disturbed /\ crashes = 0 =>
        /\ thread.pc = "idle" /\ rthread.dp \in Dp /\ rthread.out \in External[rthread.dp]
        /\ SentBut(sent, rthread.dp, rthread.out, Neighbours(rthread.dp))
  BY <1>1 DEF MeetInv, Progress, SentBut
<1>4. CASE Neighbours(rthread.dp) = {}
  BY <1>1, <1>3, <1>4, EndMeets
<1>5. CASE Neighbours(rthread.dp) # {}
  <2>1. /\ rthread'.pc = "send" /\ rthread'.dp = rthread.dp /\ rthread'.out = rthread.out
        /\ rthread'.todo = Neighbours(rthread.dp)
    BY <1>1, <1>2, <1>5
  <2>2. ~disturbed' /\ crashes' = 0 => SentBut(sent, rthread.dp, rthread.out, rthread.todo)'
    BY <1>1, <1>3, <2>1, SameRoutes
  <2>3. Progress'
    BY <1>1, <1>3, <2>1, <2>2, SameRoutes DEF Progress
  <2>. QED
    BY <2>1, <2>3 DEF MeetInv, HalvesMeet
<1>. QED
  BY <1>4, <1>5

LEMMA SendRemoteMeets ==
  ASSUME IslInv, AliveInv, RouteInv, MeetInv, SendRemote
  PROVE  MeetInv'
<1>1. PICK e \in rthread.todo :
        /\ sent' = sent \cup ToNeighbour(e)
        /\ rthread' = IF rthread.todo = {e} THEN IdleR
                                            ELSE [rthread EXCEPT !.todo = @ \ {e}]
  BY DEF SendRemote, ToNeighbour
<1>2. /\ UNCHANGED <<islVars, disturbed>> /\ UNCHANGED <<thread, crashes>>
      /\ rthread.pc = "send"
      /\ rthread = [pc |-> rthread.pc, dp |-> rthread.dp, out |-> rthread.out,
                    todo |-> rthread.todo]
  BY DEF SendRemote, RouteInv, islVars
<1>3. ASSUME ~disturbed, crashes = 0
      PROVE  /\ thread.pc = "idle" /\ rthread.dp \in Dp /\ rthread.out \in External[rthread.dp]
             /\ rthread.todo \subseteq Neighbours(rthread.dp)
             /\ SentBut(sent', rthread.dp, rthread.out, rthread.todo \ {e})
  BY <1>1, <1>2, <1>3 DEF MeetInv, Progress, SentBut
<1>4. CASE rthread.todo = {e}
  BY <1>1, <1>2, <1>3, <1>4, EndMeets
<1>5. CASE rthread.todo # {e}
  <2>1. /\ rthread'.pc = "send" /\ rthread'.dp = rthread.dp /\ rthread'.out = rthread.out
        /\ rthread'.todo = rthread.todo \ {e}
    BY <1>1, <1>2, <1>5
  <2>2. ~disturbed' /\ crashes' = 0 => SentBut(sent, rthread.dp, rthread.out, rthread.todo)'
    BY <1>2, <1>3, <2>1, SameRoutes
  <2>3. Progress'
    BY <1>2, <1>3, <2>1, <2>2, SameRoutes DEF Progress
  <2>. QED
    BY <2>1, <2>3 DEF MeetInv, HalvesMeet
<1>. QED
  BY <1>4, <1>5

LEMMA DisturbedMeets ==
  ASSUME AliveInv, MeetInv, TableStep \/ CrashBoth
  PROVE  MeetInv'
<1>1. CASE TableStep
  <2>1. UNCHANGED <<rthread, sent, crashes>> /\ disturbed' = (disturbed \/ rthread.pc # "idle")
    BY <1>1 DEF TableStep, Disturb, RegisterIslPort, RegisterLink, RegisterRemote, Registered,
                SetDpDown, DownOwn, DownTurn, DownRem, DownEnd, Join
  <2>2. Progress'
    BY <2>1 DEF Progress
  <2>3. HalvesMeet'
    BY <2>1 DEF MeetInv, HalvesMeet, Links
  <2>. QED
    BY <2>2, <2>3 DEF MeetInv
<1>2. CASE CrashBoth
  <2>1. crashes' # 0
    BY <1>2 DEF CrashBoth, Crash, AliveInv
  <2>. QED
    BY <2>1 DEF MeetInv, Progress, HalvesMeet
<1>. QED
  BY <1>1, <1>2

(* The two halves of a route meet: what a neighbour is told to send across *)
(* a link the datapath is told to take from it, and the other way round,   *)
(* when the table was not written meanwhile and until rfserver dies        *)
(* (register_route_mod, which queries the table once for each half).       *)
THEOREM RouteHalvesMeet ==
  ASSUME OneLinkEach
  PROVE  RoutesSpec => []HalvesMeet
<1>1. RoutesInit => RouteInv /\ MeetInv
  BY DEF RoutesInit, IdleR, RouteInv, CrossesConfiguredLinks, MeetInv, Progress, HalvesMeet
<1>2. IslInv /\ RouteInv /\ [RoutesNext]_<<islVars, routeVars>> => RouteInv'
  BY SendOwnStep, ListRemotesStep, SendRemoteStep, OtherRouteSteps DEF RoutesNext
<1>3. IslInv /\ AliveInv /\ RouteInv /\ MeetInv /\ [RoutesNext]_<<islVars, routeVars>>
        => MeetInv'
  <2> SUFFICES ASSUME IslInv, AliveInv, RouteInv, MeetInv, [RoutesNext]_<<islVars, routeVars>>
               PROVE  MeetInv'
    OBVIOUS
  <2>1. CASE UNCHANGED <<islVars, routeVars>>
    <3>1. UNCHANGED islVars /\ UNCHANGED <<rthread, sent, disturbed, thread, crashes>>
      BY <2>1 DEF islVars, routeVars
    <3>2. Progress'
      BY <3>1, SameRoutes DEF MeetInv, Progress
    <3>3. HalvesMeet'
      BY <3>1 DEF MeetInv, HalvesMeet, Links
    <3>. QED
      BY <3>2, <3>3 DEF MeetInv
  <2>2. CASE RoutesNext
    BY <2>2, RouteModMeets, ListSendMeets, ListRemotesMeets, SendRemoteMeets, DisturbedMeets
    DEF RoutesNext
  <2>. QED
    BY <2>1, <2>2
<1>4. MeetInv => HalvesMeet
  BY DEF MeetInv
<1>. QED
  BY IslInductive, LinksInductive, <1>1, <1>2, <1>3, <1>4, PTL DEF RoutesSpec
===============================================================================
