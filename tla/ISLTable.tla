-------------------------------- MODULE ISLTable --------------------------------
(***************************************************************************)
(* Inter-switch links in rfserver: the ISL table (RFISLTable), and what    *)
(* register_dp_port and set_dp_down do to it.                              *)
(*                                                                         *)
(* An end of a link is (ct_id, dp_id, dp_port, eth_addr), a single value.  *)
(* An entry holds its own end and the remote one.  Only the thread of the  *)
(* proxy channel writes the table, so a handler reads and writes in one    *)
(* step; every write is a step of its own, for the process may die between *)
(* two.  A message that was being handled then is delivered again.         *)
(*                                                                         *)
(* Datapaths are external: one that joins registers each of its ports, and *)
(* reports that it is down only after that.                                *)
(***************************************************************************)
EXTENDS Naturals

CONSTANTS
    End,            \* ends of links
    DpPort,         \* ports of datapaths
    Dp,             \* datapaths
    Doc,            \* documents the table may hold
    NULL,           \* None; also a document that does not exist
    PortOf,         \* the port of an end
    DpOf,           \* the datapath of a port
    IslConfig,      \* the rows of the ISL configuration: pairs of ends
    MaxJoins,       \* bound: how often datapaths join and rfserver dies
    MaxCrashes      \* bound: how often rfserver dies, within MaxJoins

(* What an RFISLEntry holds: its own end and the remote one.               *)
IslEntry == [own : End \cup {NULL}, rem : End \cup {NULL}]

ASSUME IslAssumption ==
    /\ NULL \notin End \cup DpPort \cup Dp \cup Doc
    /\ NULL \notin IslEntry
    /\ PortOf \in [End -> DpPort] /\ DpOf \in [DpPort -> Dp]
    /\ IslConfig \subseteq End \X End
    /\ MaxJoins \in Nat /\ MaxCrashes \in Nat

(* A link leads from one datapath to another.                              *)
ASSUME IslConfigAssumption == \A c \in IslConfig : DpOf[PortOf[c[1]]] # DpOf[PortOf[c[2]]]

VARIABLES
    isltable,   \* the collection: what each document holds
    thread,     \* the handler of the proxy channel's thread
    message,    \* the message it handles
    joined,     \* datapaths that are up
    waiting,    \* ports of those that rfserver has not registered yet
    joins, crashes

islVars == <<isltable, thread, message, joined, waiting, joins, crashes>>

Idle == [pc |-> "idle", todo |-> {}, me |-> NULL, other |-> NULL]

IsIdleDpPort(e) == e.own # NULL /\ e.rem = NULL

IsIdleRemote(e) == e.own = NULL /\ e.rem # NULL

(* get_status: what is neither is active, an entry without ends included.  *)
IsActive(e) == ~IsIdleDpPort(e) /\ ~IsIdleRemote(e)

Rows == {i \in Doc : isltable[i] # NULL}

RowsByAddr(a) == {i \in Rows : isltable[i].own = a}

RowsByRemote_Any(a) == {i \in Rows : isltable[i].rem # NULL}

RowsByRemote(a) == {i \in Rows : isltable[i].rem = a}

DpEnds(x) == {a \in End : DpOf[PortOf[a]] = x}

(* Which document a new entry gets makes no difference.                    *)
Insert(e) ==
    /\ \E i \in Doc : isltable[i] = NULL
    /\ isltable' = [isltable EXCEPT ![CHOOSE i \in Doc : isltable[i] = NULL] = e]

Save(i, e) == isltable' = [isltable EXCEPT ![i] = e]

(* get_entries_by_port: the links of a port, this end first.  Every start  *)
(* of rfserver stores the rows of the configuration once more.             *)
LinksOf(p, restarts) ==
    ({c \in IslConfig : PortOf[c[1]] = p}
        \cup {<<c[2], c[1]>> : c \in {k \in IslConfig : PortOf[k[2]] = p}})
    \X (0..restarts)

-------------------------------------------------------------------------------
(* register_dp_port of a port that no VM port is configured for.           *)

Register(p, restarts) ==
    [Idle EXCEPT !.pc = "register", !.todo = LinksOf(p, restarts)]

RegisterIslPort(p) ==
    /\ thread.pc = "idle"
    /\ p \in waiting
    /\ waiting' = waiting \ {p}
    /\ message' = [port |-> p, dp |-> NULL]
    /\ thread' = Register(p, crashes)
    /\ UNCHANGED <<isltable, joined, joins, crashes>>

(* _register_islconf, up to its first write.                               *)
RegisterLink ==
    /\ thread.pc = "register"
    /\ \E t \in thread.todo : LET link == t[1] IN
         \/ /\ RowsByAddr(link[2]) = {}
            /\ Insert([own |-> link[1], rem |-> NULL])
            /\ thread' = [thread EXCEPT !.todo = @ \ {t}]
         \/ \E i \in RowsByAddr(link[2]) :
              /\ IsIdleDpPort(isltable[i])
              /\ Save(i, [isltable[i] EXCEPT !.rem = link[1]])
              /\ thread' = [thread EXCEPT !.pc = "remote", !.todo = @ \ {t},
                                          !.me = link[1], !.other = link[2]]
         \/ \E i \in RowsByAddr(link[2]) :
              /\ ~IsIdleDpPort(isltable[i])
              /\ thread' = [thread EXCEPT !.todo = @ \ {t}]
              /\ UNCHANGED isltable
    /\ UNCHANGED <<message, joined, waiting, joins, crashes>>

RegisterRemote_Skipped ==
    /\ thread.pc = "remote"
    /\ thread' = [thread EXCEPT !.pc = "register"]
    /\ UNCHANGED <<isltable, message, joined, waiting, joins, crashes>>

(* Its second write: the entry of this end.                                *)
RegisterRemote ==
    /\ thread.pc = "remote"
    /\ \/ /\ RowsByRemote(thread.other) = {}
          /\ Insert([own |-> thread.me, rem |-> thread.other])
       \/ \E i \in RowsByRemote(thread.other) :
            IF IsIdleRemote(isltable[i])
            THEN Save(i, [isltable[i] EXCEPT !.own = thread.me])
            ELSE UNCHANGED isltable
    /\ thread' = [thread EXCEPT !.pc = "register"]
    /\ UNCHANGED <<message, joined, waiting, joins, crashes>>

Registered ==
    /\ thread.pc = "register"
    /\ thread.todo = {}
    /\ thread' = Idle
    /\ message' = NULL
    /\ UNCHANGED <<isltable, joined, waiting, joins, crashes>>

-------------------------------------------------------------------------------
(* set_dp_down: entries of the datapath lose their own end, entries that   *)
(* lead to it their remote end.                                            *)

Down(x) == [Idle EXCEPT !.pc = "down_own",
              !.todo = {i \in Rows : isltable[i].own \in DpEnds(x)}]

SetDpDown(x) ==
    /\ thread.pc = "idle"
    /\ x \in joined
    /\ \A p \in waiting : DpOf[p] # x
    /\ joined' = joined \ {x}
    /\ message' = [port |-> NULL, dp |-> x]
    /\ thread' = Down(x)
    /\ UNCHANGED <<isltable, waiting, joins, crashes>>

DownOwn_Skipped ==
    /\ thread.pc = "down_own"
    /\ \E i \in thread.todo : thread' = [thread EXCEPT !.todo = @ \ {i}]
    /\ UNCHANGED <<isltable, message, joined, waiting, joins, crashes>>

DownOwn ==
    /\ thread.pc = "down_own"
    /\ \E i \in thread.todo :
         /\ Save(i, [isltable[i] EXCEPT !.own = NULL])
         /\ thread' = [thread EXCEPT !.todo = @ \ {i}]
    /\ UNCHANGED <<message, joined, waiting, joins, crashes>>

DownTurn ==
    /\ thread.pc = "down_own"
    /\ thread.todo = {}
    /\ thread' = [thread EXCEPT !.pc = "down_rem",
                    !.todo = {i \in Rows : isltable[i].rem \in DpEnds(message.dp)}]
    /\ UNCHANGED <<isltable, message, joined, waiting, joins, crashes>>

DownRem_Skipped ==
    /\ thread.pc = "down_rem"
    /\ \E i \in thread.todo : thread' = [thread EXCEPT !.todo = @ \ {i}]
    /\ UNCHANGED <<isltable, message, joined, waiting, joins, crashes>>

DownRem ==
    /\ thread.pc = "down_rem"
    /\ \E i \in thread.todo :
         /\ Save(i, [isltable[i] EXCEPT !.rem = NULL])
         /\ thread' = [thread EXCEPT !.todo = @ \ {i}]
    /\ UNCHANGED <<message, joined, waiting, joins, crashes>>

DownEnd ==
    /\ thread.pc = "down_rem"
    /\ thread.todo = {}
    /\ thread' = Idle
    /\ message' = NULL
    /\ UNCHANGED <<isltable, joined, waiting, joins, crashes>>

-------------------------------------------------------------------------------
(* A datapath joins.  The process dies and handles its message again.      *)

Join(x) ==
    /\ x \notin joined
    /\ joins + crashes < MaxJoins
    /\ joins' = joins + 1
    /\ joined' = joined \cup {x}
    /\ waiting' = waiting \cup {p \in DpPort : DpOf[p] = x}
    /\ UNCHANGED <<isltable, thread, message, crashes>>

Crash ==
    /\ message # NULL
    /\ crashes < MaxCrashes /\ joins + crashes < MaxJoins
    /\ crashes' = crashes + 1
    /\ thread' = IF message.port # NULL THEN Register(message.port, crashes')
                                         ELSE Down(message.dp)
    /\ UNCHANGED <<isltable, message, joined, waiting, joins>>

IslInit ==
    /\ isltable = [i \in Doc |-> NULL]
    /\ thread = Idle
    /\ message = NULL
    /\ joined = {} /\ waiting = {}
    /\ joins = 0 /\ crashes = 0

IslNext ==
    \/ \E p \in DpPort : RegisterIslPort(p)
    \/ RegisterLink
    \/ RegisterRemote
    \/ Registered
    \/ \E x \in Dp : SetDpDown(x)
    \/ DownOwn
    \/ DownTurn
    \/ DownRem
    \/ DownEnd
    \/ \E x \in Dp : Join(x)
    \/ Crash

IslSpec == IslInit /\ [][IslNext]_islVars

-------------------------------------------------------------------------------
(* Properties. *)

Links == IslConfig \cup {<<c[2], c[1]>> : c \in IslConfig}

Up(a) ==
    /\ DpOf[PortOf[a]] \in joined
    /\ PortOf[a] \notin waiting

(* No crash, order of joining and leaving, or repeated message makes an    *)
(* entry lead where the ISL configuration has no link (_register_islconf,  *)
(* set_dp_down).                                                           *)
IslFollowsConfig ==
    \A i \in Rows : LET e == isltable[i] IN
        e.own # NULL /\ e.rem # NULL => <<e.own, e.rem>> \in Links

(* Routes are sent across active entries: when no handler runs both ends   *)
(* of one are up (register_route_mod, set_dp_down).                        *)
ActiveIsUp ==
    thread.pc = "idle" => \A i \in Rows : LET e == isltable[i] IN
        e.own # NULL /\ e.rem # NULL => Up(e.own) /\ Up(e.rem)

(* Until rfserver dies, a link whose ends are both up is active from both, *)
(* whatever came and went before and in whichever order the ends           *)
(* registered (_register_islconf: associating this end and the remote      *)
(* one).                                                                   *)
LinkedBothWays ==
    thread.pc = "idle" /\ crashes = 0 => \A c \in Links : Up(c[1]) /\ Up(c[2]) =>
        \E i \in Rows : isltable[i] = [own |-> c[1], rem |-> c[2]]

(* Until rfserver dies, no end of a link has two entries (the TODO of      *)
(* set_entry: "enforce uniqueness restriction").                           *)
OneEntryEach ==
    crashes = 0 => \A i, j \in Rows :
        isltable[i].own # NULL /\ isltable[i].own = isltable[j].own => i = j
===============================================================================
