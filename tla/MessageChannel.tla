----------------------------- MODULE MessageChannel -----------------------------
(***************************************************************************)
(* The channel with what its messages say: a sender builds an object from  *)
(* its meaning and puts it into an envelope, the listener builds an object *)
(* from the document again (putInEnvelope and takeFromEnvelope of          *)
(* rfproxy/MongoIPC.cc).  The two ends run on hosts of their own, each     *)
(* with its byte order, and both run this code; the Python that rfserver   *)
(* really has at its end is rflib's (external).                            *)
(*                                                                         *)
(* A meaning is a record of numbers as the source's users see them: a      *)
(* command is "add" or "delete", a number in a TLV is the sequence of its  *)
(* bytes and an IP address has a prefix length.                            *)
(***************************************************************************)
EXTENDS Channel, RFProtocol

CONSTANTS
    HostOrder,  \* the byte order of each receiver's host
    Outbox      \* bound: per receiver, what the n-th message may say to it

ASSUME MessageAssumption ==
    /\ HostOrder \in [Receiver -> Order]
    /\ Cardinality(Receiver) = 2

VARIABLES
    said,       \* the meanings of the messages sent so far
    posted,     \* the type and the content of their envelopes
    got         \* per receiver, the object it processed last

mvars == <<cvars, said, posted, got>>

Peer(r) == CHOOSE s \in Receiver : s # r

(* What a message may say: numbers, and TLVs with as many bytes as their   *)
(* types have; an IP address has a prefix length instead of its mask.      *)
Bytes(n) == {b \in Seq(Byte) : Len(b) = n}

TLVs(lengths) ==
    {t \in [type : DOMAIN lengths \ {"IPV4", "IPV6"}, value : Seq(Byte)] :
       Len(t.value) = lengths[t.type]}
      \cup [type : {"IPV4"} \cap DOMAIN lengths, value : [addr : Bytes(4), prefix : 0..32]]
      \cup [type : {"IPV6"} \cap DOMAIN lengths, value : [addr : Bytes(16), prefix : 0..128]]

Types == DOMAIN MatchLength \cup DOMAIN ActionLength \cup DOMAIN OptionLength

RouteMods ==
    [class : {"RouteMod"}, mod : {"add", "delete"}, id : Nat,
     matches : Seq(TLVs(MatchLength)), actions : Seq(TLVs(ActionLength)),
     options : Seq(TLVs(OptionLength))]

Meaning ==
    [class : {"PortRegister"}, vm_id : Nat, vm_port : Nat, hwaddress : Bytes(6)]
      \cup [class : {"PortConfig"}, vm_id : Nat, vm_port : Nat, operation_id : Nat]
      \cup [class : {"DatapathPortRegister"}, ct_id : Nat, dp_id : Nat, dp_port : Nat]
      \cup [class : {"DatapathDown"}, ct_id : Nat, dp_id : Nat]
      \cup [class : {"VirtualPlaneMap"}, vm_id : Nat, vm_port : Nat, vs_id : Nat,
            vs_port : Nat]
      \cup [class : {"DataPlaneMap"}, ct_id : Nat, dp_id : Nat, dp_port : Nat,
            vs_id : Nat, vs_port : Nat]
      \cup RouteMods

ASSUME OutboxAssumption ==
    /\ \A r \in Receiver : \A n \in 1..MaxSends : Outbox[r][n] \subseteq Meaning
    /\ NULL \notin Types \cup Seq(Byte) \cup [type : Types, value : Seq(Byte)]

(* The values of route_mod_type in defs.h; rflib's users send 0 and 1.     *)
RouteModType == [add |-> 48, delete |-> 49]
SentCommand == [add |-> 0, delete |-> 1]

Command(mod) ==
    CASE mod = RouteModType.add -> "add" [] mod = RouteModType.delete -> "delete"
      [] OTHER -> NULL

(* The object that a user builds: its TLVs and its command.                *)
MakeAll(list, order) == [i \in DOMAIN list |-> Make(list[i], order)]

Written(m, order) ==
    IF m.class # "RouteMod" THEN m
    ELSE [m EXCEPT !.mod = SentCommand[@],
                   !.matches = MakeAll(@, order), !.actions = MakeAll(@, order),
                   !.options = MakeAll(@, order)]

(* What a user reads from an object.                                       *)
ReadAll(list, order) == [i \in DOMAIN list |-> Reading(list[i], order)]

Read(m, order) ==
    IF m.class # "RouteMod" THEN m
    ELSE [m EXCEPT !.mod = Command(@),
                   !.matches = ReadAll(@, order), !.actions = ReadAll(@, order),
                   !.options = ReadAll(@, order)]

-------------------------------------------------------------------------------
PutInEnvelope(m, order) == [type |-> MessageType[m.class], content |-> ToBSON(m, order)]

(* buildForType's object gets the content.                                 *)
TakeFromEnvelope(e, order) == FromBSON(BuildForType(e.type), e.content, order)

Post(r) ==
    /\ Send(r) \/ SendLost(r)
    /\ LET order == HostOrder[Peer(r)] IN \E meaning \in Outbox[r][count'] :
         /\ said' = Append(said, meaning)
         /\ posted' = Append(posted, PutInEnvelope(Written(meaning, order), order))
    /\ UNCHANGED got

Take(r) ==
    /\ Process(r)
    /\ got' = [got EXCEPT ![r] =
                  TakeFromEnvelope(posted[Head(listener[r].batch).id], HostOrder[r])]
    /\ UNCHANGED <<said, posted>>

ListenerStep(r) == (Fetch(r) \/ Mark(r) \/ Crash(r)) /\ UNCHANGED <<said, posted, got>>

MessageInit ==
    /\ Init
    /\ said = <<>> /\ posted = <<>>
    /\ got = [r \in Receiver |-> NULL]

MessageNext == \E r \in Receiver : Post(r) \/ Take(r) \/ ListenerStep(r)

MessageSpec == MessageInit /\ [][MessageNext]_mvars /\ Fairness

-------------------------------------------------------------------------------
(* Properties. *)

(* What a receiver reads from the message it processed last is what the    *)
(* sender said in it, whatever the byte orders of the two hosts: numbers   *)
(* become text and back, commands turn from rflib's into those of defs.h,  *)
(* and addresses, masks and numbers of TLVs keep their values.             *)
ReadAsSent == \A r \in Receiver : last[r] # 0 =>
    Read(got[r], HostOrder[r]) = said[last[r]]

(* The value of a TLV in a document: an address is followed by its mask,   *)
(* whose bits are set up to the prefix length.                             *)
MaskBits(n, prefix) == [i \in 1..n |->
    MapThenSumSet(LAMBDA b : IF 8 * (i - 1) + b < prefix THEN 2^(7 - b) ELSE 0, 0..7)]

OnWire(t) == [type |-> t.type,
    value |-> IF t.type \in {"IPV4", "IPV6"}
              THEN t.value.addr \o MaskBits(Len(t.value.addr), t.value.prefix)
              ELSE t.value]

(* TLV.cc:158 says of a document's "value" that it is in network byte      *)
(* order: so is every TLV of the message sent last, whatever the sender's  *)
(* host.                                                                   *)
NetworkOrder == said # <<>> /\ Last(said).class = "RouteMod" =>
    LET Wire(list) == [i \in DOMAIN list |-> OnWire(list[i])]
        doc == Last(posted).content
    IN /\ doc.matches = Wire(Last(said).matches)
       /\ doc.actions = Wire(Last(said).actions)
       /\ doc.options = Wire(Last(said).options)
===============================================================================
