---------------------------------- MODULE TLV ----------------------------------
(***************************************************************************)
(* Matches, actions and options (rfproxy/TLV.cc, Match.cc, Action.cc,      *)
(* Option.cc) as objects and as documents.  An object has a type and, as   *)
(* its value, the bytes in memory; a document has the bytes of a number in *)
(* network order.  The types are named as in FlowMod.                      *)
(***************************************************************************)
EXTENDS IPAddress

CONSTANT NULL

(* type_to_length: how many bytes the value of each type has.              *)
MatchLength ==
    [IPV4 |-> 8, IPV6 |-> 32, ETHERNET |-> 6, NW_PROTO |-> 1, ETHERTYPE |-> 2,
     TP_SRC |-> 2, TP_DST |-> 2, VLAN |-> 2, MPLS |-> 4, IN_PORT |-> 4]

ActionLength ==
    [OUTPUT |-> 4, PUSH_MPLS |-> 4, SWAP_MPLS |-> 4, SET_ETH_SRC |-> 6,
     SET_ETH_DST |-> 6, POP_MPLS |-> 0, DROP |-> 0, SFLOW |-> 0]

OptionLength == [PRIORITY |-> 2, IDLE_TIMEOUT |-> 2, HARD_TIMEOUT |-> 2, CT_ID |-> 8]

MatchOrder_NoIP(type) == IF type = "ETHERNET" THEN "network" ELSE "host"

(* type_to_byte_order: the types whose value is kept in network order.     *)
MatchOrder(type) == IF type \in {"IPV4", "IPV6", "ETHERNET"} THEN "network" ELSE "host"
ActionOrder(type) == IF type \in {"SET_ETH_SRC", "SET_ETH_DST"} THEN "network" ELSE "host"
OptionOrder(type) == "host"

LengthOf(lengths, type) == IF type \in DOMAIN lengths THEN lengths[type] ELSE 0

(* init keeps so many bytes of a value.                                    *)
Kept(value, len) == SubSeq(value, 1, len)

(* The conversion goes by the length of the value.                         *)
ToNetwork(value, order) ==
    IF Len(value) = 8 THEN Htonll(value, order)
    ELSE IF Len(value) \in {2, 4} THEN Memory(value, order) ELSE value

ToHost(value, order) == ToNetwork(value, order)

(* TLV_to_BSON.                                                            *)
ToDocument(t, kept, order) ==
    [type |-> t.type,
     value |-> IF kept = "host" THEN ToNetwork(t.value, order) ELSE t.value]

(* type_from_BSON, value_from_BSON and the constructor: NULL for a         *)
(* document whose type or value is of no use; otherwise the length is the  *)
(* type's, not that of the value.                                          *)
FromDocument(doc, lengths, kept, order) ==
    IF doc.type = NULL \/ doc.value = NULL THEN NULL
    ELSE [type |-> doc.type,
          value |-> Kept(IF kept = "host" THEN ToHost(doc.value, order) ELSE doc.value,
                         LengthOf(lengths, doc.type))]

(* to_BSON and to_vector of MatchList, ActionList and OptionList.          *)
Usable(list) ==
    LET vector[n \in 0..Len(list)] ==
            IF n = 0 THEN <<>>
            ELSE IF list[n] # NULL THEN Append(vector[n - 1], list[n]) ELSE vector[n - 1]
    IN vector[Len(list)]

MatchesToBSON(list, order) ==
    [i \in DOMAIN list |-> ToDocument(list[i], MatchOrder(list[i].type), order)]
MatchesFrom(array, order) ==
    Usable([i \in DOMAIN array |->
        FromDocument(array[i], MatchLength, MatchOrder(array[i].type), order)])

ActionsToBSON(list, order) ==
    [i \in DOMAIN list |-> ToDocument(list[i], ActionOrder(list[i].type), order)]
ActionsFrom(array, order) ==
    Usable([i \in DOMAIN array |->
        FromDocument(array[i], ActionLength, ActionOrder(array[i].type), order)])

OptionsToBSON(list, order) ==
    [i \in DOMAIN list |-> ToDocument(list[i], OptionOrder(list[i].type), order)]
OptionsFrom(array, order) ==
    Usable([i \in DOMAIN array |->
        FromDocument(array[i], OptionLength, OptionOrder(array[i].type), order)])

-------------------------------------------------------------------------------
(* What a user puts into an object and reads from one: a number, a MAC     *)
(* address, an IP address with a prefix length, or nothing.                *)

NumberTlv(type, n, order) == [type |-> type, value |-> Memory(n, order)]

MacTlv(type, mac) == [type |-> type, value |-> mac]

IPTlv(type, addr, mask) == [type |-> type, value |-> addr \o mask]

(* getUint8, getUint16, getUint32 and getUint64.                           *)
GetUint(value, size, order) ==
    IF Len(value) < size THEN [i \in 1..size |-> 0]
                         ELSE Memory(SubSeq(value, 1, size), order)

(* getIPMask.                                                              *)
IPMask(value) == IF Len(value) = 8 THEN SubSeq(value, 5, 8) ELSE SubSeq(value, 17, 32)

Make(t, order) ==
    CASE t.type = "IPV4" ->
            IPTlv(t.type, FromUint32(Memory(t.value.addr, order), order),
                  PrefixMask("IPV4", t.value.prefix))
      [] t.type = "IPV6" -> IPTlv(t.type, t.value.addr, PrefixMask("IPV6", t.value.prefix))
      [] t.type \in {"ETHERNET", "SET_ETH_SRC", "SET_ETH_DST"} -> MacTlv(t.type, t.value)
      [] OTHER -> NumberTlv(t.type, t.value, order)

Reading(t, order) ==
    [type |-> t.type,
     value |->
        CASE t.type = "IPV4" ->
                [addr |-> Memory(ToUint32(SubSeq(t.value, 1, 4), order), order),
                 prefix |-> ToPrefixLen(IPMask(t.value))]
          [] t.type = "IPV6" ->
                [addr |-> SubSeq(t.value, 1, 16), prefix |-> ToPrefixLen(IPMask(t.value))]
          [] t.type \in {"ETHERNET", "SET_ETH_SRC", "SET_ETH_DST"} -> t.value
          [] OTHER -> GetUint(t.value, Len(t.value), order)]
===============================================================================
