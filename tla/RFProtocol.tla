------------------------------ MODULE RFProtocol ------------------------------
(***************************************************************************)
(* The messages of the protocol (rfproxy/RFProtocol.cc) as objects and as  *)
(* the documents they travel in.  An object is a record of its class and   *)
(* its fields.  A number travels as the text of its decimal digits         *)
(* (converter.h), a MAC address as text too, and the lists of a RouteMod   *)
(* as documents of their TLVs.                                             *)
(***************************************************************************)
EXTENDS TLV

(* to_string and string_to: a text is the sequence of its digits.          *)
Digits[n \in Nat] == IF n < 10 THEN <<n>> ELSE Append(Digits[n \div 10], n % 10)

NumberIn(text) == FoldLeft(LAMBDA n, digit : 10 * n + digit, 0, text)

Uint8In_Number(text) == NumberIn(text)

(* string_to<uint8_t> reads a character, not a number: the code of the     *)
(* first digit.                                                            *)
Uint8In(text) == 48 + Head(text)

(* MACAddress: the bytes in hexadecimal with a colon between any two.      *)
MacToString(mac) == [i \in 1..11 |-> IF i % 2 = 1 THEN mac[(i + 1) \div 2] ELSE ":"]

MacFromString(text) == [i \in 1..6 |-> text[2 * i - 1]]

(* get_type; the factory builds the object of the class that has the type. *)
MessageType ==
    [PortRegister |-> 0, PortConfig |-> 1, DatapathPortRegister |-> 2,
     DatapathDown |-> 3, VirtualPlaneMap |-> 4, DataPlaneMap |-> 5, RouteMod |-> 6]

BuildForType(type) ==
    IF \E c \in DOMAIN MessageType : MessageType[c] = type
    THEN CHOOSE c \in DOMAIN MessageType : MessageType[c] = type
    ELSE NULL

-------------------------------------------------------------------------------
(* The fields of the classes that keep numbers and nothing else.           *)

PortConfig == {"vm_id", "vm_port", "operation_id"}
DatapathPortRegister == {"ct_id", "dp_id", "dp_port"}
DatapathDown == {"ct_id", "dp_id"}
VirtualPlaneMap == {"vm_id", "vm_port", "vs_id", "vs_port"}
DataPlaneMap == {"ct_id", "dp_id", "dp_port", "vs_id", "vs_port"}

Numbers ==
    [PortConfig |-> PortConfig, DatapathPortRegister |-> DatapathPortRegister,
     DatapathDown |-> DatapathDown, VirtualPlaneMap |-> VirtualPlaneMap,
     DataPlaneMap |-> DataPlaneMap]

(* to_BSON.  A PortRegister has an address too; a RouteMod has a command   *)
(* and lists.                                                              *)
NumbersToBSON(m) == [f \in Numbers[m.class] |-> Digits[m[f]]]

PortRegisterToBSON(m) ==
    [vm_id |-> Digits[m.vm_id], vm_port |-> Digits[m.vm_port],
     hwaddress |-> MacToString(m.hwaddress)]

RouteModToBSON(m, order) ==
    [mod |-> Digits[m.mod],
     id |-> Digits[m.id],
     matches |-> MatchesToBSON(m.matches, order),
     actions |-> ActionsToBSON(m.actions, order),
     options |-> OptionsToBSON(m.options, order)]

ToBSON(m, order) ==
    CASE m.class = "PortRegister" -> PortRegisterToBSON(m)
      [] m.class = "RouteMod" -> RouteModToBSON(m, order)
      [] OTHER -> NumbersToBSON(m)

(* from_BSON, into an object of the class.                                 *)
NumbersFromBSON(class, d) ==
    [f \in Numbers[class] \cup {"class"} |-> IF f = "class" THEN class ELSE NumberIn(d[f])]

PortRegisterFromBSON(d) ==
    [class |-> "PortRegister", vm_id |-> NumberIn(d.vm_id), vm_port |-> NumberIn(d.vm_port),
     hwaddress |-> MacFromString(d.hwaddress)]

RouteModFromBSON(d, order) ==
    [class |-> "RouteMod",
     mod |-> Uint8In(d.mod),
     id |-> NumberIn(d.id),
     matches |-> MatchesFrom(d.matches, order),
     actions |-> ActionsFrom(d.actions, order),
     options |-> OptionsFrom(d.options, order)]

FromBSON(class, d, order) ==
    CASE class = "PortRegister" -> PortRegisterFromBSON(d)
      [] class = "RouteMod" -> RouteModFromBSON(d, order)
      [] OTHER -> NumbersFromBSON(class, d)
===============================================================================
