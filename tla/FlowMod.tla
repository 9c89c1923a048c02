-------------------------------- MODULE FlowMod --------------------------------
(***************************************************************************)
(* RouteMod messages and what rfproxy makes of them: create_flow_mod and   *)
(* the conversions of matches, actions and options it is built from.       *)
(*                                                                         *)
(* A RouteMod is a record of a command and three lists of TLVs, a TLV a    *)
(* record of a type and a value.  The values are opaque.  A match that has *)
(* no value for a field has NULL there.  Setting a field of a match again  *)
(* replaces its value (NOX's Flow, external).                              *)
(***************************************************************************)
EXTENDS Naturals, Sequences, SequencesExt

CONSTANTS
    NULL,
    IP,                 \* ETHERTYPE_IP
    DefaultPriority,    \* OFP_DEFAULT_PRIORITY
    Permanent           \* OFP_FLOW_PERMANENT

Tlv(type, value) == [type |-> type, value |-> value]

(* The most significant bit of a type says that a receiver which cannot    *)
(* handle the TLV may leave it out.                                        *)
Optional == {"IN_PORT", "VLAN", "DROP", "SFLOW", "CT_ID"}

SupportedMatch ==
    {"IPV4", "ETHERNET", "ETHERTYPE", "NW_PROTO", "TP_SRC", "TP_DST", "IN_PORT"}

SupportedAction == {"OUTPUT", "SET_ETH_SRC", "SET_ETH_DST"}

SupportedOption == {"PRIORITY", "IDLE_TIMEOUT", "HARD_TIMEOUT", "CT_ID"}

(* Conversion fails on a TLV that is neither supported nor optional. *)
Fails(tlvs, supported) ==
    \E i \in DOMAIN tlvs : tlvs[i].type \notin supported \cup Optional

AnyPacket ==
    [eth_type |-> NULL, ip_proto |-> NULL, ipv4_dst |-> NULL, eth_dst |-> NULL,
     tcp_src |-> NULL, tcp_dst |-> NULL, in_port |-> NULL]

AddMatch_NoPort(f, t) ==
    IF t.type = "IPV4" THEN [f EXCEPT !.ipv4_dst = t.value, !.eth_type = IP]
                       ELSE [f EXCEPT !.eth_dst = t.value]

(* add_match.  An IPv4 address implies the Ethernet type unless one is     *)
(* set: NOX's Flow answers 0xffff for a type it was not given (external;   *)
(* on_packet_in relies on the same).                                       *)
AddMatch(f, t) ==
    CASE t.type = "IPV4" ->
            [f EXCEPT !.ipv4_dst = t.value, !.eth_type = IF @ = NULL THEN IP ELSE @]
      [] t.type = "ETHERNET" -> [f EXCEPT !.eth_dst = t.value]
      [] t.type = "ETHERTYPE" -> [f EXCEPT !.eth_type = t.value]
      [] t.type = "NW_PROTO" -> [f EXCEPT !.ip_proto = t.value]
      [] t.type = "TP_SRC" -> [f EXCEPT !.tcp_src = t.value]
      [] t.type = "TP_DST" -> [f EXCEPT !.tcp_dst = t.value]
      [] t.type = "IN_PORT" -> [f EXCEPT !.in_port = t.value]
      [] OTHER -> f

(* add_action.                                                             *)
AddAction(acts, t) == IF t.type \in SupportedAction THEN Append(acts, t) ELSE acts

(* add_option.  A hard timeout is stored as an idle timeout. *)
AddOption(fm, t) ==
    CASE t.type = "PRIORITY" -> [fm EXCEPT !.priority = t.value]
      [] t.type \in {"IDLE_TIMEOUT", "HARD_TIMEOUT"} -> [fm EXCEPT !.idle_timeout = t.value]
      [] OTHER -> fm

(* The command sets both timeouts, whatever the options said. *)
SetCommand(fm, mod) ==
    [fm EXCEPT !.command = mod, !.idle_timeout = Permanent, !.hard_timeout = Permanent]

(* create_flow_mod; NULL if a TLV or the command cannot be converted.      *)
CreateFlowMod(rm) ==
    LET base == [command |-> NULL, priority |-> DefaultPriority,
                 idle_timeout |-> Permanent, hard_timeout |-> Permanent,
                 match |-> FoldLeft(AddMatch, AnyPacket, rm.matches),
                 actions |-> FoldLeft(AddAction, <<>>, rm.actions)]
    IN IF \/ Fails(rm.matches, SupportedMatch)
          \/ Fails(rm.actions, SupportedAction)
          \/ Fails(rm.options, SupportedOption)
          \/ rm.mod \notin {"ADD", "DELETE"}
       THEN NULL
       ELSE SetCommand(FoldLeft(AddOption, base, rm.options), rm.mod)
===============================================================================
