---------------------------- MODULE MCMessageChannel ----------------------------
(* rfserver and its peer on a channel, rfclient or rfproxy: every class of  *)
(* message goes one way or the other, and every type of TLV in one of them. *)
EXTENDS MessageChannel

CONSTANTS rfserver, peer

MCReceiver == {rfserver, peer}
MCHostOrder == (rfserver :> "big") @@ (peer :> "little")

T(type, value) == [type |-> type, value |-> value]
IP4(addr, prefix) == T("IPV4", [addr |-> addr, prefix |-> prefix])
IP6(prefix) == T("IPV6", [addr |-> [i \in 1..16 |-> 7 * i], prefix |-> prefix])
Mac(last_byte) == <<2, 161, 0, 255, 16, last_byte>>

Route(command, matches, actions, options) ==
    [class |-> "RouteMod", mod |-> command, id |-> 1099, matches |-> matches,
     actions |-> actions, options |-> options]

RouteToPort ==
    Route("add",
          <<T("ETHERNET", Mac(9)), IP4(<<10, 0, 1, 0>>, 24), T("TP_DST", <<1, 179>>)>>,
          <<T("SET_ETH_SRC", Mac(9)), T("SET_ETH_DST", Mac(3)), T("OUTPUT", <<0, 0, 1, 2>>)>>,
          <<T("PRIORITY", <<64, 16>>), T("CT_ID", <<0, 1, 2, 3, 4, 5, 6, 7>>)>>)

Withdrawn ==
    Route("delete",
          <<IP4(<<172, 31, 0, 0>>, 12), T("IN_PORT", <<0, 0, 0, 7>>)>>,
          <<T("DROP", <<>>), T("POP_MPLS", <<>>), T("SFLOW", <<>>)>>,
          <<T("IDLE_TIMEOUT", <<0, 60>>), T("HARD_TIMEOUT", <<2, 1>>)>>)

Labels ==
    Route("add",
          <<T("MPLS", <<0, 1, 0, 16>>), T("ETHERTYPE", <<136, 71>>), T("VLAN", <<0, 12>>)>>,
          <<T("PUSH_MPLS", <<0, 0, 3, 16>>), T("SWAP_MPLS", <<0, 15, 66, 63>>)>>, <<>>)

Hosts ==
    Route("add",
          <<IP4(<<10, 1, 2, 3>>, 32), IP6(7), IP6(128), T("NW_PROTO", <<6>>),
            T("TP_SRC", <<0, 80>>)>>,
          <<T("OUTPUT", <<0, 0, 255, 253>>)>>, <<>>)

ToRFServer ==
    <<{[class |-> "PortRegister", vm_id |-> 1099511, vm_port |-> 1, hwaddress |-> Mac(10)]},
      {RouteToPort},
      {[class |-> "DatapathPortRegister", ct_id |-> 0, dp_id |-> 905, dp_port |-> 12]},
      {[class |-> "VirtualPlaneMap", vm_id |-> 20, vm_port |-> 2, vs_id |-> 1977, vs_port |-> 31]},
      {[class |-> "DatapathDown", ct_id |-> 0, dp_id |-> 905]}>>

ToPeer ==
    <<{Withdrawn}, {Labels},
      {[class |-> "PortConfig", vm_id |-> 20, vm_port |-> 2, operation_id |-> 1]},
      {[class |-> "DataPlaneMap", ct_id |-> 0, dp_id |-> 905, dp_port |-> 12, vs_id |-> 1977,
        vs_port |-> 31]},
      {Hosts}>>

MCOutbox == (rfserver :> ToRFServer) @@ (peer :> ToPeer)
===============================================================================
