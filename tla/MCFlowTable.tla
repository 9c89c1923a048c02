------------------------------ MODULE MCFlowTable ------------------------------
(* Instances of FlowTable for TLC.                                         *)
EXTENDS FlowTable, TLC

CONSTANTS v1, v2, v3, d1, d2, d3, s1, s2, s3, net, host, other

TwoPorts == (d1 :> dp0 @@ d2 :> dp0)
TwoPairs == {<<v1, d1>>, <<v2, d2>>}
TwoAttached == (v1 :> s1 @@ v2 :> s2)

ThreePorts == TwoPorts @@ (d3 :> dp0)
ThreePairs == TwoPairs \cup {<<v3, d3>>}
ThreeAttached == TwoAttached @@ (v3 :> s3)

(* host lies within net. *)
Nested == {<<net, host>>}

Rip == <<"DC_RIPV2">>
Matches ==
    [DC_RIPV2 |-> <<FM!Tlv("ETHERTYPE", IP), FM!Tlv("NW_PROTO", "udp"),
                    FM!Tlv("IPV4", "224.0.0.9")>>,
     DC_ARP |-> <<FM!Tlv("ETHERTYPE", "arp")>>]

To(prefix, v) == [match |-> FM!Tlv("IPV4", prefix), vm |-> v, options |-> <<>>]

Disjoint == {To(host, v1), To(other, v2)}
WithinNet == {To(host, v1), To(net, v1)}
(* One route rfproxy can install, one it cannot, one without an output.    *)
Kinds == {To(host, v1), [To(host, v2) EXCEPT !.match.type = "IPV6"], To(net, NULL)}
===============================================================================
