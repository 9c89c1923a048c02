------------------------------ MODULE MCRFServer ------------------------------
(* Instances of RFServer for TLC.                                          *)
EXTENDS RFServer, TLC

CONSTANTS v1, v2, d1, d2, sw

OneSwitch == (d1 :> sw @@ d2 :> sw)

(* Both ports are configured. *)
TwoPairs == {<<v1, d1>>, <<v2, d2>>}

(* The second VM port and the second datapath port are not configured. *)
OnePair == {<<v1, d1>>}

Documents == Permutations(Doc)
===============================================================================
