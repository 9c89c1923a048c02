------------------------------ MODULE MCRouteFlow ------------------------------
(* Instances of RouteFlow for TLC.                                         *)
EXTENDS RouteFlow, TLC

CONSTANTS v1, v2, d1, d2, sw, r1, r2, r3

OneSwitch == (d1 :> sw @@ d2 :> sw)

D1 == (d1 :> sw)

OnePair == {<<v1, d1>>}

TwoPairs == {<<v1, d1>>, <<v2, d2>>}

(* Documents are interchangeable and none is ever removed: a run need only *)
(* look at the behaviours that take them in one order.                     *)
InOrder ==
    /\ rftable'[r2] # NULL => rftable[r1] # NULL
    /\ rftable'[r3] # NULL => rftable[r2] # NULL
===============================================================================
