------------------------------ MODULE MCISLTable ------------------------------
(* Instances of ISLTable and ISLRoutes for TLC.                            *)
EXTENDS ISLRoutes, TLC

CONSTANTS a, b, b2, c, pa, pb, pc, A, B, C, xa, xb, xc

(* A chain of three switches; the middle one has both links on one port.   *)
ChainPorts == (a :> pa @@ b :> pb @@ b2 :> pb @@ c :> pc)
ChainDps == (pa :> A @@ pb :> B @@ pc :> C)
Chain == {<<a, b>>, <<c, b2>>}

(* Each has an external port.                                              *)
ChainExternal == (A :> {xa} @@ B :> {xb} @@ C :> {xc})
===============================================================================
