------------------------------- MODULE MCRFProxy -------------------------------
(* Instances of RFProxyTurns for TLC.                                      *)
EXTENDS RFProxyTurns, TLC

CONSTANTS d1, d2, d3, x1, x2

(* Two datapaths, the first with two ports. *)
TwoSwitches == (d1 :> x1 @@ d2 :> x1 @@ d3 :> x2)

VsPorts == Permutations(VsPort)
===============================================================================
