--------------------------- MODULE MCSensitivity ---------------------------
(***************************************************************************)
(* Two species over the field of three elements, three stages, and every   *)
(* Jacobian and step size that gives a regular W.  Both sides of the       *)
(* properties are linear in delta and in lambda, so the unit vectors       *)
(* decide them.                                                            *)
(***************************************************************************)
EXTENDS Sensitivity, TLC

MCP == 3
MCSpecies == {1, 2}
MCStages == 3
MCOrders == Bijection(MCSpecies, MCSpecies)
MCGamma == 2
MCProbes == {<<1, 0>>, <<0, 1>>}
MCA == <<2, 1>> :> 1 @@ <<3, 1>> :> 1 @@ <<3, 2>> :> 2
MCC == <<2, 1>> :> 2 @@ <<3, 1>> :> 1 @@ <<3, 2>> :> 1
MCM == <<1, 2, 1>>
==============================================================================
