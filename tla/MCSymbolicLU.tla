---------------------------- MODULE MCSymbolicLU ----------------------------
(***************************************************************************)
(* Every structure of a Jacobian over four species is planned: fill-in     *)
(* that causes further fill-in needs four.  The plans of the structures    *)
(* that couple three of them are carried out as well, on every choice of   *)
(* non-zero values in the field of three elements.                         *)
(***************************************************************************)
EXTENDS PlannedSweep, TLC

MCN == 4
MCP == 3
MCValues == {1, 2}
MCExecuted == SUBSET {ij \in (0..2) \X (0..2) : ij[1] # ij[2]}
\* The identity, and an order that is not its own inverse.
MCOrders == {[i \in 0..3 |-> i], ChapmanOrder}

\* A tableau of three stages, no two of whose coefficients play the same part.
MCStages == 3
MCGamma == 2
MCA == <<2, 1>> :> 1 @@ <<3, 1>> :> 1 @@ <<3, 2>> :> 2
MCC == <<2, 1>> :> 2 @@ <<3, 1>> :> 1 @@ <<3, 2>> :> 1
MCM == <<1, 2, 1>>
MCStepSizes == {2}
==============================================================================
