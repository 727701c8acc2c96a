---------------------------- MODULE MCStepControl ----------------------------
(***************************************************************************)
(* A clock of numbers with four binary digits: every tick up to 16, the    *)
(* even ones up to 32, multiples of 4 above.  The interval of 30 is the    *)
(* odd number 15 in units of the last digit there.  Differences and ties   *)
(* round to even.  Sizes below the spacing, at a floor as coarse as it,    *)
(* cut by the end, carried past it and underflowing to zero all occur.     *)
(***************************************************************************)
EXTENDS Reduction, TLC

MCDtTotal == 30
MCHMin == 2
MCTimes ==
  {0, 1, 2, 3, 4, 5, 6, 7, 8, 9, 10, 11, 12, 13, 14, 15, 16,
   18, 20, 22, 24, 26, 28, 30, 32, 36}
MCJustPast == 32
MCRest ==
  [s \in {m \in MCTimes : m < MCDtTotal} |->
     LET x == MCDtTotal - s IN IF x % 2 = 1 /\ x > 16 THEN 4 * ((x + 2) \div 4) ELSE x]
\* Seeds below the floor, equal to the interval and above it.
MCFirstSteps == {1, 30, 45}
MCAcceptFactors == {9, 15, 60}
MCRejectFactors == {2, 5, 8}

\* The rate of species 0 reads both species, that of species 1 only itself.
MCOneSecond == 7
MCSpecies == {0, 1}
MCOrders == {0 :> 1 @@ 1 :> 0}
MCTolerance == 0 :> 1 @@ 1 :> 2
MCMagnitudes == {0, 2}
MCThreshold == 1
MCReads == 0 :> {0, 1} @@ 1 :> {1}
==============================================================================
