------------------------------ MODULE OuterStep ------------------------------
(***************************************************************************)
(* What a host may rely on when it asks a solver to carry one cell across  *)
(* an outer chemistry interval of length DtTotal: the solver's own clock   *)
(* starts at zero and only moves forward; it stops at the end of the       *)
(* interval or, by rounding, at the first value of the clock past it; and  *)
(* the call returns then and not before.                                   *)
(***************************************************************************)
EXTENDS Integers

CONSTANTS
  DtTotal,  \* length of the outer interval, in clock ticks
  JustPast  \* the first value of the clock past it

VARIABLES
  t,        \* time already covered
  returned  \* whether the call is back

vars == <<t, returned>>

TypeOK == t \in 0..DtTotal \union {JustPast} /\ returned \in BOOLEAN

Init == t = 0 /\ returned = FALSE

Advance ==
  /\ ~returned
  /\ t < DtTotal
  /\ t' \in (t + 1)..DtTotal \union {JustPast}
  /\ UNCHANGED returned

Return ==
  /\ ~returned
  /\ t >= DtTotal
  /\ returned' = TRUE
  /\ UNCHANGED t

Next == Advance \/ Return

Spec == Init /\ [][Next]_vars
==============================================================================
