------------------------------ MODULE Reduction ------------------------------
(***************************************************************************)
(* The two integration kernels that every generated solver class offers:   *)
(* integrate, the loop of StepControl, and integrate_with_reduction        *)
(* (templates/solver_variants/integrate_with_reduction.j2), modelled here. *)
(* The second starts from one second, has neither a floor under its steps  *)
(* nor a memory of rejections, and at every attempt freezes the species    *)
(* whose rates are small: they keep their value and take no part in the    *)
(* linear systems.  A behaviour is one call of either on one cell.         *)
(*                                                                         *)
(* The magnitude of a rate is a function of the species the rate reads, so *)
(* it may change only when one of those does.                              *)
(***************************************************************************)
EXTENDS StepControl, Functions

CONSTANTS
  OneSecond,  \* the 1.0 of fmin(dt_total, 1.0)
  Species,    \* 0..n-1
  Orders,     \* lu_plan.permutation: the species of each register
  Tolerance,  \* atol + rtol * |concentration|, by the index of the arrays
  Magnitudes, \* what |F1| may be
  Threshold,  \* importance_threshold
  Reads       \* the species the rate of each species depends on

ASSUME OneSecondAssumption == OneSecond \in Nat \ {0}
ASSUME OrdersAssumption == Orders # {} /\ Orders \subseteq Bijection(Species, Species)
ASSUME RatesAssumption ==
  /\ 0 \in Magnitudes /\ Magnitudes \subseteq Nat
  /\ Tolerance \in [Species -> Nat \ {0}]
  /\ Threshold \in Nat \ {0}
  /\ Reads \in [Species -> SUBSET Species]

VARIABLES
  variant,  \* which of the two kernels the host called
  order,    \* permutation
  rate,     \* |F1| of each species at the present state
  lost      \* the species whose concentration is not a number

chemistry == <<rate, lost>>
kernelVars == <<vars, variant, order, chemistry>>

\* Species are in registers, and tolerances are read by register.
RegisterOf(s) == CHOOSE r \in Species : order[r] = s

\* The rate and the importance of a species are numbers.
Readable(s) == (Reads[s] \union {s}) \intersect lost = {}

\* Fault: a species is frozen when its importance is below the threshold, which
\* a NaN is not.
ActiveUnlessBelow ==
  {s \in Species : ~Readable(s) \/ rate[s] >= Threshold * Tolerance[RegisterOf(s)]}

\* active[i] = |F1| / (atol[i] + rtol[i] * |state|) >= threshold: NaN compares false.
Active == {s \in Species : Readable(s) /\ rate[s] >= Threshold * Tolerance[RegisterOf(s)]}

\* A NaN in the right-hand side or the row of an active species.
Contaminated == {s \in Active : ~Readable(s)}

\* Fault: the update runs one past the last register.
DamagedPastTheEnd == IF Step = 0 THEN {s + 1 : s \in Active} ELSE Contaminated

\* What an attempt with a NaN norm damages: an empty step all that are active,
\* by C / dt times a zero K.
Damaged == IF Step = 0 THEN Active ELSE Contaminated

\* The error norm runs over all species, the frozen ones with no error.
NormIsNaN == lost # {} \/ (Step = 0 /\ Active # {})
NormIsLeast == lost = {} /\ Active = {}

\* Fault: the size is left alone by an accepted step.
ResizedOnRejection(factor) == Step

\* Fault: the floor of the other kernel, which this one does not have.
ResizedFloored(factor) == Larger(HMin, Scaled(Step, factor))

\* dt *= factor, with no floor, no ceiling and no memory.
Resized(factor) == Scaled(Step, factor)

ReducedAdvance(factor) ==
  /\ dt' = Resized(factor)
  /\ parity' = ~parity
  /\ t' \in Nearest(t + Step)
  /\ UNCHANGED <<rejectLast, rejectMore, returned, streak, failedSize, variant, order>>

\* if (active[i]) state += ...: the active species move, damaged ones to NaN.
Move(damaged) ==
  /\ lost' = lost \union damaged
  /\ rate' \in {r \in [Species -> Magnitudes] :
                  \A s \in Species : Reads[s] \intersect Active = {} => r[s] = rate[s]}
  /\ nan' = (lost' # {})

Reducing == variant = "reduction" /\ Running

ReducedAccept ==
  /\ Reducing
  /\ ~NormIsNaN
  /\ IF NormIsLeast THEN ReducedAdvance(MaxGrowth)
                    ELSE \E factor \in AcceptFactors : ReducedAdvance(factor)
  /\ Move({})

\* fmax(err_norm, 1e-10) makes a NaN the least error.
ReducedAcceptNaN ==
  /\ Reducing
  /\ NormIsNaN
  /\ ReducedAdvance(MaxGrowth)
  /\ Move(Damaged)

\* Infinite rates or concentrations make active species NaN, and the norm.
Overflow ==
  /\ Reducing
  /\ Step # 0
  /\ ReducedAdvance(MaxGrowth)
  /\ \E damaged \in SUBSET Active \ {{}} : Move(damaged)

ReducedReject ==
  /\ Reducing
  /\ ~NormIsNaN
  /\ ~NormIsLeast
  /\ \E factor \in RejectFactors : dt' = Scaled(Step, factor)
  /\ parity' = ~parity
  /\ UNCHANGED <<t, rejectLast, rejectMore, nan, returned, streak, failedSize,
                 variant, order, chemistry>>

------------------------------------------------------------------------------
ReductionTypeOK ==
  /\ variant \in {"integrate", "reduction"}
  /\ order \in Orders
  /\ rate \in [Species -> Magnitudes]
  /\ lost \subseteq Species

CallReduction ==
  /\ variant = "reduction"
  /\ order \in Orders
  /\ t = 0
  /\ dt = Smaller(DtTotal, OneSecond)
  /\ rejectLast = FALSE
  /\ rejectMore = FALSE
  /\ returned = FALSE
  /\ streak = 0
  /\ failedSize = 0
  /\ parity = FALSE
  /\ rate \in [Species -> Magnitudes]
  /\ lost \in SUBSET Species
  /\ nan = (lost # {})

\* integrate looks at the chemistry through the error norm alone.
CallIntegrate ==
  /\ variant = "integrate"
  /\ Init
  /\ order = CHOOSE o \in Orders : TRUE
  /\ rate = [s \in Species |-> 0]
  /\ lost = {}

KernelInit == CallReduction \/ CallIntegrate

Integrate == variant = "integrate" /\ Next /\ UNCHANGED <<variant, order, chemistry>>
ReturnReduced == variant = "reduction" /\ Return /\ UNCHANGED <<variant, order, chemistry>>

KernelNext ==
  \/ Integrate
  \/ ReducedAccept
  \/ ReducedAcceptNaN
  \/ Overflow
  \/ ReducedReject
  \/ ReturnReduced

KernelSpec == KernelInit /\ [][KernelNext]_kernelVars /\ WF_kernelVars(KernelNext)

------------------------------------------------------------------------------
\* integrate takes a size below h_min only while it recovers from rejections.
IntegrateKeepsFloor == variant = "integrate" => BelowFloorOnlyInRecovery

\* A NaN does not travel from species to species: whatever reads it is frozen
\* before its rate can enter a solve, so a species is lost only by an overflow of
\* numbers or an empty step.
NaNStaysPut == [][\A s \in lost' \ lost : Readable(s)]_kernelVars

\* The error test has nothing to say of a cell whose species are all frozen, nor
\* of one that holds a NaN: every attempt is accepted and grows, and the call
\* returns, whatever the other species do.
UnjudgedCellReturns ==
  Reducing /\ Step > 0 /\ (Active = {} \/ lost # {}) ~> returned

\* Nothing leads out of an empty step: the state and the size may be accepted as
\* often as one likes, and the call of this cell never returns.  A size shrinks to
\* zero where the processor flushes small numbers to zero; with gradual underflow
\* 1 / (g * dt) overflows first, and the NaN it causes is accepted with growth.
EmptyStepNeverReturns == [](variant = "reduction" /\ Running /\ dt = 0 => []~returned)

\* Both calls return, unless the controller is for ever refused steps that the
\* clock can hardly resolve, or for ever accepts such steps without growing.
LingersAtTinyStep ==
  /\ Reducing
  /\ 10 * Step < MaxGrowth * HMin
  /\ parity' # parity
  /\ t' = t
  /\ dt' <= Step
KernelTermination == <>[][~RefusesTinyStep /\ ~LingersAtTinyStep]_kernelVars => <>returned
==============================================================================
