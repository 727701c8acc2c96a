--------------------------- MODULE ReductionProofs ---------------------------
(***************************************************************************)
(* Theorems about the step controller, for every interval, floor, clock    *)
(* resolution, seed and set of growth factors the assumptions admit, and   *)
(* about both kernels that it is one of, for every set of species, rate    *)
(* structure, tolerance and order of registers besides.  What holds of     *)
(* integrate alone is used for its calls among those of both; the reduced  *)
(* kernel leaves the flags alone.                                          *)
(***************************************************************************)
EXTENDS Reduction, TLAPS

------------------------------------------------------------------------------
\* integrate, on its own.

\* No clock value is nearer than the one a sum rounds to.
LEMMA NearestIsNearest ==
  ASSUME NEW x \in Nat, NEW m \in Nearest(x), NEW n \in Times
  PROVE  m \in Times /\ Distance(x, m) <= Distance(x, n)
<1>1. Times \subseteq Nat
  BY TimesAssumption
<1>2. CASE x \in Times
  BY <1>1, <1>2 DEF Nearest, Distance
<1>3. CASE x \notin Times
  <2>1. m \in Times /\ n \notin Within(x, Distance(x, m))
    BY <1>3 DEF Nearest
  <2>2. QED
    BY <1>1, <2>1 DEF Within, Distance
<1>4. QED
  BY <1>2, <1>3

\* A nearest clock value to a moment between two clock values lies between them.
LEMMA NearestBetween ==
  ASSUME NEW lo \in Times, NEW hi \in Times, NEW x \in Nat, lo <= x, x <= hi,
         NEW m \in Nearest(x)
  PROVE  m \in Times /\ lo <= m /\ m <= hi
<1>1. Times \subseteq Nat
  BY TimesAssumption
<1>2. m \in Times /\ Distance(x, m) <= Distance(x, lo) /\ Distance(x, m) <= Distance(x, hi)
  BY NearestIsNearest
<1>3. QED
  BY <1>1, <1>2 DEF Distance

\* Moving by at least the floor rounds to a later clock value.
LEMMA FloorIsVisible ==
  ASSUME NEW s \in Times, s < DtTotal, NEW d \in Nat, d >= HMin,
         NEW m \in Nearest(s + d)
  PROVE  m > s
<1>1. Times \subseteq Nat /\ DtTotal \in Nat /\ HMin \in Nat
  BY TimesAssumption, DtTotalAssumption, HMinAssumption
<1>2. PICK n \in Times : s < n /\ n < s + 2 * HMin
  BY <1>1, SpacingAssumption
<1>3. s + d \in Nat
  BY <1>1
<1>4. m \in Times /\ Distance(s + d, m) <= Distance(s + d, n)
  BY <1>2, <1>3, NearestIsNearest
<1>5. QED
  BY <1>1, <1>2, <1>4 DEF Distance

\* The clock value right behind the end is less than two floors from it.
LEMMA NextBehindTheEnd ==
  /\ DtTotal \in Nat /\ JustPast \in Nat /\ HMin \in Nat
  /\ DtTotal < JustPast /\ JustPast < DtTotal + 2 * HMin
<1>1. Times \subseteq Nat /\ DtTotal \in Times /\ JustPast \in Times /\ DtTotal < JustPast
  BY TimesAssumption
<1>2. HMin \in Nat
  BY HMinAssumption
<1>3. PICK n \in Times : DtTotal < n /\ n < DtTotal + 2 * HMin
  BY <1>1, SpacingAssumption
<1>4. JustPast <= n
  BY <1>1, <1>3, TimesAssumption
<1>5. QED
  BY <1>1, <1>2, <1>3, <1>4

\* What is left of the interval, as computed: it ends not behind the first clock
\* value past the end, and where it is not exact it is at least the floor.
LEMMA RestBounds ==
  ASSUME NEW s \in Times, s < DtTotal
  PROVE  /\ Rest[s] \in Nat
         /\ s + Rest[s] <= JustPast
         /\ s + Rest[s] = DtTotal \/ Rest[s] >= HMin
<1> DEFINE x == DtTotal - s
<1>1. s \in Nat /\ x \in 0..DtTotal /\ Times \subseteq Nat
  BY TimesAssumption, DtTotalAssumption
<1>2. Rest[s] \in Nat
  BY RestAssumption
<1>3. CASE DtTotal <= 2 * s
  <2>1. Rest[s] = x
    BY <1>3, RestAssumption
  <2>2. QED
    BY <1>1, <1>2, <2>1, NextBehindTheEnd
<1>4. CASE ~(DtTotal <= 2 * s)
  <2>1. \A n \in Times : Distance(x, Rest[s]) <= Distance(x, n)
    BY <1>4, RestAssumption
  <2>2. PICK lo \in Times : \E hi \in Times : lo <= x /\ x <= hi /\ hi - lo <= JustPast - DtTotal
    BY <1>1, DensityAssumption
  <2>3. PICK hi \in Times : lo <= x /\ x <= hi /\ hi - lo <= JustPast - DtTotal
    BY <2>2
  <2>4. Distance(x, Rest[s]) <= Distance(x, lo) /\ Distance(x, Rest[s]) <= Distance(x, hi)
    BY <2>1
  <2>5. lo \in Nat /\ hi \in Nat /\ x \in Nat
    BY <1>1
  <2>6. Distance(x, Rest[s]) + Distance(x, Rest[s]) <= JustPast - DtTotal
    BY <1>2, <2>3, <2>4, <2>5, NextBehindTheEnd DEF Distance
  <2>7. 4 * HMin <= DtTotal
    BY HMinAssumption
  <2>8. QED
    BY <1>1, <1>2, <1>4, <2>6, <2>7, NextBehindTheEnd DEF Distance
<1>5. QED
  BY <1>3, <1>4

\* A sum that is not behind the first clock value past the end is rounded to one
\* of the interval, or to that value.
LEMMA RoundedSum ==
  ASSUME NEW s \in Times, NEW d \in Nat, s < DtTotal, s + d <= JustPast,
         NEW m \in Nearest(s + d)
  PROVE  m \in Times /\ s <= m /\ (m <= DtTotal \/ m = JustPast)
<1>1. /\ Times \subseteq Nat /\ DtTotal \in Times /\ JustPast \in Times
      /\ \A n \in Times : n <= DtTotal \/ JustPast <= n
  BY TimesAssumption
<1>2. s + d \in Nat /\ s <= s + d
  BY <1>1
<1>3. m \in Times /\ s <= m /\ m <= JustPast
  BY <1>1, <1>2, NearestBetween
<1>4. QED
  BY <1>1, <1>3

\* A factor below one makes a positive size smaller, and none makes it negative.
LEMMA ScaledBounds ==
  ASSUME NEW size \in Nat, NEW factor \in Nat
  PROVE  /\ Scaled(size, factor) \in Nat
         /\ size > 0 /\ factor < 10 => Scaled(size, factor) < size
<1> DEFINE p == size * factor
<1>1. p \in Nat
  OBVIOUS
<1>2. Scaled(size, factor) = p \div 10
  BY DEF Scaled
<1>3. p \div 10 \in Nat
  BY <1>1
<1>4. ASSUME size > 0, factor < 10
      PROVE  p \div 10 < size
  <2>1. p <= 9 * size
    BY <1>4
  <2> HIDE DEF p
  <2>2. QED
    BY <1>1, <1>4, <2>1
<1>5. QED
  BY <1>2, <1>3, <1>4

\* While the loop runs an attempt has a natural size that ends in the interval,
\* or short of the first clock value past it.
LEMMA StepBounds ==
  ASSUME TypeOK, Running
  PROVE  /\ Step \in Nat
         /\ Step <= dt
         /\ t \in Nat
         /\ t + Step \in Nat
         /\ t + Step <= JustPast
<1>1. t \in Times /\ t \in Nat /\ t < DtTotal /\ dt \in Nat
  BY TimesAssumption DEF TypeOK, Running
<1>2. Rest[t] \in Nat /\ t + Rest[t] <= JustPast /\ JustPast \in Nat
  BY <1>1, RestBounds, NextBehindTheEnd
<1>3. QED
  BY <1>1, <1>2 DEF Step, Smaller

\* What an accepted attempt does to the clock.
LEMMA AdvanceClock ==
  ASSUME TypeOK, Running, NEW factor, Advance(factor)
  PROVE  t' \in Times /\ t <= t' /\ (t' <= DtTotal \/ t' = JustPast)
<1>1. t \in Times /\ t < DtTotal /\ Step \in Nat /\ t + Step <= JustPast
  BY StepBounds DEF TypeOK, Running
<1>2. t' \in Nearest(t + Step)
  BY DEF Advance
<1>3. QED
  BY <1>1, <1>2, RoundedSum

\* What an accepted attempt does to the controller.
LEMMA NextStepBounds ==
  ASSUME TypeOK, Running, NEW factor \in Nat
  PROVE  /\ NextStep(factor) \in Nat
         /\ rejectLast => NextStep(factor) <= Step
         /\ ~rejectLast => NextStep(factor) >= HMin
<1> DEFINE scaled == Scaled(Step, factor)
<1>0. Step \in Nat
  BY StepBounds
<1>1. scaled \in Nat /\ HMin \in Nat /\ DtTotal \in Nat
  BY <1>0, ScaledBounds, HMinAssumption, DtTotalAssumption
<1> HIDE DEF scaled
<1>2. NextStep(factor) = LET grown == Larger(HMin, Smaller(scaled, DtTotal))
                         IN  IF rejectLast THEN Smaller(grown, Step) ELSE grown
  BY DEF NextStep, scaled
<1>3. QED
  BY <1>0, <1>1, <1>2 DEF Larger, Smaller

\* What a rejection does to the controller.
LEMMA ShrunkStepBounds ==
  ASSUME TypeOK, Running, Step > 0, NEW factor \in RejectFactors
  PROVE  ShrunkStep(factor) \in Nat /\ ShrunkStep(factor) < Step
<1>1. Step \in Nat /\ factor \in Nat /\ factor < 10
  BY StepBounds, FactorsAssumption DEF MinShrink, Safety
<1>2. Step \div 10 \in Nat /\ Step \div 10 < Step
  BY <1>1
<1>3. QED
  BY <1>1, <1>2, ScaledBounds DEF ShrunkStep

------------------------------------------------------------------------------
(***************************************************************************)
(* The inductive invariant: types, and the three facts about the           *)
(* controller's memory.  FailedSizeIsNotRetried needs that a remembered    *)
(* rejection has a remembered size.                                        *)
(***************************************************************************)
RejectionIsRemembered == rejectLast => failedSize > 0

IInv ==
  /\ TypeOK
  /\ FlagsCountRejections
  /\ RejectionIsRemembered
  /\ FailedSizeIsNotRetried
  /\ BelowFloorOnlyInRecovery

LEMMA InitIInv == Init => IInv
<1> SUFFICES ASSUME Init PROVE IInv
  OBVIOUS
<1>1. t \in Times /\ dt \in Nat
  BY TimesAssumption, FirstStepsAssumption, DtTotalAssumption DEF Init
<1>2. /\ rejectLast \in BOOLEAN /\ rejectMore \in BOOLEAN
      /\ returned \in BOOLEAN /\ parity \in BOOLEAN
  BY DEF Init
<1>3. TypeOK
  BY <1>1, <1>2 DEF Init, TypeOK
<1>4. QED
  BY <1>1, <1>3 DEF Init, IInv, FlagsCountRejections, RejectionIsRemembered,
     FailedSizeIsNotRetried, BelowFloorOnlyInRecovery

LEMMA AdvanceIInv ==
  ASSUME IInv, Running, NEW factor \in Nat, Advance(factor), nan' \in BOOLEAN
  PROVE  IInv'
<1>1. TypeOK /\ t \in Times /\ dt \in Nat /\ failedSize \in Nat /\ HMin \in Nat
  BY HMinAssumption DEF IInv, TypeOK
<1>2. t' \in Times
  BY <1>1, AdvanceClock
<1>3. /\ dt' \in Nat
      /\ rejectLast => dt' <= dt
      /\ ~rejectLast => dt' >= HMin
  BY <1>1, NextStepBounds, StepBounds DEF Advance
<1>4. TypeOK'
  <2>1. /\ rejectLast' \in BOOLEAN /\ rejectMore' \in BOOLEAN
        /\ returned' \in BOOLEAN /\ parity' \in BOOLEAN
    BY <1>1 DEF TypeOK, Advance
  <2>2. streak' \in 0..2 /\ failedSize' \in Nat
    BY <1>1 DEF TypeOK, Advance
  <2>3. QED
    BY <1>2, <1>3, <2>1, <2>2 DEF TypeOK
<1>5. FlagsCountRejections'
  BY DEF Advance, FlagsCountRejections
<1>6. RejectionIsRemembered'
  BY DEF Advance, RejectionIsRemembered
<1>7. FailedSizeIsNotRetried'
  BY <1>1, <1>3 DEF IInv, Advance, FailedSizeIsNotRetried
<1>8. BelowFloorOnlyInRecovery'
  BY <1>1, <1>3 DEF IInv, Advance, BelowFloorOnlyInRecovery, RejectionIsRemembered
<1>9. QED
  BY <1>2, <1>4, <1>5, <1>6, <1>7, <1>8 DEF IInv

LEMMA RejectIInv == ASSUME IInv, Reject PROVE IInv'
<1>1. TypeOK /\ Running /\ Step > 0 /\ Step \in Nat
  BY StepBounds DEF IInv, Reject, Outcomes
<1>2. dt' \in Nat /\ dt' < Step
  BY <1>1, ShrunkStepBounds DEF Reject
<1>3. TypeOK'
  BY <1>1, <1>2 DEF TypeOK, Reject, EscalateNext, Smaller
<1>4. FlagsCountRejections'
  BY <1>1 DEF IInv, TypeOK, Reject, EscalateNext, FlagsCountRejections, Smaller
<1>5. RejectionIsRemembered' /\ FailedSizeIsNotRetried' /\ BelowFloorOnlyInRecovery'
  BY <1>1, <1>2
  DEF Reject, RejectionIsRemembered, FailedSizeIsNotRetried, BelowFloorOnlyInRecovery
<1>6. QED
  BY <1>3, <1>4, <1>5 DEF IInv, Reject

LEMMA NextIInv == IInv /\ [Next]_vars => IInv'
<1> SUFFICES ASSUME IInv, [Next]_vars PROVE IInv'
  OBVIOUS
<1>1. CASE Accept
  BY <1>1, AdvanceIInv, FactorsAssumption DEF Accept, IInv, TypeOK, MaxGrowth, Safety
<1>2. CASE AcceptNaN
  BY <1>2, AdvanceIInv DEF AcceptNaN, MaxGrowth, IInv, TypeOK
<1>3. CASE Reject
  BY <1>3, RejectIInv
<1>4. CASE Return
  BY <1>4 DEF Return, control, history, IInv, TypeOK, FlagsCountRejections,
     RejectionIsRemembered, FailedSizeIsNotRetried, BelowFloorOnlyInRecovery
<1>5. CASE UNCHANGED vars
  BY <1>5 DEF vars, IInv, TypeOK, FlagsCountRejections,
     RejectionIsRemembered, FailedSizeIsNotRetried, BelowFloorOnlyInRecovery
<1>6. QED
  BY <1>1, <1>2, <1>3, <1>4, <1>5 DEF Next

LEMMA Invariance == Spec => []IInv
  BY InitIInv, NextIInv, PTL DEF Spec

------------------------------------------------------------------------------
\* The variables of the controller keep their types, and the clock only ever
\* shows a value it can hold.
THEOREM TypeCorrect == Spec => []TypeOK
  BY Invariance, PTL DEF IInv

\* The two flags of integrate() count consecutive rejections.
THEOREM FlagsAreExact == Spec => []FlagsCountRejections
  BY Invariance, PTL DEF IInv

\* The controller never goes back to a size the error test has just refused.
THEOREM NoRetry == Spec => []FailedSizeIsNotRetried
  BY Invariance, PTL DEF IInv

\* The h_min floor holds outside the recovery from a rejection.
THEOREM FloorHolds == Spec => []BelowFloorOnlyInRecovery
  BY Invariance, PTL DEF IInv

\* A step of at least h_min is seen by the clock, be it cut to the end or not.
LEMMA FlooredStepMoves ==
  ASSUME TypeOK, NEW factor, Running, Advance(factor), dt >= HMin
  PROVE  t' > t
<1>1. /\ t \in Times /\ t < DtTotal /\ dt \in Nat /\ t \in Nat
      /\ DtTotal \in Nat /\ DtTotal \in Times /\ t' \in Nearest(t + Step)
  BY TimesAssumption, DtTotalAssumption DEF TypeOK, Running, Advance
<1>2. CASE Step = dt
  BY <1>1, <1>2, FloorIsVisible
<1>3. CASE Step = Rest[t]
  <2>1. Step \in Nat /\ (t + Step = DtTotal \/ Step >= HMin)
    BY <1>1, <1>3, RestBounds
  <2>2. CASE t + Step = DtTotal
    <3>1. t' \in Nearest(DtTotal) /\ DtTotal <= DtTotal
      BY <1>1, <2>2
    <3>2. t' \in Times /\ DtTotal <= t'
      BY <1>1, <3>1, NearestBetween
    <3>3. QED
      BY <1>1, <3>2, TimesAssumption
  <2>3. CASE Step >= HMin
    BY <1>1, <2>1, <2>3, FloorIsVisible
  <2>4. QED
    BY <2>1, <2>2, <2>3
<1>4. QED
  BY <1>2, <1>3 DEF Step, Smaller

\* Every accepted step of at least h_min moves the rounded clock.
THEOREM Progress == Spec => FloorMovesClock
<1>1. IInv /\ [Next]_vars => [(Accept \/ AcceptNaN) /\ dt >= HMin => t' > t]_vars
  BY FlooredStepMoves DEF IInv, Accept, AcceptNaN
<1>2. QED
  BY <1>1, Invariance, PTL DEF Spec, FloorMovesClock

\* Every step of the controller is one of the outer step, or none.
LEMMA StepRefines == IInv /\ [Next]_vars => [Outer!Next]_(Outer!vars)
<1> SUFFICES ASSUME IInv, [Next]_vars PROVE [Outer!Next]_(Outer!vars)
  OBVIOUS
<1> USE DEF Outer!Next, Outer!vars
<1>1. ASSUME NEW factor, Running, Advance(factor) PROVE Outer!Advance \/ UNCHANGED Outer!vars
  <2>1. /\ t \in Nat /\ t' \in Nat /\ DtTotal \in Nat
        /\ t <= t' /\ (t' <= DtTotal \/ t' = JustPast)
    BY <1>1, AdvanceClock, TimesAssumption, DtTotalAssumption DEF IInv, TypeOK
  <2>2. QED
    BY <1>1, <2>1 DEF Outer!Advance, Running, Advance
<1>2. CASE Accept
  BY <1>1, <1>2 DEF Accept
<1>3. CASE AcceptNaN
  BY <1>1, <1>3 DEF AcceptNaN
<1>4. CASE Reject
  BY <1>4 DEF Reject
<1>5. CASE Return
  BY <1>5 DEF Return, Outer!Return
<1>6. CASE UNCHANGED vars
  BY <1>6 DEF vars
<1>7. QED
  BY <1>2, <1>3, <1>4, <1>5, <1>6 DEF Next

\* integrate() implements the outer step its host asked for: the clock moves
\* forward to the end or, by rounding, to the first value past it.
THEOREM Refinement == Spec => ImplementsOuterStep
<1>1. Init => Outer!Init
  BY DEF Init, Outer!Init
<1>2. QED
  BY <1>1, StepRefines, Invariance, PTL DEF Spec, ImplementsOuterStep, Outer!Spec

------------------------------------------------------------------------------
\* Both kernels.

\* The reduced kernel never touches the memory of rejections.
NoMemory ==
  ~rejectLast /\ ~rejectMore /\ streak = 0 /\ failedSize = 0

KInv ==
  /\ TypeOK
  /\ ReductionTypeOK
  /\ variant = "integrate" => IInv
  /\ variant = "reduction" => NoMemory

\* What an accepted reduced step does to the clock.
LEMMA ReducedClock ==
  ASSUME TypeOK, Running, NEW factor, ReducedAdvance(factor)
  PROVE  t' \in Times /\ t <= t' /\ (t' <= DtTotal \/ t' = JustPast)
<1>1. t \in Times /\ t < DtTotal /\ Step \in Nat /\ t + Step <= JustPast
  BY StepBounds DEF TypeOK, Running
<1>2. t' \in Nearest(t + Step)
  BY DEF ReducedAdvance
<1>3. QED
  BY <1>1, <1>2, RoundedSum

\* An accepted reduced step keeps the types of the controller.
LEMMA ReducedAdvanceTypes ==
  ASSUME TypeOK, Running, NEW factor \in Nat, ReducedAdvance(factor), nan' \in BOOLEAN
  PROVE  TypeOK'
<1>1. Step \in Nat /\ t \in Nat
  BY StepBounds, TimesAssumption DEF TypeOK
<1>2. t' \in Times
  BY ReducedClock
<1>3. dt' \in Nat
  BY <1>1, ScaledBounds DEF ReducedAdvance, Resized
<1>4. QED
  BY <1>2, <1>3 DEF TypeOK, ReducedAdvance

\* Moving keeps the types of the chemistry.
LEMMA MoveTypes ==
  ASSUME ReductionTypeOK, NEW damaged, damaged \subseteq Species, Move(damaged),
         UNCHANGED <<variant, order>>
  PROVE  ReductionTypeOK' /\ nan' \in BOOLEAN
  BY DEF ReductionTypeOK, Move

\* Everything a reduced step may damage is a species.
LEMMA DamageIsOfSpecies == Active \subseteq Species /\ Damaged \subseteq Species
  BY DEF Active, Damaged, Contaminated

\* The factors of both kernels are natural numbers.
LEMMA FactorsAreNatural ==
  AcceptFactors \subseteq Nat /\ RejectFactors \subseteq Nat /\ MaxGrowth \in Nat
  BY FactorsAssumption DEF MaxGrowth, Safety, MinShrink

\* A reduced step that moves the clock and the active species keeps the invariant.
LEMMA AdvanceKInv ==
  ASSUME KInv, Reducing, NEW factor \in Nat, ReducedAdvance(factor),
         NEW damaged, damaged \subseteq Species, Move(damaged)
  PROVE  KInv'
<1>1. ReductionTypeOK' /\ nan' \in BOOLEAN
  BY MoveTypes DEF KInv, ReducedAdvance
<1>2. TypeOK'
  BY <1>1, ReducedAdvanceTypes DEF KInv, Reducing
<1>3. variant' = "reduction" /\ NoMemory'
  BY DEF KInv, Reducing, ReducedAdvance, NoMemory
<1>4. QED
  BY <1>1, <1>2, <1>3 DEF KInv

LEMMA KernelInitKInv == KernelInit => KInv
<1>1. ASSUME CallReduction PROVE KInv
  <2>1. dt \in Nat
    BY <1>1, DtTotalAssumption, OneSecondAssumption DEF CallReduction, Smaller
  <2>2. t \in Times /\ streak \in 0..2 /\ failedSize \in Nat
    BY <1>1, TimesAssumption DEF CallReduction
  <2>3. /\ rejectLast \in BOOLEAN /\ rejectMore \in BOOLEAN /\ nan \in BOOLEAN
        /\ returned \in BOOLEAN /\ parity \in BOOLEAN
    BY <1>1 DEF CallReduction
  <2>4. TypeOK
    BY <2>1, <2>2, <2>3 DEF TypeOK
  <2>5. ReductionTypeOK
    BY <1>1, DtTotalAssumption DEF CallReduction, ReductionTypeOK
  <2>6. variant # "integrate" /\ NoMemory
    BY <1>1 DEF CallReduction, NoMemory
  <2>7. QED
    BY <2>4, <2>5, <2>6 DEF KInv
<1>2. ASSUME CallIntegrate PROVE KInv
  <2>1. IInv /\ TypeOK
    BY <1>2, InitIInv DEF CallIntegrate, IInv
  <2>2. order \in Orders
    BY <1>2, OrdersAssumption DEF CallIntegrate
  <2>3. rate \in [Species -> Magnitudes]
    BY <1>2, RatesAssumption DEF CallIntegrate
  <2>4. QED
    BY <1>2, <2>1, <2>2, <2>3 DEF CallIntegrate, KInv, ReductionTypeOK
<1>3. QED
  BY <1>1, <1>2 DEF KernelInit

LEMMA KernelNextKInv == KInv /\ [KernelNext]_kernelVars => KInv'
<1> SUFFICES ASSUME KInv, [KernelNext]_kernelVars PROVE KInv'
  OBVIOUS
<1>1. CASE Integrate
  <2>1. IInv'
    BY <1>1, NextIInv DEF KInv, Integrate
  <2>2. QED
    BY <1>1, <2>1 DEF KInv, Integrate, chemistry, ReductionTypeOK, IInv
<1>2. CASE ReducedAccept
  <2>1. PICK factor \in Nat : ReducedAdvance(factor)
    BY <1>2, FactorsAreNatural DEF ReducedAccept
  <2>2. QED
    BY <1>2, <2>1, AdvanceKInv DEF ReducedAccept
<1>3. CASE ReducedAcceptNaN
  BY <1>3, AdvanceKInv, DamageIsOfSpecies, FactorsAreNatural DEF ReducedAcceptNaN
<1>4. CASE Overflow
  <2>1. PICK damaged \in SUBSET Active \ {{}} : Move(damaged)
    BY <1>4 DEF Overflow
  <2>2. damaged \subseteq Species
    BY <2>1, DamageIsOfSpecies
  <2>3. QED
    BY <1>4, <2>1, <2>2, AdvanceKInv, FactorsAreNatural DEF Overflow
<1>5. CASE ReducedReject
  <2>1. Step \in Nat
    BY <1>5, StepBounds DEF ReducedReject, Reducing, KInv
  <2>2. dt' \in Nat
    BY <1>5, <2>1, ScaledBounds, FactorsAreNatural DEF ReducedReject
  <2>3. TypeOK'
    BY <1>5, <2>2 DEF KInv, TypeOK, ReducedReject
  <2>4. QED
    BY <1>5, <2>3 DEF KInv, ReducedReject, Reducing, chemistry, ReductionTypeOK, NoMemory
<1>6. CASE ReturnReduced
  BY <1>6 DEF KInv, ReturnReduced, Return, control, history, chemistry, TypeOK,
     ReductionTypeOK, NoMemory
<1>7. CASE UNCHANGED kernelVars
  <2>1. UNCHANGED vars
    BY <1>7 DEF kernelVars
  <2>2. variant = "integrate" => IInv'
    BY <2>1, NextIInv DEF KInv
  <2>3. QED
    BY <1>7, <2>1, <2>2 DEF KInv, kernelVars, vars, chemistry, TypeOK, ReductionTypeOK, NoMemory
<1>8. QED
  BY <1>1, <1>2, <1>3, <1>4, <1>5, <1>6, <1>7 DEF KernelNext

LEMMA KernelInvariance == KernelSpec => []KInv
  BY KernelInitKInv, KernelNextKInv, PTL DEF KernelSpec

------------------------------------------------------------------------------
\* The variables of both kernels keep their types.
THEOREM KernelTypeCorrect == KernelSpec => [](TypeOK /\ ReductionTypeOK)
  BY KernelInvariance, PTL DEF KInv

\* The flags still count what integrate refused, when calls of both kernels are
\* considered.
THEOREM KernelFlags == KernelSpec => []FlagsCountRejections
<1>1. KInv => FlagsCountRejections
  BY DEF KInv, ReductionTypeOK, IInv, NoMemory, FlagsCountRejections
<1>2. QED
  BY <1>1, KernelInvariance, PTL

\* integrate is below h_min only in its recoveries.
THEOREM KernelFloor == KernelSpec => []IntegrateKeepsFloor
<1>1. KInv => IntegrateKeepsFloor
  BY DEF KInv, IInv, IntegrateKeepsFloor
<1>2. QED
  BY <1>1, KernelInvariance, PTL

\* integrate retries no refused size, and the other kernel remembers none.
THEOREM KernelNoRetry == KernelSpec => []FailedSizeIsNotRetried
<1>1. KInv => FailedSizeIsNotRetried
  BY DEF KInv, ReductionTypeOK, IInv, NoMemory, FailedSizeIsNotRetried
<1>2. QED
  BY <1>1, KernelInvariance, PTL

\* A floored step of integrate moves the clock, whichever kernels are called.
THEOREM KernelProgress == KernelSpec => FloorMovesClock
<1>1. KInv /\ [KernelNext]_kernelVars => [(Accept \/ AcceptNaN) /\ dt >= HMin => t' > t]_vars
  BY FlooredStepMoves DEF KInv, Accept, AcceptNaN
<1>2. QED
  BY <1>1, KernelInvariance, PTL DEF KernelSpec, FloorMovesClock

\* No NaN travels through the solves of the reduced kernel.
THEOREM NaNConfined == KernelSpec => NaNStaysPut
<1>1. ASSUME [KernelNext]_kernelVars
      PROVE  [\A s \in lost' \ lost : Readable(s)]_kernelVars
  <2>1. \A s \in Active : Readable(s)
    BY DEF Active
  <2>2. lost' \subseteq lost \union Active
    BY <1>1 DEF KernelNext, Integrate, ReducedAccept, ReducedAcceptNaN, Overflow, ReducedReject,
       ReturnReduced, Move, Damaged, Contaminated, chemistry, kernelVars
  <2>3. QED
    BY <2>1, <2>2
<1>2. QED
  BY <1>1, PTL DEF KernelSpec, NaNStaysPut

\* Whichever kernel the host calls, it carries the cell across the interval as
\* the outer step says: forward, never past the end, and back exactly there.
THEOREM KernelRefinement == KernelSpec => ImplementsOuterStep
<1>1. KernelInit => Outer!Init
  BY DEF KernelInit, CallReduction, CallIntegrate, Init, Outer!Init
<1>2. KInv /\ [KernelNext]_kernelVars => [Outer!Next]_(Outer!vars)
  <2> SUFFICES ASSUME KInv, [KernelNext]_kernelVars PROVE [Outer!Next]_(Outer!vars)
    OBVIOUS
  <2>1. ASSUME NEW factor, Reducing, ReducedAdvance(factor)
        PROVE  [Outer!Next]_(Outer!vars)
    <3>1. /\ t \in Nat /\ t' \in Nat /\ DtTotal \in Nat
          /\ t <= t' /\ (t' <= DtTotal \/ t' = JustPast)
      BY <2>1, ReducedClock, TimesAssumption, DtTotalAssumption DEF KInv, TypeOK, Reducing
    <3>2. ~returned /\ t < DtTotal /\ UNCHANGED returned
      BY <2>1 DEF Reducing, Running, ReducedAdvance
    <3>3. QED
      BY <3>1, <3>2 DEF Outer!Next, Outer!vars, Outer!Advance
  <2>2. CASE Integrate
    <3>1. IInv /\ [Next]_vars
      BY <2>2 DEF Integrate, KInv
    <3>2. QED
      BY <3>1, StepRefines
  <2>3. CASE ReducedAccept
    BY <2>1, <2>3 DEF ReducedAccept
  <2>4. CASE ReducedAcceptNaN
    BY <2>1, <2>4 DEF ReducedAcceptNaN
  <2>5. CASE Overflow
    BY <2>1, <2>5 DEF Overflow
  <2>6. CASE ReducedReject
    BY <2>6 DEF ReducedReject, Outer!vars
  <2>7. CASE ReturnReduced
    BY <2>7 DEF ReturnReduced, Return, Outer!Next, Outer!Return
  <2>8. CASE UNCHANGED kernelVars
    BY <2>8 DEF kernelVars, vars, Outer!vars
  <2>9. QED
    BY <2>2, <2>3, <2>4, <2>5, <2>6, <2>7, <2>8 DEF KernelNext
<1>3. QED
  BY <1>1, <1>2, KernelInvariance, PTL DEF KernelSpec, ImplementsOuterStep, Outer!Spec

\* Once its size has underflowed to zero, no call of the reduced kernel returns.
THEOREM EmptyStepIsForever == KernelSpec => EmptyStepNeverReturns
<1> DEFINE Stuck == variant = "reduction" /\ Running /\ dt = 0
<1>1. KInv /\ Stuck /\ [KernelNext]_kernelVars => Stuck'
  <2> SUFFICES ASSUME KInv, Stuck, [KernelNext]_kernelVars PROVE Stuck'
    OBVIOUS
  <2>1. Step = 0 /\ t \in Times /\ t < DtTotal /\ t \in Nat
    BY RestAssumption, TimesAssumption, DtTotalAssumption DEF KInv, TypeOK, Running, Step, Smaller
  <2>2. \A factor \in Nat : Scaled(Step, factor) = 0
    BY <2>1 DEF Scaled
  <2>3. ASSUME NEW factor \in Nat, ReducedAdvance(factor) PROVE Stuck'
    <3>1. t' = t
      <4>1. t' \in Nearest(t + Step) /\ t + Step = t
        BY <2>1, <2>3 DEF ReducedAdvance
      <4>2. t' \in Nearest(t) /\ t <= t
        BY <2>1, <4>1
      <4>3. t <= t' /\ t' <= t /\ t' \in Times
        BY <2>1, <4>2, NearestBetween
      <4>4. QED
        BY <2>1, <4>3, TimesAssumption
    <3>2. dt' = 0
      BY <2>2, <2>3 DEF ReducedAdvance, Resized
    <3>3. QED
      BY <2>3, <3>1, <3>2 DEF ReducedAdvance, Running
  <2>4. CASE ReducedAccept
    BY <2>3, <2>4, FactorsAreNatural DEF ReducedAccept
  <2>5. CASE ReducedAcceptNaN
    BY <2>3, <2>5, FactorsAreNatural DEF ReducedAcceptNaN
  <2>6. CASE ReducedReject
    BY <2>2, <2>6, FactorsAreNatural DEF ReducedReject, Running
  <2>7. CASE UNCHANGED kernelVars
    BY <2>7 DEF kernelVars, vars, Running
  <2>8. ~Integrate
    BY DEF Integrate
  <2>9. ~Overflow
    BY <2>1 DEF Overflow
  <2>10. ~ReturnReduced
    BY <2>1, DtTotalAssumption DEF ReturnReduced, Return
  <2>11. QED
    BY <2>4, <2>5, <2>6, <2>7, <2>8, <2>9, <2>10 DEF KernelNext
<1>2. Stuck => ~returned
  BY DEF Running
<1>3. QED
  <2> HIDE DEF Stuck
  <2>1. KernelSpec => [](Stuck => []~returned)
    BY <1>1, <1>2, KernelInvariance, PTL DEF KernelSpec
  <2>2. QED
    BY <2>1 DEF EmptyStepNeverReturns, Stuck
==============================================================================
