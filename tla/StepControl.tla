----------------------------- MODULE StepControl -----------------------------
(***************************************************************************)
(* The adaptive step controller of the generated integrate() kernel        *)
(* (templates/solver_variants/integrate.j2).  One behaviour is one call on *)
(* one cell: the loop attempts a step, the error test accepts or rejects   *)
(* it, and the controller picks the size of the next attempt.              *)
(*                                                                         *)
(* The chemistry is abstracted to what the controller can tell apart: an   *)
(* attempt yields a clamped growth factor (in tenths), or an error norm    *)
(* that is not a number.  Step sizes are whole ticks, a tick standing for  *)
(* the smallest positive double, so a product rounds down and may          *)
(* underflow to zero.  Times is the set of values the clock can hold, to   *)
(* which the sum t + dt rounds.  The difference dt_total - t is exact from *)
(* the middle of the interval on, as it is for doubles, and rounds before, *)
(* so the sum with the last, cut step may miss the end by one value.       *)
(***************************************************************************)
EXTENDS Integers

CONSTANTS
  DtTotal,       \* dt_total
  HMin,          \* h_min
  Times,         \* the doubles the clock t can take
  JustPast,      \* the first of them past dt_total
  Rest,          \* dt_total - t as the machine computes it, by the clock value
  FirstSteps,    \* dt_total * initial_step_seed, for the seeds considered
  AcceptFactors, \* clamped factors of an attempt with err_norm <= 1
  RejectFactors  \* clamped factors of an attempt with err_norm > 1

MaxGrowth == 60  \* max_growth, in tenths
MinShrink == 2   \* min_shrink
Safety    == 9   \* safety: the factor when err_norm is exactly 1

ASSUME DtTotalAssumption == DtTotal \in Nat \ {0}
ASSUME HMinAssumption == HMin \in Nat \ {0} /\ 4 * HMin <= DtTotal
ASSUME TimesAssumption ==
  /\ Times \subseteq Nat
  /\ {0, DtTotal, JustPast} \subseteq Times
  /\ DtTotal < JustPast
  /\ \A m \in Times : m <= DtTotal \/ JustPast <= m
\* h_min is 1e-15 of the interval, several times the spacing of doubles in it.
ASSUME SpacingAssumption ==
  \A s \in Times : s <= DtTotal => \E n \in Times : s < n /\ n < s + 2 * HMin
\* Doubles are nowhere sparser before dt_total than right behind it.
ASSUME DensityAssumption ==
  \A x \in 0..DtTotal :
    \E lo, hi \in Times : lo <= x /\ x <= hi /\ hi - lo <= JustPast - DtTotal
ASSUME FirstStepsAssumption == FirstSteps \subseteq Nat \ {0}
\* err_norm <= 1 makes the unclamped factor at least safety, err_norm > 1 less.
ASSUME FactorsAssumption ==
  /\ AcceptFactors \subseteq Safety..MaxGrowth
  /\ RejectFactors \subseteq MinShrink..(Safety - 1)

VARIABLES
  t,            \* time covered by accepted steps
  dt,           \* size of the next attempt, before it is cut to the interval
  rejectLast,   \* reject_last_dt
  rejectMore,   \* reject_more_dt
  nan,          \* whether some concentration is not a number
  returned,     \* whether the call is back
  streak,       \* history: rejections since the last acceptance, up to 2
  failedSize,   \* history: the last rejected size until two acceptances, or 0
  parity        \* history: flips at each attempt, so that one that changes
                \* nothing else is not mistaken for no attempt

control == <<dt, rejectLast, rejectMore>>
history == <<streak, failedSize, parity>>
vars == <<t, dt, rejectLast, rejectMore, nan, returned, streak, failedSize, parity>>

Smaller(a, b) == IF a <= b THEN a ELSE b
Larger(a, b)  == IF a >= b THEN a ELSE b
Distance(a, b) == IF a <= b THEN b - a ELSE a - b

\* The difference of two doubles within a factor of two is a double.
ASSUME RestAssumption ==
  /\ Rest \in [{s \in Times : s < DtTotal} -> Nat]
  /\ \A s \in {m \in Times : m < DtTotal} :
       IF DtTotal <= 2 * s
       THEN Rest[s] = DtTotal - s
       ELSE /\ Rest[s] \in Times
            /\ \A n \in Times : Distance(DtTotal - s, Rest[s]) <= Distance(DtTotal - s, n)

\* A size times a factor given in tenths.
Scaled(size, factor) == (size * factor) \div 10

\* Fault: the clock is kept in single precision.
NearestSingle(x) ==
  LET coarse == {m \in Times : m % (4 * HMin) = 0} \union {DtTotal}
  IN  {m \in coarse : \A n \in coarse : Distance(x, m) <= Distance(x, n)}

\* Fault: the sum is kept exactly, in a type the clock does not have.
NearestExact(x) == {x}

\* The ticks that are nearer to x than d.
Within(x, d) == (x - d + 1)..(x + d - 1)

\* What the clock may show for x: itself, or a value that none is nearer to it than.
Nearest(x) ==
  IF x \in Times THEN {x}
                 ELSE {m \in Times : \A n \in Within(x, Distance(x, m)) : n \notin Times}

Running == ~returned /\ t < DtTotal

\* Fault: the last step is not cut to the interval.
StepUncut == dt

\* dt = min(dt, dt_total - t), at the top of the loop.
Step == Smaller(dt, Rest[t])

\* Fault: a recovered step may grow at once.
NextStepEager(factor) == Larger(HMin, Smaller(Scaled(Step, factor), DtTotal))

\* Fault: no floor under the next size.
NextStepNoFloor(factor) ==
  LET grown == Smaller(Scaled(Step, factor), DtTotal)
  IN  IF rejectLast THEN Smaller(grown, Step) ELSE grown

\* next_dt: clamped growth, and none right after a rejection.
NextStep(factor) ==
  LET grown == Larger(HMin, Smaller(Scaled(Step, factor), DtTotal))
  IN  IF rejectLast THEN Smaller(grown, Step) ELSE grown

\* Fault: a refused step is retried at its own size.
ShrunkStepNever(factor) == Step

\* The size after a rejection: tenfold smaller once two have preceded it.
ShrunkStep(factor) == IF rejectMore THEN Step \div 10 ELSE Scaled(Step, factor)

\* Fault: reject_last_dt is set before it is copied.
EscalateAtOnce == TRUE

\* reject_more_dt = reject_last_dt, in the rejecting branch.
EscalateNext == rejectLast

\* What the stages and the error norm of an attempt may come to: at most 1, more
\* than 1, or not a number.  A NaN concentration makes every later norm NaN, and
\* so does an empty step: C / dt times a zero K.
Outcomes == IF nan \/ Step = 0 THEN {"NaN"} ELSE {"small", "large", "NaN"}

------------------------------------------------------------------------------
TypeOK ==
  /\ t \in Times
  /\ dt \in Nat
  /\ rejectLast \in BOOLEAN
  /\ rejectMore \in BOOLEAN
  /\ nan \in BOOLEAN
  /\ returned \in BOOLEAN
  /\ streak \in 0..2
  /\ failedSize \in Nat
  /\ parity \in BOOLEAN

Init ==
  /\ t = 0
  /\ dt \in FirstSteps
  /\ rejectLast = FALSE
  /\ rejectMore = FALSE
  /\ nan \in BOOLEAN
  /\ returned = FALSE
  /\ streak = 0
  /\ failedSize = 0
  /\ parity = FALSE

\* The accepting branch, whatever the error test saw.
Advance(factor) ==
  /\ dt' = NextStep(factor)
  /\ rejectLast' = FALSE
  /\ rejectMore' = FALSE
  /\ streak' = 0
  /\ failedSize' = IF rejectLast THEN failedSize ELSE 0
  /\ parity' = ~parity
  /\ t' \in Nearest(t + Step)
  /\ UNCHANGED returned

Accept ==
  /\ Running
  /\ "small" \in Outcomes
  /\ \E factor \in AcceptFactors : Advance(factor)
  /\ UNCHANGED nan

\* fmax(err_norm, 1e-10) turns a NaN error into the smallest error there is, so
\* the attempt is accepted at maximal growth.  Infinite concentrations may yield
\* a NaN error without being NaN themselves.
AcceptNaN ==
  /\ Running
  /\ "NaN" \in Outcomes
  /\ Advance(MaxGrowth)
  /\ nan' \in {nan, TRUE}
  /\ Step = 0 => nan'

Reject ==
  /\ Running
  /\ "large" \in Outcomes
  /\ \E factor \in RejectFactors : dt' = ShrunkStep(factor)
  /\ rejectMore' = EscalateNext
  /\ rejectLast' = TRUE
  /\ streak' = Smaller(streak + 1, 2)
  /\ failedSize' = Step
  /\ parity' = ~parity
  /\ UNCHANGED <<t, nan, returned>>

Return ==
  /\ ~returned
  /\ t >= DtTotal
  /\ returned' = TRUE
  /\ UNCHANGED <<t, control, nan, history>>

Next == Accept \/ AcceptNaN \/ Reject \/ Return

\* The loop runs inside one kernel: nothing stops it between two steps.
Spec == Init /\ [][Next]_vars /\ WF_vars(Next)

------------------------------------------------------------------------------
\* The two flags remember exactly whether the last one and the last two
\* attempts were rejected, so the tenfold cut comes from the third rejection in
\* a row on ("after two consecutive rejections, force a tenfold reduction").
FlagsCountRejections ==
  /\ rejectLast <=> streak >= 1
  /\ rejectMore <=> streak = 2

\* A size the error test refused is out of bounds, and everything above it,
\* until two further steps have been accepted.
FailedSizeIsNotRetried == failedSize # 0 => dt < failedSize

\* Only rejections take the controller below h_min: the size is below it while
\* the last attempt was rejected, or on the first attempt after the recovery,
\* and before the first attempt if the seed asked for it.
BelowFloorOnlyInRecovery ==
  dt < HMin => rejectLast \/ failedSize # 0 \/ t = 0

\* Whenever a step of at least h_min is accepted the clock moves, however the
\* sum rounds: the floor keeps the loop from integrating without progress.
FloorMovesClock ==
  [][(Accept \/ AcceptNaN) /\ dt >= HMin => t' > t]_vars

\* The call implements the host's view of an outer step, however the cut of the
\* last step and the sum with it round.
Outer == INSTANCE OuterStep
           WITH DtTotal <- DtTotal, JustPast <- JustPast, t <- t, returned <- returned
ImplementsOuterStep == Outer!Spec

\* The error test refuses a step that one maximal growth reaches from below h_min.
RefusesTinyStep == Reject /\ 10 * Step < MaxGrowth * HMin
==============================================================================
