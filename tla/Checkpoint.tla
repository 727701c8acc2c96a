----------------------------- MODULE Checkpoint -----------------------------
(***************************************************************************)
(* Checkpointed forward integration and the two sweeps that replay it:     *)
(* integrate_fwd_checkpoint, integrate_adj and integrate_tlm of the        *)
(* generated SolverKernels, over one CheckpointBuffer a host keeps and may *)
(* use for several forward calls.                                          *)
(*                                                                         *)
(* Concentrations are abstracted to where they lie on the trajectory: the  *)
(* state after k accepted steps of forward call number r is <<r, k>>.      *)
(* Step sizes are whole ticks, as in StepControl, and the clock is exact.  *)
(***************************************************************************)
EXTENDS Integers, Sequences

CONSTANTS
  DtTotal,       \* dt_total
  OneSecond,     \* 1.0, the cap on the first step
  MaxSteps,      \* CheckpointBuffer::MAX_STEPS
  AcceptFactors, \* clamped growth factors, in tenths, with err_norm <= 1
  RejectFactors, \* clamped growth factors with err_norm > 1
  MaxRuns        \* bound: forward calls on one buffer

MaxGrowth == 60

ASSUME SizesAssumption ==
  /\ DtTotal \in Nat \ {0}
  /\ OneSecond \in Nat \ {0}
  /\ MaxSteps \in Nat \ {0}
  /\ MaxRuns \in Nat \ {0}
ASSUME FactorsAssumption ==
  /\ MaxGrowth \in AcceptFactors
  /\ AcceptFactors \subseteq 9..MaxGrowth
  /\ RejectFactors \subseteq 2..8

VARIABLES
  phase,    \* which kernel is running
  t, dt,    \* the forward loop's clock and next size
  run, y,   \* the state is <<run, y>>
  numSteps, \* chk.num_steps
  chk,      \* chk.h and chk.state, slot by slot
  result,   \* what the last forward call returned
  cursor,   \* the sweep's step
  swept,    \* history: the slots the current or last sweep has used, in order
  accepted, \* history: sizes of the steps the last forward call took
  parity    \* history: flips at each attempt, so that one that changes nothing
            \* else is not mistaken for no attempt

forward == <<t, dt, run, y, numSteps, chk, result, accepted, parity>>
sweep   == <<cursor, swept>>
vars    == <<phase, t, dt, run, y, numSteps, chk, result, cursor, swept, accepted, parity>>

Slots   == 0..(MaxSteps - 1)
\* A slot no forward call has written: run 0 is none.
Unset   == [h |-> 0, run |-> 0, at |-> 0]
Pending == -2
TooMany == -1

Smaller(a, b) == IF a <= b THEN a ELSE b
Step == Smaller(dt, DtTotal - t)
Running == phase = "forward" /\ t < DtTotal

\* A step of size zero divides by zero; the NaN error is accepted at full growth.
FactorsOnAccept == IF Step = 0 THEN {MaxGrowth} ELSE AcceptFactors

TypeOK ==
  /\ phase \in {"idle", "forward", "adjoint", "tlm"}
  /\ t \in 0..DtTotal
  /\ dt \in Nat
  /\ run \in 0..MaxRuns
  /\ y \in 0..(MaxSteps + 1)
  /\ numSteps \in 0..MaxSteps
  /\ chk \in [Slots -> [h : Nat, run : 0..MaxRuns, at : 0..(MaxSteps + 1)]]
  /\ result \in {Pending, TooMany} \union 0..MaxSteps
  /\ cursor \in -1..MaxSteps
  /\ swept \in Seq(Slots)
  /\ accepted \in Seq(Nat)
  /\ parity \in BOOLEAN

Init ==
  /\ phase = "idle"
  /\ t = 0
  /\ dt = 0
  /\ run = 0
  /\ y = 0
  /\ numSteps = 0
  /\ chk = [s \in Slots |-> Unset]
  /\ result = Pending
  /\ cursor = 0
  /\ swept = <<>>
  /\ accepted = <<>>
  /\ parity = FALSE

------------------------------------------------------------------------------
\* Fault: the buffer keeps the count of the previous call.
RestartCountKept == numSteps

\* chk.num_steps = 0
RestartCount == 0

StartForward ==
  /\ phase = "idle"
  /\ run < MaxRuns
  /\ phase' = "forward"
  /\ t' = 0
  /\ dt' = Smaller(DtTotal, OneSecond)
  /\ run' = run + 1
  /\ y' = 0
  /\ numSteps' = RestartCount
  /\ result' = Pending
  /\ accepted' = <<>>
  /\ UNCHANGED <<chk, sweep, parity>>

\* Fault: the state is saved before the update is applied.
SavedStateEarly == [h |-> Step, run |-> run, at |-> y]

\* chk.h[num_steps] = dt and chk.state[num_steps] = state, after the update.
SavedState == [h |-> Step, run |-> run, at |-> y + 1]

\* Fault: the capacity test is off by one.
HasRoomOffByOne == numSteps <= MaxSteps

\* chk.num_steps < MAX_STEPS
HasRoom == numSteps < MaxSteps

\* An accepted step updates the state first and then fills a slot.
AcceptAndRecord ==
  /\ Running
  /\ HasRoom
  /\ y' = y + 1
  /\ chk' = [chk EXCEPT ![numSteps] = SavedState]
  /\ numSteps' = numSteps + 1
  /\ t' = t + Step
  /\ \E factor \in FactorsOnAccept : dt' = (Step * factor) \div 10
  /\ accepted' = Append(accepted, Step)
  /\ parity' = ~parity
  /\ UNCHANGED <<phase, run, result, sweep>>

\* Fault: a full buffer ends the call as if the interval were covered.
OverflowResultCount == numSteps

\* return -1
OverflowResult == TooMany

\* An accepted step finds the buffer full: the state has moved, nothing else.
AcceptAndOverflow ==
  /\ Running
  /\ ~HasRoom
  /\ y' = y + 1
  /\ result' = OverflowResult
  /\ phase' = "idle"
  /\ accepted' = Append(accepted, Step)
  /\ parity' = ~parity
  /\ UNCHANGED <<t, dt, run, numSteps, chk, sweep>>

\* Fault: a refused step is retried at its own size.
ShrunkNever(factor) == Step

\* dt *= factor, in the rejecting branch.
Shrunk(factor) == (Step * factor) \div 10

Reject ==
  /\ Running
  /\ Step > 0
  /\ \E factor \in RejectFactors : dt' = Shrunk(factor)
  /\ parity' = ~parity
  /\ UNCHANGED <<phase, t, run, y, numSteps, chk, result, sweep, accepted>>

ReturnForward ==
  /\ phase = "forward"
  /\ t >= DtTotal
  /\ result' = numSteps
  /\ phase' = "idle"
  /\ UNCHANGED <<t, dt, run, y, numSteps, chk, sweep, accepted, parity>>

ForwardStep == AcceptAndRecord \/ AcceptAndOverflow \/ Reject \/ ReturnForward

------------------------------------------------------------------------------
\* Fault: the backward sweep starts one slot past the last.
LastStepOffByOne == Smaller(numSteps, MaxSteps - 1)

\* step = chk.num_steps - 1
LastStep == numSteps - 1

\* A sweep replays whatever the buffer holds: neither kernel looks at the
\* forward call's result, and the caller need not either.
StartAdjoint ==
  /\ phase = "idle"
  /\ run > 0
  /\ phase' = "adjoint"
  /\ cursor' = LastStep
  /\ swept' = <<>>
  /\ UNCHANGED forward

AdjointStep ==
  /\ phase = "adjoint"
  /\ cursor >= 0
  /\ swept' = Append(swept, cursor)
  /\ cursor' = cursor - 1
  /\ UNCHANGED <<phase, forward>>

AdjointReturn ==
  /\ phase = "adjoint"
  /\ cursor < 0
  /\ phase' = "idle"
  /\ UNCHANGED <<forward, sweep>>

StartTlm ==
  /\ phase = "idle"
  /\ run > 0
  /\ phase' = "tlm"
  /\ cursor' = 0
  /\ swept' = <<>>
  /\ UNCHANGED forward

TlmStep ==
  /\ phase = "tlm"
  /\ cursor < numSteps
  /\ swept' = Append(swept, cursor)
  /\ cursor' = cursor + 1
  /\ UNCHANGED <<phase, forward>>

TlmReturn ==
  /\ phase = "tlm"
  /\ cursor >= numSteps
  /\ phase' = "idle"
  /\ UNCHANGED <<forward, sweep>>

SweepStep == AdjointStep \/ AdjointReturn \/ TlmStep \/ TlmReturn

Next == StartForward \/ ForwardStep \/ StartAdjoint \/ StartTlm \/ SweepStep

\* A started kernel runs to its return; the host need not start another.
Spec == Init /\ [][Next]_vars /\ WF_vars(ForwardStep) /\ WF_vars(SweepStep)

------------------------------------------------------------------------------
\* The buffer is the trajectory of the last forward call and of no earlier one:
\* slot i has the size of its i-th accepted step and the state that step made.
BufferIsTrajectory ==
  /\ numSteps = Smaller(Len(accepted), MaxSteps)
  /\ \A s \in 0..(numSteps - 1) :
       chk[s] = [h |-> accepted[s + 1], run |-> run, at |-> s + 1]

\* A sweep that has come back used every recorded step once, last first if it is
\* the adjoint and in forward order if it is the tangent-linear one, and the call
\* it replays covered the interval unless it returned -1.
SweepsReplayTrajectory ==
  (phase = "adjoint" /\ cursor < 0) \/ (phase = "tlm" /\ cursor >= numSteps) =>
    /\ Len(swept) = numSteps
    /\ \A i \in 1..Len(swept) :
         swept[i] = IF phase = "adjoint" THEN numSteps - i ELSE i - 1
    /\ result # TooMany => Len(swept) = Len(accepted)

\* A call that gives up has applied exactly one step more than it recorded, and
\* a call that does not has recorded every step it applied.
OverflowLeavesOneStepUnrecorded ==
  /\ result = TooMany => y = numSteps + 1 /\ numSteps = MaxSteps
  /\ result \in Nat => y = numSteps /\ result = numSteps /\ t = DtTotal

\* Every forward call comes back, with a covered interval or with -1: rejections
\* shrink the step and acceptances use up the buffer.
ForwardReturns == phase = "forward" ~> phase = "idle"

\* "saved concentrations at step entry" (templates/header.j2, CheckpointBuffer).
StateSavedAtStepEntry ==
  \A s \in 0..(numSteps - 1) : chk[s].at = s
==============================================================================
