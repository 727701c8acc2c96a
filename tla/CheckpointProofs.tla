-------------------------- MODULE CheckpointProofs --------------------------
(***************************************************************************)
(* For every interval, buffer size and set of step factors: the checkpoint *)
(* buffer is the trajectory of the last forward call, and a sweep replays  *)
(* all of it.                                                              *)
(***************************************************************************)
EXTENDS Checkpoint, TLAPS

\* While a forward call runs it has recorded every step it applied, and a call
\* that has come back says how it ended.
ForwardInv ==
  /\ t <= DtTotal
  /\ phase = "forward" => result = Pending /\ y = numSteps /\ Len(accepted) = numSteps
  /\ phase # "forward" /\ run > 0 => result = TooMany \/ Len(accepted) = numSteps
  /\ phase \in {"adjoint", "tlm"} => run > 0

\* What a sweep has used so far.
SweepInv ==
  /\ phase = "adjoint" =>
       /\ cursor \in -1..(numSteps - 1)
       /\ Len(swept) = numSteps - 1 - cursor
       /\ \A i \in 1..Len(swept) : swept[i] = numSteps - i
  /\ phase = "tlm" =>
       /\ cursor \in 0..numSteps
       /\ Len(swept) = cursor
       /\ \A i \in 1..Len(swept) : swept[i] = i - 1

\* The inductive invariant: the two conditions above are needed because neither
\* the buffer's count nor the sweep's cursor says by itself what it stands for.
IInv ==
  /\ TypeOK
  /\ BufferIsTrajectory
  /\ OverflowLeavesOneStepUnrecorded
  /\ ForwardInv
  /\ SweepInv

\* The step cut to the end of the interval is a size and does not pass the end.
LEMMA CutStep ==
  ASSUME TypeOK, t <= DtTotal
  PROVE  /\ Step \in Nat
         /\ t + Step \in 0..DtTotal
BY SizesAssumption DEF TypeOK, Step, Smaller

\* Any factor in tenths takes a size to a size.
LEMMA ScaledSize ==
  ASSUME NEW h \in Nat, NEW factor \in 0..MaxGrowth
  PROVE  (h * factor) \div 10 \in Nat
<1>1. h * factor \in Nat
  BY DEF MaxGrowth
<1> HIDE DEF MaxGrowth
<1> DEFINE m == h * factor
<1>2. m \in Nat => m \div 10 \in Nat
  OBVIOUS
<1> QED
  BY <1>1, <1>2

LEMMA InitInv == Init => IInv
<1> SUFFICES ASSUME Init
             PROVE  IInv
  OBVIOUS
<1> USE SizesAssumption DEF Init
<1>1. /\ accepted \in Seq(Nat)
      /\ swept \in Seq(Slots)
      /\ Len(accepted) = 0
  OBVIOUS
<1>2. chk \in [Slots -> [h : Nat, run : 0..MaxRuns, at : 0..(MaxSteps + 1)]]
  <2>1. Unset \in [h : Nat, run : 0..MaxRuns, at : 0..(MaxSteps + 1)]
    BY DEF Unset
  <2> QED
    BY <2>1
<1>3. TypeOK
  <2>1. /\ phase \in {"idle", "forward", "adjoint", "tlm"}
        /\ t \in 0..DtTotal /\ dt \in Nat /\ run \in 0..MaxRuns
        /\ y \in 0..(MaxSteps + 1) /\ numSteps \in 0..MaxSteps
        /\ result \in {Pending, TooMany} \union 0..MaxSteps
        /\ cursor \in -1..MaxSteps
    BY DEF Pending
  <2>2. parity \in BOOLEAN
    OBVIOUS
  <2> HIDE DEF Init
  <2> QED
    BY <1>1, <1>2, <2>1, <2>2 DEF TypeOK
<1>4. BufferIsTrajectory
  BY <1>1 DEF BufferIsTrajectory, Smaller
<1>5. OverflowLeavesOneStepUnrecorded /\ ForwardInv /\ SweepInv
  BY DEF OverflowLeavesOneStepUnrecorded, ForwardInv, SweepInv, Pending, TooMany
<1> QED
  BY <1>3, <1>4, <1>5 DEF IInv

LEMMA StartForwardInv == IInv /\ StartForward => IInv'
BY SizesAssumption
DEF IInv, StartForward, TypeOK, BufferIsTrajectory, OverflowLeavesOneStepUnrecorded,
    ForwardInv, SweepInv, sweep, RestartCount, Slots, Pending, TooMany, Smaller

\* An accepted step that fits: slot numSteps is the step just appended.
LEMMA RecordInv == IInv /\ AcceptAndRecord => IInv'
<1> SUFFICES ASSUME IInv, AcceptAndRecord
             PROVE  IInv'
  OBVIOUS
<1> USE SizesAssumption DEF IInv, AcceptAndRecord, Running, HasRoom
<1>1. /\ Step \in Nat
      /\ t + Step \in 0..DtTotal
  BY CutStep DEF ForwardInv
<1>2. dt' \in Nat
  <2>1. PICK factor \in FactorsOnAccept : dt' = (Step * factor) \div 10
    OBVIOUS
  <2>2. factor \in 0..MaxGrowth
    BY FactorsAssumption DEF FactorsOnAccept, MaxGrowth
  <2> QED
    BY <1>1, <2>1, <2>2, ScaledSize
<1>3. /\ numSteps \in Slots
      /\ Len(accepted) = numSteps
      /\ y = numSteps
      /\ result = Pending
  BY DEF ForwardInv, TypeOK, Slots
<1>4. /\ Len(accepted') = numSteps + 1
      /\ accepted' \in Seq(Nat)
      /\ accepted'[numSteps + 1] = Step
      /\ \A i \in 1..numSteps : accepted'[i] = accepted[i]
  <2>1. accepted \in Seq(Nat) /\ accepted' = Append(accepted, Step)
    BY DEF TypeOK
  <2> HIDE DEF IInv, AcceptAndRecord
  <2> QED
    BY <1>1, <1>3, <2>1
<1>5. TypeOK'
  <2>1. y + 1 \in 0..(MaxSteps + 1) /\ run \in 0..MaxRuns
    BY <1>3 DEF TypeOK, Slots
  <2>2. SavedState \in [h : Nat, run : 0..MaxRuns, at : 0..(MaxSteps + 1)]
    BY <1>1, <2>1 DEF SavedState
  <2>3. chk' \in [Slots -> [h : Nat, run : 0..MaxRuns, at : 0..(MaxSteps + 1)]]
    <3> HIDE DEF IInv
    <3>1. chk \in [Slots -> [h : Nat, run : 0..MaxRuns, at : 0..(MaxSteps + 1)]]
      BY DEF IInv, TypeOK
    <3> QED
      BY <1>3, <2>2, <3>1
  <2>4. numSteps' \in 0..MaxSteps
    BY <1>3 DEF Slots
  <2>5. t' \in 0..DtTotal
    BY <1>1
  <2>6. /\ UNCHANGED <<phase, run, result, cursor, swept>>
        /\ y' = y + 1 /\ parity' = ~parity
    BY DEF sweep
  <2> HIDE DEF AcceptAndRecord, Running, HasRoom
  <2> QED
    BY <1>2, <1>4, <2>1, <2>3, <2>4, <2>5, <2>6 DEF TypeOK
<1>6. BufferIsTrajectory'
  <2>1. numSteps' = Smaller(Len(accepted'), MaxSteps)
    BY <1>3, <1>4 DEF Smaller, Slots
  <2>2. ASSUME NEW s \in 0..(numSteps' - 1)
        PROVE  chk'[s] = [h |-> accepted'[s + 1], run |-> run', at |-> s + 1]
    <3>1. CASE s = numSteps
      BY <3>1, <1>3, <1>4 DEF TypeOK, SavedState
    <3>2. CASE s # numSteps
      <4>1. s \in 0..(numSteps - 1) /\ s + 1 \in 1..numSteps
        BY <2>2, <3>2, <1>3 DEF Slots
      <4>2. chk[s] = [h |-> accepted[s + 1], run |-> run, at |-> s + 1]
        BY <4>1 DEF BufferIsTrajectory
      <4>3. chk'[s] = chk[s]
        BY <3>2 DEF TypeOK
      <4> QED
        BY <4>1, <4>2, <4>3, <1>4
    <3> QED
      BY <3>1, <3>2
  <2> QED
    BY <2>1, <2>2 DEF BufferIsTrajectory
<1>7. OverflowLeavesOneStepUnrecorded'
  BY <1>3 DEF OverflowLeavesOneStepUnrecorded, Pending, TooMany
<1>8. ForwardInv' /\ SweepInv'
  BY <1>1, <1>3, <1>4 DEF ForwardInv, SweepInv, sweep
<1> QED
  BY <1>5, <1>6, <1>7, <1>8

\* An accepted step that does not fit: the buffer stays as it is.
LEMMA OverflowInv == IInv /\ AcceptAndOverflow => IInv'
<1> SUFFICES ASSUME IInv, AcceptAndOverflow
             PROVE  IInv'
  OBVIOUS
<1> USE SizesAssumption DEF IInv, AcceptAndOverflow, Running, HasRoom, OverflowResult
<1>1. Step \in Nat
  BY CutStep DEF ForwardInv
<1>2. /\ numSteps = MaxSteps
      /\ Len(accepted) = numSteps
      /\ y = numSteps
  BY DEF ForwardInv, TypeOK
<1>3. /\ Len(accepted') = numSteps + 1
      /\ accepted' \in Seq(Nat)
      /\ \A i \in 1..numSteps : accepted'[i] = accepted[i]
  BY <1>1, <1>2 DEF TypeOK
<1>4. TypeOK'
  BY <1>2, <1>3 DEF TypeOK, sweep, TooMany
<1>5. BufferIsTrajectory'
  <2>1. \A s \in 0..(numSteps - 1) : s + 1 \in 1..numSteps
    BY <1>2
  <2> QED
    BY <1>2, <1>3, <2>1 DEF BufferIsTrajectory, Smaller
<1>6. OverflowLeavesOneStepUnrecorded' /\ ForwardInv' /\ SweepInv'
  BY <1>2 DEF OverflowLeavesOneStepUnrecorded, ForwardInv, SweepInv, sweep, TooMany, TypeOK
<1> QED
  BY <1>4, <1>5, <1>6

LEMMA RejectInv == IInv /\ Reject => IInv'
<1> SUFFICES ASSUME IInv, Reject
             PROVE  IInv'
  OBVIOUS
<1> USE SizesAssumption DEF IInv, Reject, Running
<1>1. Step \in Nat
  BY CutStep DEF ForwardInv
<1>2. dt' \in Nat
  <2>1. PICK factor \in RejectFactors : dt' = Shrunk(factor)
    OBVIOUS
  <2>2. factor \in 0..MaxGrowth
    BY FactorsAssumption DEF MaxGrowth
  <2> QED
    BY <1>1, <2>1, <2>2, ScaledSize DEF Shrunk
<1> QED
  BY <1>2 DEF TypeOK, BufferIsTrajectory, OverflowLeavesOneStepUnrecorded, ForwardInv,
     SweepInv, sweep

LEMMA ReturnInv == IInv /\ ReturnForward => IInv'
BY SizesAssumption
DEF IInv, ReturnForward, TypeOK, BufferIsTrajectory, OverflowLeavesOneStepUnrecorded,
    ForwardInv, SweepInv, sweep, Pending, TooMany

\* A sweep disturbs no type but those of its own variables.
LEMMA SweepTypes ==
  ASSUME TypeOK, UNCHANGED forward, phase' = phase,
         cursor' \in -1..MaxSteps, swept' \in Seq(Slots)
  PROVE  TypeOK'
<1>1. UNCHANGED <<t, dt, run, y, numSteps, chk, result, accepted, parity>>
  BY DEF forward
<1> QED
  BY <1>1 DEF TypeOK

\* Neither sweep touches the buffer.
LEMMA AdjointInv ==
  IInv /\ (StartAdjoint \/ AdjointStep \/ AdjointReturn) => IInv'
<1> SUFFICES ASSUME IInv, StartAdjoint \/ AdjointStep \/ AdjointReturn
             PROVE  IInv'
  OBVIOUS
<1> USE SizesAssumption DEF IInv, forward
<1>1. BufferIsTrajectory' /\ OverflowLeavesOneStepUnrecorded'
  BY DEF StartAdjoint, AdjointStep, AdjointReturn, BufferIsTrajectory,
     OverflowLeavesOneStepUnrecorded
<1>2. ForwardInv'
  BY DEF StartAdjoint, AdjointStep, AdjointReturn, ForwardInv
<1>3. CASE StartAdjoint
  BY <1>1, <1>2, <1>3 DEF StartAdjoint, TypeOK, SweepInv, LastStep
<1>4. CASE AdjointStep
  <2>1. cursor \in Slots
    BY <1>4 DEF AdjointStep, SweepInv, TypeOK, Slots
  <2>2. /\ swept' \in Seq(Slots)
        /\ Len(swept') = Len(swept) + 1
        /\ swept'[Len(swept) + 1] = cursor
        /\ \A i \in 1..Len(swept) : swept'[i] = swept[i]
    BY <1>4, <2>1 DEF AdjointStep, TypeOK
  <2>3. TypeOK'
    <3>1. cursor' \in -1..MaxSteps
      BY <1>4, <2>1 DEF AdjointStep, Slots
    <3>2. TypeOK /\ UNCHANGED forward /\ phase' = phase
      BY <1>4 DEF AdjointStep
    <3> HIDE DEF IInv, forward
    <3> QED
      BY <2>2, <3>1, <3>2, SweepTypes
  <2>4. SweepInv'
    <3>1. \A i \in 1..Len(swept') : swept'[i] = numSteps - i
      <4> TAKE i \in 1..Len(swept')
      <4>1. i \in 1..Len(swept) \/ i = Len(swept) + 1
        BY <2>2 DEF TypeOK
      <4>2. CASE i \in 1..Len(swept)
        BY <1>4, <2>2, <4>2 DEF AdjointStep, SweepInv
      <4>3. CASE i = Len(swept) + 1
        <5>1. Len(swept) = numSteps - 1 - cursor
          BY <1>4 DEF AdjointStep, SweepInv
        <5>2. numSteps \in Nat /\ cursor \in Int
          BY <2>1 DEF TypeOK, Slots
        <5> QED
          BY <2>2, <4>3, <5>1, <5>2
      <4> QED
        BY <4>1, <4>2, <4>3
    <3>2. cursor' \in -1..(numSteps - 1) /\ Len(swept') = numSteps - 1 - cursor'
      BY <1>4, <2>2 DEF AdjointStep, SweepInv, TypeOK
    <3>3. phase' = phase /\ numSteps' = numSteps
      BY <1>4 DEF AdjointStep
    <3> QED
      BY <1>4, <3>1, <3>2, <3>3 DEF AdjointStep, SweepInv
  <2> QED
    BY <1>1, <1>2, <2>3, <2>4
<1>5. CASE AdjointReturn
  BY <1>1, <1>2, <1>5 DEF AdjointReturn, TypeOK, SweepInv, sweep
<1> QED
  BY <1>3, <1>4, <1>5

LEMMA TlmInv ==
  IInv /\ (StartTlm \/ TlmStep \/ TlmReturn) => IInv'
<1> SUFFICES ASSUME IInv, StartTlm \/ TlmStep \/ TlmReturn
             PROVE  IInv'
  OBVIOUS
<1> USE SizesAssumption DEF IInv, forward
<1>1. BufferIsTrajectory' /\ OverflowLeavesOneStepUnrecorded'
  BY DEF StartTlm, TlmStep, TlmReturn, BufferIsTrajectory, OverflowLeavesOneStepUnrecorded
<1>2. ForwardInv'
  BY DEF StartTlm, TlmStep, TlmReturn, ForwardInv
<1>3. CASE StartTlm
  BY <1>1, <1>2, <1>3 DEF StartTlm, TypeOK, SweepInv
<1>4. CASE TlmStep
  <2>1. cursor \in Slots
    BY <1>4 DEF TlmStep, SweepInv, TypeOK, Slots
  <2>2. /\ swept' \in Seq(Slots)
        /\ Len(swept') = Len(swept) + 1
        /\ swept'[Len(swept) + 1] = cursor
        /\ \A i \in 1..Len(swept) : swept'[i] = swept[i]
    BY <1>4, <2>1 DEF TlmStep, TypeOK
  <2>3. TypeOK'
    <3>1. cursor' \in -1..MaxSteps
      BY <1>4, <2>1 DEF TlmStep, Slots
    <3>2. TypeOK /\ UNCHANGED forward /\ phase' = phase
      BY <1>4 DEF TlmStep
    <3> HIDE DEF IInv, forward
    <3> QED
      BY <2>2, <3>1, <3>2, SweepTypes
  <2>4. SweepInv'
    <3>1. \A i \in 1..Len(swept') : swept'[i] = i - 1
      <4> TAKE i \in 1..Len(swept')
      <4>1. i \in 1..Len(swept) \/ i = Len(swept) + 1
        BY <2>2 DEF TypeOK
      <4> QED
        BY <1>4, <2>2, <4>1 DEF TlmStep, SweepInv, TypeOK
    <3>2. cursor' \in 0..numSteps /\ Len(swept') = cursor'
      <4>1. cursor' = cursor + 1 /\ cursor < numSteps
        BY <1>4 DEF TlmStep
      <4>2. cursor \in 0..numSteps /\ Len(swept) = cursor
        BY <1>4 DEF TlmStep, SweepInv
      <4> QED
        BY <2>2, <4>1, <4>2 DEF TypeOK
    <3>3. phase' = phase /\ numSteps' = numSteps
      BY <1>4 DEF TlmStep
    <3> QED
      BY <1>4, <3>1, <3>2, <3>3 DEF TlmStep, SweepInv
  <2> QED
    BY <1>1, <1>2, <2>3, <2>4
<1>5. CASE TlmReturn
  BY <1>1, <1>2, <1>5 DEF TlmReturn, TypeOK, SweepInv, sweep
<1> QED
  BY <1>3, <1>4, <1>5

LEMMA StutterInv == IInv /\ UNCHANGED vars => IInv'
BY DEF IInv, vars, TypeOK, BufferIsTrajectory, OverflowLeavesOneStepUnrecorded, ForwardInv,
   SweepInv

LEMMA Inductive == Spec => []IInv
<1>1. IInv /\ [Next]_vars => IInv'
  BY StartForwardInv, RecordInv, OverflowInv, RejectInv, ReturnInv, AdjointInv, TlmInv,
     StutterInv
  DEF Next, ForwardStep, SweepStep
<1> QED
  BY InitInv, <1>1, PTL DEF Spec

\* Every variable of the buffer, the forward loop and the sweeps stays in range:
\* no slot outside the fixed array is written or read.
THEOREM TypeCorrect == Spec => []TypeOK
<1>1. IInv => TypeOK
  BY DEF IInv
<1> QED
  BY Inductive, <1>1, PTL

\* What integrate_fwd_checkpoint leaves in the buffer is the trajectory of that
\* call alone, whatever an earlier call on the same buffer left there.
THEOREM BufferHolds == Spec => []BufferIsTrajectory
<1>1. IInv => BufferIsTrajectory
  BY DEF IInv
<1> QED
  BY Inductive, <1>1, PTL

\* integrate_adj and integrate_tlm use every recorded step once, in their order.
THEOREM SweepsHold == Spec => []SweepsReplayTrajectory
<1>1. IInv => SweepsReplayTrajectory
  BY DEF IInv, TypeOK, ForwardInv, SweepInv, SweepsReplayTrajectory
<1> QED
  BY Inductive, <1>1, PTL

\* A return of -1 has lost exactly one applied step; no other return has lost any.
THEOREM OverflowHolds == Spec => []OverflowLeavesOneStepUnrecorded
<1>1. IInv => OverflowLeavesOneStepUnrecorded
  BY DEF IInv
<1> QED
  BY Inductive, <1>1, PTL
=============================================================================
