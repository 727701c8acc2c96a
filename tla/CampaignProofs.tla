--------------------------- MODULE CampaignProofs ---------------------------
(***************************************************************************)
(* For any number of blocks, counts and restarts: two series a report may  *)
(* form a ratio of come from one session of the campaign, without a gap    *)
(* and in balanced order, and the output keeps the evidence of all.        *)
(***************************************************************************)
EXTENDS Campaign, FiniteSetTheorems, TLAPS

\* The record of invocation n of a measurement planned in these orders.
RecordOf(r, plan, n) ==
  /\ r.block = n \div Subjects
  /\ r.position = n % Subjects
  /\ r.solver = plan[(n \div Subjects) + 1][(n % Subjects) + 1]

Holds(file, plan, s, n) ==
  \E i \in DOMAIN file : file[i].record.session = s /\ RecordOf(file[i].record, plan, n)

PolicyOf(s, c) ==
  [record |-> [session |-> s, phase |-> "policy", count |-> c], cut |-> "whole"]

Settled(file, s, c) == PolicyOf(s, c) \in Range(file)

IsFile(f) == \E S : f \in Seq(S)

\* A record stands in its session's plan, after all the session did before it.
InPlan(r, file, plan) ==
  \E n \in 0..(MeasurementTurns - 1) :
    RecordOf(r, plan, n) /\ \A m \in 0..(n - 1) : Holds(file, plan, r.session, m)

\* The inductive invariant: a session measures in the order of its turns, so
\* what it wrote is a beginning of its plan.
TypeInv ==
  /\ orders \in Balanced
  /\ session \in Nat /\ turn \in Nat
  /\ IsFile(output) /\ IsFile(transcript)

RunningInv ==
  /\ phase # "idle" => session >= 1
  /\ phase = "policy" => turn = 0
  /\ phase = "measurement" =>
       /\ turn < MeasurementTurns
       /\ \A m \in 0..(turn - 1) : Holds(output, orders, session, m)
       /\ Settled(transcript, session, count)

OutputInv ==
  \A i \in DOMAIN output :
    LET r == output[i].record IN
    /\ r.session \in 1..session
    /\ Settled(transcript, r.session, r.count)
    /\ InPlan(r, output, orders)

IInv == TypeInv /\ RunningInv /\ OutputInv

\* The invocation of a place in a block, and the place of an invocation.
LEMMA PlaceOfTurn ==
  ASSUME NEW n \in 0..(MeasurementTurns - 1)
  PROVE  /\ n \div Subjects \in 0..(Blocks - 1)
         /\ n % Subjects \in 0..(Subjects - 1)
         /\ n = Subjects * (n \div Subjects) + (n % Subjects)
<1> USE BoundsAssumption DEF MeasurementTurns
<1>1. CASE Subjects = 1
  BY <1>1
<1>2. CASE Subjects = 2
  BY <1>2
<1>3. CASE Subjects = 3
  BY <1>3
<1> QED
  BY <1>1, <1>2, <1>3, RequiredAssumption

\* The turn of a position in a block has that block and that position.
LEMMA TurnOfPlace ==
  ASSUME NEW k \in Nat, NEW q \in 0..(Subjects - 1)
  PROVE  /\ Subjects * k + q \in Nat
         /\ (Subjects * k + q) \div Subjects = k
         /\ (Subjects * k + q) % Subjects = q
<1>1. CASE Subjects = 1
  BY <1>1
<1>2. CASE Subjects = 2
  BY <1>2
<1>3. CASE Subjects = 3
  BY <1>3
<1> QED
  BY <1>1, <1>2, <1>3, RequiredAssumption

\* A turn in an earlier block is an earlier turn.
LEMMA EarlierTurn ==
  ASSUME NEW k \in Nat, NEW b \in Nat, k < b,
         NEW q \in 0..(Subjects - 1), NEW p \in 0..(Subjects - 1)
  PROVE  Subjects * k + q < Subjects * b + p
<1>1. CASE Subjects = 1
  BY <1>1
<1>2. CASE Subjects = 2
  BY <1>2
<1>3. CASE Subjects = 3
  BY <1>3
<1> QED
  BY <1>1, <1>2, <1>3, RequiredAssumption

\* Every solver has a turn in every block.
LEMMA Onto ==
  ASSUME NEW p \in Permuted, NEW a \in Solvers
  PROVE  \E i \in 1..Subjects : p[i] = a
<1> SUFFICES ASSUME \A i \in 1..Subjects : p[i] # a
             PROVE  FALSE
  OBVIOUS
<1>1. DOMAIN Required = 1..Subjects /\ Subjects \in Nat
  BY RequiredAssumption DEF Subjects
<1>2. IsFiniteSet(1..Subjects) /\ Cardinality(1..Subjects) = Subjects
  BY <1>1, FS_Interval
<1>3. IsFiniteSet(Solvers)
  <2>1. Required \in [1..Subjects -> Solvers]
    BY <1>1, RequiredAssumption DEF Solvers
  <2>2. \A s \in Solvers : \E i \in 1..Subjects : Required[i] = s
    BY <1>1 DEF Solvers
  <2>3. Required \in Surjection(1..Subjects, Solvers)
    BY <2>1, <2>2 DEF Surjection
  <2> QED
    BY <1>2, <2>3, FS_Surjection
<1>4. IsFiniteSet(Solvers \ {a}) /\ Cardinality(Solvers \ {a}) < Subjects
  <2>1. Cardinality(Solvers \ {a}) = Cardinality(Solvers) - 1
    BY <1>3, FS_RemoveElement
  <2> QED
    BY <1>1, <1>3, <2>1, FS_RemoveElement, RequiredAssumption
<1>5. p \in [1..Subjects -> Solvers \ {a}]
  BY DEF Permuted
<1>6. \E i, j \in 1..Subjects : i # j /\ p[i] = p[j]
  <2>1. Cardinality(Solvers \ {a}) < Cardinality(1..Subjects)
    BY <1>2, <1>4
  <2> DEFINE S == 1..Subjects
             T == Solvers \ {a}
  <2>2. /\ IsFiniteSet(S) /\ IsFiniteSet(T) /\ Cardinality(T) < Cardinality(S)
        /\ p \in [S -> T]
    BY <1>2, <1>4, <1>5, <2>1
  <2> HIDE DEF S, T
  <2>3. \E i, j \in S : i # j /\ p[i] = p[j]
    BY <2>2, FS_PigeonHole
  <2> QED
    BY <2>3 DEF S
<1> QED
  BY <1>6 DEF Permuted

------------------------------------------------------------------------------
\* append_raw_record leaves what was there.
LEMMA Kept ==
  ASSUME NEW file, IsFile(file), NEW record, NEW cut,
         NEW new, new = Written(file, record, cut)
  PROVE  \A i \in DOMAIN file : i \in DOMAIN new /\ new[i] = file[i]
<1> DEFINE e == [record |-> record, cut |-> cut]
<1>1. PICK S : file \in Seq(S)
  BY DEF IsFile
<1>2. file \in Seq(S \union {e}) /\ e \in S \union {e}
  BY <1>1
<1>3. new = Append(file, e)
  BY DEF Written
<1> HIDE DEF e
<1> QED
  BY <1>2, <1>3

\* A file that was appended to is one entry longer, and ends with the entry.
LEMMA Appended ==
  ASSUME NEW file, IsFile(file), NEW record, NEW cut,
         NEW new, new = Written(file, record, cut)
  PROVE  /\ IsFile(new)
         /\ Len(file) \in Nat /\ DOMAIN file = 1..Len(file)
         /\ DOMAIN new = 1..(Len(file) + 1)
         /\ new[Len(file) + 1] = [record |-> record, cut |-> cut]
<1> DEFINE e == [record |-> record, cut |-> cut]
<1>1. PICK S : file \in Seq(S)
  BY DEF IsFile
<1>2. file \in Seq(S \union {e}) /\ e \in S \union {e}
  BY <1>1
<1>3. new = Append(file, e)
  BY DEF Written
<1> HIDE DEF e
<1>4. /\ new \in Seq(S \union {e})
      /\ Len(file) \in Nat /\ DOMAIN file = 1..Len(file)
      /\ DOMAIN new = 1..(Len(file) + 1)
      /\ new[Len(file) + 1] = e
  BY <1>2, <1>3
<1>5. IsFile(new)
  BY <1>4 DEF IsFile
<1> QED
  BY <1>4, <1>5 DEF e

\* A count the transcript says was settled stays settled.
LEMMA StillSettled ==
  ASSUME NEW file, IsFile(file), NEW record, NEW cut,
         NEW new, new = Written(file, record, cut),
         NEW s, NEW c, Settled(file, s, c)
  PROVE  Settled(new, s, c)
<1>1. PICK i \in DOMAIN file : file[i] = PolicyOf(s, c)
  BY DEF Settled, Range
<1>2. \A j \in DOMAIN file : j \in DOMAIN new /\ new[j] = file[j]
  BY Kept
<1>3. i \in DOMAIN new /\ new[i] = PolicyOf(s, c)
  BY <1>1, <1>2
<1> QED
  BY <1>3 DEF Settled, Range

\* A measurement the output holds stays in it.
LEMMA StillHeld ==
  ASSUME NEW file, IsFile(file), NEW record, NEW cut,
         NEW new, new = Written(file, record, cut),
         NEW plan, NEW s, NEW n, Holds(file, plan, s, n)
  PROVE  Holds(new, plan, s, n)
<1>1. PICK i \in DOMAIN file : file[i].record.session = s /\ RecordOf(file[i].record, plan, n)
  BY DEF Holds
<1>2. \A j \in DOMAIN file : j \in DOMAIN new /\ new[j] = file[j]
  BY Kept
<1>3. i \in DOMAIN new /\ new[i] = file[i]
  BY <1>1, <1>2
<1> QED
  BY <1>1, <1>3 DEF Holds

\* Before the first session both files are empty.
LEMMA InitInv == Init => IInv
<1> SUFFICES ASSUME Init
             PROVE  IInv
  OBVIOUS
<1>1. <<>> \in Seq({}) /\ DOMAIN <<>> = {}
  OBVIOUS
<1>2. TypeInv
  BY <1>1 DEF Init, TypeInv, IsFile
<1> QED
  BY <1>1, <1>2 DEF Init, IInv, RunningInv, OutputInv

\* A line more in the transcript takes nothing away.
LEMMA TranscriptStep ==
  ASSUME IInv, NEW record, NEW cut,
         transcript' = transcript \/ transcript' = Written(transcript, record, cut)
  PROVE  /\ IsFile(transcript')
         /\ \A s, c : Settled(transcript, s, c) => Settled(transcript', s, c)
BY Appended, StillSettled DEF IInv, TypeInv

\* A session that ends, or starts, leaves the output as it is.
LEMMA OutputKept ==
  ASSUME IInv, output' = output, orders' = orders, session' \in Nat, session <= session',
         IsFile(transcript'),
         \A s, c : Settled(transcript, s, c) => Settled(transcript', s, c)
  PROVE  OutputInv'
<1> SUFFICES ASSUME NEW i \in DOMAIN output
             PROVE  LET r == output[i].record IN
                    /\ r.session \in 1..session'
                    /\ Settled(transcript', r.session, r.count)
                    /\ InPlan(r, output, orders)
  BY DEF OutputInv
<1>1. LET r == output[i].record IN
      /\ r.session \in 1..session
      /\ Settled(transcript, r.session, r.count)
      /\ InPlan(r, output, orders)
  BY DEF IInv, OutputInv
<1> QED
  BY <1>1 DEF IInv, TypeInv

\* What a measurement writes, whole or cut, stands next in its session's plan.
LEMMA OutputGrows ==
  ASSUME IInv, NEW cut, phase = "measurement",
         output' = Written(output, Evidence, cut),
         orders' = orders, session' = session, transcript' = transcript
  PROVE  /\ OutputInv'
         /\ IsFile(output')
         /\ \A m \in 0..turn : Holds(output', orders, session, m)
<1> DEFINE e == Evidence
           new == output'
<1>1. /\ IsFile(output) /\ turn \in Nat /\ session \in Nat /\ session >= 1
      /\ turn \in 0..(MeasurementTurns - 1)
      /\ \A m \in 0..(turn - 1) : Holds(output, orders, session, m)
      /\ Settled(transcript, session, count)
  <2>1. MeasurementTurns \in Int
    BY RequiredAssumption, BoundsAssumption DEF MeasurementTurns
  <2> QED
    BY <2>1 DEF IInv, TypeInv, RunningInv
<1>2. /\ e.session = session /\ e.count = count
      /\ RecordOf(e, orders, turn)
  BY DEF Evidence, RecordOf, Subject, Block, Position
<1>3. /\ IsFile(new) /\ Len(output) \in Nat /\ DOMAIN output = 1..Len(output)
      /\ DOMAIN new = 1..(Len(output) + 1)
      /\ new[Len(output) + 1] = [record |-> e, cut |-> cut]
  BY <1>1, Appended DEF e
<1>4. Len(output) + 1 \in DOMAIN new
  BY <1>3
<1>5. \A i \in DOMAIN output : i \in DOMAIN new /\ new[i] = output[i]
  BY <1>1, Kept
<1>6. \A s, n : Holds(output, orders, s, n) => Holds(new, orders, s, n)
  BY <1>1, StillHeld
<1>7. output' = new
  OBVIOUS
<1> HIDE DEF new, e
<1>8. Holds(new, orders, session, turn)
  BY <1>2, <1>3, <1>4 DEF Holds
<1>9. \A m \in 0..turn : Holds(new, orders, session, m)
  <2> TAKE m \in 0..turn
  <2>1. m = turn \/ m \in 0..(turn - 1)
    BY <1>1
  <2> QED
    BY <1>1, <1>6, <1>8, <2>1
<1>10. ASSUME NEW i \in DOMAIN new
       PROVE  LET r == new[i].record IN
              /\ r.session \in 1..session
              /\ Settled(transcript, r.session, r.count)
              /\ InPlan(r, new, orders)
  <2>1. CASE i = Len(output) + 1
    <3>1. new[i].record = e
      BY <1>3, <2>1
    <3>2. InPlan(e, new, orders)
      BY <1>1, <1>2, <1>6 DEF InPlan
    <3> QED
      BY <1>1, <1>2, <3>1, <3>2
  <2>2. CASE i \in DOMAIN output
    <3>1. new[i].record = output[i].record
      BY <1>5, <2>2
    <3>2. LET r == output[i].record IN
          /\ r.session \in 1..session
          /\ Settled(transcript, r.session, r.count)
          /\ InPlan(r, output, orders)
      BY <2>2 DEF IInv, OutputInv
    <3>3. InPlan(output[i].record, new, orders)
      BY <1>6, <3>2 DEF InPlan
    <3> QED
      BY <3>1, <3>2, <3>3
  <2> QED
    BY <1>3, <1>10, <2>1, <2>2
<1>11. OutputInv'
  BY <1>7, <1>10 DEF OutputInv
<1> QED
  BY <1>3, <1>7, <1>9, <1>11

\* Every step of a campaign, a write cut short included, keeps the invariant.
LEMMA StepInv == IInv /\ [Next]_vars => IInv'
<1> SUFFICES ASSUME IInv, [Next]_vars
             PROVE  IInv'
  OBVIOUS
<1>0. TypeInv /\ RunningInv /\ OutputInv
  BY DEF IInv
<1>1. CASE StartCampaign
  <2>1. OutputInv'
    BY <1>0, <1>1, OutputKept DEF StartCampaign, TypeInv
  <2> QED
    BY <1>0, <1>1, <2>1 DEF StartCampaign, IInv, TypeInv, RunningInv
<1>2. CASE Invoke \/ NextPilot \/ NextRound \/ SettleCount
  <2>1. UNCHANGED <<orders, session, transcript, output>> /\ turn' \in Nat
    BY <1>0, <1>2 DEF Invoke, NextPilot, NextRound, SettleCount, TypeInv
  <2>2. OutputInv'
    BY <1>0, <2>1, OutputKept DEF TypeInv
  <2>3. RunningInv'
    BY <1>0, <1>2, <2>1 DEF Invoke, NextPilot, NextRound, SettleCount, RunningInv
  <2> QED
    BY <1>0, <2>1, <2>2, <2>3 DEF IInv, TypeInv
<1>3. CASE Transcribe
  <2>1. /\ UNCHANGED <<orders, session, phase, turn, count, output>>
        /\ transcript' = Written(transcript, Evidence, "whole")
    BY <1>3 DEF Transcribe
  <2>2. /\ IsFile(transcript')
        /\ \A s, c : Settled(transcript, s, c) => Settled(transcript', s, c)
    BY <2>1, TranscriptStep
  <2>3. OutputInv'
    BY <1>0, <2>1, <2>2, OutputKept DEF TypeInv
  <2>4. RunningInv'
    BY <1>0, <2>1, <2>2 DEF RunningInv
  <2> QED
    BY <1>0, <2>1, <2>2, <2>3, <2>4 DEF IInv, TypeInv
<1>4. CASE RecordPolicy
  <2>1. /\ UNCHANGED <<orders, session, turn, count, output>>
        /\ phase = "policy" /\ phase' = "measurement"
        /\ transcript' = Written(transcript, Policy, "whole")
    BY <1>4 DEF RecordPolicy
  <2>2. /\ IsFile(transcript')
        /\ \A s, c : Settled(transcript, s, c) => Settled(transcript', s, c)
    BY <2>1, TranscriptStep
  <2>3. OutputInv'
    BY <1>0, <2>1, <2>2, OutputKept DEF TypeInv
  <2>4. Settled(transcript', session, count)
    <3>1. /\ DOMAIN transcript' = 1..(Len(transcript) + 1) /\ Len(transcript) \in Nat
          /\ transcript'[Len(transcript) + 1] = PolicyOf(session, count)
      BY <1>0, <2>1, Appended DEF TypeInv, Policy, PolicyOf
    <3>2. Len(transcript) + 1 \in DOMAIN transcript'
      BY <3>1
    <3> QED
      BY <3>1, <3>2 DEF Settled, Range
  <2>5. turn = 0 /\ 0 < MeasurementTurns
    <3>1. \A x, y \in Nat \ {0} : 0 < x * y
      OBVIOUS
    <3> QED
      BY <1>0, <2>1, <3>1, RequiredAssumption, BoundsAssumption
         DEF RunningInv, MeasurementTurns
  <2>6. RunningInv'
    BY <1>0, <2>1, <2>4, <2>5 DEF RunningInv
  <2> QED
    BY <1>0, <2>1, <2>2, <2>3, <2>6 DEF IInv, TypeInv
<1>5. CASE RecordMeasurement
  <2>1. /\ UNCHANGED <<orders, session, transcript>>
        /\ phase = "measurement" /\ output' = Written(output, Evidence, "whole")
        /\ \/ turn + 1 < MeasurementTurns /\ turn' = turn + 1 /\ UNCHANGED <<phase, count>>
           \/ phase' = "idle" /\ turn' = 0
    BY <1>5 DEF RecordMeasurement, End
  <2>2. /\ OutputInv' /\ IsFile(output')
        /\ \A m \in 0..turn : Holds(output', orders, session, m)
    BY <2>1, OutputGrows
  <2>3. RunningInv'
    <3>1. CASE turn' = turn + 1
      <4>1. \A m \in 0..(turn' - 1) : Holds(output', orders, session, m)
        BY <1>0, <2>2, <3>1 DEF TypeInv
      <4> QED
        BY <1>0, <2>1, <3>1, <4>1 DEF RunningInv
    <3>2. CASE phase' = "idle"
      BY <3>2 DEF RunningInv
    <3> QED
      BY <2>1, <3>1, <3>2
  <2> QED
    BY <1>0, <2>1, <2>2, <2>3 DEF IInv, TypeInv
<1>6. CASE Refuse \/ GiveUpPilot \/ Die
  <2>1. UNCHANGED <<orders, session, transcript, output>> /\ phase' = "idle" /\ turn' = 0
    BY <1>6 DEF Refuse, GiveUpPilot, Die, End
  <2>2. OutputInv'
    BY <1>0, <2>1, OutputKept DEF TypeInv
  <2> QED
    BY <1>0, <2>1, <2>2 DEF IInv, TypeInv, RunningInv
<1>7. ASSUME NEW cut, DieWriting(cut)
      PROVE  IInv'
  <2>1. /\ UNCHANGED <<orders, session>> /\ phase' = "idle" /\ turn' = 0
        /\ \/ /\ phase = "measurement" /\ output' = Written(output, Evidence, cut)
              /\ transcript' = transcript
           \/ /\ output' = output
              /\ \E record : transcript' = Written(transcript, record, cut)
    BY <1>7 DEF DieWriting, End
  <2>2. CASE output' = output /\ \E record : transcript' = Written(transcript, record, cut)
    <3>1. /\ IsFile(transcript')
          /\ \A s, c : Settled(transcript, s, c) => Settled(transcript', s, c)
      BY <2>2, TranscriptStep
    <3>2. OutputInv'
      BY <1>0, <2>1, <2>2, <3>1, OutputKept DEF TypeInv
    <3> QED
      BY <1>0, <2>1, <2>2, <3>1, <3>2 DEF IInv, TypeInv, RunningInv
  <2>3. CASE /\ phase = "measurement" /\ output' = Written(output, Evidence, cut)
             /\ transcript' = transcript
    <3>1. OutputInv' /\ IsFile(output')
      BY <2>1, <2>3, OutputGrows
    <3> QED
      BY <1>0, <2>1, <2>3, <3>1 DEF IInv, TypeInv, RunningInv
  <2> QED
    BY <2>1, <2>2, <2>3
<1>8. CASE UNCHANGED vars
  BY <1>0, <1>8 DEF vars, IInv, TypeInv, RunningInv, OutputInv, InPlan, Holds
<1> QED
  BY <1>1, <1>2, <1>3, <1>4, <1>5, <1>6, <1>7, <1>8 DEF Next

\* The invariant holds throughout, over all sessions on the files.
LEMMA Inductive == Spec => []IInv
BY InitInv, StepInv, PTL DEF Spec

------------------------------------------------------------------------------
\* What the invariant says of one measurement in the output.
LEMMA Planned ==
  ASSUME IInv, NEW i \in DOMAIN output
  PROVE  LET r == output[i].record IN
         /\ r.session \in 1..session
         /\ Settled(transcript, r.session, r.count)
         /\ r.block \in 0..(Blocks - 1) /\ r.position \in 0..(Subjects - 1)
         /\ orders[r.block + 1][r.position + 1] = r.solver
         /\ \A m \in Nat : m < Subjects * r.block + r.position =>
              Holds(output, orders, r.session, m)
<1> DEFINE r == output[i].record
<1>1. /\ r.session \in 1..session /\ Settled(transcript, r.session, r.count)
      /\ InPlan(r, output, orders)
  BY DEF IInv, OutputInv
<1> HIDE DEF r
<1>2. PICK n \in 0..(MeasurementTurns - 1) :
        RecordOf(r, orders, n) /\ \A m \in 0..(n - 1) : Holds(output, orders, r.session, m)
  BY <1>1 DEF InPlan
<1>3. /\ r.block \in 0..(Blocks - 1) /\ r.position \in 0..(Subjects - 1)
      /\ n = Subjects * r.block + r.position
      /\ orders[r.block + 1][r.position + 1] = r.solver
  BY <1>2, PlaceOfTurn DEF RecordOf
<1>4. ASSUME NEW m \in Nat, m < Subjects * r.block + r.position
      PROVE  Holds(output, orders, r.session, m)
  <2>1. m < n
    BY <1>3, <1>4
  <2>2. n \in Nat
    OBVIOUS
  <2>3. m \in 0..(n - 1)
    BY <2>1, <2>2
  <2> QED
    BY <1>2, <2>3
<1> QED
  BY <1>1, <1>3, <1>4 DEF r

\* The measurement the plan puts at a place before a recorded one is recorded.
LEMMA Before ==
  ASSUME IInv, NEW i \in DOMAIN output, NEW k \in Nat, NEW q \in 0..(Subjects - 1),
         Subjects * k + q < Subjects * output[i].record.block + output[i].record.position
  PROVE  \E j \in Series(orders[k + 1][q + 1]) :
           /\ output[j].record.session = output[i].record.session
           /\ output[j].record.block = k
           /\ output[j].record.position = q
<1> DEFINE r == output[i].record
           m == Subjects * k + q
<1>1. m \in Nat /\ m \div Subjects = k /\ m % Subjects = q
  BY TurnOfPlace
<1>2. \A x \in Nat : x < Subjects * r.block + r.position =>
        Holds(output, orders, r.session, x)
  BY Planned
<1>3. m < Subjects * r.block + r.position
  OBVIOUS
<1> HIDE DEF m
<1>4. Holds(output, orders, r.session, m)
  BY <1>1, <1>2, <1>3
<1>5. PICK j \in DOMAIN output :
        output[j].record.session = r.session /\ RecordOf(output[j].record, orders, m)
  BY <1>4 DEF Holds
<1> QED
  BY <1>1, <1>5 DEF RecordOf, Series

\* A solver measured in a block was measured in all blocks before, in the same
\* session.
LEMMA EarlierBlock ==
  ASSUME IInv, NEW a \in Solvers, NEW i \in Series(a), NEW k \in 0..output[i].record.block
  PROVE  \E j \in Series(a) :
           output[j].record.session = output[i].record.session /\ output[j].record.block = k
<1> DEFINE r == output[i].record
<1>1. /\ i \in DOMAIN output /\ r.block \in 0..(Blocks - 1)
      /\ r.position \in 0..(Subjects - 1)
  BY Planned DEF Series
<1>2. CASE k = r.block
  BY <1>2
<1>3. CASE k # r.block
  <2>1. k \in Nat /\ k < r.block /\ r.block \in Nat /\ k + 1 \in 1..Blocks
    BY <1>1, <1>3, BoundsAssumption
  <2>2. orders[k + 1] \in Permuted
    BY <2>1 DEF IInv, TypeInv, Balanced
  <2>3. PICK p \in 1..Subjects : orders[k + 1][p] = a
    BY <2>2, Onto
  <2>4. p - 1 \in 0..(Subjects - 1) /\ (p - 1) + 1 = p
    BY RequiredAssumption
  <2>5. Subjects * k + (p - 1) < Subjects * r.block + r.position
    BY <1>1, <2>1, <2>4, EarlierTurn
  <2>6. \E j \in Series(orders[k + 1][(p - 1) + 1]) :
          output[j].record.session = r.session /\ output[j].record.block = k
    BY <1>1, <2>1, <2>4, <2>5, Before
  <2> QED
    BY <2>3, <2>4, <2>6
<1> QED
  BY <1>2, <1>3

\* A series without a block twice was measured by one session.
LEMMA FrozenSeries ==
  ASSUME IInv, NEW a \in Solvers, Frozen(Series(a)), NEW i \in Series(a), NEW j \in Series(a)
  PROVE  output[i].record.session = output[j].record.session
<1>1. 0 \in 0..output[i].record.block /\ 0 \in 0..output[j].record.block
  BY Planned DEF Series
<1>2. PICK x \in Series(a) :
        output[x].record.session = output[i].record.session /\ output[x].record.block = 0
  BY <1>1, EarlierBlock
<1>3. PICK y \in Series(a) :
        output[y].record.session = output[j].record.session /\ output[y].record.block = 0
  BY <1>1, EarlierBlock
<1>4. x = y
  BY <1>2, <1>3 DEF Frozen
<1> QED
  BY <1>2, <1>3, <1>4

\* The session that measured the later one in the first block measured both.
LEMMA LaterHasBoth ==
  ASSUME IInv, NEW a \in Solvers, NEW b \in Solvers,
         Frozen(Series(a)), NEW i \in Series(a), NEW j \in Series(b),
         output[i].record.block = 0, output[j].record.block = 0,
         output[i].record.position < output[j].record.position
  PROVE  output[i].record.session = output[j].record.session
<1> DEFINE q == output[i].record.position
<1>1. /\ i \in DOMAIN output /\ j \in DOMAIN output
      /\ q \in 0..(Subjects - 1) /\ orders[0 + 1][q + 1] = a
      /\ output[j].record.position \in 0..(Subjects - 1)
  BY Planned DEF Series
<1>2. Subjects * 0 + q < Subjects * output[j].record.block + output[j].record.position
  BY <1>1, RequiredAssumption
<1>3. \E x \in Series(orders[0 + 1][q + 1]) :
        output[x].record.session = output[j].record.session
  BY <1>1, <1>2, Before
<1> QED
  BY <1>1, <1>3, FrozenSeries

\* Two series require_comparable_pairs admits come from one session.
LEMMA SameSession ==
  ASSUME IInv, NEW a \in Solvers, NEW b \in Solvers, Comparable(Series(a), Series(b)),
         NEW i \in Series(a), NEW j \in Series(b)
  PROVE  output[i].record.session = output[j].record.session
<1>1. 0 \in 0..output[i].record.block /\ 0 \in 0..output[j].record.block
  BY Planned DEF Series
<1>2. PICK x \in Series(a) :
        output[x].record.session = output[i].record.session /\ output[x].record.block = 0
  BY <1>1, EarlierBlock
<1>3. PICK y \in Series(b) :
        output[y].record.session = output[j].record.session /\ output[y].record.block = 0
  BY <1>1, EarlierBlock
<1>4. /\ output[x].record.position \in Int /\ output[y].record.position \in Int
  BY Planned DEF Series
<1>5. output[x].record.position # output[y].record.position
  BY <1>2, <1>3 DEF Comparable
<1>6. output[x].record.session = output[y].record.session
  <2>1. CASE output[x].record.position < output[y].record.position
    BY <1>2, <1>3, <2>1, LaterHasBoth DEF Comparable
  <2>2. CASE output[y].record.position < output[x].record.position
    BY <1>2, <1>3, <2>2, LaterHasBoth DEF Comparable
  <2> QED
    BY <1>4, <1>5, <2>1, <2>2
<1> QED
  BY <1>2, <1>3, <1>6

\* Two series that may form a ratio come from one session, are as it planned
\* them, ran at the count its pilot settled and miss no block before their last.
LEMMA PairOfOneSession ==
  ASSUME IInv, NEW a \in Solvers, NEW b \in Solvers, Comparable(Series(a), Series(b))
  PROVE  OfOneSession(a, b)
<1>1. Frozen(Series(a)) /\ Frozen(Series(b)) /\ Series(a) # {} /\ Series(b) # {}
  BY DEF Comparable
<1>2. PICK i \in Series(a) : TRUE
  BY <1>1
<1>3. PICK j \in Series(b) : TRUE
  BY <1>1
<1> DEFINE s == output[i].record.session
<1>4. \A x \in Series(a) : output[x].record.session = s
  BY <1>1, FrozenSeries
<1>5. \A x \in Series(b) : output[x].record.session = s
  BY <1>1, SameSession
<1>6. s \in 1..session
  BY Planned DEF Series
<1> HIDE DEF s
<1>7. ASSUME NEW x \in Series(a) \union Series(b)
      PROVE  LET r == output[x].record IN
             /\ r.session = s
             /\ orders[r.block + 1][r.position + 1] = r.solver
             /\ PolicyOf(s, r.count) \in Range(transcript)
  <2>1. x \in DOMAIN output /\ output[x].record.session = s
    BY <1>4, <1>5, <1>7 DEF Series
  <2> QED
    BY <2>1, Planned DEF Settled
<1>8. ASSUME NEW k \in BlocksOf(Series(a)), NEW l \in 0..k
      PROVE  l \in BlocksOf(Series(a))
  <2>1. PICK x \in Series(a) : output[x].record.block = k
    BY <1>8 DEF BlocksOf
  <2> QED
    BY <1>8, <2>1, EarlierBlock DEF BlocksOf
<1> QED
  BY <1>6, <1>7, <1>8 DEF OfOneSession, PolicyOf

------------------------------------------------------------------------------
\* An injection between finite sets, as the counting below uses it.
LEMMA Counting ==
  ASSUME NEW S, NEW T, NEW f \in [S -> T], IsFiniteSet(T),
         \A x, y \in S : f[x] = f[y] => x = y
  PROVE  /\ IsFiniteSet(S)
         /\ Cardinality(S) \in Nat /\ Cardinality(T) \in Nat
         /\ Cardinality(S) <= Cardinality(T)
         /\ Cardinality(S) = Cardinality(T) => \A t \in T : \E x \in S : f[x] = t
<1>1. f \in Injection(S, T)
  BY DEF Injection, IsInjective
<1>2. /\ IsFiniteSet(S) /\ Cardinality(S) <= Cardinality(T)
      /\ Cardinality(S) = Cardinality(T) => f \in Surjection(S, T)
  BY <1>1, FS_Injection
<1>3. Cardinality(S) \in Nat /\ Cardinality(T) \in Nat
  BY <1>2, FS_CardinalityType
<1>4. f \in Surjection(S, T) => \A t \in T : \E x \in S : f[x] = t
  BY DEF Surjection
<1> QED
  BY <1>2, <1>3, <1>4

\* Orders that agree at every position are one.
LEMMA SameOrder ==
  ASSUME NEW p \in Permuted, NEW q \in Permuted, \A i \in 1..Subjects : p[i] = q[i]
  PROVE  p = q
<1> DEFINE D == 1..Subjects
<1>1. p \in [D -> Solvers] /\ q \in [D -> Solvers] /\ \A i \in D : p[i] = q[i]
  BY DEF Permuted
<1> HIDE DEF D
<1> QED
  BY <1>1

\* There are finitely many orders, and at least one.
LEMMA OrdersAreFinite ==
  ASSUME orders \in Balanced
  PROVE  IsFiniteSet(Permuted) /\ Cycle \in Nat \ {0}
<1> DEFINE Graph == (1..Subjects) \X Solvers
           g == [p \in Permuted |-> {<<i, p[i]>> : i \in 1..Subjects}]
<1>1. IsFiniteSet(Solvers) /\ IsFiniteSet(1..Subjects)
  <2>1. DOMAIN Required = 1..Subjects /\ Required \in [1..Subjects -> Solvers]
    BY RequiredAssumption DEF Subjects, Solvers
  <2>2. \A s \in Solvers : \E i \in 1..Subjects : Required[i] = s
    BY <2>1 DEF Solvers
  <2>3. Required \in Surjection(1..Subjects, Solvers)
    BY <2>1, <2>2 DEF Surjection
  <2>4. IsFiniteSet(1..Subjects)
    BY RequiredAssumption, FS_Interval
  <2> QED
    BY <2>3, <2>4, FS_Surjection
<1>2. IsFiniteSet(SUBSET Graph)
  <2>1. IsFiniteSet(Graph)
    BY <1>1, FS_Product
  <2> QED
    BY <2>1, FS_SUBSET
<1>3. g \in [Permuted -> SUBSET Graph]
  <2>1. ASSUME NEW p \in Permuted, NEW i \in 1..Subjects
        PROVE  <<i, p[i]>> \in Graph
    BY DEF Permuted
  <2>2. \A p \in Permuted : {<<i, p[i]>> : i \in 1..Subjects} \in SUBSET Graph
    BY <2>1
  <2> HIDE DEF Graph
  <2> QED
    BY <2>2
<1>4. ASSUME NEW p \in Permuted, NEW q \in Permuted, g[p] = g[q]
      PROVE  p = q
  <2>1. ASSUME NEW i \in 1..Subjects
        PROVE  p[i] = q[i]
    <3>1. <<i, p[i]>> \in g[q]
      BY <1>4
    <3>2. PICK j \in 1..Subjects : <<i, p[i]>> = <<j, q[j]>>
      BY <3>1
    <3> QED
      BY <3>2
  <2> QED
    BY <2>1, SameOrder
<1> HIDE DEF g, Graph
<1>5. IsFiniteSet(Permuted) /\ Cycle \in Nat
  BY <1>2, <1>3, <1>4, Counting DEF Cycle
<1>6. Permuted # {}
  <2>1. 1 \in 1..Blocks
    BY BoundsAssumption
  <2>2. orders[1] \in Permuted
    BY <2>1 DEF Balanced
  <2> QED
    BY <2>2
<1> QED
  BY <1>5, <1>6, FS_EmptySet DEF Cycle

------------------------------------------------------------------------------
\* In this order a comes before b; the orders of which that is so; the order
\* with a and b exchanged.
Ahead(p, a, b) == \E x, y \in 1..Subjects : x < y /\ p[x] = a /\ p[y] = b

OrdersAhead(a, b) == {p \in Permuted : Ahead(p, a, b)}

Exchange(e, a, b) == IF e = a THEN b ELSE IF e = b THEN a ELSE e

Exchanged(p, a, b) == [x \in 1..Subjects |-> Exchange(p[x], a, b)]

\* Exchanging two solvers confuses no two.
LEMMA ExchangeIsOneToOne ==
  ASSUME NEW a, NEW b, NEW c, NEW d, Exchange(c, a, b) = Exchange(d, a, b)
  PROVE  c = d
BY DEF Exchange

\* Exchanging them leads from an order that runs a first to one that runs b
\* first, and from different orders to different ones.
LEMMA ExchangedOrder ==
  ASSUME NEW a \in Solvers, NEW b \in Solvers, NEW p \in Permuted
  PROVE  /\ Exchanged(p, a, b) \in Permuted
         /\ Ahead(p, a, b) => Ahead(Exchanged(p, a, b), b, a)
         /\ \A q \in Permuted : Exchanged(p, a, b) = Exchanged(q, a, b) => p = q
<1>1. /\ p \in [1..Subjects -> Solvers]
      /\ \A i, j \in 1..Subjects : p[i] = p[j] => i = j
  BY DEF Permuted
<1>2. Exchanged(p, a, b) \in [1..Subjects -> Solvers]
  BY <1>1 DEF Exchanged, Exchange
<1>3. \A i \in 1..Subjects : Exchanged(p, a, b)[i] = Exchange(p[i], a, b)
  BY DEF Exchanged
<1>4. \A i, j \in 1..Subjects :
        Exchanged(p, a, b)[i] = Exchanged(p, a, b)[j] => i = j
  BY <1>1, <1>3, ExchangeIsOneToOne
<1>5. Exchanged(p, a, b) \in Permuted
  BY <1>2, <1>4 DEF Permuted
<1>6. Ahead(p, a, b) => Ahead(Exchanged(p, a, b), b, a)
  BY <1>3 DEF Ahead, Exchange
<1>7. ASSUME NEW q \in Permuted, Exchanged(p, a, b) = Exchanged(q, a, b)
      PROVE  p = q
  <2>1. \A i \in 1..Subjects : Exchange(p[i], a, b) = Exchange(q[i], a, b)
    BY <1>7 DEF Exchanged
  <2>2. \A i \in 1..Subjects : p[i] = q[i]
    BY <2>1, ExchangeIsOneToOne
  <2> QED
    BY <2>2, SameOrder
<1> QED
  BY <1>5, <1>6, <1>7

\* At most half of the orders run a before b.
LEMMA HalfOfTheOrders ==
  ASSUME orders \in Balanced, NEW a \in Solvers, NEW b \in Solvers
  PROVE  /\ IsFiniteSet(OrdersAhead(a, b))
         /\ Cardinality(OrdersAhead(a, b)) <= Cycle \div 2
<1> DEFINE A == OrdersAhead(a, b)
           B == OrdersAhead(b, a)
           f == [p \in A |-> Exchanged(p, a, b)]
<1>1. IsFiniteSet(Permuted) /\ Cycle \in Nat
  BY OrdersAreFinite
<1>2. IsFiniteSet(A) /\ IsFiniteSet(B)
  BY <1>1, FS_Subset DEF OrdersAhead
<1>3. f \in [A -> B]
  BY ExchangedOrder DEF OrdersAhead
<1>4. \A p, q \in A : f[p] = f[q] => p = q
  BY ExchangedOrder DEF OrdersAhead
<1>5. A \intersect B = {}
  <2> SUFFICES ASSUME NEW p \in Permuted, Ahead(p, a, b), Ahead(p, b, a)
               PROVE  FALSE
    BY DEF OrdersAhead
  <2> QED
    BY RequiredAssumption DEF Ahead, Permuted
<1>6. A \union B \in SUBSET Permuted
  BY DEF OrdersAhead
<1> HIDE DEF A, B, f
<1>7. /\ Cardinality(A) \in Nat /\ Cardinality(B) \in Nat
      /\ Cardinality(A) <= Cardinality(B)
  BY <1>2, <1>3, <1>4, Counting
<1>8. Cardinality(A \union B) = Cardinality(A) + Cardinality(B)
  <2>1. Cardinality(A \intersect B) = 0
    BY <1>5, FS_EmptySet
  <2>2. Cardinality(A \union B) =
          Cardinality(A) + Cardinality(B) - Cardinality(A \intersect B)
    BY <1>2, FS_Union
  <2> QED
    BY <1>7, <2>1, <2>2
<1>9. Cardinality(A \union B) <= Cycle
  BY <1>1, <1>6, FS_Subset DEF Cycle
<1>10. 2 * Cardinality(A) <= Cycle
  BY <1>1, <1>7, <1>8, <1>9
<1> QED
  BY <1>1, <1>2, <1>7, <1>10 DEF A

------------------------------------------------------------------------------
\* Division rounds down; the numbers of one quotient are those between two
\* multiples.
LEMMA RoundedDown ==
  ASSUME NEW x \in Nat, NEW c \in Nat \ {0}
  PROVE  x \div c \in Nat /\ c * (x \div c) <= x /\ x < c * (x \div c) + c
OBVIOUS

\* A number between two neighbouring multiples of c has the quotient of the lower.
LEMMA QuotientOf ==
  ASSUME NEW x \in Nat, NEW c \in Nat \ {0}, NEW q \in Nat, c * q <= x, x < c * q + c
  PROVE  x \div c = q
<1> DEFINE d == x \div c
<1>1. d \in Nat /\ c * d <= x /\ x < c * d + c
  BY RoundedDown
<1> HIDE DEF d
<1>2. ~(d < q) /\ ~(q < d)
  <2>1. \A u, v \in Nat : u < v => c * u + c <= c * v
    OBVIOUS
  <2>2. c * d \in Nat /\ c * q \in Nat
    BY <1>1
  <2> QED
    BY <1>1, <2>1, <2>2
<1> QED
  BY <1>1, <1>2 DEF d

\* Between two multiples of the cycle every order occurs.
LEMMA WholeCycle ==
  ASSUME orders \in Balanced, NEW q \in Nat, Cycle * q + Cycle <= Blocks, NEW p \in Permuted
  PROVE  \E k \in 0..(Blocks - 1) : k \div Cycle = q /\ orders[k + 1] = p
<1> DEFINE first == Cycle * q
           S == first..(first + Cycle - 1)
           f == [k \in S |-> orders[k + 1]]
<1>1. IsFiniteSet(Permuted) /\ Cycle \in Nat \ {0} /\ first \in Nat
  BY OrdersAreFinite
<1>2. \A k \in S : k \in 0..(Blocks - 1) /\ k + 1 \in 1..Blocks /\ k \div Cycle = q
  <2> SUFFICES ASSUME NEW k \in S
               PROVE  k \in 0..(Blocks - 1) /\ k + 1 \in 1..Blocks /\ k \div Cycle = q
    OBVIOUS
  <2>1. k \in Nat /\ Cycle * q <= k /\ k < Cycle * q + Cycle
    BY <1>1
  <2>2. k \div Cycle = q
    BY <1>1, <2>1, QuotientOf
  <2>3. k < Blocks
    BY <1>1, <2>1, BoundsAssumption
  <2> QED
    BY <2>1, <2>2, <2>3, BoundsAssumption
<1>3. Cardinality(S) = Cycle
  <2>1. first + Cycle - 1 \in Int /\ ~(first > first + Cycle - 1)
        /\ (first + Cycle - 1) - first + 1 = Cycle
    BY <1>1
  <2> HIDE DEF first
  <2> QED
    BY <1>1, <2>1, FS_Interval
<1>4. orders \in [1..Blocks -> Permuted]
      /\ \A i, j \in 1..Blocks :
           i # j /\ (i - 1) \div Cycle = (j - 1) \div Cycle => orders[i] # orders[j]
  BY DEF Balanced
<1>5. f \in [S -> Permuted]
  <2>1. \A k \in S : orders[k + 1] \in Permuted
    BY <1>2, <1>4
  <2> HIDE DEF S
  <2> QED
    BY <2>1
<1>6. ASSUME NEW k \in S, NEW l \in S, f[k] = f[l]
      PROVE  k = l
  <2>1. k \in Nat /\ l \in Nat /\ (k + 1) - 1 = k /\ (l + 1) - 1 = l
    BY <1>2
  <2>2. orders[k + 1] = orders[l + 1]
    BY <1>6
  <2>3. k + 1 = l + 1
    BY <1>2, <1>4, <2>1, <2>2
  <2> QED
    BY <2>1, <2>3
<1> HIDE DEF S
<1>7. \A x \in Permuted : \E k \in S : f[k] = x
  <2> HIDE DEF f
  <2> QED
    BY <1>1, <1>3, <1>5, <1>6, Counting DEF Cycle
<1>8. PICK k \in S : orders[k + 1] = p
  BY <1>7
<1> QED
  BY <1>2, <1>8

\* Blocks of one cycle with the same order are one.
LEMMA OneOfACycle ==
  ASSUME orders \in Balanced, NEW k \in 0..(Blocks - 1), NEW l \in 0..(Blocks - 1),
         k \div Cycle = l \div Cycle, orders[k + 1] = orders[l + 1]
  PROVE  k = l
<1>1. k + 1 \in 1..Blocks /\ l + 1 \in 1..Blocks /\ (k + 1) - 1 = k /\ (l + 1) - 1 = l
  BY BoundsAssumption
<1>2. k + 1 = l + 1
  BY <1>1 DEF Balanced
<1> QED
  BY <1>2

\* The block of a measurement, the order of that block, and two measurements in
\* one cycle whose blocks run in orders with a and b exchanged.
BlockAt(i) == output[i].record.block

OrderAt(i) == orders[BlockAt(i) + 1]

Partner(i, j, a, b) ==
  /\ BlockAt(i) \div Cycle = BlockAt(j) \div Cycle
  /\ OrderAt(j) = Exchanged(OrderAt(i), a, b)

\* Who came first is a matter of the block's order.
LEMMA OrderOfBlock ==
  ASSUME IInv, NEW a \in Solvers, NEW i \in Series(a)
  PROVE  /\ BlockAt(i) \in 0..(Blocks - 1)
         /\ OrderAt(i) \in Permuted
         /\ output[i].record.position \in Int
         /\ output[i].record.position + 1 \in 1..Subjects
         /\ OrderAt(i)[output[i].record.position + 1] = a
<1>1. /\ i \in DOMAIN output /\ output[i].record.solver = a
  BY DEF Series
<1>2. /\ BlockAt(i) \in 0..(Blocks - 1)
      /\ output[i].record.position \in 0..(Subjects - 1)
      /\ OrderAt(i)[output[i].record.position + 1] = a
  BY <1>1, Planned DEF OrderAt, BlockAt
<1>3. BlockAt(i) + 1 \in 1..Blocks
  BY <1>2, BoundsAssumption
<1>4. OrderAt(i) \in Permuted
  BY <1>3 DEF OrderAt, IInv, TypeInv, Balanced
<1>5. output[i].record.position + 1 \in 1..Subjects
  <2>1. \A q \in 0..(Subjects - 1) : q + 1 \in 1..Subjects
    BY RequiredAssumption
  <2> QED
    BY <1>2, <2>1
<1>6. output[i].record.position \in Int
  BY <1>2
<1> QED
  BY <1>2, <1>4, <1>5, <1>6

\* Where a's measurement came before b's, the order of the block runs a first.
LEMMA LedOrder ==
  ASSUME IInv, NEW a \in Solvers, NEW b \in Solvers, NEW i \in LedPlaces(a, b)
  PROVE  i \in Series(a) /\ OrderAt(i) \in OrdersAhead(a, b)
<1>1. PICK j \in Series(b) : /\ BlockAt(i) = BlockAt(j)
                             /\ output[i].record.position < output[j].record.position
  BY DEF LedPlaces, BlockAt
<1>2. i \in Series(a)
  BY DEF LedPlaces
<1>3. OrderAt(j) = OrderAt(i)
  BY <1>1 DEF OrderAt
<1> DEFINE x == output[i].record.position + 1
           y == output[j].record.position + 1
<1>4. /\ x \in 1..Subjects /\ y \in 1..Subjects /\ x < y
      /\ OrderAt(i)[x] = a /\ OrderAt(i)[y] = b
  BY <1>1, <1>2, <1>3, OrderOfBlock
<1>5. OrderAt(i) \in Permuted
  BY <1>2, OrderOfBlock
<1> QED
  BY <1>2, <1>4, <1>5 DEF OrdersAhead, Ahead

\* In a block of both series whose order runs b first, b's came before a's.
LEMMA OrderLed ==
  ASSUME IInv, NEW a \in Solvers, NEW b \in Solvers, Comparable(Series(a), Series(b)),
         NEW k \in BlocksOf(Series(a)), Ahead(orders[k + 1], b, a)
  PROVE  \E j \in LedPlaces(b, a) : BlockAt(j) = k
<1>1. PICK i \in Series(a) : BlockAt(i) = k
  BY DEF BlocksOf, BlockAt
<1>2. PICK j \in Series(b) : BlockAt(j) = k
  <2>1. k \in BlocksOf(Series(b))
    BY DEF Comparable
  <2> QED
    BY <2>1 DEF BlocksOf, BlockAt
<1> DEFINE p == orders[k + 1]
<1>3. PICK x \in 1..Subjects, y \in 1..Subjects : x < y /\ p[x] = b /\ p[y] = a
  BY DEF Ahead
<1>4. p \in Permuted /\ OrderAt(i) = p /\ OrderAt(j) = p
  BY <1>1, <1>2, OrderOfBlock DEF OrderAt
<1>5. output[i].record.position + 1 = y
  BY <1>3, <1>4, OrderOfBlock DEF Permuted
<1>6. output[j].record.position + 1 = x
  BY <1>3, <1>4, OrderOfBlock DEF Permuted
<1>7. output[j].record.position < output[i].record.position
  BY <1>3, <1>5, <1>6, OrderOfBlock
<1> QED
  BY <1>1, <1>2, <1>7 DEF LedPlaces, BlockAt

\* A block without a partner lies in the last cycle: of a cycle that was left
\* behind every block is in the output.
LEMMA PartnerOfLeftCycle ==
  ASSUME IInv, NEW a \in Solvers, NEW b \in Solvers, Comparable(Series(a), Series(b)),
         NEW x \in LedPlaces(a, b), NEW y \in LedPlaces(a, b),
         BlockAt(x) \div Cycle < BlockAt(y) \div Cycle
  PROVE  \E j \in LedPlaces(b, a) : Partner(x, j, a, b)
<1> DEFINE q == BlockAt(x) \div Cycle
           r == BlockAt(y) \div Cycle
           p == Exchanged(OrderAt(x), a, b)
<1>1. orders \in Balanced /\ Cycle \in Nat \ {0}
  BY OrdersAreFinite DEF IInv, TypeInv
<1>2. /\ x \in Series(a) /\ y \in Series(a)
      /\ OrderAt(x) \in Permuted /\ Ahead(OrderAt(x), a, b)
  BY LedOrder DEF OrdersAhead
<1>3. BlockAt(x) \in Nat /\ BlockAt(y) \in Nat /\ BlockAt(y) < Blocks
  BY <1>2, OrderOfBlock, BoundsAssumption
<1>4. p \in Permuted /\ Ahead(p, b, a)
  BY <1>2, ExchangedOrder
<1>5. q \in Nat /\ r \in Nat /\ q < r /\ Cycle * r <= BlockAt(y)
  BY <1>1, <1>3, RoundedDown
<1> HIDE DEF q, r, p
<1>6. Cycle * q + Cycle <= Cycle * r
  <2>1. \A u, v \in Nat : u < v => Cycle * u + Cycle <= Cycle * v
    BY <1>1
  <2> QED
    BY <1>5, <2>1
<1>7. Cycle * q + Cycle <= Blocks
  <2>1. Cycle * q \in Nat /\ Cycle * r \in Nat
    BY <1>1, <1>5
  <2> QED
    BY <1>1, <1>3, <1>5, <1>6, <2>1, BoundsAssumption
<1>8. PICK k \in 0..(Blocks - 1) : k \div Cycle = q /\ orders[k + 1] = p
  BY <1>1, <1>4, <1>5, <1>7, WholeCycle
<1>9. k \in 0..BlockAt(y)
  <2>1. k \in Nat /\ k < Cycle * q + Cycle
    BY <1>1, <1>8, RoundedDown, BoundsAssumption
  <2>2. Cycle * q \in Nat /\ Cycle * r \in Nat
    BY <1>1, <1>5
  <2> QED
    BY <1>1, <1>3, <1>5, <1>6, <2>1, <2>2
<1>10. k \in BlocksOf(Series(a))
  <2>1. k \in 0..output[y].record.block
    BY <1>9 DEF BlockAt
  <2> QED
    BY <1>2, <2>1, EarlierBlock DEF BlocksOf
<1>11. PICK j \in LedPlaces(b, a) : BlockAt(j) = k
  BY <1>4, <1>8, <1>10, OrderLed
<1> QED
  BY <1>8, <1>11 DEF Partner, OrderAt, q, p

\* Places with one partner, and places in one cycle with one order, are one.
LEMMA OnePlace ==
  ASSUME IInv, NEW a \in Solvers, Frozen(Series(a)), NEW x \in Series(a), NEW y \in Series(a),
         BlockAt(x) \div Cycle = BlockAt(y) \div Cycle, OrderAt(x) = OrderAt(y)
  PROVE  x = y
<1>1. BlockAt(x) \in 0..(Blocks - 1) /\ BlockAt(y) \in 0..(Blocks - 1)
  BY OrderOfBlock
<1>2. BlockAt(x) = BlockAt(y)
  BY <1>1, OneOfACycle DEF OrderAt, IInv, TypeInv
<1> QED
  BY <1>2 DEF Frozen, BlockAt

\* Two measurements of a series with the same partner are one.
LEMMA OnePartner ==
  ASSUME IInv, NEW a \in Solvers, NEW b \in Solvers, Frozen(Series(a)),
         NEW x \in Series(a), NEW y \in Series(a), NEW j,
         Partner(x, j, a, b), Partner(y, j, a, b)
  PROVE  x = y
<1>1. OrderAt(x) \in Permuted /\ OrderAt(y) \in Permuted
  BY OrderOfBlock
<1>2. /\ BlockAt(x) \div Cycle = BlockAt(y) \div Cycle
      /\ Exchanged(OrderAt(x), a, b) = Exchanged(OrderAt(y), a, b)
  BY DEF Partner
<1>3. OrderAt(x) = OrderAt(y)
  BY <1>1, <1>2, ExchangedOrder
<1> QED
  BY <1>2, <1>3, OnePlace

\* Of two comparable series neither led in half a cycle more blocks than the
\* other: the blocks it led in have a partner, or different orders that lead.
LEMMA BalancedLead ==
  ASSUME IInv, NEW a \in Solvers, NEW b \in Solvers, Comparable(Series(a), Series(b))
  PROVE  Led(a, b) - Led(b, a) <= Cycle \div 2
<1> DEFINE L == LedPlaces(a, b)
           M == LedPlaces(b, a)
           Paired == {i \in L : \E j \in M : Partner(i, j, a, b)}
           Rest == L \ Paired
           f == [i \in Paired |-> CHOOSE j \in M : Partner(i, j, a, b)]
           g == [i \in Rest |-> OrderAt(i)]
           H == OrdersAhead(a, b)
<1>1. IsFiniteSet(L) /\ IsFiniteSet(M)
  <2>1. PICK S : output \in Seq(S)
    BY DEF IInv, TypeInv, IsFile
  <2>2. DOMAIN output = 1..Len(output) /\ Len(output) \in Int
    BY <2>1
  <2>3. IsFiniteSet(DOMAIN output)
    BY <2>2, FS_Interval
  <2>4. L \in SUBSET DOMAIN output /\ M \in SUBSET DOMAIN output
    BY DEF LedPlaces, Series
  <2> QED
    BY <2>3, <2>4, FS_Subset
<1>2. orders \in Balanced /\ Cycle \in Nat \ {0}
  BY OrdersAreFinite DEF IInv, TypeInv
<1>3. IsFiniteSet(H) /\ Cardinality(H) <= Cycle \div 2
  BY <1>2, HalfOfTheOrders
<1>4. Frozen(Series(a))
  BY DEF Comparable
<1>5. \A i \in L : i \in Series(a) /\ OrderAt(i) \in H
  BY LedOrder
<1>6. \A i \in Paired : f[i] \in M /\ Partner(i, f[i], a, b)
  <2>1. \A i \in Paired : \E j \in M : Partner(i, j, a, b)
    OBVIOUS
  <2> HIDE DEF Paired, M
  <2> QED
    BY <2>1
<1>7. f \in [Paired -> M]
  <2> HIDE DEF Paired, M
  <2> QED
    BY <1>6
<1>8. ASSUME NEW x \in Paired, NEW y \in Paired, f[x] = f[y]
      PROVE  x = y
  <2>1. Partner(x, f[x], a, b) /\ Partner(y, f[x], a, b)
    BY <1>6, <1>8
  <2>2. x \in Series(a) /\ y \in Series(a)
    BY <1>5
  <2> HIDE DEF f
  <2> QED
    BY <1>4, <2>1, <2>2, OnePartner
<1>9. g \in [Rest -> H]
  BY <1>5
<1>10. ASSUME NEW x \in Rest, NEW y \in Rest, g[x] = g[y]
       PROVE  x = y
  <2>1. /\ x \in L /\ ~\E j \in M : Partner(x, j, a, b)
        /\ y \in L /\ ~\E j \in M : Partner(y, j, a, b)
    OBVIOUS
  <2>2. x \in Series(a) /\ y \in Series(a) /\ OrderAt(x) = OrderAt(y)
    BY <1>5, <1>10
  <2>3. /\ ~(BlockAt(x) \div Cycle < BlockAt(y) \div Cycle)
        /\ ~(BlockAt(y) \div Cycle < BlockAt(x) \div Cycle)
    BY <2>1, PartnerOfLeftCycle
  <2>4. BlockAt(x) \div Cycle \in Nat /\ BlockAt(y) \div Cycle \in Nat
    <3>1. BlockAt(x) \in Nat /\ BlockAt(y) \in Nat
      BY <2>2, OrderOfBlock, BoundsAssumption
    <3> QED
      BY <1>2, <3>1, RoundedDown
  <2>5. BlockAt(x) \div Cycle = BlockAt(y) \div Cycle
    BY <2>3, <2>4
  <2> QED
    BY <1>4, <2>2, <2>5, OnePlace
<1>11. Paired \union Rest = L /\ Paired \intersect Rest = {}
  OBVIOUS
<1>12. Led(a, b) = Cardinality(L) /\ Led(b, a) = Cardinality(M)
  BY DEF Led
<1> HIDE DEF L, M, Paired, Rest, f, g, H
<1>13. /\ IsFiniteSet(Paired) /\ Cardinality(Paired) \in Nat
       /\ Cardinality(M) \in Nat /\ Cardinality(Paired) <= Cardinality(M)
  BY <1>1, <1>7, <1>8, Counting
<1>14. /\ IsFiniteSet(Rest) /\ Cardinality(Rest) \in Nat
       /\ Cardinality(H) \in Nat /\ Cardinality(Rest) <= Cardinality(H)
  BY <1>3, <1>9, <1>10, Counting
<1>15. Cardinality(L) = Cardinality(Paired) + Cardinality(Rest)
  <2>1. Cardinality(Paired \intersect Rest) = 0
    BY <1>11, FS_EmptySet
  <2>2. Cardinality(Paired \union Rest) =
          Cardinality(Paired) + Cardinality(Rest) - Cardinality(Paired \intersect Rest)
    BY <1>13, <1>14, FS_Union
  <2>3. Cardinality(L) = Cardinality(Paired) + Cardinality(Rest) - 0
    BY <1>11, <2>1, <2>2
  <2> QED
    BY <1>13, <1>14, <2>3
<1>16. Cycle \div 2 \in Int
  BY <1>2
<1> QED
  BY <1>3, <1>12, <1>13, <1>14, <1>15, <1>16

\* However often a campaign was started on the same files and wherever it died,
\* two series require_comparable_pairs admits come from one session, as planned
\* and without a gap, and neither led in half a cycle more blocks than the other.
THEOREM ComparableIsOneSessionHolds == Spec => []ComparableIsOneSession
<1>1. IInv => ComparableIsOneSession
  BY PairOfOneSession, BalancedLead DEF ComparableIsOneSession
<1> QED
  BY <1>1, Inductive, PTL

------------------------------------------------------------------------------
\* The invocation a record of a measurement is of.
TurnOf(r) == Subjects * r.block + r.position

\* The measurements of a session follow its turns.
InOrder(file) ==
  \A i, k \in DOMAIN file :
    LET r == file[i].record
        e == file[k].record
    IN i < k /\ Made(r) /\ Made(e) /\ r.session = e.session => TurnOf(r) < TurnOf(e)

\* What the session in progress has measured is before this turn.
UpTo(file, n) ==
  \A i \in DOMAIN file :
    LET r == file[i].record IN
    Made(r) /\ r.session = session => phase = "measurement" /\ TurnOf(r) < n

\* All the session did before this record is in the output.
Preceded(r, file) ==
  \A n \in 0..(TurnOf(r) - 1) :
    \E i \in DOMAIN file : file[i].record.session = r.session /\ TurnOf(file[i].record) = n

Transcribed(r, file) == Made(r) /\ \E j \in DOMAIN file : file[j].record = r

\* The inductive invariant of the evidence: what both files hold of a session,
\* and how far the session in progress is.
FilesInv ==
  /\ \A j \in DOMAIN transcript :
       LET r == transcript[j].record IN
       Made(r) => r.session \in 1..session /\ TurnOf(r) \in Nat /\ Preceded(r, output)
  /\ \A i \in DOMAIN output : Transcribed(output[i].record, transcript)
  /\ InOrder(transcript)
  /\ InOrder(output)

ProgressInv ==
  /\ phase \in {"idle", "policy"} => step = "invoke"
  /\ phase # "idle" =>
       /\ UpTo(output, turn)
       /\ UpTo(transcript, IF step = "judge" THEN turn + 1 ELSE turn)
  /\ phase = "measurement" /\ step = "judge" /\ Passes => Transcribed(Evidence, transcript)

EInv == FilesInv /\ ProgressInv

\* What a file holds after an append: what it held, and e in a new last place.
GrownBy(new, file, e) ==
  /\ \A i \in DOMAIN file : i \in DOMAIN new /\ new[i] = file[i]
  /\ \E n \in Nat :
       /\ \A i \in DOMAIN file : i \in 1..n
       /\ \A i \in DOMAIN new : i \in DOMAIN file \/ i = n + 1
       /\ n + 1 \in DOMAIN new /\ new[n + 1].record = e

\* append_raw_record, whole or cut short, grows a file by one entry.
LEMMA Grown ==
  ASSUME NEW file, IsFile(file), NEW e, NEW cut, NEW new, new = Written(file, e, cut)
  PROVE  GrownBy(new, file, e)
<1>1. \A i \in DOMAIN file : i \in DOMAIN new /\ new[i] = file[i]
  BY Kept
<1>2. /\ Len(file) \in Nat /\ DOMAIN file = 1..Len(file)
      /\ DOMAIN new = 1..(Len(file) + 1)
      /\ new[Len(file) + 1] = [record |-> e, cut |-> cut]
  BY Appended
<1> DEFINE n == Len(file)
<1>3. /\ n \in Nat
      /\ \A i \in DOMAIN file : i \in 1..n
      /\ \A i \in DOMAIN new : i \in DOMAIN file \/ i = n + 1
      /\ n + 1 \in DOMAIN new /\ new[n + 1].record = e
  BY <1>2
<1> HIDE DEF n
<1> QED
  BY <1>1, <1>3 DEF GrownBy

\* An append of a later turn leaves a file in order.
LEMMA GrownInOrder ==
  ASSUME NEW file, NEW e, NEW new, GrownBy(new, file, e),
         InOrder(file),
         \A i \in DOMAIN file :
           Made(file[i].record) /\ Made(e) /\ file[i].record.session = e.session
             => TurnOf(file[i].record) < TurnOf(e)
  PROVE  InOrder(new)
<1>1. \A i \in DOMAIN file : i \in DOMAIN new /\ new[i] = file[i]
  BY DEF GrownBy
<1>2. PICK n \in Nat :
        /\ \A i \in DOMAIN file : i \in 1..n
        /\ \A i \in DOMAIN new : i \in DOMAIN file \/ i = n + 1
        /\ n + 1 \in DOMAIN new /\ new[n + 1].record = e
  BY DEF GrownBy
<1> SUFFICES ASSUME NEW i \in DOMAIN new, NEW k \in DOMAIN new, i < k,
                    Made(new[i].record), Made(new[k].record),
                    new[i].record.session = new[k].record.session
             PROVE  TurnOf(new[i].record) < TurnOf(new[k].record)
  BY DEF InOrder
<1>3. i \in DOMAIN file
  BY <1>2
<1>4. CASE k \in DOMAIN file
  BY <1>1, <1>3, <1>4 DEF InOrder
<1>5. CASE k = n + 1
  BY <1>1, <1>2, <1>3, <1>5
<1> QED
  BY <1>2, <1>4, <1>5

\* What preceded a record still does after an append.
LEMMA StillPreceded ==
  ASSUME NEW file, NEW e, NEW new, GrownBy(new, file, e),
         NEW r, Preceded(r, file)
  PROVE  Preceded(r, new)
BY DEF GrownBy, Preceded

\* What was transcribed still is, and a measurement appended is.
LEMMA StillTranscribed ==
  ASSUME NEW file, NEW e, NEW new, GrownBy(new, file, e)
  PROVE  /\ \A r : Transcribed(r, file) => Transcribed(r, new)
         /\ Made(e) => Transcribed(e, new)
BY DEF GrownBy, Transcribed

\* What a measurement is about to leave behind is of its turn, and preceded.
LEMMA EvidenceOfTurn ==
  ASSUME IInv, phase = "measurement"
  PROVE  /\ Evidence.session = session /\ session \in 1..session
         /\ turn \in Nat /\ TurnOf(Evidence) = turn
         /\ Preceded(Evidence, output)
         /\ Passes => Made(Evidence)
<1>1. /\ session \in Nat /\ session >= 1 /\ turn \in 0..(MeasurementTurns - 1)
      /\ turn \in Nat
      /\ \A m \in 0..(turn - 1) : Holds(output, orders, session, m)
  <2>1. MeasurementTurns \in Int
    BY RequiredAssumption, BoundsAssumption DEF MeasurementTurns
  <2> QED
    BY <2>1 DEF IInv, TypeInv, RunningInv
<1>2. \A n \in 0..(MeasurementTurns - 1) : \A r : RecordOf(r, orders, n) => TurnOf(r) = n
  BY PlaceOfTurn DEF RecordOf, TurnOf
<1>3. Evidence.session = session /\ RecordOf(Evidence, orders, turn)
  BY DEF Evidence, RecordOf, Subject, Block, Position
<1>4. TurnOf(Evidence) = turn
  BY <1>1, <1>2, <1>3
<1>5. Preceded(Evidence, output)
  <2> SUFFICES ASSUME NEW n \in 0..(turn - 1)
               PROVE  \E i \in DOMAIN output :
                        output[i].record.session = session /\ TurnOf(output[i].record) = n
    BY <1>3, <1>4 DEF Preceded
  <2>1. PICK i \in DOMAIN output :
          output[i].record.session = session /\ RecordOf(output[i].record, orders, n)
    BY <1>1 DEF Holds
  <2>2. n \in 0..(MeasurementTurns - 1)
    <3>1. MeasurementTurns \in Int
      BY RequiredAssumption, BoundsAssumption DEF MeasurementTurns
    <3> QED
      BY <1>1, <3>1
  <2> QED
    BY <1>2, <2>1, <2>2
<1>6. Passes => Made(Evidence)
  <2>1. /\ Evidence.phase = "measurement"
        /\ Evidence.status = IF answer \in Successes THEN "success" ELSE answer
    BY DEF Evidence
  <2> QED
    BY <2>1 DEF Made, Passes
<1> QED
  BY <1>1, <1>3, <1>4, <1>5, <1>6


------------------------------------------------------------------------------
\* Nothing written.
LEMMA FilesKept ==
  ASSUME FilesInv, output' = output, transcript' = transcript,
         session \in Nat, session' \in Nat, session <= session'
  PROVE  FilesInv'
BY DEF FilesInv

\* A line of the transcript that claims no measurement, or claims the one the
\* session in progress has come to.
LEMMA TranscriptGrows ==
  ASSUME IInv, FilesInv, output' = output, session' = session,
         NEW e, NEW cut, transcript' = Written(transcript, e, cut),
         Made(e) =>
           /\ e.session = session /\ session \in 1..session
           /\ TurnOf(e) \in Nat /\ Preceded(e, output) /\ UpTo(transcript, TurnOf(e))
  PROVE  FilesInv'
<1> DEFINE new == transcript'
<1>1. IsFile(transcript)
  BY DEF IInv, TypeInv
<1>2. GrownBy(new, transcript, e)
  BY <1>1, Grown
<1>3. \A i \in DOMAIN transcript : i \in DOMAIN new /\ new[i] = transcript[i]
  BY <1>2 DEF GrownBy
<1>4. PICK n \in Nat :
        /\ \A i \in DOMAIN transcript : i \in 1..n
        /\ \A i \in DOMAIN new : i \in DOMAIN transcript \/ i = n + 1
        /\ n + 1 \in DOMAIN new /\ new[n + 1].record = e
  BY <1>2 DEF GrownBy
<1>5. new = transcript'
  OBVIOUS
<1> HIDE DEF new
<1>6. InOrder(new)
  BY <1>2, GrownInOrder DEF FilesInv, UpTo
<1>7. \A i \in DOMAIN output : Transcribed(output[i].record, new)
  BY <1>2, StillTranscribed DEF FilesInv
<1>8. \A j \in DOMAIN new :
        Made(new[j].record) =>
          /\ new[j].record.session \in 1..session
          /\ TurnOf(new[j].record) \in Nat /\ Preceded(new[j].record, output)
  BY <1>3, <1>4 DEF FilesInv
<1> QED
  BY <1>5, <1>6, <1>7, <1>8 DEF FilesInv

\* A record of the output, whole or cut.
LEMMA OutputGrowsInOrder ==
  ASSUME IInv, FilesInv, ProgressInv, transcript' = transcript, session' = session,
         phase = "measurement", step = "judge", Passes,
         NEW cut, output' = Written(output, Evidence, cut)
  PROVE  FilesInv'
<1>1. IsFile(output)
  BY DEF IInv, TypeInv
<1> DEFINE e == Evidence
           new == output'
<1>2. /\ e.session = session /\ session \in 1..session
      /\ turn \in Nat /\ TurnOf(e) = turn /\ Made(e)
  BY EvidenceOfTurn
<1>3. UpTo(output, turn) /\ Transcribed(e, transcript)
  BY DEF ProgressInv
<1>4. GrownBy(new, output, e) /\ new = output'
  BY <1>1, Grown
<1> HIDE DEF e, new
<1>5. \A i \in DOMAIN output : i \in DOMAIN new /\ new[i] = output[i]
  BY <1>4 DEF GrownBy
<1>6. PICK n \in Nat :
        /\ \A i \in DOMAIN output : i \in 1..n
        /\ \A i \in DOMAIN new : i \in DOMAIN output \/ i = n + 1
        /\ n + 1 \in DOMAIN new /\ new[n + 1].record = e
  BY <1>4 DEF GrownBy
<1>7. InOrder(new)
  BY <1>2, <1>3, <1>4, GrownInOrder DEF FilesInv, UpTo
<1>8. \A i \in DOMAIN new : Transcribed(new[i].record, transcript)
  BY <1>3, <1>5, <1>6 DEF FilesInv
<1>9. \A r : Preceded(r, output) => Preceded(r, new)
  BY <1>4, StillPreceded
<1>10. \A j \in DOMAIN transcript :
         Made(transcript[j].record) =>
           /\ transcript[j].record.session \in 1..session
           /\ TurnOf(transcript[j].record) \in Nat
           /\ Preceded(transcript[j].record, new)
  BY <1>9 DEF FilesInv
<1>11. InOrder(transcript)
  BY DEF FilesInv
<1> QED
  BY <1>4, <1>7, <1>8, <1>10, <1>11 DEF FilesInv

\* What the session has in a file after the append.
LEMMA GrownUpTo ==
  ASSUME NEW file, NEW e, NEW new, GrownBy(new, file, e),
         NEW n \in Nat, UpTo(file, n),
         Made(e) /\ e.session = session => phase = "measurement" /\ TurnOf(e) = n,
         \A i \in DOMAIN file :
           Made(file[i].record) => TurnOf(file[i].record) \in Nat
  PROVE  UpTo(new, n + 1)
<1>1. \A i \in DOMAIN file : i \in DOMAIN new /\ new[i] = file[i]
  BY DEF GrownBy
<1>2. PICK l \in Nat :
        /\ \A i \in DOMAIN new : i \in DOMAIN file \/ i = l + 1
        /\ l + 1 \in DOMAIN new /\ new[l + 1].record = e
  BY DEF GrownBy
<1> SUFFICES ASSUME NEW i \in DOMAIN new, Made(new[i].record), new[i].record.session = session
             PROVE  phase = "measurement" /\ TurnOf(new[i].record) < n + 1
  BY DEF UpTo
<1>3. CASE i \in DOMAIN file
  <2>1. /\ phase = "measurement" /\ TurnOf(file[i].record) < n
        /\ TurnOf(file[i].record) \in Nat
    BY <1>1, <1>3 DEF UpTo
  <2> QED
    BY <1>1, <1>3, <2>1
<1>4. CASE i = l + 1
  BY <1>2, <1>4
<1> QED
  BY <1>2, <1>3, <1>4

------------------------------------------------------------------------------
\* Every record of the output is of a measurement of a session so far.
LEMMA OutputRecords ==
  ASSUME FilesInv, NEW i \in DOMAIN output
  PROVE  /\ Made(output[i].record)
         /\ output[i].record.session \in 1..session
         /\ TurnOf(output[i].record) \in Nat
BY DEF FilesInv, Transcribed

\* While it does not measure, a session has nothing in a file.
LEMMA NothingYet ==
  ASSUME NEW file, NEW n, UpTo(file, n), phase # "measurement",
         NEW i \in DOMAIN file, Made(file[i].record)
  PROVE  file[i].record.session # session
BY DEF UpTo

\* A session that has ended is past every obligation of ProgressInv.
LEMMA Ended ==
  ASSUME phase' = "idle", step' = "invoke"
  PROVE  ProgressInv'
BY DEF ProgressInv

\* What the transcript line of an invocation does.
LEMMA Transcribing ==
  ASSUME IInv, EInv, step = "transcribe", NEW cut,
         transcript' = Written(transcript, Evidence, cut), output' = output, session' = session
  PROVE  /\ FilesInv'
         /\ GrownBy(transcript', transcript, Evidence)
         /\ UpTo(output, turn) /\ UpTo(transcript, turn)
         /\ Made(Evidence) => phase = "measurement" /\ TurnOf(Evidence) = turn
<1> DEFINE e == Evidence
<1>1. phase # "idle" /\ UpTo(output, turn) /\ UpTo(transcript, turn)
  BY DEF EInv, ProgressInv
<1>2. Made(e) => phase = "measurement"
  BY DEF Evidence, Made
<1>3. Made(e) => /\ e.session = session /\ session \in 1..session
                 /\ TurnOf(e) = turn /\ TurnOf(e) \in Nat /\ Preceded(e, output)
  BY <1>2, EvidenceOfTurn
<1>4. IsFile(transcript)
  BY DEF IInv, TypeInv
<1>5. transcript' = Written(transcript, e, cut)
  OBVIOUS
<1> HIDE DEF e
<1>6. GrownBy(transcript', transcript, e)
  BY <1>4, <1>5, Grown
<1>7. Made(e) => UpTo(transcript, TurnOf(e))
  BY <1>1, <1>3
<1>8. FilesInv'
  BY <1>3, <1>5, <1>7, TranscriptGrows DEF EInv
<1> QED
  BY <1>1, <1>2, <1>3, <1>6, <1>8 DEF e

\* The line of the settled count claims no measurement.
LEMMA PolicyIsNoMeasurement == ~Made(Policy)
BY DEF Policy, Made

\* Before the first session no file holds a measurement.
LEMMA EvidenceInit == Init => EInv
<1> SUFFICES ASSUME Init
             PROVE  EInv
  OBVIOUS
<1>1. DOMAIN output = {} /\ DOMAIN transcript = {}
  BY DEF Init
<1> QED
  BY <1>1 DEF Init, EInv, FilesInv, ProgressInv, InOrder

\* Every step of a campaign, a write cut short included, keeps the evidence.
LEMMA EvidenceStep == IInv /\ EInv /\ [Next]_vars => EInv'
<1> SUFFICES ASSUME IInv, EInv, [Next]_vars
             PROVE  EInv'
  OBVIOUS
<1>0. FilesInv /\ ProgressInv /\ session \in Nat /\ turn \in Nat
      /\ IsFile(output) /\ IsFile(transcript)
  BY DEF EInv, IInv, TypeInv
<1>1. CASE StartCampaign
  <2>1. /\ output' = output /\ transcript' = transcript /\ session' = session + 1
        /\ phase' = "pilot" /\ UNCHANGED <<step, turn>>
    BY <1>1 DEF StartCampaign
  <2>2. FilesInv'
    BY <1>0, <2>1, FilesKept
  <2>3. \A n : UpTo(output, n)'
    BY <1>0, <2>1, OutputRecords DEF UpTo
  <2>4. \A n : UpTo(transcript, n)'
    BY <1>0, <2>1 DEF UpTo, FilesInv
  <2>5. ProgressInv'
    BY <2>1, <2>3, <2>4 DEF ProgressInv, UpTo
  <2> QED
    BY <2>2, <2>5 DEF EInv
<1>2. CASE Invoke
  <2>1. /\ output' = output /\ transcript' = transcript /\ session' = session
        /\ phase' = phase /\ turn' = turn /\ step' = "transcribe" /\ step = "invoke"
        /\ phase \in {"pilot", "measurement"}
    BY <1>2 DEF Invoke
  <2>2. FilesInv'
    BY <1>0, <2>1, FilesKept
  <2>3. UpTo(output, turn) /\ UpTo(transcript, turn)
    BY <1>0, <2>1 DEF ProgressInv
  <2>4. ProgressInv'
    BY <2>1, <2>3 DEF ProgressInv, UpTo
  <2> QED
    BY <2>2, <2>4 DEF EInv
<1>3. CASE Transcribe
  <2>1. /\ transcript' = Written(transcript, Evidence, "whole") /\ step = "transcribe"
        /\ step' = "judge"
        /\ UNCHANGED <<orders, session, phase, turn, count, answer, output>>
    BY <1>3 DEF Transcribe
  <2> DEFINE e == Evidence
  <2>2. /\ FilesInv'
        /\ GrownBy(transcript', transcript, e)
        /\ UpTo(output, turn) /\ UpTo(transcript, turn)
        /\ Made(e) => phase = "measurement" /\ TurnOf(e) = turn
    BY <2>1, Transcribing
  <2>3. e' = e /\ (Passes' <=> Passes)
    BY <2>1 DEF Evidence, Subject, Block, Position, Passes
  <2>4. phase = "measurement" /\ Passes => Made(e)
    BY EvidenceOfTurn
  <2>5. phase # "idle" /\ phase # "policy"
    BY <1>0, <2>1 DEF ProgressInv
  <2> HIDE DEF e
  <2>6. \A i \in DOMAIN transcript :
          Made(transcript[i].record) => TurnOf(transcript[i].record) \in Nat
    BY <1>0 DEF FilesInv
  <2>7. UpTo(transcript', turn + 1)
    BY <1>0, <2>2, <2>6, GrownUpTo
  <2>8. UpTo(transcript, turn + 1)' /\ UpTo(output, turn)'
    BY <2>1, <2>2, <2>7 DEF UpTo
  <2>9. phase = "measurement" /\ Passes => Transcribed(e, transcript')
    BY <2>2, <2>4, StillTranscribed
  <2>10. ProgressInv'
    <3>1. phase' = "measurement" /\ Passes' => Transcribed(e', transcript')
      BY <2>1, <2>3, <2>9
    <3>2. phase' \notin {"idle", "policy"} /\ step' = "judge" /\ turn' = turn
      BY <2>1, <2>5
    <3>3. UpTo(output, turn)' /\ UpTo(transcript, IF step = "judge" THEN turn + 1 ELSE turn)'
      BY <2>8, <3>2
    <3> QED
      BY <3>1, <3>2, <3>3 DEF ProgressInv, e
  <2> QED
    BY <2>2, <2>10 DEF EInv
<1>4. CASE Refuse \/ GiveUpPilot \/ Die
  <2>1. /\ UNCHANGED <<session, transcript, output>>
        /\ phase' = "idle" /\ step' = "invoke"
    BY <1>4 DEF Refuse, GiveUpPilot, Die, End
  <2> QED
    BY <1>0, <2>1, FilesKept, Ended DEF EInv
<1>5. CASE NextPilot \/ NextRound \/ SettleCount
  <2>1. /\ UNCHANGED <<session, transcript, output>>
        /\ phase = "pilot" /\ phase' \in {"pilot", "policy"} /\ step' = "invoke"
    BY <1>5 DEF NextPilot, NextRound, SettleCount, Proceed
  <2>2. FilesInv'
    BY <1>0, <2>1, FilesKept
  <2>3. (\E n : UpTo(output, n)) /\ (\E n : UpTo(transcript, n))
    BY <1>0, <2>1 DEF ProgressInv
  <2>4. \A n : UpTo(output, n)' /\ UpTo(transcript, n)'
    BY <2>1, <2>3, NothingYet DEF UpTo
  <2>5. ProgressInv'
    BY <2>1, <2>4 DEF ProgressInv
  <2> QED
    BY <2>2, <2>5 DEF EInv
<1>6. CASE RecordPolicy
  <2>1. /\ transcript' = Written(transcript, Policy, "whole") /\ phase = "policy"
        /\ phase' = "measurement"
        /\ UNCHANGED <<session, step, turn, output>>
    BY <1>6 DEF RecordPolicy
  <2> DEFINE e == Policy
  <2>2. ~Made(e)
    BY PolicyIsNoMeasurement
  <2>3. transcript' = Written(transcript, e, "whole")
    BY <2>1
  <2> HIDE DEF e
  <2>4. FilesInv'
    BY <1>0, <2>1, <2>2, <2>3, TranscriptGrows
  <2>5. GrownBy(transcript', transcript, e)
    BY <1>0, <2>3, Grown
  <2>6. step = "invoke" /\ UpTo(output, turn) /\ UpTo(transcript, turn)
    BY <1>0, <2>1 DEF ProgressInv
  <2>7. UpTo(output, turn)'
    BY <2>1, <2>6 DEF UpTo
  <2>8. UpTo(transcript, turn)'
    BY <2>1, <2>2, <2>5, <2>6 DEF UpTo, GrownBy
  <2>9. ProgressInv'
    BY <2>1, <2>6, <2>7, <2>8 DEF ProgressInv
  <2> QED
    BY <2>4, <2>9 DEF EInv
<1>7. CASE RecordMeasurement
  <2>1. /\ output' = Written(output, Evidence, "whole")
        /\ phase = "measurement" /\ step = "judge" /\ Passes
        /\ UNCHANGED <<session, transcript>>
        /\ step' = "invoke"
        /\ \/ turn' = turn + 1 /\ phase' = phase
           \/ phase' = "idle"
    BY <1>7 DEF RecordMeasurement, Proceed, End
  <2>2. FilesInv'
    BY <1>0, <2>1, OutputGrowsInOrder
  <2> DEFINE e == Evidence
  <2>3. TurnOf(e) = turn
    BY <2>1, EvidenceOfTurn
  <2>4. output' = Written(output, e, "whole")
    BY <2>1
  <2> HIDE DEF e
  <2>5. GrownBy(output', output, e)
    BY <1>0, <2>4, Grown
  <2>6. UpTo(output, turn) /\ UpTo(transcript, turn + 1)
    BY <1>0, <2>1 DEF ProgressInv
  <2>7. UpTo(output', turn + 1)
    BY <1>0, <2>1, <2>3, <2>5, <2>6, OutputRecords, GrownUpTo
  <2>8. CASE turn' = turn + 1 /\ phase' = phase
    <3>1. UpTo(output, turn)' /\ UpTo(transcript, turn)'
      BY <2>1, <2>6, <2>7, <2>8 DEF UpTo
    <3>2. ProgressInv'
      BY <2>1, <2>8, <3>1 DEF ProgressInv
    <3> QED
      BY <2>2, <3>2 DEF EInv
  <2>9. CASE phase' = "idle"
    BY <2>1, <2>2, <2>9, Ended DEF EInv
  <2> QED
    BY <2>1, <2>8, <2>9
<1>8. ASSUME NEW cut, DieWriting(cut)
      PROVE  EInv'
  <2>1. /\ phase' = "idle" /\ step' = "invoke" /\ session' = session
        /\ \/ /\ step = "transcribe" /\ output' = output
              /\ transcript' = Written(transcript, Evidence, cut)
           \/ /\ output' = output
              /\ transcript' = Written(transcript, Policy, cut)
           \/ /\ phase = "measurement" /\ step = "judge" /\ Passes
              /\ output' = Written(output, Evidence, cut) /\ transcript' = transcript
    BY <1>8 DEF DieWriting, End
  <2>2. ProgressInv'
    BY <2>1, Ended
  <2>3. CASE /\ step = "transcribe" /\ output' = output
             /\ transcript' = Written(transcript, Evidence, cut)
    BY <1>0, <2>1, <2>2, <2>3, Transcribing DEF EInv
  <2>4. CASE output' = output /\ transcript' = Written(transcript, Policy, cut)
    <3>1. FilesInv'
      BY <1>0, <2>1, <2>4, PolicyIsNoMeasurement, TranscriptGrows
    <3> QED
      BY <2>2, <3>1 DEF EInv
  <2>5. CASE /\ phase = "measurement" /\ step = "judge" /\ Passes
             /\ output' = Written(output, Evidence, cut) /\ transcript' = transcript
    <3>1. FilesInv'
      BY <1>0, <2>1, <2>5, OutputGrowsInOrder
    <3> QED
      BY <2>2, <3>1 DEF EInv
  <2> QED
    BY <2>1, <2>3, <2>4, <2>5
<1>9. CASE UNCHANGED vars
  <2>1. /\ UNCHANGED <<orders, session, phase, step, turn, count, answer, transcript, output>>
    BY <1>9 DEF vars
  <2>2. FilesInv'
    BY <1>0, <2>1, FilesKept
  <2>3. Evidence' = Evidence /\ (Passes' <=> Passes)
    BY <2>1 DEF Evidence, Subject, Block, Position, Passes
  <2>4. ProgressInv'
    BY <1>0, <2>1, <2>3 DEF ProgressInv, UpTo
  <2> QED
    BY <2>2, <2>4 DEF EInv
<1> QED
  BY <1>1, <1>2, <1>3, <1>4, <1>5, <1>6, <1>7, <1>8, <1>9 DEF Next

\* Both invariants hold throughout, over all sessions on the files.
LEMMA EvidenceInductive == Spec => [](IInv /\ EInv)
<1>1. Init => IInv /\ EInv
  BY InitInv, EvidenceInit
<1>2. (IInv /\ EInv) /\ [Next]_vars => (IInv /\ EInv)'
  BY StepInv, EvidenceStep
<1> QED
  BY <1>1, <1>2, PTL DEF Spec

\* Two measurements of a session with one turn are one line of the transcript.
LEMMA OneLinePerTurn ==
  ASSUME FilesInv, NEW s, NEW j \in Measured(s), NEW k \in Measured(s)
  PROVE  /\ TurnOf(transcript[j].record) \in Nat /\ TurnOf(transcript[k].record) \in Nat
         /\ j < k => TurnOf(transcript[j].record) < TurnOf(transcript[k].record)
BY DEF FilesInv, InOrder, Measured, PlacesOf

\* A session's record in the output is a line of its transcript, and in order.
LEMMA OutputLines ==
  ASSUME FilesInv, NEW s, NEW i \in PlacesOf(output, s), NEW k \in PlacesOf(output, s)
  PROVE  /\ \E j \in Measured(s) : SameEvidence(i, j)
         /\ i < k => TurnOf(output[i].record) < TurnOf(output[k].record)
<1>1. Transcribed(output[i].record, transcript) /\ Transcribed(output[k].record, transcript)
  BY DEF FilesInv, PlacesOf
<1>2. \E j \in Measured(s) : SameEvidence(i, j)
  BY <1>1 DEF Transcribed, Measured, PlacesOf, SameEvidence
<1>3. i < k => TurnOf(output[i].record) < TurnOf(output[k].record)
  BY <1>1 DEF FilesInv, InOrder, PlacesOf, Transcribed
<1> QED
  BY <1>2, <1>3

\* However often a campaign was started on the same files and wherever it died,
\* in the middle of a write too, append_raw_record has kept of every session
\* the measurements its transcript calls successful, once each, in the order
\* they were made and up to the last but one at least.
THEOREM EvidenceIsKept == Spec => []EvidenceIsRetained
<1>1. ASSUME IInv, EInv
      PROVE  EvidenceIsRetained
  <2> SUFFICES ASSUME NEW s \in 1..session
               PROVE  LET kept == PlacesOf(output, s) IN
                      /\ \A i \in kept : \E j \in Measured(s) : SameEvidence(i, j)
                      /\ \A j \in Measured(s) :
                           (\E k \in Measured(s) : j < k)
                             => \E i \in kept : SameEvidence(i, j)
                      /\ \A i, k \in kept : \A j, l \in Measured(s) :
                           SameEvidence(i, j) /\ SameEvidence(k, l) => (i < k <=> j < l)
    BY DEF EvidenceIsRetained
  <2> DEFINE kept == PlacesOf(output, s)
  <2>0. FilesInv
    BY <1>1 DEF EInv
  <2>1. \A i \in kept : \E j \in Measured(s) : SameEvidence(i, j)
    BY <2>0, OutputLines
  <2>2. \A j, k \in Measured(s) :
          TurnOf(transcript[j].record) = TurnOf(transcript[k].record) => j = k
    <3>1. \A j \in Measured(s) : j \in Int
      <4>1. PICK S : transcript \in Seq(S)
        BY <1>1 DEF IInv, TypeInv, IsFile
      <4> QED
        BY <4>1 DEF Measured, PlacesOf
    <3> QED
      BY <2>0, <3>1, OneLinePerTurn
  <2>3. ASSUME NEW j \in Measured(s), NEW k \in Measured(s), j < k
        PROVE  \E i \in kept : SameEvidence(i, j)
    <3> DEFINE n == TurnOf(transcript[j].record)
    <3>1. n \in Nat /\ TurnOf(transcript[k].record) \in Nat
          /\ n < TurnOf(transcript[k].record)
      BY <2>0, <2>3, OneLinePerTurn
    <3>2. Preceded(transcript[k].record, output) /\ transcript[k].record.session = s
      BY <2>0 DEF FilesInv, Measured, PlacesOf
    <3>3. PICK i \in DOMAIN output :
            output[i].record.session = s /\ TurnOf(output[i].record) = n
      <4>1. n \in 0..(TurnOf(transcript[k].record) - 1)
        BY <3>1
      <4> QED
        BY <3>2, <4>1 DEF Preceded
    <3>4. i \in kept
      BY <3>3 DEF PlacesOf
    <3>5. PICK l \in Measured(s) : SameEvidence(i, l)
      BY <2>1, <3>4
    <3>6. l = j
      BY <2>2, <3>3, <3>5 DEF SameEvidence
    <3> QED
      BY <3>4, <3>5, <3>6
  <2>4. ASSUME NEW i \in kept, NEW k \in kept, NEW j \in Measured(s), NEW l \in Measured(s),
               SameEvidence(i, j), SameEvidence(k, l)
        PROVE  i < k <=> j < l
    <3>1. /\ TurnOf(output[i].record) = TurnOf(transcript[j].record)
          /\ TurnOf(output[k].record) = TurnOf(transcript[l].record)
      BY <2>4 DEF SameEvidence
    <3> DEFINE t == TurnOf(transcript[j].record)
               u == TurnOf(transcript[l].record)
    <3>2. /\ t \in Nat /\ u \in Nat /\ (j < l => t < u) /\ (l < j => u < t)
      BY <2>0, OneLinePerTurn
    <3>3. (i < k => t < u) /\ (k < i => u < t)
      BY <2>0, <3>1, OutputLines
    <3>4. i \in Int /\ k \in Int /\ j \in Int /\ l \in Int
      <4>1. PICK S : transcript \in Seq(S)
        BY <1>1 DEF IInv, TypeInv, IsFile
      <4>2. PICK T : output \in Seq(T)
        BY <1>1 DEF IInv, TypeInv, IsFile
      <4> QED
        BY <4>1, <4>2 DEF Measured, PlacesOf
    <3>5. i = k => t = u
      BY <3>1
    <3>6. j = l => t = u
      OBVIOUS
    <3> HIDE DEF t, u
    <3> QED
      BY <3>2, <3>3, <3>4, <3>5, <3>6
  <2> HIDE DEF kept
  <2> QED
    BY <2>1, <2>3, <2>4 DEF kept
<1>2. IInv /\ EInv => EvidenceIsRetained
  BY <1>1
<1> QED
  BY <1>2, EvidenceInductive, PTL
==============================================================================
