------------------------------ MODULE Campaign ------------------------------
(***************************************************************************)
(* The diagnostic benchmark campaign: mkpp.benchmark.cli.execute_campaign  *)
(* collecting native measurements of one target into append-only evidence, *)
(* and the pairing that decides whether two series may form a ratio.  The  *)
(* campaign has a sampling section; one without it measures a single block *)
(* at count 1, with neither pilots nor policy, and is not modelled.        *)
(*                                                                         *)
(* A session first pilots every solver at a doubling repetition count, then*)
(* measures blocks of all solvers in a seeded order.  Each process leaves a*)
(* line in the transcript before its answer is looked at; a measurement    *)
(* that passes is appended to the output at once.  A session may fail or   *)
(* die anywhere, inside an append too, and another may be started on the   *)
(* same files: they are opened for appending and never rewritten.          *)
(*                                                                         *)
(* A file is a sequence of pieces, one per append.  A piece is "whole", or *)
(* "torn" (the writer died inside the JSON text), or "open" (all the text  *)
(* but not its newline); what is appended after the last two shares their  *)
(* line.                                                                   *)
(***************************************************************************)
EXTENDS Integers, SequencesExt

CONSTANTS
  Required,       \* manifest["required_solvers"], a sequence
  Blocks,         \* sampling["paired_blocks"]
  MinimumBlocks,  \* minimum_blocks of the comparison
  MaximumCount,   \* bound: maximum of paired_repetition_count
  MaxSessions     \* bound: campaigns started on the same output

Solvers   == {Required[i] : i \in DOMAIN Required}
Subjects  == Len(Required)

ASSUME RequiredAssumption ==
  /\ Required \in Seq(Solvers)
  /\ Subjects \in 1..3
  /\ Cardinality(Solvers) = Subjects
ASSUME BoundsAssumption ==
  /\ Blocks \in Nat \ {0}
  /\ MinimumBlocks \in 1..Blocks
  /\ MaximumCount \in Nat \ {0}
  /\ MaxSessions \in Nat

VARIABLES
  orders,     \* balanced_order: for each block the solvers in running order
  session,    \* number of the campaign started last
  phase,      \* what it is doing; "idle" when it has ended
  step,       \* how far the current invocation is
  turn,       \* invocations of this pilot round, or of the measurement, done
  count,      \* the shared repetition count
  long,       \* per solver, pilot samples of this round over the floor
  answer,     \* what the native process returned
  transcript, \* <output>.transcript.jsonl
  output      \* <output>

vars == <<orders, session, phase, step, turn, count, long, answer, transcript, output>>

\* Durations at or over the floor and under it; a process that fails, cannot
\* be started or times out; a process whose answer does not pass validation.
Successes == {"long", "short"}
Answers   == Successes \union {"failed", "invalid"}

\* len(durations) != 3
Observations == 3

------------------------------------------------------------------------------
Permuted == {p \in [1..Subjects -> Solvers] : \A i, j \in 1..Subjects : p[i] = p[j] => i = j}

\* Every full cycle of the orders runs through all permutations once.
Cycle == Cardinality(Permuted)

\* The shuffled permutation cycles balanced_order may return for some seed.
Balanced ==
  {o \in [1..Blocks -> Permuted] :
     \A i, j \in 1..Blocks :
       i # j /\ (i - 1) \div Cycle = (j - 1) \div Cycle => o[i] # o[j]}

PilotTurns       == Subjects * Observations
MeasurementTurns == Subjects * Blocks

\* The solver, block and position of the invocation of this turn.
Subject(p, n) ==
  IF p = "pilot" THEN Required[(n \div Observations) + 1]
  ELSE orders[(n \div Subjects) + 1][(n % Subjects) + 1]
Block(p, n)    == IF p = "pilot" THEN 0 ELSE n \div Subjects
Position(p, n) == IF p = "pilot" THEN 0 ELSE n % Subjects

\* statistics.median(durations) >= minimum_seconds, for every subject
EverySubjectLong(tally) == \A s \in Solvers : 2 * tally[s] > Observations

\* What an invocation leaves behind, in either file; the transcript holds the
\* answer too, whatever it is.  The count is the one asked for: a runner reports
\* what it did, and the checks of the answer do not compare the two, so runners
\* are taken to report truly.
Evidence ==
  [session |-> session, phase |-> phase, solver |-> Subject(phase, turn),
   block |-> Block(phase, turn), position |-> Position(phase, turn), count |-> count,
   status |-> IF answer \in Successes THEN "success" ELSE answer]

\* The line that says which count the pilot settled on.
Policy == [session |-> session, phase |-> "policy", count |-> count]

\* Fault: an answer of a process that returned zero is not validated.
PassesReturned == answer # "failed"

\* validate_requested_evidence and the checks after it
Passes == answer \in Successes

\* append_raw_record
Written(file, record, cut) == Append(file, [record |-> record, cut |-> cut])

------------------------------------------------------------------------------
Init ==
  /\ orders \in Balanced
  /\ session = 0
  /\ phase = "idle"
  /\ step = "invoke"
  /\ turn = 0
  /\ count = 1
  /\ long = [s \in Solvers |-> 0]
  /\ answer = "none"
  /\ transcript = <<>>
  /\ output = <<>>

\* The process is gone, with all it held in memory.
End ==
  /\ phase' = "idle"
  /\ step' = "invoke"
  /\ turn' = 0
  /\ count' = 1
  /\ long' = [s \in Solvers |-> 0]
  /\ answer' = "none"

\* The next invocation follows.
Proceed == step' = "invoke" /\ answer' = "none"

\* python -m mkpp.benchmark.cli --campaign ... --output ...; the same seed gives
\* the same orders, and nothing looks at what an earlier session has left.
StartCampaign ==
  /\ phase = "idle"
  /\ session < MaxSessions
  /\ session' = session + 1
  /\ phase' = "pilot"
  /\ UNCHANGED <<orders, step, turn, count, long, answer, transcript, output>>

\* subprocess.run
Invoke ==
  /\ phase \in {"pilot", "measurement"}
  /\ step = "invoke"
  /\ answer' \in Answers
  /\ step' = "transcribe"
  /\ UNCHANGED <<orders, session, phase, turn, count, long, transcript, output>>

Transcribe ==
  /\ step = "transcribe"
  /\ transcript' = Written(transcript, Evidence, "whole")
  /\ step' = "judge"
  /\ UNCHANGED <<orders, session, phase, turn, count, long, answer, output>>

\* A process that failed or whose answer is no evidence ends the campaign.
Refuse ==
  /\ step = "judge"
  /\ ~Passes
  /\ End
  /\ UNCHANGED <<orders, session, transcript, output>>

\* The samples of this round with the one just judged.
Tally == [long EXCEPT ![Subject(phase, turn)] = @ + IF answer = "long" THEN 1 ELSE 0]

NextPilot ==
  /\ phase = "pilot"
  /\ step = "judge"
  /\ Passes
  /\ turn + 1 < PilotTurns
  /\ long' = Tally
  /\ turn' = turn + 1
  /\ Proceed
  /\ UNCHANGED <<orders, session, phase, count, transcript, output>>

\* A round some subject was too short in is repeated at twice the count, for
\* every subject.
NextRound ==
  /\ phase = "pilot"
  /\ step = "judge"
  /\ Passes
  /\ turn + 1 = PilotTurns
  /\ ~EverySubjectLong(Tally)
  /\ 2 * count <= MaximumCount
  /\ count' = 2 * count
  /\ turn' = 0
  /\ long' = [s \in Solvers |-> 0]
  /\ Proceed
  /\ UNCHANGED <<orders, session, phase, transcript, output>>

\* paired pilot did not reach minimum sample duration
GiveUpPilot ==
  /\ phase = "pilot"
  /\ step = "judge"
  /\ Passes
  /\ turn + 1 = PilotTurns
  /\ ~EverySubjectLong(Tally)
  /\ 2 * count > MaximumCount
  /\ End
  /\ UNCHANGED <<orders, session, transcript, output>>

SettleCount ==
  /\ phase = "pilot"
  /\ step = "judge"
  /\ Passes
  /\ turn + 1 = PilotTurns
  /\ EverySubjectLong(Tally)
  /\ phase' = "policy"
  /\ turn' = 0
  /\ long' = [s \in Solvers |-> 0]
  /\ Proceed
  /\ UNCHANGED <<orders, session, count, transcript, output>>

RecordPolicy ==
  /\ phase = "policy"
  /\ transcript' = Written(transcript, Policy, "whole")
  /\ phase' = "measurement"
  /\ UNCHANGED <<orders, session, step, turn, count, long, answer, output>>

\* append_raw_record(output, result), and on to the next solver or block.
RecordMeasurement ==
  /\ phase = "measurement"
  /\ step = "judge"
  /\ Passes
  /\ output' = Written(output, Evidence, "whole")
  /\ IF turn + 1 < MeasurementTurns
       THEN turn' = turn + 1 /\ Proceed /\ UNCHANGED <<phase, count, long>>
       ELSE End
  /\ UNCHANGED <<orders, session, transcript>>

\* The campaign dies between two of its steps.
Die ==
  /\ phase # "idle"
  /\ End
  /\ UNCHANGED <<orders, session, transcript, output>>

\* It dies, or its disk is full, while the text of a record is being written.
DieWriting(cut) ==
  /\ \/ /\ step = "transcribe"
        /\ transcript' = Written(transcript, Evidence, cut)
        /\ UNCHANGED output
     \/ /\ phase = "policy"
        /\ transcript' = Written(transcript, Policy, cut)
        /\ UNCHANGED output
     \/ /\ phase = "measurement"
        /\ step = "judge"
        /\ Passes
        /\ output' = Written(output, Evidence, cut)
        /\ UNCHANGED transcript
  /\ End
  /\ UNCHANGED <<orders, session>>

Next ==
  \/ StartCampaign
  \/ Invoke
  \/ Transcribe
  \/ Refuse
  \/ NextPilot
  \/ NextRound
  \/ GiveUpPilot
  \/ SettleCount
  \/ RecordPolicy
  \/ RecordMeasurement
  \/ Die
  \/ \E cut \in {"torn", "open"} : DieWriting(cut)

Spec == Init /\ [][Next]_vars

------------------------------------------------------------------------------
\* read_raw_results raises at a line that is not one JSON object: a torn piece,
\* or an open one that something was appended to.
Readable(file) ==
  \A i \in DOMAIN file : file[i].cut = "whole" \/ (file[i].cut = "open" /\ i = Len(file))

Series(solver) == {i \in DOMAIN output : output[i].record.solver = solver}

BlocksOf(series) == {output[i].record.block : i \in series}

\* Fault: a block measured twice is looked up like any other.
FrozenDuplicates(series) ==
  \A i, j \in series : output[i].record.count = output[j].record.count

\* One solver's series: no block twice, nothing about it changed between blocks.
Frozen(series) ==
  \A i, j \in series :
    /\ i # j => output[i].record.block # output[j].record.block
    /\ output[i].record.count = output[j].record.count

\* require_comparable_pairs
Comparable(baseline, candidate) ==
  /\ Readable(output)
  /\ baseline # {} /\ candidate # {}
  /\ Frozen(baseline) /\ Frozen(candidate)
  /\ BlocksOf(baseline) = BlocksOf(candidate)
  /\ Cardinality(BlocksOf(baseline)) >= MinimumBlocks
  /\ \A i \in baseline, j \in candidate :
       /\ output[i].record.count = output[j].record.count
       /\ output[i].record.block = output[j].record.block =>
            output[i].record.position # output[j].record.position

\* The measurements of a that came before b's in their block, and how many.
LedPlaces(a, b) ==
  {i \in Series(a) : \E j \in Series(b) :
     /\ output[i].record.block = output[j].record.block
     /\ output[i].record.position < output[j].record.position}

Led(a, b) == Cardinality(LedPlaces(a, b))

\* Where a file holds the records of session s, and where the transcript holds
\* the measurements it calls successful.
PlacesOf(file, s) == {i \in DOMAIN file : file[i].record.session = s}

Made(r) == r.phase = "measurement" /\ r.status = "success"

Measured(s) == {j \in PlacesOf(transcript, s) : Made(transcript[j].record)}

\* A line of the output and a line of the transcript hold the same.
SameEvidence(i, j) == output[i].record = transcript[j].record

\* Of every session the output holds the measurements the transcript calls
\* successful and no other, once each and in the order they were made; only the
\* last may be missing, to a session that is at it or has ended there.
EvidenceIsRetained ==
  \A s \in 1..session :
    LET kept == PlacesOf(output, s) IN
    /\ \A i \in kept : \E j \in Measured(s) : SameEvidence(i, j)
    /\ \A j \in Measured(s) :
         (\E k \in Measured(s) : j < k) => \E i \in kept : SameEvidence(i, j)
    /\ \A i, k \in kept : \A j, l \in Measured(s) :
         SameEvidence(i, j) /\ SameEvidence(k, l) => (i < k <=> j < l)

\* The measurements of a and b come from one session, in the positions planned
\* for them, at a count that session's pilot settled; no block before a
\* measured one is missing.
OfOneSession(a, b) ==
  /\ \E s \in 1..session :
       \A i \in Series(a) \union Series(b) :
         LET r == output[i].record IN
         /\ r.session = s
         /\ orders[r.block + 1][r.position + 1] = r.solver
         /\ [record |-> [session |-> s, phase |-> "policy", count |-> r.count],
             cut |-> "whole"] \in Range(transcript)
  /\ \A k \in BlocksOf(Series(a)) : 0..k \subseteq BlocksOf(Series(a))

\* However often a campaign was started on one file and wherever it died, two
\* series that may form a ratio come from one session, hold its blocks from the
\* first on in their planned positions, ran at the count its pilot settled, and
\* neither ran before the other more often than half a cycle of orders explains.
ComparableIsOneSession ==
  \A a, b \in Solvers :
    a # b /\ Comparable(Series(a), Series(b)) =>
      /\ OfOneSession(a, b)
      /\ Led(a, b) - Led(b, a) <= Cycle \div 2
==============================================================================
