----------------------------- MODULE ChapmanPlan -----------------------------
(***************************************************************************)
(* The plan of one mechanism of the repository, as its committed headers   *)
(* src/mkpp-generated/chapman/*.hpp and chapman.hpp hold it: what the      *)
(* generator really emitted, to compare with what the model of the planner *)
(* computes.  Rows are copied in the order of the initializers.            *)
(***************************************************************************)
EXTENDS CompactPlan

\* The registers hold M, O3, O and O2, which the host numbers 3, 2, 0 and 1.
ChapmanOrder == [i \in 0..3 |-> <<3, 2, 0, 1>>[i + 1]]

\* J has the rows of O3, O and O2; M never changes.
ChapmanNonZeros == (1..3) \X (0..3)

\* { output, input, begin, end, diagonal }
ChapmanOperations ==
  << <<0, 0, 0, 0, -1>>, <<1, 1, 0, 0, 0>>, <<5, 5, 0, 0, 0>>, <<9, 9, 0, 0, 0>>,
     <<2, 2, 0, 0, -1>>, <<3, 3, 0, 0, -1>>, <<4, 4, 0, 0, -1>>, <<6, 6, 0, 0, 2>>,
     <<10, 10, 0, 0, 2>>, <<7, 7, 0, 1, -1>>, <<8, 8, 1, 2, -1>>, <<11, 11, 2, 3, 7>>,
     <<12, 12, 3, 5, -1>> >>
ChapmanProducts == << <<6, 3>>, <<6, 4>>, <<10, 3>>, <<10, 4>>, <<11, 8>> >>

ChapmanLowerOffsets == <<0, 0, 1, 3, 6>>
ChapmanUpperOffsets == <<0, 0, 2, 3, 3>>
ChapmanDiagonal     == <<0, 2, 7, 12>>
ChapmanLower == << <<0, 1>>, <<0, 5>>, <<1, 6>>, <<0, 9>>, <<1, 10>>, <<2, 11>> >>
ChapmanUpper == << <<2, 3>>, <<3, 4>>, <<3, 8>> >>

\* The slot of J_values each W_values[slot] subtracts, or -1.
ChapmanReads == <<-1, 11, 10, 8, 9, 3, 2, 0, 1, 7, 6, 4, 5>>

\* The species of jacobian.at_slot(slot, row, column).
ChapmanDerivatives == << <<0, 0>>, <<0, 1>>, <<0, 2>>, <<0, 3>>, <<1, 0>>, <<1, 1>>,
                         <<1, 2>>, <<1, 3>>, <<2, 0>>, <<2, 1>>, <<2, 2>>, <<2, 3>> >>

------------------------------------------------------------------------------
\* The model of the planner, given Chapman's pattern, arrives at the tables that
\* the generator wrote into the headers: every slot, range and offset the two
\* kernels and the assembly of W use, the permuted reads of J included.
EmittedChapmanIsPlanned ==
  N = 4 /\ todo = <<>> /\ phase = "planning" /\ structure = ChapmanNonZeros \ Diagonal =>
    /\ [n \in DOMAIN Tables.operations |->
          LET op == Tables.operations[n] IN <<op.output, op.w, op.begin, op.end, op.diagonal>>]
         = ChapmanOperations
    /\ Tables.products = ChapmanProducts
    /\ Offsets(Lower) = ChapmanLowerOffsets /\ Entered(Lower) = ChapmanLower
    /\ Offsets(Upper) = ChapmanUpperOffsets /\ Entered(Upper) = ChapmanUpper
    /\ Diagonals = ChapmanDiagonal
    /\ LET physical == Physical(ChapmanOrder, ChapmanNonZeros)
           reads    == JSlots(ChapmanOrder, ChapmanNonZeros)
       IN  /\ \A s \in Slots(physical) : Located(physical, s) = ChapmanDerivatives[s + 1]
           /\ \A s \in Slots(WLocations) :
                LET ij == Located(WLocations, s)
                IN  ChapmanReads[s + 1] = IF ij \in ChapmanNonZeros THEN reads[ij] ELSE -1
==============================================================================
