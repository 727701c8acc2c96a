--------------------------- MODULE MCBatchDispatch ---------------------------
(***************************************************************************)
(* One thread integrates batches that do not divide evenly (5 cells in     *)
(* teams of 2, 3 in teams of 2) and an empty one, another a single cell.   *)
(* The default forcing size is below the slots the kernel reads, as 512 is *)
(* below the 547 of TS1; the other is above the capacity.                  *)
(***************************************************************************)
EXTENDS BatchDispatch

CONSTANTS model, chemistry, nobody

MCCallers == {model, chemistry}
MCNoCaller == nobody
MCBatches == [c \in MCCallers |->
                IF c = model THEN {<<5, 2>>, <<3, 2>>, <<0, 2>>} ELSE {<<1, 64>>}]
MCFaults == {{}, {0}, {2}, {0, 4}}
MCExtents == {2, 5}
MCCapacity == 4
MCSlots == 3
==============================================================================
