---------------------------- MODULE MCCheckpoint ----------------------------
(***************************************************************************)
(* A buffer of four slots, an interval of 12 ticks entered with a step of *)
(* at most 4, and a second forward call on the same buffer: calls that fit,*)
(* calls that overflow, and slots left over from the first call all occur. *)
(***************************************************************************)
EXTENDS Checkpoint

MCDtTotal == 12
MCOneSecond == 4
MCMaxSteps == 4
MCAcceptFactors == {9, 20, 60}
MCRejectFactors == {2, 8}
MCMaxRuns == 2
==============================================================================
