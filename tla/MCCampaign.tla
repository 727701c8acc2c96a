------------------------------ MODULE MCCampaign ------------------------------
(***************************************************************************)
(* Two solvers and three blocks, so that one block is left over after a    *)
(* full cycle of orders; counts 1 and 2; a campaign and its rerun.         *)
(***************************************************************************)
EXTENDS Campaign

MCRequired == <<"mkpp", "micm">>
MCBlocks == 3
MCMinimumBlocks == 2
MCMaximumCount == 2
MCMaxSessions == 2
==============================================================================
