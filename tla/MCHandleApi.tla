---------------------------- MODULE MCHandleApi ----------------------------
(***************************************************************************)
(* Two contexts over two addresses: each can be moved over the other while *)
(* both have a handle, and addresses are used again.  The mechanisms have  *)
(* no forcing, photolysis only, and parameters besides the photolysis      *)
(* rates.                                                                  *)
(***************************************************************************)
EXTENDS HandleApi, TLC

MCMechanisms == {<<0, 0>>, <<1, 1>>, <<2, 1>>}

Symmetry == Permutations(Contexts) \union Permutations(Handles)
==============================================================================
