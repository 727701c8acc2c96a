--------------------------- MODULE MCCompileCache ---------------------------
(***************************************************************************)
(* Two compilers, interchangeable, and one edit of each thing that enters  *)
(* the key.  Two names and two open files need four inodes.                *)
(***************************************************************************)
EXTENDS CompileCache, TLC

Interchangeable == Permutations(Compilers) \union Permutations(Inodes)
==============================================================================
