---------------------------- MODULE MCLocApiBase ----------------------------
(***************************************************************************)
(* LocApiBase for TLC.  The adapters are told apart by nothing but their   *)
(* masks, so they may be permuted.                                         *)
(***************************************************************************)
EXTENDS LocApiBase, TLC

Symmetry == Permutations(Adapters)
=============================================================================
