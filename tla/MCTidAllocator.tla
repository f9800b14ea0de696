--------------------------- MODULE MCTidAllocator ---------------------------
(***************************************************************************)
(* A small instance of TidAllocator.                                       *)
(***************************************************************************)
EXTENDS TidAllocator, TLC

Symmetry == Permutations(Threads)
=============================================================================
