----------------------------- MODULE MCStructures -----------------------------
(* Structures for TLC. *)
EXTENDS Structures, TLC

MCAlignedSize == [spans |-> 2, threadheaps |-> 3]
MCSymmetry == Permutations(Spans) \cup Permutations(Values)
===============================================================================
