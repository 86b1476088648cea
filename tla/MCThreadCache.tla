---------------------------- MODULE MCThreadCache ----------------------------
(* ThreadCache for TLC. *)
EXTENDS ThreadCache, TLC

MCSize == [c \in Classes |-> c]
MCBatch == [c \in Classes |-> 2]
MCTotal == [c \in Classes |-> IF c = 1 THEN 5 ELSE 1]
MCSymmetry == Permutations(Heaps)
==============================================================================
