---------------------------- MODULE MCHeapProfiler ----------------------------
(* HeapProfiler for TLC. *)
EXTENDS HeapProfiler

MCSymmetry == Permutations(Threads) \cup Permutations(Ptrs) \cup Permutations(Stacks)
==============================================================================
