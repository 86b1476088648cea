----------------------------- MODULE MCFrontEnd -----------------------------
(***************************************************************************)
(* Two threads and two places; the small sizes 1 and 2 share a class, 4 is a *)
(* page.                                                                   *)
(***************************************************************************)
EXTENDS FrontEnd, TLC

ClassSizeMC == [n \in 0 .. 2 |-> 2]

Symmetry == Permutations(Threads) \cup Permutations(Places)
=============================================================================
