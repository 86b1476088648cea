------------------------------ MODULE Arithmetic ------------------------------
(***************************************************************************)
(* What C++ does with shifts and masks: 1 << n, which pagemap.hpp and      *)
(* addressmap.hpp take numbers apart with, and a number rounded up, as     *)
(* systemalloc.cpp and the heap profiler do with addresses and sizes.      *)
(***************************************************************************)
EXTENDS Integers

Pow2[n \in Nat] == IF n = 0 THEN 1 ELSE 2 * Pow2[n - 1]

RoundUp(n, a) == ((n + a - 1) \div a) * a
===============================================================================
