------------------------ MODULE MCCentralFreeList ------------------------
(* CentralFreeList for TLC. *)
EXTENDS CentralFreeList

\* Class 0 has capacity and no objects; a batch empties a span of class 1, and
\* half a span of class 2.
MCBatch == [c \in Classes |-> CASE c = 0 -> 0 [] c = 1 -> 2 [] OTHER -> 1]
MCObjectsPerSpan == [c \in Classes |-> IF c = 0 THEN 0 ELSE 2]
==========================================================================
