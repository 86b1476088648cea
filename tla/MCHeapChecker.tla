----------------------------- MODULE MCHeapChecker -----------------------------
(* HeapChecker for TLC: the process's own thread and two more, of which one may *)
(* check as well and has its stack on the heap.                                *)
EXTENDS HeapChecker

CONSTANTS m, t2, t3, o1, o2

MCStackIn == [t \in Threads |-> IF t = t2 THEN o1 ELSE Null]
MCReferrers ==
    [o \in Objects |-> IF o = o1 THEN Threads \cup RegistersOf({t3}) \cup {o2, Globals}
                       ELSE {o1}]
===============================================================================
