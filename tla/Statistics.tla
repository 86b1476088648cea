----------------------------- MODULE Statistics -----------------------------
(***************************************************************************)
(* What tcmalloc.cpp reports about itself (lines 1330-1475, 1515-1577 and  *)
(* mallinfo): ExtractStats, which reads the free bytes of one part after   *)
(* another, each under a lock of its own, while threads go on moving       *)
(* memory; and DumpStackTraces, which measures the list of sampled blocks  *)
(* under pageheap_lock and copies it under the same lock taken again.      *)
(*                                                                         *)
(* The parts are the free objects of each class in the central list and in *)
(* the transfer cache, the thread caches, and the page heap.  Memory       *)
(* leaves a part before it enters another; in between, and in the          *)
(* application, it is in use.                                              *)
(***************************************************************************)
EXTENDS Integers, Sequences, FiniteSets, SequencesExt, FiniteSetsExt, Functions

CONSTANTS ClassIds,    \* size classes
          CacheIds,    \* the caches on thread_heaps
          Word,        \* 2^64, the range of uint64_t
          IntWord,     \* 2^32, the range of int
          Chunks,      \* bytes moved at once
          MaxSystem,   \* bytes the system has
          MaxMoved,    \* bound: bytes moved while the parts are read
          Depths,      \* depths of stack traces
          Slop,        \* 100: spare slots of a dump
          MaxListed    \* bound: sampled blocks at a time

ASSUME BoundsAssumption ==
    /\ Word \in Nat \ {0} /\ IntWord \in Nat \ {0} /\ Chunks \subseteq Nat \ {0}
    /\ MaxSystem \in Nat /\ MaxMoved \in Nat /\ Depths \subseteq Nat
    /\ Slop \in Nat \ {0} /\ MaxListed \in Nat
    /\ IsFiniteSet(ClassIds) /\ IsFiniteSet(CacheIds)

VARIABLES
    system_bytes,  \* PageHeap::system_bytes_
    free,          \* free bytes of each part
    sampled,       \* the list sampled_objects: the depths of the traces
    doing,         \* of the thread that reports
    next,          \* ExtractStats: which read comes next
    stats,         \* what was read of each part, and of system_bytes
    moved,         \* history: bytes moved since ExtractStats began
    needed,        \* DumpStackTraces: slots of the array
    used,          \* ... slots filled, before the terminator
    grown,         \* history: a block was sampled since the list was measured
    missed         \* history: the dump lacks a block of the list

memory == <<system_bytes, free>>
report == <<next, stats, moved>>
dump   == <<needed, used, grown, missed>>
vars_T == <<memory, sampled, doing, report, dump>>

Central(c)  == <<"central", c>>
Transfer(c) == <<"transfer", c>>
Cache(h)    == <<"cache", h>>
PageHeap    == <<"pageheap">>
System      == <<"system">>

CentralLists   == {Central(c) : c \in ClassIds}
TransferCaches == {Transfer(c) : c \in ClassIds}
ThreadCaches   == {Cache(h) : h \in CacheIds}
Parts == CentralLists \cup TransferCaches \cup ThreadCaches \cup {PageHeap}

SumOver(f, S) == SumFunctionOnSet(f, S)
InUse == system_bytes - SumOver(free, Parts)

-----------------------------------------------------------------------------

Init_T ==
    /\ system_bytes = 0
    /\ free = [p \in Parts |-> 0]
    /\ sampled = <<>>
    /\ doing = "idle"
    /\ next = 1
    /\ stats = [p \in Parts \cup {System} |-> 0]
    /\ moved = 0
    /\ needed = 1
    /\ used = 0
    /\ grown = FALSE
    /\ missed = FALSE

-----------------------------------------------------------------------------
(* The other threads                                                         *)

Extracting == doing \in {"extract", "report"}
Count(n) ==
    /\ Extracting => moved + n <= MaxMoved
    /\ moved' = IF Extracting THEN moved + n ELSE 0

\* Objects or pages leave a part, or enter it.
Take(p, n) ==
    /\ free[p] >= n
    /\ free' = [free EXCEPT ![p] = @ - n]
    /\ Count(n)
    /\ UNCHANGED <<system_bytes, sampled, doing, next, stats, dump>>

Put(p, n) ==
    /\ InUse >= n
    /\ free' = [free EXCEPT ![p] = @ + n]
    /\ Count(n)
    /\ UNCHANGED <<system_bytes, sampled, doing, next, stats, dump>>

\* GrowHeap, under pageheap_lock.
GrowHeap(n) ==
    /\ system_bytes + n <= MaxSystem
    /\ system_bytes' = system_bytes + n
    /\ free' = [free EXCEPT ![PageHeap] = @ + n]
    /\ Count(n)
    /\ UNCHANGED <<sampled, doing, next, stats, dump>>

\* DoSampledAllocation and do_free of a sampled block, under pageheap_lock.
Sample(d) ==
    /\ Len(sampled) < MaxListed
    /\ sampled' = <<d>> \o sampled
    /\ grown' = TRUE
    /\ UNCHANGED <<memory, doing, report, needed, used, missed>>

Unsample(i) ==
    /\ sampled' = RemoveAt(sampled, i)
    /\ UNCHANGED <<memory, doing, report, dump>>

-----------------------------------------------------------------------------
(* ExtractStats                                                              *)

\* The reads in their order: of each class the central list, then the transfer
\* cache; every thread cache, under pageheap_lock; the page heap, under the
\* lock taken again, with the bytes from the system.
ReadsWithoutTransfer ==
    LET cs == SetToSeq(ClassIds)
        hs == SetToSeq(CacheIds)
        n  == Cardinality(ClassIds)
        m  == Cardinality(CacheIds)
    IN  [i \in 1 .. n + m + 1 |->
            IF i <= n THEN {Central(cs[i])}
            ELSE IF i <= n + m THEN {Cache(hs[i - n])} ELSE {PageHeap, System}]
Reads ==
    LET cs == SetToSeq(ClassIds)
        hs == SetToSeq(CacheIds)
        n  == 2 * Cardinality(ClassIds)
        m  == Cardinality(CacheIds)
    IN  [i \in 1 .. n + m + 1 |->
            IF i <= n
            THEN {IF i % 2 = 1 THEN Central(cs[(i + 1) \div 2]) ELSE Transfer(cs[i \div 2])}
            ELSE IF i <= n + m THEN {Cache(hs[i - n])} ELSE {PageHeap, System}]

ExtractBegin ==
    /\ doing = "idle"
    /\ doing' = "extract"
    /\ next' = 1
    /\ moved' = 0
    /\ stats' = [p \in DOMAIN stats |-> 0]
    /\ UNCHANGED <<memory, sampled, dump>>

Extract ==
    /\ doing = "extract"
    /\ stats' = [p \in DOMAIN stats |->
                    IF p \notin Reads[next] THEN stats[p]
                    ELSE IF p = System THEN system_bytes ELSE free[p]]
    /\ IF next < Len(Reads)
       THEN next' = next + 1 /\ UNCHANGED doing
       ELSE doing' = "report" /\ next' = 1
    /\ UNCHANGED <<memory, sampled, moved, dump>>

\* The figures, in the arithmetic of their types.
central_bytes  == SumOver(stats, CentralLists)
transfer_bytes == SumOver(stats, TransferCaches)
thread_bytes   == SumOver(stats, ThreadCaches)
pageheap_bytes == stats[PageHeap]
system_bytes_read == stats[System]

\* DumpStats: bytes in use by the application.
bytes_in_use ==
    (system_bytes_read - pageheap_bytes - central_bytes - transfer_bytes - thread_bytes) % Word

\* mallinfo: uordblks, fsmblks and fordblks.
uordblks ==
    (system_bytes_read - thread_bytes - central_bytes - transfer_bytes - pageheap_bytes) % IntWord
fsmblks  == (thread_bytes + central_bytes + transfer_bytes) % IntWord
fordblks == pageheap_bytes % IntWord

\* GetNumericProperty("generic.current_allocated_bytes").
current_allocated_bytes ==
    (system_bytes_read - thread_bytes - central_bytes - pageheap_bytes) % Word

ExtractEnd ==
    /\ doing = "report"
    /\ doing' = "idle"
    /\ moved' = 0
    /\ stats' = [p \in DOMAIN stats |-> 0]
    /\ UNCHANGED <<memory, sampled, next, dump>>

-----------------------------------------------------------------------------
(* DumpStackTraces                                                           *)

\* The slots of the first k blocks of a list.
SlotsOf(s, k) == SumFunctionOnSet([i \in 1 .. k |-> 3 + s[i]], 1 .. k)

\* The slots for the blocks listed now, with some to spare; then the array is
\* allocated, without the lock.
Measure ==
    LET n == SlotsOf(sampled, Len(sampled)) + Slop
    IN  /\ doing = "idle"
        /\ doing' = "fill"
        /\ needed' = n + n \div 8
        /\ used' = 0
        /\ grown' = FALSE
        /\ missed' = FALSE
        /\ UNCHANGED <<memory, sampled, report>>

\* The list is copied, which may have changed: up to the first block for which
\* there is no room, the terminator included.
NoRoomForTerminator(n, d) == n + 3 + d > needed
NoRoom(n, d) == n + 3 + d >= needed

Fitting ==
    {k \in 0 .. Len(sampled) :
        \A i \in 1 .. k : ~ NoRoom(SlotsOf(sampled, i - 1), sampled[i])}

Fill ==
    /\ doing = "fill"
    /\ doing' = "idle"
    /\ used' = SlotsOf(sampled, Max(Fitting))
    /\ missed' = (Max(Fitting) < Len(sampled))
    /\ UNCHANGED <<memory, sampled, report, needed, grown>>

-----------------------------------------------------------------------------

Next_T ==
    \/ \E n \in Chunks : \/ GrowHeap(n)
                         \/ \E p \in Parts : Take(p, n) \/ Put(p, n)
    \/ \E d \in Depths : Sample(d)
    \/ \E i \in DOMAIN sampled : Unsample(i)
    \/ ExtractBegin \/ Extract \/ ExtractEnd
    \/ Measure \/ Fill

Spec_T == Init_T /\ [][Next_T]_vars_T

-----------------------------------------------------------------------------
(* Properties                                                                *)

\* x is the value v in the arithmetic modulo W, but for what was moved while
\* the parts were read.
Near(x, v, W) == \E d \in - moved .. moved : x = (v + d) % W

\* Although no two parts are read at one time, and an object may be counted
\* twice or not at all, the figures are off by at most the bytes moved in the
\* meantime: exact when nothing moves, and beyond the range of their type, as a
\* difference of unsigned numbers can be, only when more moved than is in use.
\* generic.current_allocated_bytes also counts what is in the transfer caches.
FiguresNear ==
    doing = "report" =>
        /\ Near(bytes_in_use, InUse, Word)
        /\ Near(uordblks, InUse, IntWord)
        /\ Near((uordblks + fsmblks + fordblks) % IntWord, system_bytes, IntWord)
        /\ Near(current_allocated_bytes, InUse + SumOver(free, TransferCaches), Word)

\* A dump keeps within its array, terminator included, whatever was sampled or
\* freed after the list was measured, and lacks a block only if one was sampled
\* in between.
DumpFits ==
    /\ used < needed
    /\ missed => grown

=============================================================================
