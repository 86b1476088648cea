---------------------------- MODULE ProfilerMemory ----------------------------
(***************************************************************************)
(* Where the heap profiler keeps its own data (HeapProfilerMemory,         *)
(* heap-profiler.cpp lines 82-163): blocks from mmap, out of which small   *)
(* pieces are cut and which are given back when the profiler stops, never  *)
(* before.  All calls are made under heap_lock.                            *)
(***************************************************************************)
EXTENDS Arithmetic, FiniteSets

CONSTANTS kBlockSize, kMaxBlocks, kAlignment,
          kBig,         \* kBlockSize / 8: a piece of this size is a block
          pagesize,
          PieceSizes,        \* of the pieces that are asked for
          MaxMapping,   \* bound: memory the system has
          MaxPieces     \* bound: pieces between a start and a stop

ASSUME BlocksAssumption ==
    /\ {kMaxBlocks, MaxMapping, MaxPieces} \subseteq Nat /\ PieceSizes \subseteq Nat \ {0}
    /\ {kAlignment, pagesize} \subseteq Nat \ {0}
    /\ pagesize % kAlignment = 0 /\ kBlockSize \in Nat /\ kBlockSize % kAlignment = 0
    /\ kBig \in 1 .. kBlockSize

VARIABLES
    is_on,      \* between EarlyStartLocked and StopLocked
    blocks,     \* blocks_
    nblocks,    \* nblocks_
    current,    \* current_, 0 when there is none
    pos,        \* pos_
    mapped,     \* the system: what mmap gave and nobody has unmapped
    pieces,     \* history: what Alloc has returned since Start
    out_of_memory

vars_H == <<is_on, blocks, nblocks, current, pos, mapped, pieces, out_of_memory>>

Extent(b) == b.ptr .. b.ptr + b.size - 1
NoBlock == [ptr |-> 0, size |-> 0]

Fresh ==
    /\ nblocks' = 0
    /\ current' = 0
    /\ pos' = kBlockSize

Init_H ==
    /\ is_on = FALSE
    /\ blocks = [i \in 0 .. kMaxBlocks - 1 |-> NoBlock]
    /\ nblocks = 0 /\ current = 0 /\ pos = kBlockSize
    /\ mapped = {} /\ pieces = {}
    /\ out_of_memory = FALSE

-----------------------------------------------------------------------------

\* EarlyStartLocked: HeapProfilerMemory::Init.
Start ==
    /\ ~ is_on /\ is_on' = TRUE
    /\ Fresh
    /\ pieces' = {}
    /\ UNCHANGED <<blocks, mapped, out_of_memory>>

\* mmap of whole pages, anywhere.
Mappings(size) ==
    {b \in [ptr : 1 .. MaxMapping, size : {RoundUp(size, pagesize)}] :
        /\ b.ptr % pagesize = 0 /\ b.ptr + b.size <= MaxMapping
        /\ \A m \in mapped : Extent(m) \cap Extent(b) = {}}

\* AllocBlock, where the count of blocks stays what it is.
AllocBlock(b) ==
    /\ nblocks # kMaxBlocks
    /\ mapped' = mapped \cup {b}
    /\ blocks' = [blocks EXCEPT ![nblocks] = b]
    /\ UNCHANGED nblocks

\* No memory, or blocks.
Abort ==
    /\ out_of_memory' = TRUE
    /\ UNCHANGED <<is_on, blocks, nblocks, current, pos, mapped, pieces>>

Big(n) == n >= kBig
Fits(n) == pos + n <= kBlockSize
Aligned(n) == RoundUp(n, kAlignment)
Returns(ptr, n) == pieces' = pieces \cup {[ptr |-> ptr, size |-> n]}

Alloc(n) ==
    /\ is_on /\ Cardinality(pieces) < MaxPieces
    /\ \/ /\ Big(n)
          /\ \E b \in Mappings(n) : AllocBlock(b) /\ Returns(b.ptr, n)
          /\ UNCHANGED <<current, pos>>
       \/ /\ ~ Big(n) /\ ~ Fits(n)
          /\ \E b \in Mappings(kBlockSize) :
               AllocBlock(b) /\ current' = b.ptr /\ Returns(b.ptr, n)
          /\ pos' = Aligned(n)
       \/ /\ ~ Big(n) /\ Fits(n)
          /\ Returns(current + pos, n)
          /\ pos' = Aligned(pos + n)
          /\ UNCHANGED <<blocks, nblocks, current, mapped>>
    /\ UNCHANGED <<is_on, out_of_memory>>

AllocFails(n) ==
    /\ is_on /\ (Big(n) \/ ~ Fits(n))
    /\ Abort

\* StopLocked: Clear unmaps the blocks it knows.
Stop ==
    /\ is_on /\ is_on' = FALSE
    /\ mapped' = mapped \ {blocks[i] : i \in 0 .. nblocks - 1}
    /\ Fresh
    /\ pieces' = {}
    /\ UNCHANGED <<blocks, out_of_memory>>

Next_H == ~ out_of_memory /\ (Start \/ Stop \/ \E n \in PieceSizes : Alloc(n) \/ AllocFails(n))

-----------------------------------------------------------------------------
(* Properties                                                                *)

\* The pieces that the profiler has lie in memory that is mapped, are aligned and
\* do not overlap, whatever mixture of sizes was asked for and however often the
\* profiler was stopped and started.
PiecesApart ==
    /\ \A p \in pieces : /\ p.ptr % kAlignment = 0
                         /\ \E m \in mapped : Extent(p) \subseteq Extent(m)
    /\ \A p, q \in pieces : p = q \/ Extent(p) \cap Extent(q) = {}
=============================================================================
