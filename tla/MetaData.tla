------------------------------- MODULE MetaData -------------------------------
(***************************************************************************)
(* The allocators of the allocator's own objects (tcmalloc.cpp, lines      *)
(* 240-300): PageHeapAllocator, of spans, of thread caches and of stack    *)
(* traces, each over chunks that MetaDataAlloc gets from the system.  All  *)
(* calls are made under pageheap_lock.                                     *)
(***************************************************************************)
EXTENDS Integers, Sequences, FiniteSets, SequencesExt, FiniteSetsExt

CONSTANTS Allocators,       \* span_allocator, threadheap_allocator, ...
          kAlignedSize,     \* of each, the size of its objects
          kAllocIncrement,
          MaxAddress        \* bound: memory the system has

ASSUME SizeAssumption ==
    /\ {kAllocIncrement, MaxAddress} \subseteq Nat
    /\ \A a \in Allocators : kAlignedSize[a] \in 1 .. kAllocIncrement

VARIABLES
    metadata_system_bytes,
    chunks,      \* history: where the system gave chunks to each allocator
    free_area, free_avail, free_list, inuse,
    held,        \* history: the objects that were given out and not deleted
    aborted

vars_M == <<metadata_system_bytes, chunks, free_area, free_avail, free_list, inuse, held, aborted>>

Bytes(at, size) == at .. at + size - 1
Chunks == UNION {chunks[a] : a \in Allocators}

\* What the system can give.
Regions(used) ==
    {at \in 1 .. MaxAddress - kAllocIncrement + 1 :
        \A c \in used : Bytes(at, kAllocIncrement) \cap Bytes(c, kAllocIncrement) = {}}

Init_M ==
    /\ metadata_system_bytes = 0
    /\ chunks = [a \in Allocators |-> {}]
    /\ free_area = [a \in Allocators |-> 0] /\ free_avail = [a \in Allocators |-> 0]
    /\ free_list = [a \in Allocators |-> <<>>]
    /\ inuse = [a \in Allocators |-> 0]
    /\ held = [a \in Allocators |-> {}]
    /\ aborted = FALSE

-----------------------------------------------------------------------------

\* PageHeapAllocator::Init, by InitModule: an object is made and deleted.
InitAllocator(a) ==
    /\ chunks[a] = {}
    /\ \/ \E at \in Regions(Chunks) :
            /\ metadata_system_bytes' = metadata_system_bytes + kAllocIncrement
            /\ chunks' = [chunks EXCEPT ![a] = {at}]
            /\ free_list' = [free_list EXCEPT ![a] = <<at>>]
            /\ free_area' = [free_area EXCEPT ![a] = at + kAlignedSize[a]]
            /\ free_avail' = [free_avail EXCEPT ![a] = kAllocIncrement - kAlignedSize[a]]
            /\ UNCHANGED aborted
       \/ /\ aborted' = TRUE
          /\ UNCHANGED <<metadata_system_bytes, chunks, free_area, free_avail, free_list>>
    /\ UNCHANGED <<inuse, held>>

Gives(a, p) ==
    /\ held' = [held EXCEPT ![a] = @ \cup {p}]
    /\ inuse' = [inuse EXCEPT ![a] = @ + 1]

\* New: from the free list, ...
NewFromList(a) ==
    /\ free_list[a] # <<>>
    /\ Gives(a, Head(free_list[a]))
    /\ free_list' = [free_list EXCEPT ![a] = Tail(@)]
    /\ UNCHANGED <<metadata_system_bytes, chunks, free_area, free_avail, aborted>>

\* ... or the area, ...
HasSome(a) == free_avail[a] > 0
HasRoom(a) == free_avail[a] >= kAlignedSize[a]

Cut(a, area, avail) ==
    /\ Gives(a, area)
    /\ free_area' = [free_area EXCEPT ![a] = area + kAlignedSize[a]]
    /\ free_avail' = [free_avail EXCEPT ![a] = avail - kAlignedSize[a]]

NewFromArea(a) ==
    /\ free_list[a] = <<>> /\ HasRoom(a)
    /\ Cut(a, free_area[a], free_avail[a])
    /\ UNCHANGED <<metadata_system_bytes, chunks, free_list, aborted>>

\* ... or a new chunk from MetaDataAlloc; what was left of the old one is lost.
NewFromChunk(a) ==
    /\ free_list[a] = <<>> /\ ~ HasRoom(a)
    /\ \/ \E at \in Regions(Chunks) :
            /\ metadata_system_bytes' = metadata_system_bytes + kAllocIncrement
            /\ chunks' = [chunks EXCEPT ![a] = @ \cup {at}]
            /\ Cut(a, at, kAllocIncrement)
            /\ UNCHANGED aborted
       \/ /\ aborted' = TRUE
          /\ UNCHANGED <<metadata_system_bytes, chunks, free_area, free_avail, inuse, held>>
    /\ UNCHANGED free_list

Pushed(list, p) == <<p>> \o list
Delete(a, p) ==
    /\ p \in held[a]
    /\ free_list' = [free_list EXCEPT ![a] = Pushed(@, p)]
    /\ held' = [held EXCEPT ![a] = @ \ {p}]
    /\ inuse' = [inuse EXCEPT ![a] = @ - 1]
    /\ UNCHANGED <<metadata_system_bytes, chunks, free_area, free_avail, aborted>>

Next_M ==
    /\ ~ aborted
    /\ \E a \in Allocators :
         \/ InitAllocator(a)
         \/ chunks[a] # {} /\ (NewFromList(a) \/ NewFromArea(a) \/ NewFromChunk(a))
         \/ \E p \in held[a] : Delete(a, p)

-----------------------------------------------------------------------------
(* Properties                                                                *)

\* The pieces of each allocator: its objects, in use or free, and what is left of
\* its last chunk.
Pieces(a) ==
    {Bytes(p, kAlignedSize[a]) : p \in held[a] \cup ToSet(free_list[a])}
    \cup ({Bytes(free_area[a], free_avail[a])} \ {{}})

\* The pieces do not overlap, neither those of one allocator nor of two, although
\* the sizes do not divide the chunks; each is in one chunk of its allocator; and
\* no object is on the free list twice, or on it while it is in use.
ObjectsApart ==
    /\ \A a, b \in Allocators : \A x \in Pieces(a), y \in Pieces(b) :
         (a = b /\ x = y) \/ x \cap y = {}
    /\ \A a \in Allocators :
         /\ \A x \in Pieces(a) : \E c \in chunks[a] : x \subseteq Bytes(c, kAllocIncrement)
         /\ Len(free_list[a]) = Cardinality(ToSet(free_list[a]))
         /\ held[a] \cap ToSet(free_list[a]) = {}
=============================================================================
