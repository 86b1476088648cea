----------------------------- MODULE SystemAlloc -----------------------------
(***************************************************************************)
(* How memory is obtained from the system (systemalloc.cpp): /dev/mem, the *)
(* break and mmap are tried in turn, each in its own way cutting an        *)
(* aligned region out of what the system gives.                            *)
(*                                                                         *)
(* TCMalloc_SystemAlloc holds a spin lock, so one call is in progress at a *)
(* time; but the break is shared with code that knows nothing of the lock  *)
(* and may move it between any two sbrk calls.  Addresses are counted in   *)
(* units of the smallest alignment, sizeof(MemoryAligner).                 *)
(***************************************************************************)
EXTENDS Arithmetic, FiniteSets, FiniteSetsExt

CONSTANTS PageSize,    \* getpagesize()
          BrkLimit,    \* the break can grow from 0 to here
          Top,         \* mmap places its mappings between BrkLimit and here
          DevStart,    \* FLAGS_malloc_devmem_start; 0 disables /dev/mem
          DevLimit,    \* FLAGS_malloc_devmem_limit; 0 is no limit
          Sizes, Alignments,  \* the arguments of calls; Sizes > 0
          Null         \* NULL

ASSUME LayoutAssumption ==
    /\ {PageSize, BrkLimit, Top} \subseteq Nat \ {0}
    /\ BrkLimit % PageSize = 0 /\ BrkLimit <= Top
    /\ DevStart \in Nat /\ DevLimit \in Nat
    /\ DevStart = 0 \/ DevLimit = 0 \/ DevStart <= DevLimit
    /\ Null \notin Nat

\* The code takes the bits below an alignment for the remainder: all are powers
\* of 2, as the size of a page is.
ASSUME CallsAssumption ==
    /\ Sizes \subseteq Nat \ {0} /\ Alignments \subseteq Nat
    /\ \A a \in Alignments : a = 0 \/ a % PageSize = 0 \/ PageSize % a = 0

Sources == {"devmem", "sbrk", "mmap"}
MmapArea == BrkLimit .. Top - 1

VARIABLES
    brk,          \* the program break
    owned,        \* addresses obtained from the system and not given back
    physmem_base, \* the next physical address of /dev/mem; Null before open
    failure,      \* the allocators whose failure flag is set
    stage,        \* where the call is: an allocator, or later in TrySbrk
    round,        \* i of the loop
    call,         \* size and alignment of the call
    ptr,          \* TrySbrk: the first result of sbrk
    regions,      \* history: what was returned; phys is Null if not /dev/mem
    tried         \* history: the allocators this call has tried

system == <<brk, owned, physmem_base>>
vars_S == <<system, failure, stage, round, call, ptr, regions, tried>>

NoCall == [size |-> 0, align |-> 1]

Init_S ==
    /\ brk = 0
    /\ owned = {}
    /\ physmem_base = Null
    /\ failure = {}
    /\ stage = "idle"
    /\ round = 0
    /\ call = NoCall
    /\ ptr = Null
    /\ regions = {}
    /\ tried = {}

-----------------------------------------------------------------------------

\* How far p is from the next multiple of a.
Adjust(p, a) == RoundUp(p, a) - p

Block(p, n) == p .. p + n - 1

\* The call returns.
Done(region) ==
    /\ stage' = "idle"
    /\ round' = 0
    /\ call' = NoCall
    /\ ptr' = Null
    /\ regions' = regions \cup region
    /\ tried' = {}

Return(p, phys) == Done({[start |-> p, size |-> call.size, align |-> call.align, phys |-> phys]})

\* At the end of a round the failure flags are cleared, so that the second
\* round tries every allocator.
FlagsKept(flags) == flags
FlagsAfterRound(flags) == {}

\* The allocator that was tried, or skipped, gave nothing: go on to the next.
NextAfter(a) == IF a = "devmem" THEN "sbrk" ELSE "mmap"
Advance(a, flags, used) ==
    \/ /\ a # "mmap"
       /\ stage' = NextAfter(a)
       /\ failure' = flags
       /\ ptr' = Null
       /\ tried' = tried \cup used
       /\ UNCHANGED <<round, call, regions>>
    \/ /\ a = "mmap" /\ round = 0
       /\ stage' = "devmem"
       /\ round' = 1
       /\ failure' = FlagsAfterRound(flags)
       /\ tried' = tried \cup used
       /\ UNCHANGED <<call, ptr, regions>>
    \/ /\ a = "mmap" /\ round = 1
       /\ failure' = FlagsAfterRound(flags)
       /\ Done({})

Skip(a) == stage = a /\ a \in failure /\ Advance(a, failure, {}) /\ UNCHANGED system
Fail(a) == Advance(a, failure \cup {a}, {a})

SystemAlloc(size, alignment) ==
    /\ stage = "idle"
    /\ stage' = "devmem"
    /\ call' = [size |-> size, align |-> Max({alignment, 1})]
    /\ UNCHANGED <<system, failure, round, ptr, regions, tried>>

-----------------------------------------------------------------------------
(* TryMmap and TryDevMem: a mapping that is larger than needed by what the   *)
(* alignment exceeds a page, trimmed at both ends.                           *)

MapAlign == Max({call.align, PageSize})
MapSize == RoundUp(call.size, MapAlign)
Extra == MapAlign - PageSize

\* Where the system can place a mapping: anywhere on a page boundary.
Places == {p \in MmapArea : p % PageSize = 0 /\ Block(p, MapSize + Extra) \subseteq MmapArea \ owned}

Trimmed(p) ==
    LET adjust == Adjust(p, MapAlign)
        tail == IF adjust < Extra THEN Block(p + adjust + MapSize, Extra - adjust) ELSE {}
    IN  owned \cup ((Block(p, MapSize + Extra) \ Block(p, adjust)) \ tail)

TryMmap ==
    /\ stage = "mmap" /\ "mmap" \notin failure
    /\ UNCHANGED <<brk, physmem_base>>
    /\ \/ \E p \in Places :
            /\ owned' = Trimmed(p)
            /\ Return(p + Adjust(p, MapAlign), Null)
            /\ UNCHANGED failure
       \/ Fail("mmap") /\ UNCHANGED owned

\* The part of the device that is used up.
BaseAfter(base, p) == base + Adjust(p, MapAlign) + MapSize

OverLimit(base) == DevLimit # 0 /\ MapSize + Extra > DevLimit - base

TryDevMem ==
    LET base == IF physmem_base = Null THEN DevStart ELSE physmem_base
    IN  /\ stage = "devmem" /\ "devmem" \notin failure
        /\ UNCHANGED brk
        /\ \/ /\ DevStart = 0
              /\ Advance("devmem", failure, {"devmem"})
              /\ UNCHANGED <<owned, physmem_base>>
           \/ /\ DevStart # 0 /\ physmem_base = Null   \* open fails
              /\ Fail("devmem")
              /\ UNCHANGED <<owned, physmem_base>>
           \/ /\ DevStart # 0                          \* too large, or mmap fails
              /\ Fail("devmem")
              /\ physmem_base' = base
              /\ UNCHANGED owned
           \/ /\ DevStart # 0 /\ ~ OverLimit(base)
              /\ \E p \in Places :
                   /\ owned' = Trimmed(p)
                   /\ physmem_base' = BaseAfter(base, p)
                   /\ Return(p + Adjust(p, MapAlign), base + Adjust(p, MapAlign))
              /\ UNCHANGED failure

-----------------------------------------------------------------------------
(* TrySbrk.                                                                  *)

\* The external sbrk: the old break, or failure.
CanSbrk(n) == brk + n <= BrkLimit
Sbrk(n) == brk' = brk + n /\ owned' = owned \cup Block(brk, n)

SbrkSize == RoundUp(call.size, call.align)

\* sbrk(size): done if the break happens to be aligned.
TrySbrk ==
    /\ stage = "sbrk" /\ "sbrk" \notin failure
    /\ UNCHANGED physmem_base
    /\ \/ /\ ~ CanSbrk(SbrkSize)
          /\ Fail("sbrk")
          /\ UNCHANGED <<brk, owned>>
       \/ /\ CanSbrk(SbrkSize)
          /\ Sbrk(SbrkSize)
          /\ UNCHANGED failure
          /\ \/ /\ Adjust(brk, call.align) = 0
                /\ Return(brk, Null)
             \/ /\ Adjust(brk, call.align) # 0
                /\ ptr' = brk
                /\ stage' = "extra"
                /\ tried' = tried \cup {"sbrk"}
                /\ UNCHANGED <<round, call, regions>>

\* sbrk(extra): done if it continues the first piece.
ContiguousUnchecked == TRUE
Contiguous == brk = ptr + SbrkSize
TrySbrkExtra ==
    LET extra == Adjust(ptr, call.align)
    IN  /\ stage = "extra"
        /\ UNCHANGED <<physmem_base, failure>>
        /\ \/ CanSbrk(extra) /\ Sbrk(extra)
           \/ ~ CanSbrk(extra) /\ UNCHANGED <<brk, owned>>
        /\ \/ /\ CanSbrk(extra) /\ Contiguous
              /\ Return(ptr + extra, Null)
           \/ /\ ~ (CanSbrk(extra) /\ Contiguous)
              /\ stage' = "again"
              /\ UNCHANGED <<round, call, ptr, regions, tried>>

\* Otherwise sbrk of enough for any alignment.
TrySbrkAgain ==
    LET n == SbrkSize + call.align - 1
    IN  /\ stage = "again"
        /\ UNCHANGED physmem_base
        /\ \/ /\ CanSbrk(n)
              /\ Sbrk(n)
              /\ Return(brk + Adjust(brk, call.align), Null)
              /\ UNCHANGED failure
           \/ /\ ~ CanSbrk(n)
              /\ Fail("sbrk")
              /\ UNCHANGED <<brk, owned>>

\* Other code in the process moves the break.
OtherSbrk ==
    /\ brk < BrkLimit
    /\ brk' = brk + 1
    /\ UNCHANGED <<owned, physmem_base, failure, stage, round, call, ptr, regions, tried>>

Next_S ==
    \/ \E size \in Sizes, alignment \in Alignments : SystemAlloc(size, alignment)
    \/ \E a \in Sources : Skip(a)
    \/ TryDevMem \/ TrySbrk \/ TrySbrkExtra \/ TrySbrkAgain \/ TryMmap
    \/ OtherSbrk

Spec_S == Init_S /\ [][Next_S]_vars_S

-----------------------------------------------------------------------------
(* Properties                                                                *)

Physical(r) == Block(r.phys, r.size)
FromDevice == {r \in regions : r.phys # Null}

\* What is returned is aligned as asked, is memory the process obtained for
\* this purpose and has not unmapped, and overlaps nothing returned before,
\* even if other code moves the break in the middle of TrySbrk.
RegionsUsable ==
    \A r \in regions :
        /\ r.start % r.align = 0
        /\ Block(r.start, r.size) \subseteq owned
        /\ \A q \in regions \ {r} : Block(r.start, r.size) \cap Block(q.start, q.size) = {}

\* TryMmap and TryDevMem unmap what they mapped beyond the rounded size: of the
\* mappings, only what was returned stays.
NothingElseMapped ==
    owned \cap MmapArea =
        UNION {Block(r.start, RoundUp(r.size, Max({r.align, PageSize}))) :
                  r \in {q \in regions : q.start \in MmapArea}}

\* No physical memory is used twice, and none outside the configured range:
\* physmem_base, which counts from where the aligned part ended, is right and
\* never beyond the limit, from which the code subtracts it.
DeviceMemoryOnce ==
    /\ \A r, q \in FromDevice : r # q => Physical(r) \cap Physical(q) = {}
    /\ \A r \in FromDevice :
         /\ r.phys >= DevStart
         /\ DevLimit # 0 => r.phys + r.size <= DevLimit
    /\ physmem_base # Null /\ DevLimit # 0 => physmem_base <= DevLimit

\* What munmap and sbrk left of the address space, and of physical memory, is
\* what the callers have: no region lost a page to a neighbour or shares one, and
\* no page is kept for nobody.
MemoryAccounted == RegionsUsable /\ NothingElseMapped /\ DeviceMemoryOnce

\* A failure flag spares later calls a useless attempt, but a call gives up
\* only after each allocator, flagged or not, was tried and gave nothing.
NullOnlyAfterAll ==
    [][stage # "idle" /\ stage' = "idle" /\ regions' = regions =>
         tried \cup {stage} = Sources]_vars_S

=============================================================================
