----------------------------- MODULE HeapProfiler -----------------------------
(***************************************************************************)
(* The heap profiler (heap-profiler.cpp): which allocations it records,    *)
(* and the dumps of its profile, during which it drops its lock.           *)
(*                                                                         *)
(* malloc and free call the profiler through hooks that are set and read   *)
(* without a lock; what they record is guarded by heap_lock.  One action   *)
(* is the code under the lock, or the code between two places where other  *)
(* threads come in.  A thread has a stack of the profiler's procedures it  *)
(* is in, since a dump itself allocates and is hooked again.  Assertions   *)
(* are compiled in, and one that fails stops the program.  The checks of   *)
(* live objects that the heap checker makes under the lock, mmap hooks     *)
(* (off by default) and the contents of the dump are left out.             *)
(***************************************************************************)
EXTENDS Integers, Sequences, FiniteSets, SequencesExt

CONSTANTS Threads,
          Ptrs,               \* addresses of objects
          Stacks,             \* stack traces, one bucket each
          Sizes,              \* sizes of objects
          AllocationInterval, \* FLAGS_heap_profile_allocation_interval
          InuseInterval,      \* FLAGS_heap_profile_inuse_interval
          Slack,              \* room in GetHeapProfile's list for new buckets
          MaxAllocs,          \* bound: allocations recorded since the start
          NoThread, None

ASSUME HeapProfilerAssumption ==
    /\ Sizes \subseteq Nat /\ {AllocationInterval, InuseInterval, Slack, MaxAllocs} \subseteq Nat
    /\ NoThread \notin Threads /\ None \notin Ptrs

VARIABLES
    heap_lock,        \* its holder, or NoThread
    is_on, need_for_leaks,
    filename_prefix,  \* it is not NULL
    dumping,          \* dumping_
    new_hook, delete_hook,
    done_first_alloc,
    strip_frames,     \* strip_frames_ # 0
    table,            \* stack trace -> bucket, of the traces seen
    num_buckets,
    total,            \* total_
    allocation,       \* recorded object -> its bucket and size
    last_dump, high_water_mark,
    live,             \* the allocator: object -> its size
    stack,            \* per thread, the procedures it is in
    failed            \* the assertion that stopped the program, or None

switches == <<is_on, need_for_leaks, filename_prefix>>
hooks    == <<new_hook, delete_hook, done_first_alloc, strip_frames>>
profile  == <<table, num_buckets, total, allocation, last_dump, high_water_mark>>
vars     == <<heap_lock, switches, dumping, hooks, profile, live, stack, failed>>

Frame(at, ptr, nb) == [at |-> at, ptr |-> ptr, nb |-> nb]
At(t) == IF stack[t] = <<>> THEN "run" ELSE Head(stack[t]).at
Frames == UNION {ToSet(stack[t]) : t \in Threads}

Call(t, frame) == stack' = [stack EXCEPT ![t] = <<frame>> \o @]
Jump(t, frame) == stack' = [stack EXCEPT ![t] = <<frame>> \o Tail(@)]
Return(t) == stack' = [stack EXCEPT ![t] = Tail(@)]

Empty == [x \in {} |-> x]
Put(f, k, v) == [x \in DOMAIN f \cup {k} |-> IF x = k THEN v ELSE f[x]]
NoBucket == [allocs |-> 0, frees |-> 0, alloc_size |-> 0, free_size |-> 0]
Counted(b, n) == [b EXCEPT !.allocs = @ + 1, !.alloc_size = @ + n]
Uncounted(b, n) == [b EXCEPT !.frees = @ + 1, !.free_size = @ + n]
Inuse(b) == b.alloc_size - b.free_size

\* A run without the heap checker, and one in which StartForLeaks ran before
\* any thread was started.
Init ==
    /\ heap_lock = NoThread
    /\ need_for_leaks \in BOOLEAN
    /\ is_on = need_for_leaks
    /\ new_hook = is_on /\ delete_hook = is_on
    /\ done_first_alloc = is_on /\ strip_frames = is_on
    /\ filename_prefix = FALSE
    /\ dumping = FALSE
    /\ table = Empty /\ num_buckets = 0
    /\ total = NoBucket
    /\ allocation = Empty
    /\ last_dump = 0 /\ high_water_mark = 0
    /\ live = Empty
    /\ stack = [t \in Threads |-> <<>>]
    /\ failed = None

-----------------------------------------------------------------------------
(* malloc and free                                                           *)

\* Where a thread runs code that is not the profiler's, or library code that
\* allocates: fopen, fputs and the buffer of a profile.
Outside(t) == At(t) \in {"run", "write", "written", "profile"}

\* do_malloc gives p and the hook is called, which for the first call of all
\* expects to come from EarlyStartLocked.  The thread goes on with rest.
Allocated(t, p, n, rest) ==
    /\ total.allocs < MaxAllocs
    /\ live' = Put(live, p, n)
    /\ stack' = [stack EXCEPT ![t] =
         IF new_hook THEN <<Frame("record_alloc", p, 0)>> \o rest ELSE rest]
    /\ failed' = IF new_hook /\ ~ done_first_alloc THEN "first allocation" ELSE failed
    /\ done_first_alloc' = (done_first_alloc \/ new_hook)

Malloc(t) ==
    /\ Outside(t)
    /\ \E p \in Ptrs \ DOMAIN live, n \in Sizes : Allocated(t, p, n, stack[t])
    /\ UNCHANGED <<heap_lock, switches, dumping, new_hook, delete_hook, strip_frames, profile>>

\* free calls the hook and then do_free.
FreedFirst(t, p, rest) ==
    /\ stack' = [stack EXCEPT ![t] =
         IF delete_hook THEN <<Frame("record_free", p, 0)>> \o rest ELSE rest]
    /\ live' = Restrict(live, DOMAIN live \ {p})
Freed(t, p, rest) ==
    IF delete_hook
    THEN /\ stack' = [stack EXCEPT ![t] = <<Frame("record_free", p, 0)>> \o rest]
         /\ UNCHANGED live
    ELSE /\ stack' = [stack EXCEPT ![t] = rest]
         /\ live' = Restrict(live, DOMAIN live \ {p})

\* An object that is not in the middle of malloc or free, nor GetHeapProfile's.
Free(t) ==
    /\ Outside(t)
    /\ \E p \in Ptrs \ {f.ptr : f \in Frames} : p \in DOMAIN live /\ Freed(t, p, stack[t])
    /\ UNCHANGED <<heap_lock, switches, dumping, hooks, profile, failed>>

-----------------------------------------------------------------------------
(* Recording                                                                 *)

LockFree == heap_lock = NoThread

\* A dump is due when enough was allocated since the last one or, if not, when
\* more is in use than at the last one of this kind.
AllocatedEnough == total'.alloc_size >= last_dump + AllocationInterval
InuseGrown == Inuse(total') > high_water_mark + InuseInterval
DumpDue == ~ dumping /\ (AllocatedEnough \/ InuseGrown)

Marks ==
    /\ last_dump' = IF ~ dumping /\ AllocatedEnough THEN total'.alloc_size ELSE last_dump
    /\ high_water_mark' = IF ~ dumping /\ ~ AllocatedEnough /\ InuseGrown
                          THEN Inuse(total') ELSE high_water_mark

\* DumpLocked up to where it drops the lock.
StartsDump(t) ==
    IF filename_prefix
    THEN /\ dumping' = TRUE
         /\ Jump(t, Frame("write", None, 0))
    ELSE Return(t) /\ UNCHANGED dumping

RecordAlloc(t) ==
    /\ At(t) = "record_alloc" /\ LockFree
    /\ LET p == Head(stack[t]).ptr
           n == live[p]
       IN  \/ ~ is_on /\ Return(t) /\ UNCHANGED <<dumping, profile>>
           \/ /\ is_on
              /\ \E s \in Stacks :
                   /\ table' = Put(table, s,
                        Counted(IF s \in DOMAIN table THEN table[s] ELSE NoBucket, n))
                   /\ num_buckets' = num_buckets + (IF s \in DOMAIN table THEN 0 ELSE 1)
                   /\ allocation' = Put(allocation, p, [bucket |-> s, bytes |-> n])
              /\ total' = Counted(total, n)
              /\ Marks
              /\ IF DumpDue THEN StartsDump(t) ELSE Return(t) /\ UNCHANGED dumping
    /\ UNCHANGED <<heap_lock, switches, hooks, live, failed>>

\* FindAndRemove, and the rest of free.
RecordFree(t) ==
    /\ At(t) = "record_free" /\ LockFree
    /\ LET p == Head(stack[t]).ptr
       IN  /\ IF is_on /\ p \in DOMAIN allocation
              THEN LET v == allocation[p]
                   IN  /\ table' = [table EXCEPT ![v.bucket] = Uncounted(@, v.bytes)]
                       /\ total' = Uncounted(total, v.bytes)
                       /\ allocation' = Restrict(allocation, DOMAIN allocation \ {p})
              ELSE UNCHANGED <<table, total, allocation>>
           /\ live' = Restrict(live, DOMAIN live \ {p})
    /\ Return(t)
    /\ UNCHANGED <<heap_lock, switches, dumping, hooks, num_buckets, last_dump, high_water_mark, failed>>

-----------------------------------------------------------------------------
(* Dumping                                                                   *)

\* HeapProfilerDump looks at is_on_ and num_buckets ...
HeapProfilerDump(t) ==
    /\ At(t) = "run"
    /\ is_on /\ num_buckets > 0
    /\ Call(t, Frame("dump", None, 0))
    /\ UNCHANGED <<heap_lock, switches, dumping, hooks, profile, live, failed>>

\* ... and then locks.
DumpLockedAnyway(t) ==
    /\ At(t) = "dump" /\ LockFree
    /\ StartsDump(t)
    /\ UNCHANGED <<heap_lock, switches, hooks, profile, live, failed>>
DumpLocked(t) ==
    /\ At(t) = "dump" /\ LockFree
    /\ \/ dumping /\ Return(t) /\ UNCHANGED <<dumping, failed>>
       \/ ~ dumping /\ is_on /\ StartsDump(t) /\ UNCHANGED failed
       \/ ~ dumping /\ ~ is_on /\ failed' = "is_on_" /\ UNCHANGED <<dumping, stack>>
    /\ UNCHANGED <<heap_lock, switches, hooks, profile, live>>

\* The file is opened, or not.
OpenFile(t) ==
    /\ At(t) = "write"
    /\ \E opened \in BOOLEAN :
         stack' = [stack EXCEPT ![t] =
           (IF opened THEN <<Frame("profile", None, 0)>> ELSE <<>>)
           \o <<Frame("written", None, 0)>> \o Tail(@)]
    /\ UNCHANGED <<heap_lock, switches, dumping, hooks, profile, live, failed>>

\* GetHeapProfile, by the application.
GetHeapProfile(t) ==
    /\ At(t) = "run"
    /\ Call(t, Frame("profile", None, 0))
    /\ UNCHANGED <<heap_lock, switches, dumping, hooks, profile, live, failed>>

\* Its loop: a list for as many buckets as there are now and some more ...
NewList(t) ==
    /\ At(t) = "profile"
    /\ \E p \in Ptrs \ DOMAIN live, n \in Sizes :
         Allocated(t, p, n, <<Frame("collect", p, num_buckets + Slack)>> \o Tail(stack[t]))
    /\ UNCHANGED <<heap_lock, switches, dumping, new_hook, delete_hook, strip_frames, profile>>

\* ... and under the lock all buckets, if they still fit.
Collect(t) ==
    /\ At(t) = "collect" /\ LockFree
    /\ LET f == Head(stack[t])
           again == is_on /\ num_buckets > f.nb
       IN  Freed(t, f.ptr, (IF again THEN <<Frame("profile", None, 0)>> ELSE <<>>) \o Tail(stack[t]))
    /\ failed' = IF is_on /\ Cardinality(DOMAIN table) # num_buckets THEN "n" ELSE failed
    /\ UNCHANGED <<heap_lock, switches, dumping, hooks, profile>>

\* DumpLocked's end.
CloseFile(t) ==
    /\ At(t) = "written" /\ LockFree
    /\ dumping' = FALSE
    /\ Return(t)
    /\ UNCHANGED <<heap_lock, switches, hooks, profile, live, failed>>

-----------------------------------------------------------------------------
(* Starting and stopping                                                     *)

\* HeapProfilerStart; when the profiler is off, EarlyStartLocked up to its own
\* allocation, with the lock held.
HeapProfilerStart(t) ==
    /\ At(t) = "run" /\ LockFree
    /\ ~ filename_prefix
    /\ \/ /\ is_on
          /\ filename_prefix' = TRUE
          /\ UNCHANGED <<heap_lock, is_on, need_for_leaks, hooks, profile, stack, failed>>
       \/ /\ ~ is_on
          /\ heap_lock' = t
          /\ is_on' = TRUE
          /\ failed' = IF need_for_leaks THEN "abort" ELSE failed
          /\ table' = Empty /\ num_buckets' = 0 /\ total' = NoBucket /\ allocation' = Empty
          /\ last_dump' = 0
          /\ new_hook' = TRUE
          /\ done_first_alloc' = FALSE
          /\ Call(t, Frame("first", None, 0))
          /\ UNCHANGED <<filename_prefix, need_for_leaks, delete_hook, strip_frames, high_water_mark>>
    /\ UNCHANGED <<dumping, live>>

\* The first allocation, which finds out how many frames are the hook's.
FirstAllocation(t) ==
    /\ At(t) = "first"
    /\ failed' = IF strip_frames THEN "strip_frames_" ELSE failed
    /\ done_first_alloc' = TRUE
    /\ strip_frames' = TRUE
    /\ delete_hook' = TRUE
    /\ filename_prefix' = TRUE
    /\ heap_lock' = NoThread
    /\ Return(t)
    /\ UNCHANGED <<is_on, need_for_leaks, dumping, new_hook, profile, live>>

\* StopLocked once nobody needs the profile.
TurnOff ==
    /\ is_on' = FALSE
    /\ new_hook' = FALSE /\ delete_hook' = FALSE
    /\ table' = Empty /\ allocation' = Empty
    /\ UNCHANGED <<done_first_alloc, strip_frames, num_buckets, total, last_dump, high_water_mark>>

HeapProfilerStopAnyway(t) ==
    /\ At(t) = "run" /\ LockFree
    /\ is_on
    /\ filename_prefix' = FALSE
    /\ TurnOff
    /\ UNCHANGED <<heap_lock, need_for_leaks, dumping, live, stack, failed>>
HeapProfilerStop(t) ==
    /\ At(t) = "run" /\ LockFree
    /\ is_on
    /\ filename_prefix' = FALSE
    /\ IF need_for_leaks THEN UNCHANGED <<is_on, hooks, profile>> ELSE TurnOff
    /\ UNCHANGED <<heap_lock, need_for_leaks, dumping, live, stack, failed>>

StopForLeaks(t) ==
    /\ At(t) = "run" /\ LockFree
    /\ need_for_leaks' = FALSE
    /\ IF is_on /\ ~ filename_prefix THEN TurnOff ELSE UNCHANGED <<is_on, hooks, profile>>
    /\ UNCHANGED <<heap_lock, filename_prefix, dumping, live, stack, failed>>

\* A HeapLeakCheck is made or checked: DumpProfileLocked with the lock held to
\* the end, so that nothing is left changed, unless a dump is under way.
DumpProfileLocked(t) ==
    /\ At(t) = "run" /\ LockFree
    /\ need_for_leaks
    /\ failed' = IF dumping THEN "dumping_" ELSE failed
    /\ UNCHANGED <<heap_lock, switches, dumping, hooks, profile, live, stack>>

-----------------------------------------------------------------------------

Next ==
    /\ failed = None
    /\ \E t \in Threads :
         \/ Malloc(t) \/ Free(t) \/ RecordAlloc(t) \/ RecordFree(t)
         \/ HeapProfilerDump(t) \/ DumpLocked(t) \/ OpenFile(t) \/ CloseFile(t)
         \/ GetHeapProfile(t) \/ NewList(t) \/ Collect(t)
         \/ HeapProfilerStart(t) \/ FirstAllocation(t)
         \/ HeapProfilerStop(t) \/ StopForLeaks(t) \/ DumpProfileLocked(t)

Spec == Init /\ [][Next]_vars

-----------------------------------------------------------------------------
(* Properties                                                                *)

\* What a bucket says is in use: objects, and their bytes.
Recorded(s) == {p \in DOMAIN allocation : allocation[p].bucket = s}
Bytes(objects) == UNION {{p} \X (1 .. allocation[p].bytes) : p \in objects}
InuseIs(b, objects) ==
    /\ b.allocs - b.frees = Cardinality(objects)
    /\ Inuse(b) = Cardinality(Bytes(objects))

\* While the profiler is on, every object it has recorded is allocated, with the
\* size it has recorded, and the buckets and the total agree with the map: no
\* free is missed and none is recorded for an address that somebody else has
\* meanwhile, although the hooks are read, and free goes on, without the lock.
ProfileExact ==
    is_on /\ LockFree =>
        /\ \A p \in DOMAIN allocation : p \in DOMAIN live /\ live[p] = allocation[p].bytes
        /\ \A s \in DOMAIN table : InuseIs(table[s], Recorded(s))
        /\ InuseIs(total, DOMAIN allocation)

\* DumpLocked and, after it dropped the lock, the rest of a dump: one thread at
\* a time, and once only, is there when dumping_ says so, also across a stop.
Dumps(procedures) ==
    {i \in 1 .. Len(procedures) : procedures[i].at \in {"write", "written"}}
OneDumper ==
    /\ dumping <=> \E t \in Threads : Dumps(stack[t]) # {}
    /\ \A t, u \in Threads : \A i \in Dumps(stack[t]), j \in Dumps(stack[u]) : t = u /\ i = j

\* Outside the lock the profiler is on when somebody needs it, a dump file or
\* the heap checker, and then both hooks are set: the abort() of
\* EarlyStartLocked is for states that cannot be.
OnWhenNeeded ==
    LockFree => /\ is_on <=> need_for_leaks \/ filename_prefix
                /\ new_hook = is_on /\ delete_hook = is_on

\* The assertions hold: of DumpLocked (is_on_), of the first call of RecordAlloc
\* (bytes == kFirstAllocationNumBytes, strip_frames_ == 0), of DumpProfileLocked
\* (!dumping_) and of GetHeapProfile (n == num_buckets_).
AssertionsHold == failed = None

=============================================================================
