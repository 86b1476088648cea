# ferp: models and proofs

This directory is a verification development of **ferp**, a fork of an early
google-perftools: a thread-caching malloc (`src/src/tcmalloc.cpp`), a CPU
profiler, a heap profiler and a heap checker. It holds TLA+ modules translated
from the source, TLC configurations that check them on small instances, and
proofs that TLAPS checks for every value of the constants. The repository has no
documentation and no tests, so the code, with its assertions, is the only
reference.

## 1. The system

The allocator is a stack of five structures. Each asks the one below it for
larger pieces, and each is guarded differently. On it stand the profilers and
the heap checker, which learn of every block through hooks.

| Component (source) | State | Operations | Guard | What makes it correct |
|---|---|---|---|---|
| Size classes (`tcmalloc.cpp` 33-239, 1680-1692) | `class_to_size`, `size_base`, `size_shift`, ... built once | `InitSizeClasses`, `SizeClass`, `NumMoveSize` | none: constant after initialisation | every size finds the tightest class; the fields the numbers are kept in are wide enough |
| System allocation (`systemalloc.cpp`) | failure flags, position in `/dev/mem`, the break | `TCMalloc_SystemAlloc`, `TrySbrk`, `TryMmap`, `TryDevMem` | its own spin lock; the break is shared with everybody | aligned, disjoint, owned regions; it gives up only when all sources fail |
| Page heap (`tcmalloc.cpp` 314-715) | spans, `free_[]`, `large_`, page map, counters | `New`, `Split`, `Carve`, `Delete`, `RegisterSizeClass`, `GrowHeap` | `pageheap_lock` | spans tile memory; no two free neighbours; the page map is right where it is read |
| Radix trees (`pagemap.hpp`) | nodes of two or three levels | `get`, `set`, `Ensure`, `PreallocateMoreMemory` | `pageheap_lock`; `get` also without | a map; what `Ensure` promised can be read |
| Central free lists (805-1090) | per class: `nonempty_`, `empty_`, `counter_`, transfer cache | `InsertRange`, `RemoveRange` | one spin lock per class, dropped in the middle of operations | no deadlock; objects neither lost nor duplicated; capacity conserved |
| Thread caches (715-803, 1101-1319) | a cache per thread, the list of caches, limits | `Allocate`, `Deallocate`, `Scavenge`, `GetCache`, `CreateCacheIfNecessary`, `DeleteCache`, `InitTSD` | owned by one thread; the list under `pageheap_lock` | one cache per thread, through reentrancy, exit and reuse of `pthread_t` |
| Allocation front end (1596-1905) | `sampled_objects`, new-handler | `malloc`, `calloc`, `realloc`, `free`, `memalign`, `operator new` and `delete` | none of its own but `set_new_handler_lock` | hooks and sample list agree with the blocks; contents are kept; the new-handler is not lost |
| Metadata allocator (242-300) | free list, current chunk, per type | `New`, `Delete`, `Init` | callers hold `pageheap_lock` | objects do not overlap and are in one place |
| Statistics (1330-1475, 1515-1594) | none | `ExtractStats`, `DumpStats`, `mallinfo`, properties, `DumpStackTraces` | each lock in turn | figures are off by no more than what moved; a dump fits its array |
| Hooks (`malloc_hook.cpp`, `mallochk.hpp`) | four function pointers | `Set*Hook`, `Invoke*Hook` | none | told of a block before its user and its end before the next user |
| CPU profiler (`profiler.cpp`) | hash table, eviction buffer, output file | `Start`, `Stop`, `FlushTable`, `Add` (a signal handler) | `state_lock_`, `table_lock_` | no sample lost or counted twice; the handler never waits for its own thread |
| Heap profiler (`heap-profiler.cpp`) | buckets, allocation map, dump thresholds | `RecordAlloc`, `RecordFree`, `DumpLocked`, `Start`, `Stop` | `heap_lock`, dropped while dumping | totals agree with the map; on when and only when needed |
| Address map (`addressmap.hpp`) | buckets, clusters, blocks, free entries | `Find`, `Insert`, `FindAndRemove`, `Iterate` | callers hold `heap_lock` | a map; an entry is in one place |
| Profiler memory (`heap-profiler.cpp` 82-163) | blocks, current block | `Init`, `Alloc`, `Clear` | callers hold `heap_lock` | pieces lie in mapped blocks and do not overlap |
| Heap checker (`heapcheck.cpp`) | names of checks, ignored objects | a `HeapLeakCheck`'s life, marking from the roots | both locks, all other threads stopped | everything reachable is ignored, once, however the lister ends |
| Thread lister (`base/threads.cpp`) | list of attached threads | `ListAllProcessThreads`, `ResumeAllProcessThreads` | ptrace | every thread is stopped when the callback runs, and runs again afterwards |

They interact by calls downwards (thread cache → central list → page heap →
system), by shared state (the page map is read without a lock by `do_free`;
`per_thread_cache_size` and the victim's `cache_size_` are too), by callbacks
(the destructor of `heap_key`, hooks, the signal handler, the lister's function)
and through locks that are dropped and retaken: `Populate`, `ReleaseToSpans` and
`LockInverter` in the allocator, `DumpLocked` in the heap profiler.

**What is hard.** (1) Two threads that steal transfer-cache capacity from each
other's class. (2) Everything another thread can do while a central lock is
dropped. (3) The page map, which is not kept up to date inside spans. (4) A
cache's life: allocation before thread data exists, inside `setspecific`, and in
destructors that run after the cache was deleted. (5) The break, which others
move. (6) A block's address, which another thread gets as soon as the block is
freed, while the hooks and the sample list are told of it outside any lock.
(7) Figures and dumps put together under one lock after another. (8) For the
profilers: signals, hooks and a lock dropped while dumping. (9) Threads that are
made, exit and hold the allocator's lock while they are being stopped.
`PROJECT.json` lists each hazard at its line with the property that covers it, or
with the reason why none does.

## 2. The modules

| Module | Models | Run |
|---|---|---|
| `CentralFreeList` | the central lists, one action per stretch of code between two points where a lock is taken or dropped | `central` |
| `ObjectPool` | what they promise: objects of one class are handed out and taken back | as a property of `central` |
| `PageHeap` | the page heap, one action per operation under `pageheap_lock` | `page_heap` |
| `SizeClasses` | the tables, the lookup, `memalign`'s search | `size_classes` |
| `ThreadCache` | the thread caches and their life | `thread_cache` |
| `SystemAlloc` | the system allocators | `system_alloc` |
| `FrontEnd` | what the application calls, over an abstract allocator | `front_end` |
| `Statistics` | the reports | `statistics` |
| `HeapProfiler` | the heap profiler, and the hooks and leak checks that concern it | `heap_profiler`, `profiler_assertions` |
| `CpuProfiler` | the CPU profiler and its signal handler | `cpu_profiler` |
| `ThreadLister` | the thread lister, the kernel and the program's threads | as part of `HeapChecker` |
| `HeapChecker` | the checks and the marking, on `ThreadLister` | `heap_checker` |
| `PageMap`, `MetaData`, `AddressMap`, `ProfilerMemory` | the data structures that have no lock of their own | together, as `Structures`, in `structures` |
| `KeyMap` | what `PageMap` and `AddressMap` promise: a map | as a property of `structures` |
| `Arithmetic` | shifts and rounding, for `SystemAlloc` and the structures | |
| `MC...` | constants for TLC | |
| `CentralFreeListProofs`, `PageHeapProofs`, `ThreadCacheProofs` (also of `Statistics`), `StructuresProofs` (of `SystemAlloc` and `Structures`), `FrontEndProofs`, `CpuProfilerProofs`, `HeapProfilerProofs`, `HeapCheckerProofs` | theorems | |

### CentralFreeList

The state is the class's fields, one function per field (`lock`, `nonempty`,
`empty`, `counter`, `tc_slots`, `cache_size`), the spans (`sizeclass`, `objects`,
`refcount`) and, per thread, a label and the local variables of the call it is
in. `empty_` is a set: its order is never used. An object is a pair of a span and
an index, so that identity is kept: an object lost, duplicated or returned to the
wrong span is visible. The page heap is seen through its interface (a span is
free or registered to a class; `New` may fail), and thread caches and application
are the one set `client`.

A call that does not drop its lock is one action (`RemoveFromCache`,
`InsertIntoCache`). Otherwise the labels follow the code: `fetch` → `populate`
(lock dropped, page heap called) → `attach` → `refetch`; and for `InsertRange`
`evict` → `peek_size` → `peek_used` (two unlocked reads of the victim) →
`shrink` (the victim's lock) → `revert` (back to the own lock), with `release` →
`delete` → `relock` wherever objects go back to their spans, one object per step.
`race_counter` is incremented without a lock, so `Evict` may name any class.
`ReleaseObject` and the rest are shared by both users of `ReleaseListToSpans`;
`ReleaseClass` says under whose lock it runs.

### PageHeap

All operations run under `pageheap_lock`, so each is one action, and the code's
procedures are operators from heap to heap composed as in the code. The page map
is modelled by the only thing its readers depend on: is the entry of a page the
descriptor of the live span that contains it (`right`), null, or anything else
(`stale`)? `GetDescriptor` of a stale entry finds no span. The radix tree is the
set of leaves that exist; its nodes are in `PageMap`. The system can place a
region anywhere.

The actions are the operations as their callers use them: whole pages
(`do_malloc`, `do_memalign`), `New` with `RegisterSizeClass` (`Populate`), the
aligned allocation of `do_memalign` with its two `Split`s and `Delete`s, and
`Delete`. `Outcomes` includes what happens after `GrowHeap` fell back to a short
region: the span is put on `free_[n]`, the second pass of `New` looks at `large_`
only, and `New` returns NULL although the pages are free.

### SizeClasses

`AddClass` is one iteration of the loop of `InitSizeClasses` with the real
constants; then `Malloc` and `Memalign` look up any size and alignment. The loops
are the real ones: nothing is scaled down.

### ThreadCache

A cache is a record; per class it has the length and the low-water mark of the
list. Which object is on a list is left to `CentralFreeList`; here objects are
counted. The central lists give any number of objects up to a batch.
`inserted` keeps the `InsertRange` calls of the last step, so that the assumption
`CentralFreeList` makes of its callers (`Ranges`: one to a batch of objects) is
checked where the calls are made.

`CreateCacheIfNecessary` ends at the call of `setspecific` (label `set`), where a
reentrant `malloc` and a `free` may run, and continues with the allocation that
wanted a cache (`use`). An exiting thread (`round` ≥ 0) passes `heap_key` once per
destructor round (`Destroy`, then `DeleteCache` under the lock); between any two
steps destructors of other keys may allocate and free, which makes the cache
anew. After `MaxRounds` rounds (`PTHREAD_DESTRUCTOR_ITERATIONS`) the thread is
gone in any case, and a new thread may get its `pthread_t`. `served` is a history
variable. Threads start only after `InitTSD`: a program that starts threads in
static constructors that run before that of `TCMallocGuard` is outside the model
(two threads would share the cache named zero).

### SystemAlloc

One call at a time (the code holds a spin lock throughout), but `OtherSbrk` moves
the break between the up to three `sbrk` calls of `TrySbrk`. `mmap` may place a
mapping anywhere on a page boundary or fail. `regions` and `tried` are history
variables. The checks against overflow of `size + alignment` are left out, as are
alignments that are not powers of two.

### FrontEnd

Each entry point is cut where its calls end: the allocation, the invocation of a
hook, the copy of `realloc`, the release. A thread's `pc` is the label and `call`
its arguments and locals. The allocator behind it is the weakest there can be: it
gives any address that is unused, at once after it was freed. A block's content is
whose bytes it holds and how many from its start (`memory`); `held` is what the
application expects of it, and writes up to the size it asked for. The hooks are
as the heap profiler has them: `recorded` is what they know, `confused` that they
were told something that contradicts it. Sampling is a free choice
(`DoSampledAllocation` gives whole pages and puts the block on `sampled_objects`,
if there is memory for the trace: the code tests this, although the allocator of
traces would abort first).

`cpp_alloc` finds the new-handler by setting another and setting it back, under
`set_new_handler_lock` (label `window`). The application may set its own in that
window without the lock; what it set is then lost. The C++ library offers nothing
better, and `HandlerKept` excepts it (`raced`). A handler may throw, return, or
install another.

### Statistics

`free` holds the free bytes of each part: the central list and the transfer cache
of each class, each thread cache, the page heap. `Take`, `Put` and `GrowHeap` move
bytes between parts and the application at any time; `Extract` reads one part a
step, in the code's order. The figures are computed from what was read with the
code's arithmetic: `% Word` for `uint64_t`, `% IntWord` for the `int`s of
`mallinfo`. `generic.current_allocated_bytes` leaves out the transfer caches, and
so counts what is in them as allocated; that is what `FiguresNear` says of it.

`Measure` and `Fill` are the two locked parts of `DumpStackTraces`, with `Sample`
and `Unsample` between them. Not modelled here: `RecordGrowth`,
`DumpHeapGrowthStackTraces` and the formatting of samples in `mallocext.cpp`, whose
text does not compile in this repository.

### HeapProfiler

What `heap_lock` guards is one action per critical section: `RecordAlloc` and
`RecordFree` (the hooks of `malloc` and `free`, which run after the object is
allocated and before it is freed), `DumpLocked` up to where it drops the lock,
`Collect` (the loop body of `GetHeapProfile`), `CloseFile`, start and stop. Code
that reads without the lock and then takes it is two actions: `HeapProfilerDump`
and `DumpLocked`, `NewList` and `Collect`. A dump allocates through the hooks it
is called from, so a thread has a stack of the procedures it is in, and the
library code of a dump may call `malloc` and `free` at any time (`Outside`).

`live` is the allocator, `allocation` the address map, `table` the buckets by
stack trace. `total` counts from the start of the profile, so the run is bounded by
`MaxAllocs` recorded allocations since the last start. The thresholds are small
so that both kinds of dump happen; `Slack` stands for the `num_buckets / 16 + 8`
spare places in the list of `GetHeapProfile`, and is 0 so that it has to loop.
The initial states are those without the heap checker and with it, after
`StartForLeaks` has run before any other thread. `HeapProfilerStart` of a profiler
that is off ends at the allocation it makes itself, with the lock held
(`FirstAllocation`); in between, the hook is set and others allocate.

`failed` names the assertion that failed; the program then stops, as it does
with the code's assertions, which nothing in the repository compiles out. A first
allocation by somebody else fails it whatever its size: one of exactly 23 bytes
would pass. A leak check is one action, since it holds the lock to the end and
records its own allocations apart. `last_dump` is reset by a start and
`high_water_mark` is not, as in the code.

### CpuProfiler

`Start`, `Stop` and `FlushTable` are cut at each lock and each `sigaction`
(labels in `pc`), and `Signal` may arrive at any thread, in any of these places,
when the handler is installed. Its thread then does nothing else until `Add`, the
handler's critical section, is done; SIGPROF is blocked meanwhile, so handlers do
not nest. A handler that began before `Stop` ignored the signal may get
`table_lock` after `Stop` has freed the table: `AddAfterStop`, where the model ends
(`crashed`), since the code follows a null pointer. No line of the repository
says that this cannot be, so there is no violated property for it, but the run
reaches it.

The table holds traces and counts, its entries numbered in the order of their
addresses (`Bucket`); `evict` and `file` are sequences of records, and the buffer's
length (`num_evicted`) is counted in slots as in the code. A loop over the table is a
recursive function (`Evictions`). `added` and `overrun`
are history variables. Left out: writes that fail (the code exits, holding the
locks for which the destructor of `pdata` then waits), `GetCurrentState`, which
only reads, and a second file: `file` is the one opened last.

### ThreadLister

The lister is a process of its own; the threads of its parent run on until it
attaches to them, and meanwhile make new threads, exit, and take and drop the lock
of the allocator (`holder`). A pass over a directory (`todo`) meets every thread
that is there from its beginning to its end and perhaps those that come meanwhile.
`Visit` attaches, is refused, or finds the thread gone; a pass that found a new
thread is repeated (`NextPass`), one that found too many starts over with a larger
`pids` (`TooMany`), one that found at most one thread goes on to `/proc`
(`OtherDirectory`), and one that found nothing new calls the function (`LastPass`).
Before it opens a directory again the lister lets go all that it has stopped and
empties `pids` (`DetachThreads`, the label `detach_threads`), between the two
directories too: the parent runs again, unless it is the thread that waits for the
lister, and has to be attached again. It may refuse the second time, and the
function is called all the same, since `found_parent` is still set. A refusal is
not counted as a failure. `missed` remembers, for the properties alone, that a
thread was not stopped when a pass should have stopped it: it refused, or it exited
before its turn, or `/proc` shows the process alone though it has more threads.

The lister may fail anywhere (`Failure`) or get a signal (`SignalHandler`). SIGABRT
kills what is attached and with it the program (`alive` is then empty, and nothing
more happens); after any other signal, or a death without one, everything is let go,
by the handler or by the kernel. Processes other than threads, the marker, open
files and the signal stack are left out.

### HeapChecker

`checker` is where each thread's `HeapLeakCheck` is between its own locked
sections, during which others come in: its name is allocated, ignored, used twice,
un-ignored, deleted. While a check runs (`phase`), the lister's steps are this
module's (`Listing`), then the callback marks: live threads, what they do not own,
and the reachable objects, which are a fixpoint (`Mark`). The registers of a thread
may not be had, and when they are its stack may not be found; they are followed
without it, as in the code. What memory holds
(`Memories`) is chosen at that moment: each object is pointed to by a stack, by
registers, by global data, by an object, or by nothing. Whether the extent of a
thread's stack can be found is nondeterministic, since the repository only
declares `GetStackExtent`.

Modelled as the code has them: the callback allocates while all other threads are
stopped, contrary to the comment at `base/syscall.hpp:100`, and waits forever if
one of them holds the allocator's lock (`Waits`); `getpid()` is the main thread's
id, so that a check made by another thread takes its own stack for a stopped
thread's and passes over the main thread's. `heapcheck.cpp` is damaged in places
(names run together, missing punctuation) and is read by its evident intent. Not
modelled: the ELF headers and `/proc/self/maps`, the comparison of the profiles by
pprof, `DisableChecks*` and their ranges (where a lookup by `upper_bound` misses
the outer one of two nested ranges), and the whole-program check at exit.

### Structures

Four structures whose users hold a lock. They share nothing: the variable `used`
says which of them a behaviour is about, so that their state spaces add up and do
not multiply.

`PageMap` is the radix tree node by node, with two or three levels, and the bit
fields of a page number computed as the code shifts and masks them. `Ensure` is
one step per node, between which `get` may run, and may fail half-way. `MetaData`
has several allocators of objects of different sizes over chunks the system places
anywhere. `AddressMap` has the buckets, clusters, blocks and entries, with
`HashInt` at a smaller width; what `Iterate` visits is a set of places (`Visits`).
`ProfilerMemory` cuts pieces out of blocks from
`mmap`. There, `nblocks_` is never incremented (`heap-profiler.cpp:122`): the test
at line 105 never triggers, every block is stored at index 0, and `Clear` unmaps
nothing, so that blocks of an earlier start stay mapped. The model does the same;
the pieces handed out are right nevertheless.

## 3. The runs

| Run | Bounds | Properties |
|---|---|---|
| `central` (435 k states) | 2 threads, 2 spans, classes 0-2; batches of 2 and 1, spans of 2 objects; no symmetry, fairness | `LockDiscipline`, `CapacityConserved`, `SlotsWithinCache`, `ObjectsOnce`, `SpansRight`, `EmptyOnlyOnFailure`, `ImplementsPool`, `LockReleased`, `SomeCallReturns` |
| `page_heap` (222 k) | 7 pages, `kMaxPages` 3, leaves of 2 pages, alignment 2 | `SpansTile`, `PageMapRight`, `FreeMemoryRight` |
| `size_classes` (393 k) | the real constants | `TablesRight`, `MemalignClassReal` |
| `thread_cache` (1 M) | 2 `pthread_t`s, 3 caches, 2 classes, lists up to 3, batch 2, 2 destructor rounds, 2 overall sizes | `OneCachePerThread`, `CacheOwned`, `CountsRight`, `LimitShared`, `AbandonedOnlyLate` |
| `system_alloc` (1 M) | break up to 10, mappings up to 20, pages of 2, `/dev/mem` from 1 to 9, alignments 0, 2 and 4 | `MemoryAccounted`, `NullOnlyAfterAll` |
| `front_end` (6.3 M) | 2 threads, 2 addresses, sizes 1, 2 (one class) and 4 (a page), 1 new-handler, with sampling; symmetry of threads and addresses | `BooksFollowBlocks`, `ContentKept`, `HandlerKept` |
| `statistics` (1.3 M) | 1 class, 2 thread caches, words of 16 and 8 values, moves of 1 and 2, 3 bytes from the system, 2 moved during a report; traces of depth 1 and 2, 1 spare slot, 2 sampled blocks | `FiguresNear`, `DumpFits` |
| `heap_profiler` (3.3 M) | 2 threads, 3 addresses, 2 stack traces, sizes 1 and 2, a dump after 3 bytes allocated or 1 more in use, 3 allocations per start; symmetry of threads, addresses and traces | `ProfileExact`, `OneDumper`, `OnWhenNeeded` |
| `profiler_assertions` | those of `heap_profiler`, without symmetry | `AssertionsHold`, violated: see below |
| `cpu_profiler` (1 M) | 2 threads, 4 traces of 1 and 2 frames, 2 buckets of 2 entries, a buffer of 9 slots, 6 samples to a profile; symmetry of threads | `SamplesConserved`, `ProfileReadable`, `SignalsSafe` |
| `heap_checker` (388 k) | 3 threads, 2 of which check, 2 objects, a stack in one of them, `pids` with no spare place (`Slack` is 0 where the code has 100), threads made without end under 3 identities; fairness | `AllStopped`, `IgnoredRight`, `MarkedOnce`, `NamesThere`, `CheckEnds` |
| `structures` (333 k) | page numbers of 5 bits, ranges up to 3 of 6 pages; 2 allocators with objects of 2 and 3 in chunks of 5; 4 addresses that share blocks, clusters and buckets; blocks of 16, pieces of 3, 5 and 9 | `EnsuredReached`, `NothingUsedTwice`, `ImplementMaps` |

Some properties are conjunctions of parts that have names of their own in the
modules: `SpansRight` (`SpanAccounting`, `NoIdleSpan`), `PageMapRight`
(`DescriptorsRight`, `LeavesExist`), `FreeMemoryRight` (`Coalesced`,
`FreeListsRight`, `PagesCounted`), `CountsRight` (`SizeRight`, `ListsBounded`,
`NothingStranded`), `MemoryAccounted` (`RegionsUsable`, `NothingElseMapped`,
`DeviceMemoryOnce`), `TablesRight` (`TightestClass`, `FieldsFit`),
`NothingUsedTwice` (`EntriesOnce`, `ObjectsApart`, `PiecesApart`) and
`ImplementMaps` (`PageMapIsMap`, `AddressMapIsMap`).

**Why the bounds are enough.** `central`: two threads and three classes (class 0
owns capacity although nothing is allocated from it, as in the code) are what
stealing needs: a thief, a victim that is in use, a third class to steal from.
Two spans let a span be given back and cut again for another class while its
objects are in transit, and a batch smaller than a span leaves spans half empty.
`page_heap`: with `kMaxPages` 3 both `free_[]` and `large_` are used, seven pages
hold a span with free neighbours on both sides, and the map's leaves end inside
spans. `thread_cache`: the list bound of 3 with batches of 2 makes overflow,
scavenging and releases of more than one batch happen; two identities are enough
for reuse, since a third thread can only do what the second did. `system_alloc`:
`/dev/mem` holds two regions, the break several, and alignment 4 exceeds the page
so that mappings are trimmed at both ends. `SizeClasses` has no bound.
`front_end`: two addresses are what `realloc` needs while another thread waits for
one of them; two sizes in one class make it stay in place. `statistics`: more can
move than is in use, so that differences wrap around; a list can grow by a block
that no longer fits. `heap_profiler`: two threads are what every window needs, one
in a dump or before a lock and another that starts, stops or frees; three addresses
leave one to be reused while two are recorded. `cpu_profiler`: three traces compete
for a bucket of two entries, and the buffer holds a header and one record, so that
the handler, `Stop` and `FlushTable` all have to write it in the middle of their
work; there is no bound on how often the profiler is started. `heap_checker`: a
checker that is not the main thread, a thread that is made and one that holds the
lock or exits during a pass; without spare places in `pids` both directories start
over. A thread that has exited leaves its identity to a new one, so that there is no
bound on the threads made, only on those alive at a time. `structures`: ranges begin and end at every place in a leaf, 6 and 7 being
the end of one and 8 the start of another; chunks are divided by neither size.

**What the code does not keep.** Assertions of the heap profiler can fail, which
`profiler_assertions` shows for one: `EarlyStartLocked` has set the hook, and
another thread's `malloc` comes before its own
(`assert(bytes == kFirstAllocationNumBytes)`, `heap-profiler.cpp:409`). In the same
model, after other steps,

* `HeapProfilerDump` sees `is_on_`, another thread stops the profiler, and
  `DumpLocked` finds it off (`assert(is_on_)`, `:339`);
* start, stop, start by one thread: `strip_frames_` is never reset
  (`assert(strip_frames_ == 0)`, `:410`);
* a `HeapLeakCheck` takes the lock a dump has dropped
  (`assert(!HeapProfiler::dumping_)`, `heapcheck.cpp:868`).

The properties of `heap_profiler` hold in all states up to the first such failure.

**Fairness.** In `central` a thread *inside* a call keeps taking steps when it can
(weak fairness of `Busy`), because nothing in a call waits for anything but a spin
lock. A thread outside may never call again, and a waiter is promised nothing:
`TCMalloc_SlowLock` sleeps and retries, so another thread may win every time. Hence
the properties: a lock is always given back (`LockReleased`), and when all threads
are inside calls one of them returns (`SomeCallReturns`). That *each* call returns
does not follow and is not claimed. In `heap_checker` the lister and the thread that
waits for it are scheduled (weak fairness of `Check`), and so is a thread that holds
the allocator's lock, unless it is stopped (of `DropLock`). `CheckEnds` then excepts
what the code does not exclude: a callback that was interrupted, a program that was
killed, a callback that waits for the allocator's lock while its holder is stopped,
and a program that makes threads for ever, each of which exits before it is
attached (TLC shows a pass without end when that exception is left out). The other
runs are of safety and assume no fairness.

Each property has, in `PROJECT.json`, a mutant: a plausible slip in the code (a
dropped guard, a wrong order, an off-by-one) that TLC finds through this property.
The mutated forms stand next to the definitions they replace.

## 4. The proofs

`CentralFreeListProofs` holds for any number of threads, spans and classes, under
the assumptions of `CentralFreeList` (there is a class; `NoThread` and `NoSpan`
are neither threads nor spans):

* `LockDisciplineHolds`: a thread never holds two central locks, and none while
  it waits for one or for `pageheap_lock`; so there is no cycle of waiting.
* `CapacityConservedHolds`: `cache_size_` over all classes, plus one for each
  thread between `ShrinkCache` and `cache_size_++`, is always the number of classes.
* `SlotsWithinCacheHolds`: the assertions of `InsertRange`. The second half,
  `cache_size_ <= kNumTransferEntries`, is what the code itself never checks after
  retaking the lock; it follows from conservation, since no class can have more
  than all the capacity there is.

None of them is inductive. `IInv` adds what the code relies on silently: which
lock is held at each label (`LocksOK`), that a thread has a victim exactly between
`Evict` and `Revert` (`VictimOK`) and carries capacity only on its way back
(`GrownOK`). Capacity is counted by a set of tokens (`CapacityTokens`): one
pair ⟨class, i⟩ per slot and one per thread in transit. A step then replaces one
token by another (`Exchange`) or none, so its cardinality stays; this avoids sums
over functions, which would need induction. `Control` is proved one lemma per
action, then `CapacityStep` and `SlotsStep`, and `Invariance` puts them together.

The second half of the module is about the objects themselves, with any sizes of
batches and spans, under the same assumptions:

* `ObjectsOnceHolds`: every object of a cut span is in exactly one place (with the
  client, free in its span, in a used slot of a transfer cache, or in a list of one
  call in progress), and every list holds objects of its own class.
* `EmptyOnlyOnFailureHolds`: the fetch after `Populate` finds an object if `Populate`
  had a span, although the lock was dropped and retaken in between.
* `ImplementsPoolHolds`: the central lists implement `ObjectPool`.
* `SpansRightHolds`: `counter_` and `refcount` are exact, a span is on the list where it
  belongs, and an idle span goes back to the page heap.

Counting the places of an object, as `ObjectsOnce` does, is awkward to carry through
a step. The inductive invariant `OInv` says instead that there is a function `loc` from
objects to places (`Placed`): the object is in `loc[o]` and nowhere else (`IsAt`), and
that place is one for objects of its class (`Fits`). An action moves the objects
of one list to one new place, and the lemma `Moves` gives the new function.
Around it stand what a thread has with it at each label (`AtLabel`), lists without
duplicates and within a batch (`Listed`), and `SpansKept`: `refcount` against the
length of `objects`, what is on `nonempty_`, and that no two threads carry the same
span. The hard step is `ReleaseLastObject`: the last object goes back but, like the
code, the model does not push it on `objects`; so the dying span's list lacks exactly
one object (`OnlyOneOut`, a pigeonhole argument on cardinalities), and none of the
span's objects can be anywhere else when `DeleteSpan` runs. `SpansRight` needs `SInv`
on top: `counter_` is the cardinality of the free objects on the spans of a class, and
a new span, whose `refcount` is 0 although it is in nobody's hand, stays at the head of
`nonempty_` until the thread that brought it has fetched from it (`NewSpan`), which is
why no other thread can find it idle and give it back.

`PageHeapProofs` holds for any address space, `kMaxPages`, size of a leaf and
alignments, and for a system that places regions anywhere:

* `SpansTileHolds`: the live spans do not overlap and are all the memory there is.
* `PageMapRightHolds`: the page map names the right span on the first and last page of
  every span, just outside it, and on all pages of one with a size class; and the leaves
  that are read exist.
* `FreeMemoryRightHolds`: two free spans never touch, every free span is on the list
  for its length exactly once, the lists are in the order `AllocLarge` relies on, and
  the counters of pages are right.

None of the three is inductive alone. `Delete` finds the neighbours of a span through the
page map (`Described`), merges what it finds (`Merged`), and takes it off a list
that it must be on (`Listed`); a stale entry at the edge of a span would make it merge
with a span that is not there. `Sound` is the conjunction of these; it is a predicate of
a heap, and each of the code's procedures has a lemma from heap to heap, so the proof of
an operation composes them as the code does. Only the counters are wrong in the middle
of `Delete` (`Good` adds them): what its halves keep is the union of the free pages and
those of the span in hand (`Spare`, `Absorbed`). The inductive invariant `IInv` is
`Good` of the heap. That best fit finds a span (the least length, then the least
address) rests on the well-foundedness of the naturals.

`ThreadCacheProofs` holds for any number of threads, caches, classes and limits,
under the assumptions of `ThreadCache`:

* `OneCachePerThreadHolds`: a thread never has two caches, although its name may
  have been used by earlier threads and its first cache was made without a name.
* `CacheOwnedHolds`: the cache a thread works on is listed, is its own, and no other
  thread has it; in particular nobody keeps a cache that `DeleteCache` freed.
* `NoRecursionHolds`: `in_setspecific_` does its work.
* `LimitSharedHolds`: the limits of all caches keep to the overall size or are the
  least there is, after any coming and going of threads. The arithmetic is the lemma
  `ShareFits`.

The first three rest on `IInv`: a cache in use is listed under the very name its
thread looks it up by (`Owned`, with `Me`), which is the zero name before `InitTSD`
and then only the main thread's (`Early`, `Named`); and in `set` the flag is raised in
the cache at hand, which is the one a reentrant call finds (`AtLabel`). Steps that
only move objects keep the names of all caches (`NamesKept`) and need one argument
for all of them (`OwnStep`); what is in the lists does not matter to them. `LimitShared` is
inductive once the caches are known to be finitely many (`LimitInv`), but
`DeleteCache` needs `Owned`: the cache it counts off must have been on the list.

* `AbandonedOnlyLateHolds`: a cache is left behind by an exiting thread only if a
  destructor made it in the last round. `FlagsRight` is the converse of `AtLabel`: a
  raised `in_setspecific_` belongs to a call in progress, so an allocation of an
  exiting thread that makes a cache always tells `pthread` of it; and `DeleteCache`
  takes the only cache of its name (`NothingLeft`).
* `CountsRightHolds`: what a cache counts is what its lists hold, and no object is
  stranded. `CountInv` adds that a cache has empty lists when it is about to be taken
  off the list (`Emptied`; nobody else fills it meanwhile, since it has one owner),
  which would strand the rest. Each step changes the
  lists of one cache (`OneList`, `Counted`) and the world outside by the same amount
  (`ExchangeStep`): `ReleaseToCentralCache` returns what it takes off, in calls of one
  object to a batch (`PiecesRight`, `ReleaseRight`). The sums are the library's
  `SumFunction`, a recursive function; that it exists and unfolds (`AddsExists`), that
  any element can be taken out (`SumSplit`) and that it adds term by term (`SumPlus`)
  are proved from the least number principle, for which the assumption that the classes
  are finitely many was added.

`ThreadCacheProofs` also has the theorems about `Statistics`, for the lemmas about sums.
They hold for any number of classes and caches, any ranges of the figures' types, and
any depths of traces:

* `FiguresNearHolds`: the figures are right but for at most what moved. The sum over all
  parts of the distance between what was read of a part and what is in it now
  (`GapSizes`) is at most `moved`: a move changes one distance by its own size
  (`WithinMoves`), a read makes one zero (`WithinRead`). The page heap grows together
  with the bytes from the system, which are read with it, so its distance is measured
  without the growth (`Gap`); otherwise growth would count twice. That is `StatsInv`. A
  figure then differs from the right one by a sum of signed distances of some of the
  parts, which is no more in size (`GapsWithin`), and a remainder differs by as much
  (`SameModulo`). For `generic.current_allocated_bytes` the transfer caches are left out
  of the sum. `ReadsAre` says that the order of the reads passes over no part.
* `DumpFitsHolds`: a dump keeps within its array. `DumpInv` adds that the array is larger
  than the list takes as long as no block was sampled since it was measured; removing a
  block from the middle does not make a list longer (`SlotsRemoved`). That at least one
  slot is spare (`Slop`), of the code's 100, is needed for the terminator.

`StructuresProofs` begins with the system allocator. That part holds for any sizes, layout of the address space and limits of
`/dev/mem`, and any alignments each of which divides a page or is a number of pages: the
code takes remainders by masks, so alignments and the page are powers of 2.

* `MemoryAccountedHolds`: every region is aligned, mapped and the caller's alone,
  whatever other code does to the break between two calls of `sbrk`; nothing but what
  was returned stays of the mappings; and no physical memory is given twice or beyond
  the limit. The property lacks three things an induction needs: what the process owns
  is below the break or was mapped (`Layout`), so what `sbrk` and `mmap` give is new;
  the first piece of `TrySbrk` is still nobody's when the second arrives (`PieceKept`);
  and all that was taken from the device is below `physmem_base` (`BelowBase`). That a
  mapping longer by `Extra` has room for an aligned region rests on `AdjustPages`: from
  a page boundary the next aligned address is at most `Extra` away, since both are
  whole pages. Such facts about remainders are proved from quotients (`Multiple`,
  `Quotient`), which the SMT solver does not find itself.
* `NullOnlyAfterAllHolds`: a call gives up only after each allocator was tried. `Rounds`
  says why the failure flags do not spare one: those set in the second round are of
  allocators this call has tried in it.

The rest of the module is about `Structures`. All its theorems are of the specification in
which one of the four moves and the others stand still, which is how they are checked:

* `EnsuredReachedHolds`: what `Ensure` promised can be read, for page numbers of any
  number of bits and a root of any, two levels or three, and regions that begin and end
  anywhere. `PageMapInv` says what a loop invariant of `Ensure` would: the leaves of the
  pages before its key are there (`EnsureKept`). The page numbers between a key and the
  next are in the leaf of the key (`NextKey`, against `LeafNumber`): the indices are
  shifted and masked, the leaf's number is a quotient, and `SameLeaf` shows that the one
  tells as much as the other. No bound on `BITS` is needed; `BITS` is more
  than 1, since of 1 the code would make a leaf of -1 bits.
* `ImplementMapsHolds`: both tables implement `KeyMap` (`PageMapRefines`,
  `AddressMapRefines`). For the page map it is `SlotsThere` and that different pages have
  different slots. For the address map it is `AddressInv`: a bucket has one cluster of a
  number, which hashes to it (`PlacedRight`, `ClustersOnce`), and a block has one entry
  of a key (`KeysOnce`). What is in the table is then a set of records ⟨entry, key,
  value⟩ (`Table`), to which `Insert` adds one and from which it or `FindAndRemove` takes
  those of one key; `Find` reads it off the set. The hash enters only as a function
  into the buckets.
* `NothingUsedTwiceHolds`: every entry is in one place and `Iterate` visits each key once
  (`NumbersRight`: entries in use and free entries are apart and are all that were
  made); the objects of the metadata allocators do not overlap (`MetaInv`: they are in
  chunks of their own allocator, apart from what is left of the last one); nor do the
  pieces of the heap profiler's memory (`ProfilerInv`: behind the position in the current
  block nobody has anything). The cardinalities of `EntriesOnce` come from bijections.

`CpuProfilerProofs` holds for any number of threads, traces, buckets and entries:

* `SignalsSafeHolds`: the handler never interrupts the thread that holds
  `table_lock`, for which it would wait forever, and it is never installed without
  a table. `IInv` says what makes it so: one thread at a time is past `state_lock`;
  between ignoring the signal, or the start, and installing the handler again the
  signal is ignored (`Quiet`), and it holds `table_lock` only there; what it saw of
  `out_` stays so (`On`). A handler that waits when the profiler is stopped is not
  excluded by it, and `AddAfterStop` shows that it cannot be.
* `SamplesConservedHolds`: no sample is lost or counted twice. `DataInv` says for each
  phase where the samples are: while the profiler is on (`Books`) each is in an entry of
  the table or in a record written; while it is off all are in the file, except after
  `Start` has truncated the file and before it has made the table (`Starting`). A count
  is the cardinality of a set of pairs ⟨entry or record, number⟩, which an eviction
  moves (`EvictMoves`). The loop over the table moves them all (`EvictAllMoves`): there
  is no round at which it first fails to (`NoLeast`), an argument that stands in for
  induction, whose theorems in the library take an operator.
* `ProfileReadableHolds`: the same invariant says that the output is a header and samples
  with counts until `Stop` closes it with a trailer, and that making room before each
  record keeps the buffer within its length. The assumption `5 <= kBufferLength` is the
  room of the header, for which the code does not look.

`FrontEndProofs` holds for any number of threads, places, sizes and handlers:

* `BooksFollowBlocksHolds`: the heap profiler's records and the list of sampled
  blocks agree with the blocks, although an address is used again at once.
* `ContentKeptHolds`: a block has the room that was asked for and what its holder
  left in it, through `realloc` by any number of threads.
* `HandlerKeptHolds`: `cpp_alloc` puts back the new-handler it took out.

`IInv` says who owns a block at each label (`Owns`; no two owners, `Apart`), what
the hooks and the list have been told of it by then (`Told`), and what is in it
(`Filled`): the window in which a block exists that the hooks do not know is exactly
the stretch of the thread that owns it. `window` is the critical section of
`set_new_handler_lock`. That the allocator gives the room it is asked for
(`Gives`) is proved from the assumptions on classes and pages.

`HeapProfilerProofs` holds for any number of threads, objects, sizes and stack traces:

* `OnWhenNeededHolds`: whenever `heap_lock` is free, the profiler is on and its hooks
  are set exactly when a dump file or the heap checker needs it. The lock outlives
  an action only in the first allocation of `EarlyStartLocked` (`Holder`), whose
  thread is in no other procedure of the profiler (`Starting`); so nothing a dump
  or an allocation inside a dump does can fall into a half-finished start.
* `OneDumperHolds`: one procedure of one thread is in a dump exactly while `dumping_` is
  set. Procedures are known by their level
  from the bottom of the stack, which does not change when others are called above
  them; `Levels` collects the levels with given labels, and pushing and popping add or
  remove one (`PushIf`, `Below`).
* `ProfileExactHolds`: what the profile says agrees with the blocks. `OwnersRight` says
  in whose hand a block is: of at most one hook or one list of `GetHeapProfile`, or of
  both while the list is being allocated, and then the hook is above the list. The
  hooks are set whenever something is recorded, so a freed block cannot stay in the
  books. A bucket's bytes are counted as a set of pairs ⟨block, byte⟩ (`BytesIn`),
  whose cardinality a record adds to and a `free` takes from; so again there are no sums.

`HeapCheckerProofs` holds for any number of threads, objects and checks:

* `AllStoppedHolds`: when the lister calls the callback every thread is
  stopped, the ones made during its passes too, unless one refused or exited before
  its turn, or `/proc` shows only the process of a program of several threads. `Stops`
  carries the argument. As long as some thread runs, either a pass has found something
  new and will be repeated, or a running thread is still ahead in the pass (`Ahead`);
  so a pass that ends with nothing new leaves nobody running who could make another.
  If that was in the first directory and no more than one thread was found, the
  program has one thread: the parent, which is then the one that waits for the lister
  (`OnlyMain`). It makes no other while all are let go, and the second directory, which
  lists nothing else, is enough.
* `MarkedOnceHolds`: however the lister ended, what is not a thread's is marked
  exactly once (`Phases`: what has been marked in each phase, given where the
  lister is).
* `NamesThereHolds`: checks of several threads never find a name gone, ignored
  twice or not ignored, at which the code aborts (`Names`).
* `IgnoredRightHolds`: what is marked is what can be reached, and the names; `Reachable`
  is defined by closed sets, and the code follows pointers from five lists one after
  the other. The loop of one list ends, because each turn takes an object off and puts
  there only what was not ignored (`Turns`, `TurnsFall`), so the recursive function
  that stands for it exists (`LoopExists`) and can be unfolded. It adds the least set
  that has the live objects and what is behind them (`IsLeast`, `LoopLeast`), if what
  was ignored before is followed already (`FollowedIn`), which each list leaves to the
  next (`LeastThen`). The assumptions that objects and thread identities are
  finitely many, and that a name is no object of the profile's, are for this.

**Only model-checked.** Of the safety properties, `TablesRight` and `MemalignClassReal`: the
size tables are what a loop computes from the real constants, and their properties are
results of that computation, not of an invariant; TLC does the whole of it. Of the rest,
all liveness (`LockReleased`, `SomeCallReturns`, `CheckEnds`): neither fairness nor
`ENABLED` is within the prover's reach. What a recursive definition computes for every
input cannot be had by the library's induction theorems, which take an operator; where a
theorem needs it (sums, powers of 2, the loops of the checker and of `EvictAll`), it is
proved from the least number principle, in terms of sets.

## 5. Not modelled, and the plan

In order of importance:

1. A leak check in steps in `HeapProfiler`, with `dump_for_leaks_` read without the
   lock by a `GetHeapProfile` of another thread (`heap-profiler.cpp:292`).
2. Hooks as pointers that are read twice, for the test and for the call
   (`ferp/mallochk.hpp:28`); the `mmap` and `munmap` hooks, and the window in which
   `AllocBlock` takes one of them away.
3. A write of the CPU profiler that fails: the code exits with both locks held, and
   the destructor of `pdata` then waits for them (`profiler.cpp:430`).
4. An abstract page allocator that `PageHeap` implements and `CentralFreeList` uses.
5. `do_memalign` as the very first allocation: it tests whether `pageheap`, an
   address that is never NULL, is NULL (`tcmalloc.cpp:1677`), and so does not
   initialise the module.
6. `DisableChecks*` and the ranges of code they keep, and the whole-program check.
7. The destructor of `AddressMap`, and the counts per class in `ExtractStats`.

Left out for good: logging, command-line flags, system call wrappers, ELF and
`/proc/self/maps`, the marker and files of the lister, stack unwinding, the text of
dumps and their comparison by pprof; `TCMalloc_PageMap1`, which nothing uses; and
the code that does not compile in this repository (`RecordGrowth`,
`DumpHeapGrowthStackTraces`, the formatting of samples in `mallocext.cpp`).
