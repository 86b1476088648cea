----------------------------- MODULE ThreadCache -----------------------------
(***************************************************************************)
(* The thread caches of tcmalloc.cpp (class TCMalloc_ThreadCache, lines    *)
(* 715-803 and 1101-1319) and their life: how a thread finds or makes its  *)
(* cache, what malloc and free move between the cache and the central      *)
(* lists, and what happens to the cache when the thread exits.             *)
(*                                                                         *)
(* A cache is used by its thread alone, the list of caches under           *)
(* pageheap_lock; one action is the code between two points where another  *)
(* thread, or code of the same thread outside tcmalloc, can tell the       *)
(* difference.  Objects of a class are counted, not named: which object is *)
(* where is the subject of CentralFreeList.                                *)
(***************************************************************************)
EXTENDS Integers, Sequences, FiniteSets, SequencesExt, FiniteSetsExt, Functions

CONSTANTS Threads,           \* pthread_t values; a later thread may reuse one
          Main,              \* the main thread
          Heaps,             \* memory for caches
          Classes,           \* size classes
          Size,              \* ByteSizeForClass
          Batch,             \* num_objects_to_move
          Total,             \* objects of each class there are
          MaxFreeListLength, \* kMaxFreeListLength
          MinCache,          \* kMinThreadCacheSize
          MaxCache,          \* kMaxThreadCacheSize
          Limits,            \* arguments of SetNumericProperty, clipped; the
                             \* largest is the default
          MaxRounds,         \* PTHREAD_DESTRUCTOR_ITERATIONS
          Zero,              \* the pthread_t of all zero bytes
          Null               \* NULL

ASSUME TablesAssumption ==
    /\ IsFiniteSet(Classes)
    /\ Size \in [Classes -> Nat \ {0}]
    /\ Batch \in [Classes -> Nat \ {0}]
    /\ Total \in [Classes -> Nat]
    /\ \A c \in Classes : Batch[c] <= MaxFreeListLength

ASSUME LimitsAssumption ==
    /\ MinCache \in Nat \ {0} /\ MaxCache \in Nat /\ MinCache <= MaxCache
    /\ \A l \in Limits : l \in Nat /\ l >= MinCache
    /\ \E m \in Limits : \A l \in Limits : l <= m
    /\ MaxFreeListLength \in Nat /\ MaxRounds \in Nat

ASSUME NamesAssumption == Main \in Threads /\ Zero \notin Threads /\ Null \notin Heaps

VARIABLES
    tsd_inited,            \* the key exists
    thread_heaps,          \* the caches on the list of all caches
    thread_heap_count,
    overall_thread_cache_size,
    per_thread_cache_size,
    cache,                 \* the contents of each cache
    specific,              \* the thread's value of heap_key
    pc,                    \* where each thread is
    heap,                  \* CreateCacheIfNecessary, DeleteCache: heap
    depth,                 \* calls of setspecific in progress
    round,                 \* how often the exiting thread's destructor loop
                           \* has passed heap_key; NotExiting before
    served,                \* history: the thread has called GetCache
    central,               \* objects the central lists can give
    client,                \* objects the application holds
    inserted               \* the <<class, N>> of the InsertRange calls made
                           \* by the last step

limits == <<overall_thread_cache_size, per_thread_cache_size>>
list   == <<thread_heaps, thread_heap_count, limits>>
thread == <<specific, pc, heap, depth, round, served>>
stock  == <<central, client, inserted>>
vars   == <<tsd_inited, list, cache, thread, stock>>

NotExiting == -1

-----------------------------------------------------------------------------
(* A cache: TCMalloc_ThreadCache::Init and the lists of one cache.           *)

NewCache(tid) ==
    [tid |-> tid, in_setspecific |-> FALSE, size |-> 0,
     length |-> [c \in Classes |-> 0], lowater |-> [c \in Classes |-> 0]]

Push(h, c) == [h EXCEPT !.size = @ + Size[c], !.length[c] = @ + 1]

\* Allocate's Pop.
PopKeepsMark(h, c) == [h EXCEPT !.size = @ - Size[c], !.length[c] = @ - 1]
Pop(h, c) ==
    [h EXCEPT !.size = @ - Size[c],
              !.length[c] = @ - 1,
              !.lowater[c] = Min({@, h.length[c] - 1})]

\* FetchFromCentralCache when RemoveRange gives n objects.
Fetch(h, c, n) == [h EXCEPT !.size = @ + Size[c] * n, !.length[c] = @ + n]

\* ReleaseToCentralCache(c, N[c]) of every class c of DOMAIN N: at most the
\* whole list is released ...
Clip(h, N) == [c \in DOMAIN N |-> Min({N[c], h.length[c]})]

Release(h, N) ==
    LET n == Clip(h, N)
        left == [c \in Classes |-> h.length[c] - (IF c \in DOMAIN n THEN n[c] ELSE 0)]
    IN  [h EXCEPT !.length = left,
                  !.lowater = [c \in Classes |-> Min({@[c], left[c]})],
                  !.size = @ - SumFunction([c \in DOMAIN n |-> Size[c] * n[c]])]

\* ... in InsertRange calls of a batch each, as long as more than one is left,
\* and one call for the rest.
Pieces(c, n) ==
    LET full == IF n = 0 THEN 0 ELSE (n - 1) \div Batch[c]
    IN  [i \in 1 .. full + 1 |-> IF i <= full THEN Batch[c] ELSE n - full * Batch[c]]

Calls(h, N) ==
    [c \in Classes |-> IF c \in DOMAIN N THEN Pieces(c, Clip(h, N)[c]) ELSE <<>>]

\* Scavenge: a class of which some objects were not needed since the last time
\* releases half of those.
Drop(h) ==
    [c \in {d \in Classes : h.lowater[d] > 0} |->
        IF h.lowater[c] > 1 THEN h.lowater[c] \div 2 ELSE 1]
ClearLowWatermarks(h) == [h EXCEPT !.lowater = h.length]

\* Deallocate's first release: a list that is too long gives one batch back.
Overflow(h, c) == IF h.length[c] > MaxFreeListLength THEN [d \in {c} |-> Batch[c]] ELSE <<>>

\* Cleanup: everything.
Cleanup(h) == [c \in {d \in Classes : h.length[d] > 0} |-> h.length[c]]

\* The central lists take the objects of InsertRange calls, made in this order.
Insert(calls) ==
    /\ central' = [c \in Classes |-> central[c] + SumFunction(calls[c])]
    /\ inserted' = UNION {{c} \X ToSet(calls[c]) : c \in Classes}

\* What RecomputeThreadCacheSize computes from the overall size and the number
\* of caches.
ShareRoundedUp(overall, count) ==
    Max({MinCache, Min({MaxCache, overall \div Max({count, 1}) + 1})})
RecomputeThreadCacheSize(overall, count) ==
    Max({MinCache, Min({MaxCache, overall \div Max({count, 1})})})

GoTo(t, label) == pc' = [pc EXCEPT ![t] = label]

-----------------------------------------------------------------------------

\* Before the module's constructor there is the main thread alone.
Init ==
    /\ tsd_inited = FALSE
    /\ thread_heaps = {}
    /\ thread_heap_count = 0
    /\ overall_thread_cache_size = Max(Limits)
    /\ per_thread_cache_size = MaxCache
    /\ cache = [h \in Heaps |-> NewCache(Zero)]
    /\ specific = [t \in Threads |-> Null]
    /\ pc = [t \in Threads |-> IF t = Main THEN "run" ELSE "none"]
    /\ heap = [t \in Threads |-> Null]
    /\ depth = [t \in Threads |-> 0]
    /\ round = [t \in Threads |-> NotExiting]
    /\ served = [t \in Threads |-> FALSE]
    /\ central = Total
    /\ client = [c \in Classes |-> 0]
    /\ inserted = {}

-----------------------------------------------------------------------------
(* malloc                                                                    *)

\* Allocate from cache h, which fetches when its list is empty and gives NULL
\* when that brings nothing; a large or sampled request goes to the page heap.
Allocate(h) ==
    \/ \E c \in Classes :
         \/ /\ cache[h].length[c] > 0
            /\ cache' = [cache EXCEPT ![h] = Pop(@, c)]
            /\ client' = [client EXCEPT ![c] = @ + 1]
            /\ UNCHANGED central
         \/ /\ cache[h].length[c] = 0
            /\ \E n \in 1 .. Min({Batch[c], central[c]}) :
                 /\ cache' = [cache EXCEPT ![h] = Pop(Fetch(@, c, n), c)]
                 /\ central' = [central EXCEPT ![c] = @ - n]
            /\ client' = [client EXCEPT ![c] = @ + 1]
    \/ UNCHANGED <<cache, central, client>>

\* GetCache finds the cache in the thread's data.
Malloc(t) ==
    /\ pc[t] \in {"run", "malloc"}
    /\ tsd_inited /\ specific[t] # Null
    /\ Allocate(specific[t])
    /\ GoTo(t, "run")
    /\ inserted' = {}
    /\ UNCHANGED <<tsd_inited, list, specific, heap, depth, round, served>>

\* The name CreateCacheIfNecessary looks a cache up by, and gives a new one.
MeSwapped(t) == IF tsd_inited THEN Zero ELSE t
Me(t) == IF tsd_inited THEN t ELSE Zero

\* Under pageheap_lock: the thread's cache, wherever it is on the list, or a
\* new one at its head.
FoundNever(t) == {}
Found(t) == {h \in thread_heaps : cache[h].tid = Me(t)}

Link(t, h) ==
    /\ Found(t) = {}
    /\ h \notin thread_heaps
    /\ thread_heaps' = thread_heaps \cup {h}
    /\ thread_heap_count' = thread_heap_count + 1
    /\ per_thread_cache_size' =
         RecomputeThreadCacheSize(overall_thread_cache_size, thread_heap_count + 1)
    /\ UNCHANGED overall_thread_cache_size

\* setspecific is called unless this is a call from inside it.
MustSet(c) == ~ c.in_setspecific /\ tsd_inited

\* GetCache finds no cache: CreateCacheIfNecessary up to the call of
\* setspecific, or, without it, to its end.
CreateCacheIfNecessary(t) ==
    /\ pc[t] \in {"run", "malloc"}
    /\ specific[t] = Null
    /\ \E h \in Heaps :
         LET c == IF h \in thread_heaps THEN cache[h] ELSE NewCache(Me(t))
         IN  /\ \/ h \in Found(t) /\ UNCHANGED list
                \/ Link(t, h)
             /\ heap' = [heap EXCEPT ![t] = h]
             /\ \/ /\ MustSet(c)
                   /\ cache' = [cache EXCEPT ![h] = [c EXCEPT !.in_setspecific = TRUE]]
                   /\ depth' = [depth EXCEPT ![t] = 1]
                   /\ GoTo(t, "set")
                \/ /\ ~ MustSet(c)
                   /\ cache' = [cache EXCEPT ![h] = c]
                   /\ GoTo(t, "use")
                   /\ UNCHANGED depth
    /\ served' = [served EXCEPT ![t] = TRUE]
    /\ inserted' = {}
    /\ UNCHANGED <<tsd_inited, specific, round, central, client>>

\* setspecific may itself call malloc.  That call is a whole do_malloc in which
\* GetCache finds nothing; had it to call setspecific as well, it would come
\* here again.
ReentrantMalloc(t) ==
    /\ pc[t] = "set"
    /\ \E h \in Found(t) :
         \/ /\ ~ MustSet(cache[h])
            /\ Allocate(h)
            /\ UNCHANGED depth
         \/ /\ MustSet(cache[h])
            /\ depth' = [depth EXCEPT ![t] = @ + 1]
            /\ UNCHANGED <<cache, central, client>>
    /\ inserted' = {}
    /\ UNCHANGED <<tsd_inited, list, specific, pc, heap, round, served>>

\* setspecific stores the cache and returns.
StaysInSetspecific(c) == c
LeavesSetspecific(c) == [c EXCEPT !.in_setspecific = FALSE]
SetSpecific(t) ==
    /\ pc[t] = "set"
    /\ specific' = [specific EXCEPT ![t] = heap[t]]
    /\ cache' = [cache EXCEPT ![heap[t]] = LeavesSetspecific(@)]
    /\ depth' = [depth EXCEPT ![t] = 0]
    /\ GoTo(t, "use")
    /\ inserted' = {}
    /\ UNCHANGED <<tsd_inited, list, heap, round, served, central, client>>

\* The malloc that created the cache goes on with it.
UseCache(t) ==
    /\ pc[t] = "use"
    /\ Allocate(heap[t])
    /\ heap' = [heap EXCEPT ![t] = Null]
    /\ GoTo(t, "run")
    /\ inserted' = {}
    /\ UNCHANGED <<tsd_inited, list, specific, depth, round, served>>

-----------------------------------------------------------------------------
(* free                                                                      *)

\* Deallocate: push; give a batch back when the list is too long; scavenge
\* when the cache is too big.
FreeToCache(h, c) ==
    LET pushed == Push(cache[h], c)
        kept == Release(pushed, Overflow(pushed, c))
        scavenge == kept.size >= per_thread_cache_size
        drop == IF scavenge THEN Drop(kept) ELSE <<>>
        scavenged == Release(kept, drop)
        first == Calls(pushed, Overflow(pushed, c))
        second == Calls(kept, drop)
    IN  /\ cache' = [cache EXCEPT ![h] = IF scavenge THEN ClearLowWatermarks(scavenged) ELSE kept]
        /\ Insert([d \in Classes |-> first[d] \o second[d]])

\* do_free of a small object, from anywhere but inside tcmalloc.
Free(t) ==
    /\ pc[t] \in {"run", "set"}
    /\ \E c \in Classes :
         /\ client[c] > 0
         /\ client' = [client EXCEPT ![c] = @ - 1]
         /\ \/ /\ tsd_inited /\ specific[t] # Null
               /\ FreeToCache(specific[t], c)
            \/ /\ ~ (tsd_inited /\ specific[t] # Null)
               /\ Insert([d \in Classes |-> IF d = c THEN <<1>> ELSE <<>>])
               /\ UNCHANGED cache
    /\ UNCHANGED <<tsd_inited, list, thread>>

-----------------------------------------------------------------------------
(* The life of a thread.                                                     *)

\* TCMallocGuard's constructor: InitTSD, then a malloc.
Rename(h) == IF cache[h].tid = Zero THEN [cache[h] EXCEPT !.tid = Main] ELSE cache[h]
InitTSD ==
    /\ ~ tsd_inited
    /\ pc[Main] = "run"
    /\ tsd_inited' = TRUE
    /\ cache' = [h \in Heaps |-> IF h \in thread_heaps THEN Rename(h) ELSE cache[h]]
    /\ GoTo(Main, "malloc")
    /\ inserted' = {}
    /\ UNCHANGED <<list, specific, heap, depth, round, served, central, client>>

\* A thread starts, with a pthread_t nobody uses now.
Start(t) ==
    /\ tsd_inited
    /\ pc[t] = "none"
    /\ GoTo(t, "run")
    /\ inserted' = {}
    /\ UNCHANGED <<tsd_inited, list, cache, specific, heap, depth, round, served, central, client>>

\* It exits; from now on destructors run, those of other keys too, which may
\* malloc and free.
Exit(t) ==
    /\ tsd_inited
    /\ pc[t] = "run"
    /\ round[t] = NotExiting
    /\ round' = [round EXCEPT ![t] = 0]
    /\ inserted' = {}
    /\ UNCHANGED <<tsd_inited, list, cache, specific, pc, heap, depth, served, central, client>>

\* The loop over the keys passes heap_key: its value is reset, and if it was a
\* cache, DeleteCache runs: first Cleanup ...
Destroy(t) ==
    /\ pc[t] = "run"
    /\ round[t] \in 0 .. MaxRounds - 1
    /\ round' = [round EXCEPT ![t] = @ + 1]
    /\ specific' = [specific EXCEPT ![t] = Null]
    /\ \/ /\ specific[t] = Null
          /\ inserted' = {}
          /\ UNCHANGED <<cache, heap, pc, central>>
       \/ /\ specific[t] # Null
          /\ LET h == specific[t]
             IN  /\ cache' = [cache EXCEPT ![h] = Release(@, Cleanup(@))]
                 /\ Insert(Calls(cache[h], Cleanup(cache[h])))
                 /\ heap' = [heap EXCEPT ![t] = h]
          /\ GoTo(t, "unlink")
    /\ UNCHANGED <<tsd_inited, list, depth, served, client>>

\* ... then, under pageheap_lock, the cache leaves the list.
DeleteCache(t) ==
    /\ pc[t] = "unlink"
    /\ thread_heaps' = thread_heaps \ {heap[t]}
    /\ thread_heap_count' = thread_heap_count - 1
    /\ per_thread_cache_size' =
         RecomputeThreadCacheSize(overall_thread_cache_size, thread_heap_count - 1)
    /\ cache' = [cache EXCEPT ![heap[t]] = NewCache(Zero)]
    /\ heap' = [heap EXCEPT ![t] = Null]
    /\ GoTo(t, "run")
    /\ inserted' = {}
    /\ UNCHANGED <<tsd_inited, overall_thread_cache_size, specific, depth, round, served, central, client>>

\* The thread is gone once no key has a value, or after the last round.
Gone(t) ==
    /\ pc[t] = "run"
    /\ \/ round[t] = MaxRounds
       \/ round[t] >= 0 /\ specific[t] = Null
    /\ round' = [round EXCEPT ![t] = NotExiting]
    /\ specific' = [specific EXCEPT ![t] = Null]
    /\ served' = [served EXCEPT ![t] = FALSE]
    /\ GoTo(t, "none")
    /\ inserted' = {}
    /\ UNCHANGED <<tsd_inited, list, cache, heap, depth, central, client>>

\* SetNumericProperty("tcmalloc.max_total_thread_cache_bytes", limit).
SetNumericProperty ==
    /\ \E limit \in Limits :
         /\ overall_thread_cache_size' = limit
         /\ per_thread_cache_size' = RecomputeThreadCacheSize(limit, thread_heap_count)
    /\ UNCHANGED <<thread_heaps, thread_heap_count>>
    /\ inserted' = {}
    /\ UNCHANGED <<tsd_inited, cache, thread, central, client>>

-----------------------------------------------------------------------------

Next ==
    \/ InitTSD
    \/ SetNumericProperty
    \/ \E t \in Threads :
         \/ Malloc(t) \/ CreateCacheIfNecessary(t) \/ ReentrantMalloc(t)
         \/ SetSpecific(t) \/ UseCache(t) \/ Free(t)
         \/ Start(t) \/ Exit(t) \/ Destroy(t) \/ DeleteCache(t) \/ Gone(t)

Spec == Init /\ [][Next]_vars

-----------------------------------------------------------------------------
(* Properties                                                                *)

Cached(c) == SumFunction([h \in thread_heaps |-> cache[h].length[c]])
Bytes(h) == SumFunction([c \in Classes |-> Size[c] * h.length[c]])

\* A thread, from its start to its exit and over all the times its cache is
\* made again, has one cache: CreateCacheIfNecessary finds the one a first
\* malloc made before thread data existed, the one made by the malloc around
\* a reentrant call, and the one an earlier thread of the same pthread_t left.
OneCachePerThread ==
    \A h, k \in thread_heaps : cache[h].tid = cache[k].tid => h = k

\* The cache a thread uses is on the list, under its name, and no other thread
\* uses it: no thread keeps a cache that was deleted, and none gets a cache
\* that is still in use, although caches outlive threads and pthread_t values
\* are reused.
CacheOwned ==
    \A t \in Threads : \A h \in {specific[t], heap[t]} \ {Null} :
        /\ h \in thread_heaps
        /\ cache[h].tid \in {t, Zero}
        /\ cache[h].tid = Zero => t = Main
        /\ \A u \in Threads \ {t} : h \notin {specific[u], heap[u]}

\* size_, changed before the lists in Allocate and ReleaseToCentralCache and
\* after them in FetchFromCentralCache, is what the lists hold: as a size_t it
\* would wrap around if it ever fell short.
SizeRight == \A h \in thread_heaps : cache[h].size = Bytes(cache[h])

\* No list grows past kMaxFreeListLength (lengths are kept in 16 bits), and the
\* low-water mark is never above the length: Scavenge would release objects
\* the list does not have.  And what the central lists assume of their callers
\* holds: InsertRange is given at least one object and at most a batch.
ListsBounded ==
    /\ \A h \in thread_heaps : \A c \in Classes :
         /\ cache[h].length[c] <= MaxFreeListLength
         /\ cache[h].lowater[c] <= cache[h].length[c]
    /\ \A call \in inserted : call[2] \in 1 .. Batch[call[1]]

\* No object is lost with a cache: each is with the application, in a central
\* list, or in a cache that is on the list, from which a thread can get it.
NothingStranded ==
    \A c \in Classes : central[c] + client[c] + Cached(c) = Total[c]

\* The three together: what Allocate, Deallocate, Scavenge, Cleanup and the fetch
\* and release of batches keep about the lists of the caches.
CountsRight == SizeRight /\ ListsBounded /\ NothingStranded

\* The limits of all caches together keep to the overall size, or are as low as
\* they may be, at any number of threads and after any change of the size.
LimitShared ==
    /\ thread_heap_count = Cardinality(thread_heaps)
    /\ \/ thread_heap_count * per_thread_cache_size <= overall_thread_cache_size
       \/ per_thread_cache_size = MinCache

\* setspecific is not called from a malloc that setspecific made.
NoRecursion == \A t \in Threads : depth[t] <= 1

\* A cache stays behind its thread only if destructors called malloc until the
\* last round: otherwise the cache a thread made, even in a destructor, is
\* deleted before the thread is gone.
AbandonedOnlyLate ==
    [][\A t \in Threads :
         /\ pc[t] # "none" /\ pc'[t] = "none" /\ served[t]
         /\ \E h \in thread_heaps : cache[h].tid = t
         => round[t] = MaxRounds]_vars

=============================================================================
