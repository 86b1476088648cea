-------------------------- MODULE CentralFreeList --------------------------
(***************************************************************************)
(* The central free lists of tcmalloc.cpp (class TCMalloc_Central_FreeList,*)
(* lines 805-1089): one per size class, each with its own spin lock, its   *)
(* spans of objects and its transfer cache of whole batches.  Threads call *)
(* InsertRange and RemoveRange concurrently; both drop and retake locks in *)
(* the middle (to ask the page heap for a span, to give a span back, and   *)
(* to steal transfer-cache capacity from another class).                   *)
(*                                                                         *)
(* One action is one stretch of code between two points at which another   *)
(* thread can act.  The page heap is seen through its interface: a span is *)
(* free, or belongs to the size class it was registered with.  What the    *)
(* thread caches and the application hold is the single set client.        *)
(***************************************************************************)
EXTENDS Integers, Sequences, FiniteSets, SequencesExt

CONSTANTS Threads,        \* the threads that call malloc and free
          Spans,          \* the spans the page heap can hand out
          NumClasses,     \* kNumClasses: size classes 0 .. NumClasses-1
          Batch,          \* num_objects_to_move of each class
          ObjectsPerSpan, \* objects a span of each class is cut into
          NoThread,       \* owner of a lock that is free
          NoSpan          \* NULL

Classes == 0 .. NumClasses - 1

\* Class 0 has size 0: it owns one transfer-cache slot like the others, but
\* SizeClass never returns it, so nothing is allocated from it.
UsedClasses == Classes \ {0}

ASSUME NumClassesAssumption == NumClasses \in Nat \ {0}

ASSUME SizeTablesAssumption ==
    /\ Batch \in [Classes -> Nat]
    /\ ObjectsPerSpan \in [Classes -> Nat]
    /\ \A c \in UsedClasses : Batch[c] > 0 /\ ObjectsPerSpan[c] > 0

ASSUME NullAssumption == NoThread \notin Threads /\ NoSpan \notin Spans

\* kNumTransferEntries (line 68): the length of tc_slots_.
NumTransferEntries == NumClasses

NoClass == -1   \* "no eviction in progress"

\* An object is the i-th piece of a span.
SpanOf(o) == o[1]
SpanObjects(s, c) == [i \in 1 .. ObjectsPerSpan[c] |-> <<s, i>>]

\* A span is taken out of a list wherever it is.
DLL_Remove(list, s) ==
    IF s \in ToSet(list) THEN RemoveAt(list, CHOOSE i \in DOMAIN list : list[i] = s) ELSE list

VARIABLES
    lock,        \* lock_ of each central list: its owner or NoThread
    nonempty,    \* nonempty_: spans with free objects, head first
    empty,       \* empty_: spans whose objects are all out
    counter,     \* counter_: free objects in the spans of the class
    tc_slots,    \* tc_slots_[0 .. used_slots_-1]: batches, top last
    cache_size,  \* cache_size_: how many slots the class may use
    sizeclass,   \* Span::sizeclass, 0 for a span on the page heap
    objects,     \* Span::objects: the free objects of the span
    refcount,    \* Span::refcount: objects of the span that are out
    client,      \* objects held by thread caches and the application
    pc,          \* where each thread is
    cl,          \* the class whose central list the thread called
    range,       \* InsertRange: the objects passed in
    rel,         \* ReleaseListToSpans: objects still to release
    got,         \* RemoveRange: objects fetched so far
    span,        \* Populate: the new span; ReleaseToSpans: the dead one
    victim,      \* ShrinkCache: the class being shrunk
    force,       \* EvictRandomSizeClass: its force argument
    grown        \* ShrinkCache: its result

shared == <<nonempty, empty, counter, tc_slots, cache_size>>
spans  == <<sizeclass, objects, refcount>>
locals == <<cl, range, rel, got, span, victim, force, grown>>
vars   == <<lock, shared, spans, client, pc, locals>>

used_slots(c) == Len(tc_slots[c])

\* The lock a thread releases objects under: ShrinkCache releases a batch of
\* the victim under the victim's lock, InsertRange under its own.
ReleaseClass(t) == IF victim[t] # NoClass THEN victim[t] ELSE cl[t]

\* MakeCacheSpace's first test.
SpaceOffByOne(c) == used_slots(c) <= cache_size[c]
HasSpace(c) == used_slots(c) < cache_size[c]

\* tc_slots_[--used_slots_] is taken.
PopSlotForgotten(c) == UNCHANGED tc_slots
PopSlot(c) == tc_slots' = [tc_slots EXCEPT ![c] = Front(@)]

\* refcount reaches 0 when this object comes back.
LastButOneOut(s) == refcount[s] \in {1, 2}
LastObjectOut(s) == refcount[s] = 1

GoTo(t, label) == pc' = [pc EXCEPT ![t] = label]
Acquire(t, c)  == lock[c] = NoThread /\ lock' = [lock EXCEPT ![c] = t]
Release(c)     == lock' = [lock EXCEPT ![c] = NoThread]

-----------------------------------------------------------------------------
(* Initial state: TCMalloc_Central_FreeList::Init for every class.           *)

Init ==
    /\ lock = [c \in Classes |-> NoThread]
    /\ nonempty = [c \in Classes |-> <<>>]
    /\ empty = [c \in Classes |-> {}]
    /\ counter = [c \in Classes |-> 0]
    /\ tc_slots = [c \in Classes |-> <<>>]
    /\ cache_size = [c \in Classes |-> 1]
    /\ sizeclass = [s \in Spans |-> 0]
    /\ objects = [s \in Spans |-> <<>>]
    /\ refcount = [s \in Spans |-> 0]
    /\ client = {}
    /\ pc = [t \in Threads |-> "idle"]
    /\ cl = [t \in Threads |-> 0]
    /\ range = [t \in Threads |-> <<>>]
    /\ rel = [t \in Threads |-> <<>>]
    /\ got = [t \in Threads |-> <<>>]
    /\ span = [t \in Threads |-> NoSpan]
    /\ victim = [t \in Threads |-> NoClass]
    /\ force = [t \in Threads |-> FALSE]
    /\ grown = [t \in Threads |-> FALSE]

-----------------------------------------------------------------------------
(* RemoveRange                                                               *)

\* A whole batch is taken from the transfer cache when there is one.
RemoveFromCache(t, c) ==
    /\ pc[t] = "idle"
    /\ lock[c] = NoThread
    /\ tc_slots[c] # <<>>
    /\ client' = client \cup ToSet(Last(tc_slots[c]))
    /\ PopSlot(c)
    /\ UNCHANGED <<lock, nonempty, empty, counter, cache_size, spans, pc, locals>>

\* Otherwise objects are fetched from the spans, one by one, under the lock.
RemoveBegin(t, c) ==
    /\ pc[t] = "idle"
    /\ Acquire(t, c)
    /\ tc_slots[c] = <<>>
    /\ cl' = [cl EXCEPT ![t] = c]
    /\ GoTo(t, "fetch")
    /\ UNCHANGED <<shared, spans, client, range, rel, got, span, victim, force, grown>>

\* FetchFromSpans with a span to fetch from; the span moves to empty_ when
\* its last free object leaves.
FetchFromSpans(t) ==
    LET c == cl[t]
        s == Head(nonempty[c])
        last == Tail(objects[s]) = <<>>
    IN  /\ nonempty[c] # <<>>
        /\ refcount' = [refcount EXCEPT ![s] = @ + 1]
        /\ objects' = [objects EXCEPT ![s] = Tail(@)]
        /\ nonempty' = IF last THEN [nonempty EXCEPT ![c] = Tail(@)] ELSE nonempty
        /\ empty' = IF last THEN [empty EXCEPT ![c] = @ \cup {s}] ELSE empty
        /\ counter' = [counter EXCEPT ![c] = @ - 1]

\* Return the fetched objects to the caller and unlock.
ReturnObjects(t, objs) ==
    /\ client' = client \cup ToSet(objs)
    /\ got' = [got EXCEPT ![t] = <<>>]
    /\ span' = [span EXCEPT ![t] = NoSpan]
    /\ Release(cl[t])
    /\ GoTo(t, "idle")

\* One iteration that finds an object.  After Populate ("refetch") the code
\* fetches as before.
FetchObject(t) ==
    /\ pc[t] \in {"fetch", "refetch"}
    /\ FetchFromSpans(t)
    /\ LET objs == Append(got[t], Head(objects[Head(nonempty[cl[t]])]))
       IN  \/ /\ Len(objs) = Batch[cl[t]]
              /\ ReturnObjects(t, objs)
           \/ /\ Len(objs) < Batch[cl[t]]
              /\ got' = [got EXCEPT ![t] = objs]
              /\ span' = [span EXCEPT ![t] = NoSpan]
              /\ GoTo(t, "fetch")
              /\ UNCHANGED <<lock, client>>
    /\ UNCHANGED <<tc_slots, cache_size, sizeclass, cl, range, rel, victim, force, grown>>

\* The spans are exhausted: what was found is returned, unless it is nothing
\* and Populate has not been tried; then Populate drops the lock.
FetchNothing(t) ==
    /\ nonempty[cl[t]] = <<>>
    /\ \/ /\ pc[t] = "fetch" /\ got[t] = <<>>
          /\ Release(cl[t])
          /\ GoTo(t, "populate")
          /\ UNCHANGED <<client, got, span>>
       \/ /\ \/ pc[t] = "fetch" /\ got[t] # <<>>
             \/ pc[t] = "refetch"
          /\ ReturnObjects(t, got[t])
    /\ UNCHANGED <<shared, spans, cl, range, rel, victim, force, grown>>

\* Populate, under pageheap_lock: New, RegisterSizeClass; then, under no lock,
\* the span is cut into its objects.  New may fail at any time.
PopulateNew(t) ==
    /\ pc[t] = "populate"
    /\ \/ \E s \in Spans :
            /\ sizeclass[s] = 0
            /\ sizeclass' = [sizeclass EXCEPT ![s] = cl[t]]
            /\ objects' = [objects EXCEPT ![s] = SpanObjects(s, cl[t])]
            /\ refcount' = [refcount EXCEPT ![s] = 0]
            /\ span' = [span EXCEPT ![t] = s]
       \/ UNCHANGED <<spans, span>>
    /\ GoTo(t, "attach")
    /\ UNCHANGED <<lock, shared, client, cl, range, rel, got, victim, force, grown>>

AttachAtTail(c, s) ==
    /\ nonempty' = [nonempty EXCEPT ![c] = Append(@, s)]
    /\ counter' = [counter EXCEPT ![c] = @ + ObjectsPerSpan[c]]
    /\ UNCHANGED empty
AttachToEmpty(c, s) ==
    /\ empty' = [empty EXCEPT ![c] = @ \cup {s}]
    /\ counter' = [counter EXCEPT ![c] = @ + ObjectsPerSpan[c]]
    /\ UNCHANGED nonempty
AttachSpan(c, s) ==
    /\ nonempty' = [nonempty EXCEPT ![c] = <<s>> \o @]
    /\ counter' = [counter EXCEPT ![c] = @ + ObjectsPerSpan[c]]
    /\ UNCHANGED empty

\* The code that fetches after Populate does not try Populate again.
FetchFromTheTop == "fetch"
AfterPopulate == "refetch"

\* Populate, back under the list's lock: the span goes to the front.
PopulateAttach(t) ==
    /\ pc[t] = "attach"
    /\ Acquire(t, cl[t])
    /\ IF span[t] = NoSpan
       THEN UNCHANGED <<nonempty, empty, counter>>
       ELSE AttachSpan(cl[t], span[t])
    /\ GoTo(t, AfterPopulate)
    /\ UNCHANGED <<tc_slots, cache_size, spans, client, locals>>

-----------------------------------------------------------------------------
(* InsertRange                                                               *)

\* The lists of at most one batch a thread cache can pass: distinct objects
\* of class c that the client holds.
Ranges(c) ==
    {l \in UNION {[1 .. n -> {o \in client : sizeclass[SpanOf(o)] = c}] : n \in 1 .. Batch[c]} :
        \A i, j \in DOMAIN l : l[i] = l[j] => i = j}

\* A full batch and a free slot: the batch is cached.
InsertIntoCache(t, c, l) ==
    /\ pc[t] = "idle"
    /\ lock[c] = NoThread
    /\ Len(l) = Batch[c]
    /\ HasSpace(c)
    /\ tc_slots' = [tc_slots EXCEPT ![c] = Append(@, l)]
    /\ client' = client \ ToSet(l)
    /\ UNCHANGED <<lock, nonempty, empty, counter, cache_size, spans, pc, locals>>

\* A full batch, no free slot, and fewer slots than the array has: try to
\* take capacity from another class.  Otherwise release to the spans.
InsertBegin(t, c, l) ==
    /\ pc[t] = "idle"
    /\ ~ (Len(l) = Batch[c] /\ HasSpace(c))
    /\ Acquire(t, c)
    /\ cl' = [cl EXCEPT ![t] = c]
    /\ client' = client \ ToSet(l)
    /\ \/ /\ Len(l) = Batch[c]
          /\ cache_size[c] # NumTransferEntries
          /\ range' = [range EXCEPT ![t] = l]
          /\ GoTo(t, "evict")
          /\ UNCHANGED rel
       \/ /\ \/ Len(l) # Batch[c]
             \/ cache_size[c] = NumTransferEntries
          /\ rel' = [rel EXCEPT ![t] = l]
          /\ GoTo(t, "release")
          /\ UNCHANGED range
    /\ UNCHANGED <<shared, spans, got, span, victim, force, grown>>

\* MakeCacheSpace after a failed EvictRandomSizeClass: try again with force,
\* then give up and release the range to the spans.
EvictNeverForced(t) ==
    /\ victim' = [victim EXCEPT ![t] = NoClass]
    /\ GoTo(t, "evict")
    /\ UNCHANGED <<force, range, rel>>
EvictFailed(t) ==
    /\ victim' = [victim EXCEPT ![t] = NoClass]
    /\ force' = [force EXCEPT ![t] = ~ @]
    /\ \/ /\ ~ force[t]
          /\ GoTo(t, "evict")
          /\ UNCHANGED <<range, rel>>
       \/ /\ force[t]
          /\ rel' = [rel EXCEPT ![t] = range[t]]
          /\ range' = [range EXCEPT ![t] = <<>>]
          /\ GoTo(t, "release")

\* EvictRandomSizeClass: race_counter is incremented without a lock, so the
\* class it names is any class.
Evict(t) ==
    /\ pc[t] = "evict"
    /\ \E v \in Classes :
         \/ v = cl[t] /\ EvictFailed(t)
         \/ /\ v # cl[t]
            /\ victim' = [victim EXCEPT ![t] = v]
            /\ GoTo(t, "peek_size")
            /\ UNCHANGED <<range, rel, force>>
    /\ UNCHANGED <<lock, shared, spans, client, cl, got, span, grown>>

\* ShrinkCache, before any lock of the victim: two unlocked reads.
PeekSize(t) ==
    /\ pc[t] = "peek_size"
    /\ \/ cache_size[victim[t]] = 0 /\ EvictFailed(t)
       \/ /\ cache_size[victim[t]] # 0
          /\ GoTo(t, "peek_used")
          /\ UNCHANGED <<range, rel, victim, force>>
    /\ UNCHANGED <<lock, shared, spans, client, cl, got, span, grown>>

\* The second read, then LockInverter's constructor drops the held lock.
PeekUsedKeepsLock(t) ==
    LET v == victim[t]
        full == ~ force[t] /\ used_slots(v) = cache_size[v]
    IN  /\ pc[t] = "peek_used"
        /\ \/ full /\ EvictFailed(t)
           \/ ~ full /\ GoTo(t, "shrink") /\ UNCHANGED <<range, rel, victim, force>>
        /\ UNCHANGED <<lock, shared, spans, client, cl, got, span, grown>>
PeekUsed(t) ==
    LET v == victim[t]
        full == ~ force[t] /\ used_slots(v) = cache_size[v]
    IN  /\ pc[t] = "peek_used"
        /\ \/ full /\ EvictFailed(t) /\ UNCHANGED lock
           \/ /\ ~ full
              /\ Release(cl[t])
              /\ GoTo(t, "shrink")
              /\ UNCHANGED <<range, rel, victim, force>>
        /\ UNCHANGED <<shared, spans, client, cl, got, span, grown>>

\* The tests ShrinkCache repeats under the victim's lock.
NothingToTake(v, forced) ==
    \/ cache_size[v] = 0
    \/ used_slots(v) = cache_size[v] /\ ~ forced

\* ShrinkCache under the victim's lock: nothing to take; an unused slot; or,
\* with force, a used one, whose batch is released under this lock.
Shrink(t) ==
    LET v == victim[t]
        full == used_slots(v) = cache_size[v]
        take == cache_size' = [cache_size EXCEPT ![v] = @ - 1]
                /\ grown' = [grown EXCEPT ![t] = TRUE]
    IN  /\ pc[t] = "shrink"
        /\ lock[v] = NoThread
        /\ \/ /\ NothingToTake(v, force[t])
              /\ GoTo(t, "revert")
              /\ UNCHANGED <<lock, cache_size, tc_slots, rel, grown>>
           \/ /\ ~ NothingToTake(v, force[t])
              /\ ~ (full /\ force[t])
              /\ take
              /\ GoTo(t, "revert")
              /\ UNCHANGED <<lock, tc_slots, rel>>
           \/ /\ ~ NothingToTake(v, force[t])
              /\ full /\ force[t]
              /\ take
              /\ PopSlot(v)
              /\ rel' = [rel EXCEPT ![t] = Last(tc_slots[v])]
              /\ Acquire(t, v)
              /\ GoTo(t, "release")
        /\ UNCHANGED <<nonempty, empty, counter, spans, client, cl, range, got, span, victim, force>>

GrowCacheForgotten(c) == UNCHANGED cache_size
GrowCache(c) == cache_size' = [cache_size EXCEPT ![c] = @ + 1]

\* LockInverter's destructor retakes the caller's lock; on success
\* MakeCacheSpace grows the cache and InsertRange stores the batch.
Revert(t) ==
    /\ pc[t] = "revert"
    /\ \/ /\ grown[t]
          /\ lock[cl[t]] = NoThread
          /\ GrowCache(cl[t])
          /\ tc_slots' = [tc_slots EXCEPT ![cl[t]] = Append(@, range[t])]
          /\ range' = [range EXCEPT ![t] = <<>>]
          /\ victim' = [victim EXCEPT ![t] = NoClass]
          /\ force' = [force EXCEPT ![t] = FALSE]
          /\ grown' = [grown EXCEPT ![t] = FALSE]
          /\ GoTo(t, "idle")
          /\ UNCHANGED <<lock, rel>>
       \/ /\ ~ grown[t]
          /\ Acquire(t, cl[t])
          /\ EvictFailed(t)
          /\ UNCHANGED <<cache_size, tc_slots, grown>>
    /\ UNCHANGED <<nonempty, empty, counter, spans, client, cl, got, span>>

-----------------------------------------------------------------------------
(* ReleaseListToSpans: one ReleaseToSpans per step                           *)

\* After the last object: InsertRange returns, or ShrinkCache unlocks the
\* victim and goes back to the caller's lock.
ReleaseDone(t) ==
    /\ Release(ReleaseClass(t))
    /\ GoTo(t, IF victim[t] = NoClass THEN "idle" ELSE "revert")

\* DLL_Remove and DLL_Prepend of a span that had no free object.
MoveToNonempty(s, c) ==
    /\ empty' = [empty EXCEPT ![c] = @ \ {s}]
    /\ nonempty' = [nonempty EXCEPT ![c] = <<s>> \o @]

\* The object goes back to its span, which is moved from empty_ to the front
\* of nonempty_ if it had no free object.
ReleaseObject(t) ==
    LET c == ReleaseClass(t)
        o == Head(rel[t])
        s == SpanOf(o)
    IN  /\ pc[t] = "release"
        /\ ~ LastObjectOut(s)
        /\ refcount' = [refcount EXCEPT ![s] = @ - 1]
        /\ objects' = [objects EXCEPT ![s] = <<o>> \o @]
        /\ counter' = [counter EXCEPT ![c] = @ + 1]
        /\ IF objects[s] = <<>> THEN MoveToNonempty(s, c) ELSE UNCHANGED <<empty, nonempty>>
        /\ rel' = [rel EXCEPT ![t] = Tail(@)]
        /\ \/ Tail(rel[t]) = <<>> /\ ReleaseDone(t)
           \/ Tail(rel[t]) # <<>> /\ UNCHANGED <<lock, pc>>
        /\ UNCHANGED <<tc_slots, cache_size, sizeclass, client, cl, range, got, span, victim, force, grown>>

\* The last object that was out: the span leaves the list, its other objects
\* leave counter_, and the lock is dropped to call the page heap.
ReleaseLastObject(t) ==
    LET c == ReleaseClass(t)
        s == SpanOf(Head(rel[t]))
    IN  /\ pc[t] = "release"
        /\ LastObjectOut(s)
        /\ refcount' = [refcount EXCEPT ![s] = 0]
        /\ counter' = [counter EXCEPT ![c] = @ + 1 - ObjectsPerSpan[sizeclass[s]]]
        /\ nonempty' = [nonempty EXCEPT ![c] = DLL_Remove(@, s)]
        /\ empty' = [empty EXCEPT ![c] = @ \ {s}]
        /\ rel' = [rel EXCEPT ![t] = Tail(@)]
        /\ span' = [span EXCEPT ![t] = s]
        /\ Release(c)
        /\ GoTo(t, "delete")
        /\ UNCHANGED <<tc_slots, cache_size, sizeclass, objects, client, cl, range, got, victim, force, grown>>

\* pageheap->Delete(span) under pageheap_lock.
DeleteSpan(t) ==
    /\ pc[t] = "delete"
    /\ sizeclass' = [sizeclass EXCEPT ![span[t]] = 0]
    /\ objects' = [objects EXCEPT ![span[t]] = <<>>]
    /\ span' = [span EXCEPT ![t] = NoSpan]
    /\ GoTo(t, "relock")
    /\ UNCHANGED <<lock, shared, refcount, client, cl, range, rel, got, victim, force, grown>>

\* The lock is retaken and the loop goes on with the next object.
Relock(t) ==
    /\ pc[t] = "relock"
    /\ lock[ReleaseClass(t)] = NoThread
    /\ \/ rel[t] = <<>> /\ ReleaseDone(t)
       \/ rel[t] # <<>> /\ Acquire(t, ReleaseClass(t)) /\ GoTo(t, "release")
    /\ UNCHANGED <<shared, spans, client, locals>>

-----------------------------------------------------------------------------

RemoveRange(t) ==
    \/ \E c \in UsedClasses : RemoveFromCache(t, c) \/ RemoveBegin(t, c)
    \/ FetchObject(t)
    \/ FetchNothing(t)
    \/ PopulateNew(t)
    \/ PopulateAttach(t)

InsertRange(t) ==
    \/ \E c \in UsedClasses : \E l \in Ranges(c) :
         InsertIntoCache(t, c, l) \/ InsertBegin(t, c, l)
    \/ Evict(t)
    \/ PeekSize(t)
    \/ PeekUsed(t)
    \/ Shrink(t)
    \/ Revert(t)
    \/ ReleaseObject(t)
    \/ ReleaseLastObject(t)
    \/ DeleteSpan(t)
    \/ Relock(t)

Next == \E t \in Threads : RemoveRange(t) \/ InsertRange(t)

Spec == Init /\ [][Next]_vars

\* A thread inside a call keeps running; a thread may stop calling.  A spin
\* lock gives no fairness between its waiters, so none is assumed.
Busy(t) == pc[t] # "idle" /\ (RemoveRange(t) \/ InsertRange(t))

FairSpec == Spec /\ \A t \in Threads : WF_vars(Busy(t))

-----------------------------------------------------------------------------
(* Where the parts of the state are.                                         *)

Labels == {"idle", "fetch", "refetch", "populate", "attach", "evict",
           "peek_size", "peek_used", "shrink", "revert", "release", "delete", "relock"}

\* The labels at which the thread is about to take a lock: its central
\* list's, the victim's, or pageheap_lock.
Waiting(t) == pc[t] \in {"idle", "populate", "attach", "shrink", "revert", "delete", "relock"}

\* A span belongs to a central list from PopulateAttach to ReleaseLastObject.
Attached(s, c) == s \in empty[c] \cup ToSet(nonempty[c])

\* A thread has taken the span off its list, or not put it there yet.
InFlight(s) == \E t \in Threads : span[t] = s /\ pc[t] \in {"attach", "delete"}
Dying(s) == \E t \in Threads : span[t] = s /\ pc[t] = "delete"

\* The objects that can exist.
Objects == UNION {Spans \X (1 .. ObjectsPerSpan[c]) : c \in UsedClasses}

\* Where an object is: with the client, free in its span, in a slot of a
\* transfer cache, or in a list of a call in progress.
Places(o) ==
    {<<"client", 0, 0>> : x \in {o} \cap client}
    \cup {<<"span", s, 0>> : s \in {x \in Spans : o \in ToSet(objects[x])}}
    \cup {p \in {"slot"} \X UsedClasses \X (1 .. NumClasses) :
            p[3] <= used_slots(p[2]) /\ o \in ToSet(tc_slots[p[2]][p[3]])}
    \cup {<<"range", t, 0>> : t \in {x \in Threads : o \in ToSet(range[x])}}
    \cup {<<"rel", t, 0>> : t \in {x \in Threads : o \in ToSet(rel[x])}}
    \cup {<<"got", t, 0>> : t \in {x \in Threads : o \in ToSet(got[x])}}

-----------------------------------------------------------------------------
(* Properties                                                                *)

\* The spin locks cannot deadlock: a thread never holds two of them, and
\* wherever it waits for one (its own class, the victim's, pageheap_lock) it
\* holds none.  This is what LockInverter and the Unlock/Lock pairs of
\* Populate and ReleaseToSpans are for.
LockDiscipline ==
    \A t \in Threads :
        /\ Waiting(t) => \A c \in Classes : lock[c] # t
        /\ \A c, d \in Classes : lock[c] = t /\ lock[d] = t => c = d

\* One token for each slot a class may use, and one for each thread that has
\* taken a slot from a victim and not yet given it to its own class.
CapacityTokens(size, took) ==
    (UNION {{c} \X (1 .. size[c]) : c \in Classes})
        \cup {<<NoClass, t>> : t \in {u \in Threads : took[u]}}

\* Stealing moves transfer-cache capacity between classes without creating
\* or losing any: MakeCacheSpace grows its class after ShrinkCache shrank the
\* victim, in two critical sections of two different locks.
CapacityConserved == Cardinality(CapacityTokens(cache_size, grown)) = NumClasses

\* A class never stores more batches than it may, nor may it store more than
\* tc_slots_ has room for (the assertions of InsertRange), although
\* MakeCacheSpace increments cache_size_ without looking at it again after it
\* dropped and retook the lock.
SlotsWithinCache ==
    \A c \in Classes :
        /\ used_slots(c) <= cache_size[c]
        /\ cache_size[c] <= NumTransferEntries

\* No object is lost or handed out twice: each object of a span in use is in
\* exactly one place, and none exists of a span on the page heap.  The one
\* exception is a dying span, whose last object is on no list.
ObjectsOnce ==
    /\ \A o \in Objects :
         LET c == sizeclass[SpanOf(o)]
             exists == c # 0 /\ o[2] <= ObjectsPerSpan[c]
         IN  IF exists
             THEN Dying(SpanOf(o)) \/ Cardinality(Places(o)) = 1
             ELSE Places(o) = {}
    /\ \A s \in Spans : IsInjective(objects[s])
    /\ \A c \in Classes : \A i \in 1 .. used_slots(c) : IsInjective(tc_slots[c][i])
    /\ \A t \in Threads : IsInjective(rel[t]) /\ IsInjective(got[t])

\* The bookkeeping of ReleaseToSpans, FetchFromSpans and Populate agrees with
\* the objects: refcount counts the objects out of the span, a span with free
\* objects is on nonempty_ and one without is on empty_ (of its own class,
\* once), and counter_ is the number of free objects on nonempty_.
SpanAccounting ==
    /\ \A c \in Classes :
        /\ IsInjective(nonempty[c])
        /\ \A s \in ToSet(nonempty[c]) : objects[s] # <<>> /\ sizeclass[s] = c
        /\ \A s \in empty[c] : objects[s] = <<>> /\ sizeclass[s] = c
        /\ counter[c] = Cardinality(UNION {ToSet(objects[s]) : s \in ToSet(nonempty[c])})
    /\ \A s \in Spans : sizeclass[s] # 0 =>
        /\ Attached(s, sizeclass[s]) # InFlight(s)
        /\ ~ Dying(s) => refcount[s] = ObjectsPerSpan[sizeclass[s]] - Len(objects[s])

\* A span all of whose objects are back does not stay with its class: only the
\* page heap has it, or a thread that is about to fetch from it.
\* ReleaseToSpans looks at a span only when an object comes back, so a span
\* that was attached and never used would stay forever; Populate therefore
\* puts the new span where the next FetchFromSpans looks.
NoIdleSpan ==
    \A c \in Classes : \A s \in Spans :
        Attached(s, c) /\ refcount[s] = 0 => \E t \in Threads : pc[t] = "refetch" /\ span[t] = s

\* Both, at every moment at which a lock may be dropped.
SpansRight == SpanAccounting /\ NoIdleSpan

\* RemoveRange comes back with nothing only if the page heap gave it no span:
\* between attaching the new span and fetching from it nobody can take it.
EmptyOnlyOnFailure ==
    [][\A t \in Threads :
         pc[t] = "refetch" /\ pc'[t] = "idle" /\ client' = client => span[t] = NoSpan]_vars

\* Whoever holds a central lock gives it back, whatever the other threads do.
LockReleased == \A c \in Classes : lock[c] # NoThread ~> lock[c] = NoThread

\* The threads cannot all be kept busy in each other's way: some call ends.
SomeCallReturns ==
    (\A t \in Threads : pc[t] # "idle") ~> (\E t \in Threads : pc[t] = "idle")

\* To the thread caches the central lists are a pool: objects handed out are of
\* the class asked for and keep it until they are given back, however the
\* spans are attached, deleted and cut again meanwhile.
Pool ==
    INSTANCE ObjectPool WITH
        class <- [o \in Objects |->
                    IF o[2] <= ObjectsPerSpan[sizeclass[SpanOf(o)]] THEN sizeclass[SpanOf(o)] ELSE 0]

ImplementsPool == Pool!Spec

=============================================================================
