-------------------------- MODULE ThreadCacheProofs --------------------------
(***************************************************************************)
(* Theorems about ThreadCache, for any number of threads, caches and size  *)
(* classes and any sizes: a thread has one cache and no other thread uses  *)
(* it, setspecific is not called recursively, the limits of the caches     *)
(* keep to the overall size, a cache outlives its thread only if it was    *)
(* made in the last round of destructors, and the lists of the caches are  *)
(* counted right and lose no object.                                       *)
(*                                                                         *)
(* And, with the lemmas about sums these need, theorems about Statistics:  *)
(* what ExtractStats reports is off by at most what moved while it read,   *)
(* and a dump of the sampled blocks keeps within its array.                *)
(***************************************************************************)
EXTENDS ThreadCache, Statistics, FiniteSetTheorems, SequenceTheorems, WellFoundedInduction, TLAPS

-----------------------------------------------------------------------------
(* The inductive invariant.                                                  *)

\* A cache has the two fields that say whose it is and whether it is being
\* handed to setspecific; what is in its lists is of no concern here.
IsCache(c) == {"tid", "in_setspecific"} \subseteq DOMAIN c

Shapes ==
    /\ tsd_inited \in BOOLEAN
    /\ thread_heaps \subseteq Heaps
    /\ cache = [h \in Heaps |-> cache[h]]
    /\ \A h \in Heaps : IsCache(cache[h])
    /\ specific \in [Threads -> Heaps \cup {Null}]
    /\ pc \in [Threads -> {"none", "run", "malloc", "set", "use", "unlink"}]
    /\ heap \in [Threads -> Heaps \cup {Null}]
    /\ depth \in [Threads -> {0, 1}]

\* A listed cache has a thread's name, all zeros before InitTSD.
Named ==
    \A h \in thread_heaps : cache[h].tid \in IF tsd_inited THEN Threads ELSE {Zero}

\* Before InitTSD the main thread is alone, does not exit, and has nothing in
\* its thread data.
Early ==
    ~ tsd_inited =>
        \A t \in Threads :
            /\ specific[t] = Null /\ round[t] = NotExiting
            /\ pc[t] \in IF t = Main THEN {"run", "use"} ELSE {"none"}

\* What a thread has at each label.
AtLabel(t) ==
    /\ heap[t] # Null <=> pc[t] \in {"set", "use", "unlink"}
    /\ pc[t] \in {"none", "set", "unlink"} => specific[t] = Null
    /\ pc[t] = "set" => tsd_inited /\ cache[heap[t]].in_setspecific /\ depth[t] = 1

\* A cache in use is listed under the name its thread looks it up by.
Owned ==
    \A t \in Threads : \A h \in {specific[t], heap[t]} \ {Null} :
        h \in thread_heaps /\ cache[h].tid = Me(t)

IInv ==
    /\ Shapes
    /\ Named
    /\ Early
    /\ \A t \in Threads : AtLabel(t)
    /\ Owned
    /\ OneCachePerThread

-----------------------------------------------------------------------------
(* What happens to the lists of a cache leaves it its name.                  *)

SameName(c, d) == IsCache(d) /\ d.tid = c.tid /\ d.in_setspecific = c.in_setspecific

LEMMA CacheOperations ==
    ASSUME NEW h, IsCache(h)
    PROVE  /\ \A c : SameName(h, Push(h, c))
           /\ \A c : SameName(h, Pop(h, c))
           /\ \A c, n : SameName(h, Fetch(h, c, n))
           /\ \A N : SameName(h, Release(h, N))
           /\ SameName(h, ClearLowWatermarks(h))
<1> USE DEF SameName, IsCache
<1>1. ASSUME NEW c PROVE SameName(h, Push(h, c))  BY DEF Push
<1>2. ASSUME NEW c PROVE SameName(h, Pop(h, c))  BY DEF Pop
<1>3. ASSUME NEW c, NEW n PROVE SameName(h, Fetch(h, c, n))  BY DEF Fetch
<1>4. ASSUME NEW N PROVE SameName(h, Release(h, N))  BY DEF Release
<1>5. SameName(h, ClearLowWatermarks(h))  BY DEF ClearLowWatermarks
<1> QED  BY <1>1, <1>2, <1>3, <1>4, <1>5

\* Every cache keeps its name in this step.
NamesKept ==
    /\ cache' = [h \in Heaps |-> cache'[h]]
    /\ \A h \in Heaps : SameName(cache[h], cache'[h])

LEMMA OneChanged ==
    ASSUME Shapes, NEW h \in Heaps, NEW d, SameName(cache[h], d),
           cache' = [cache EXCEPT ![h] = d]
    PROVE  NamesKept
BY DEF Shapes, NamesKept, SameName

LEMMA AllocateKeepsNames ==
    ASSUME Shapes, NEW h \in Heaps, Allocate(h)
    PROVE  NamesKept
<1>1. IsCache(cache[h])  BY DEF Shapes
<1>2. CASE UNCHANGED <<cache, central, client>>  BY <1>2 DEF Shapes, NamesKept, SameName
<1>3. ASSUME NEW c \in Classes, cache' = [cache EXCEPT ![h] = Pop(@, c)]
      PROVE  NamesKept
    <2>1. SameName(cache[h], Pop(cache[h], c))  BY <1>1, CacheOperations
    <2>2. cache' = [cache EXCEPT ![h] = Pop(cache[h], c)]  BY <1>3
    <2> QED  BY <2>1, <2>2, OneChanged
<1>4. ASSUME NEW c \in Classes, NEW n, cache' = [cache EXCEPT ![h] = Pop(Fetch(@, c, n), c)]
      PROVE  NamesKept
    <2> DEFINE f == Fetch(cache[h], c, n)
               p == Pop(f, c)
    <2>1. SameName(cache[h], f)  BY <1>1, CacheOperations
    <2>2. SameName(f, p)
        <3>1. IsCache(f)  BY <2>1 DEF SameName
        <3> QED  BY <3>1, CacheOperations
    <2>3. cache' = [cache EXCEPT ![h] = p]  BY <1>4
    <2> HIDE DEF f, p
    <2>4. SameName(cache[h], p)  BY <2>1, <2>2 DEF SameName
    <2> QED  BY <2>3, <2>4, OneChanged
<1> QED  BY <1>2, <1>3, <1>4 DEF Allocate

LEMMA FreeKeepsNames ==
    ASSUME Shapes, NEW h \in Heaps, NEW c \in Classes, FreeToCache(h, c)
    PROVE  NamesKept
<1> DEFINE pushed == Push(cache[h], c)
           kept == Release(pushed, Overflow(pushed, c))
           scavenge == kept.size >= per_thread_cache_size
           drop == IF scavenge THEN Drop(kept) ELSE <<>>
           scavenged == Release(kept, drop)
           cleared == ClearLowWatermarks(scavenged)
<1>1. SameName(cache[h], pushed)  BY CacheOperations DEF Shapes
<1>2. SameName(pushed, kept)  BY <1>1, CacheOperations DEF SameName
<1>3. SameName(kept, scavenged)  BY <1>2, CacheOperations DEF SameName
<1>4. SameName(scavenged, cleared)  BY <1>3, CacheOperations DEF SameName
<1>5. cache' = [cache EXCEPT ![h] = IF scavenge THEN cleared ELSE kept]
    BY DEF FreeToCache
<1> HIDE DEF pushed, kept, scavenge, drop, scavenged, cleared
<1>6. SameName(cache[h], IF scavenge THEN cleared ELSE kept)
    BY <1>1, <1>2, <1>3, <1>4 DEF SameName
<1> QED  BY <1>5, <1>6, OneChanged

-----------------------------------------------------------------------------
(* Every step keeps the invariant.                                           *)

LEMMA InitIInv == Init => IInv
<1> SUFFICES ASSUME Init PROVE IInv  OBVIOUS
<1> USE NamesAssumption DEF Init
<1>1. Shapes  BY DEF Shapes, NewCache, IsCache
<1>2. Named /\ Early /\ Owned /\ OneCachePerThread  BY DEF Named, Early, Owned, OneCachePerThread
<1>3. \A t \in Threads : AtLabel(t)  BY DEF AtLabel
<1> QED  BY <1>1, <1>2, <1>3 DEF IInv

\* A step that keeps the names and the list of caches keeps what depends on
\* these alone.
ListKept == NamesKept /\ UNCHANGED <<tsd_inited, thread_heaps>>

LEMMA ListKeptNamed ==
    ASSUME IInv, ListKept
    PROVE  Named' /\ OneCachePerThread' /\ \A h \in Heaps : IsCache(cache'[h])
<1>1. \A h \in Heaps : IsCache(cache'[h]) /\ cache'[h].tid = cache[h].tid
    BY DEF ListKept, NamesKept, SameName
<1>2. thread_heaps \subseteq Heaps /\ thread_heaps' = thread_heaps /\ tsd_inited' = tsd_inited
    BY DEF IInv, Shapes, ListKept
<1>3. Named'  BY <1>1, <1>2 DEF IInv, Named
<1>4. OneCachePerThread'
    <2> SUFFICES ASSUME NEW h \in thread_heaps, NEW k \in thread_heaps,
                        cache'[h].tid = cache'[k].tid
                 PROVE  h = k
        BY <1>2 DEF OneCachePerThread
    <2>1. cache[h].tid = cache[k].tid  BY <1>1, <1>2
    <2> QED  BY <2>1 DEF IInv, OneCachePerThread
<1> QED  BY <1>1, <1>3, <1>4

\* No two threads use one cache.
LEMMA Exclusive ==
    ASSUME Owned, Early, NEW t \in Threads, NEW u \in Threads,
           NEW h \in {specific[t], heap[t]} \ {Null},
           h \in {specific[u], heap[u]}, AtLabel(t), AtLabel(u)
    PROVE  t = u
<1>1. cache[h].tid = Me(t) /\ cache[h].tid = Me(u)  BY DEF Owned
<1>2. CASE tsd_inited  BY <1>1, <1>2 DEF Me
<1>3. CASE ~ tsd_inited
    <2>1. specific[t] = Null /\ specific[u] = Null  BY <1>3 DEF Early
    <2>2. pc[t] = "use" /\ pc[u] = "use"  BY <1>3, <2>1 DEF Early, AtLabel
    <2> QED  BY <1>3, <2>2 DEF Early
<1> QED  BY <1>2, <1>3

\* A step of t that keeps the names and the list, and what other threads have.
LEMMA OwnStep ==
    ASSUME IInv, ListKept, NEW t \in Threads, AtLabel(t)',
           NEW l \in {"none", "run", "malloc", "set", "use", "unlink"}, NEW d \in {0, 1},
           NEW s \in {specific[t], heap[t], Null}, NEW m \in {specific[t], heap[t], Null},
           pc' = [pc EXCEPT ![t] = l],
           depth' = [depth EXCEPT ![t] = d],
           specific' = [specific EXCEPT ![t] = s],
           heap' = [heap EXCEPT ![t] = m],
           tsd_inited \/ (s = Null /\ t = Main /\ l = "run" /\ UNCHANGED round)
    PROVE  IInv'
<1>1. Named' /\ OneCachePerThread' /\ \A h \in Heaps : IsCache(cache'[h])
    BY ListKeptNamed
<1>2. Shapes'  BY <1>1 DEF IInv, Shapes, ListKept, NamesKept
<1>3. Early'  BY DEF IInv, Shapes, Early, ListKept
<1>4. ASSUME NEW u \in Threads PROVE AtLabel(u)'
    <2>1. CASE u = t  BY <2>1
    <2>2. CASE u # t
        <3>1. AtLabel(u) /\ heap[u] \in Heaps \cup {Null}  BY DEF IInv, Shapes
        <3>2. /\ pc'[u] = pc[u] /\ depth'[u] = depth[u]
              /\ specific'[u] = specific[u] /\ heap'[u] = heap[u]
            BY <2>2 DEF IInv, Shapes
        <3>3. \A h \in Heaps : cache'[h].in_setspecific = cache[h].in_setspecific
            BY DEF ListKept, NamesKept, SameName
        <3> QED  BY <3>1, <3>2, <3>3 DEF AtLabel, ListKept
    <2> QED  BY <2>1, <2>2
<1>5. Owned'
    <2> SUFFICES ASSUME NEW u \in Threads, NEW h \in {specific'[u], heap'[u]} \ {Null}
                 PROVE  h \in thread_heaps' /\ cache'[h].tid = Me(u)'
        BY DEF Owned
    <2>1. h \in {specific[u], heap[u]}  BY DEF IInv, Shapes
    <2>2. h \in thread_heaps /\ cache[h].tid = Me(u)  BY <2>1 DEF IInv, Owned
    <2>3. h \in Heaps  BY <2>2 DEF IInv, Shapes
    <2> QED  BY <2>2, <2>3 DEF ListKept, NamesKept, SameName, Me
<1> QED  BY <1>1, <1>2, <1>3, <1>4, <1>5 DEF IInv

\* What the invariant says of one thread.
LEMMA OfThread ==
    ASSUME IInv, NEW t \in Threads
    PROVE  /\ Shapes /\ AtLabel(t)
           /\ specific[t] \in Heaps \cup {Null} /\ heap[t] \in Heaps \cup {Null}
           /\ pc[t] \in {"none", "run", "malloc", "set", "use", "unlink"} /\ depth[t] \in {0, 1}
           /\ pc = [pc EXCEPT ![t] = pc[t]] /\ depth = [depth EXCEPT ![t] = depth[t]]
           /\ specific = [specific EXCEPT ![t] = specific[t]]
           /\ heap = [heap EXCEPT ![t] = heap[t]]
           /\ ~ tsd_inited => specific[t] = Null /\ round[t] = NotExiting
           /\ ~ tsd_inited => (pc[t] \in {"run", "use"} => t = Main)
           /\ ~ tsd_inited => (t = Main /\ pc[t] \in {"run", "use"}) \/ pc[t] = "none"
<1>1. Shapes /\ AtLabel(t)  BY DEF IInv
<1>2. /\ specific[t] \in Heaps \cup {Null} /\ heap[t] \in Heaps \cup {Null}
      /\ pc[t] \in {"none", "run", "malloc", "set", "use", "unlink"} /\ depth[t] \in {0, 1}
      /\ pc = [pc EXCEPT ![t] = pc[t]] /\ depth = [depth EXCEPT ![t] = depth[t]]
      /\ specific = [specific EXCEPT ![t] = specific[t]]
      /\ heap = [heap EXCEPT ![t] = heap[t]]
    BY <1>1 DEF Shapes
<1> QED  BY <1>1, <1>2 DEF IInv, Early

LEMMA UnchangedCaches ==
    ASSUME IInv, UNCHANGED <<tsd_inited, thread_heaps, cache>> PROVE ListKept
BY DEF IInv, Shapes, ListKept, NamesKept, SameName

LEMMA MallocIInv ==
    ASSUME IInv, NEW t \in Threads, Malloc(t)
    PROVE  IInv'
<1> USE DEF Malloc, GoTo, list, limits
<1>1. ListKept  BY OfThread, AllocateKeepsNames DEF ListKept
<1>2. AtLabel(t)'  BY OfThread DEF AtLabel, Shapes
<1>3. pc' = [pc EXCEPT ![t] = "run"] /\ tsd_inited  OBVIOUS
<1>4. /\ depth' = [depth EXCEPT ![t] = depth[t]]
      /\ specific' = [specific EXCEPT ![t] = specific[t]]
      /\ heap' = [heap EXCEPT ![t] = heap[t]]
      /\ depth[t] \in {0, 1}
    BY OfThread DEF IInv, Shapes
<1> HIDE DEF Malloc
<1> QED  BY <1>1, <1>2, <1>3, <1>4, OwnStep, SMTT(30), ZenonT(60)

LEMMA ReentrantMallocIInv ==
    ASSUME IInv, NEW t \in Threads, ReentrantMalloc(t)
    PROVE  IInv'
<1> USE DEF list, limits
<1>1. PICK h \in Found(t) :
         \/ ~ MustSet(cache[h]) /\ Allocate(h) /\ UNCHANGED depth
         \/ MustSet(cache[h])
    BY DEF ReentrantMalloc
<1>2. h = heap[t] /\ h \in Heaps
    <2>1. heap[t] # Null /\ tsd_inited  BY OfThread DEF ReentrantMalloc, AtLabel
    <2>2. heap[t] \in thread_heaps /\ cache[heap[t]].tid = Me(t)
        BY <2>1 DEF IInv, Owned
    <2> QED  BY <2>2 DEF IInv, OneCachePerThread, Found, Shapes
<1>3. ~ MustSet(cache[h])
    BY <1>2, OfThread DEF ReentrantMalloc, AtLabel, MustSet
<1>4. ListKept  BY <1>1, <1>2, <1>3, OfThread, AllocateKeepsNames DEF ListKept, ReentrantMalloc
<1>5. UNCHANGED <<specific, pc, heap, depth>>  BY <1>1, <1>3 DEF ReentrantMalloc
<1>6. AtLabel(t)'
    <2>1. cache'[heap[t]].in_setspecific = cache[heap[t]].in_setspecific
        BY <1>2, <1>4 DEF ListKept, NamesKept, SameName
    <2> QED  BY <1>4, <1>5, <2>1, OfThread DEF AtLabel, ListKept
<1>7. tsd_inited  BY OfThread DEF AtLabel, ReentrantMalloc
<1> QED  BY <1>4, <1>5, <1>6, <1>7, OwnStep, OfThread

LEMMA FreeIInv ==
    ASSUME IInv, NEW t \in Threads, Free(t)
    PROVE  IInv'
<1> USE DEF Free, list, limits, thread
<1>1. ListKept
    BY OfThread, FreeKeepsNames, UnchangedCaches DEF ListKept
<1>2. AtLabel(t)'
    <2>1. heap[t] \in Heaps => cache'[heap[t]].in_setspecific = cache[heap[t]].in_setspecific
        BY <1>1 DEF ListKept, NamesKept, SameName
    <2> QED  BY <1>1, <2>1, OfThread DEF AtLabel, ListKept
<1>3. tsd_inited \/ (specific[t] = Null /\ t = Main /\ pc[t] = "run" /\ UNCHANGED round)
    BY OfThread DEF AtLabel
<1> QED  BY <1>1, <1>2, <1>3, OwnStep, OfThread

LEMMA UseCacheIInv ==
    ASSUME IInv, NEW t \in Threads, UseCache(t)
    PROVE  IInv'
<1> USE DEF UseCache, GoTo, list, limits
<1>1. heap[t] \in Heaps  BY OfThread DEF AtLabel
<1>2. ListKept  BY <1>1, OfThread, AllocateKeepsNames DEF ListKept
<1>3. AtLabel(t)'  BY OfThread DEF AtLabel, Shapes
<1> QED  BY <1>2, <1>3, OwnStep, OfThread

LEMMA StartIInv ==
    ASSUME IInv, NEW t \in Threads, Start(t)
    PROVE  IInv'
<1> USE DEF Start, GoTo, list, limits
<1>1. ListKept  BY UnchangedCaches
<1>2. AtLabel(t)'  BY OfThread DEF AtLabel, Shapes
<1> QED  BY <1>1, <1>2, OwnStep, OfThread

LEMMA ExitIInv ==
    ASSUME IInv, NEW t \in Threads, Exit(t)
    PROVE  IInv'
<1> USE DEF Exit, list, limits
<1>1. ListKept  BY UnchangedCaches
<1>2. AtLabel(t)'  BY OfThread DEF AtLabel, Shapes
<1> QED  BY <1>1, <1>2, OwnStep, OfThread

LEMMA GoneIInv ==
    ASSUME IInv, NEW t \in Threads, Gone(t)
    PROVE  IInv'
<1> USE DEF Gone, GoTo, list, limits
<1>1. ListKept  BY UnchangedCaches
<1>2. AtLabel(t)'  BY OfThread DEF AtLabel, Shapes
<1>3. tsd_inited  BY OfThread, LimitsAssumption DEF NotExiting
<1> QED  BY <1>1, <1>2, <1>3, OwnStep, OfThread

LEMMA DestroyIInv ==
    ASSUME IInv, NEW t \in Threads, Destroy(t)
    PROVE  IInv'
<1> USE DEF Destroy, list, limits
<1>1. tsd_inited /\ heap[t] = Null  BY OfThread DEF NotExiting, AtLabel
<1>2. CASE specific[t] = Null
    <2>1. ListKept  BY <1>2, UnchangedCaches
    <2>2. AtLabel(t)'  BY <1>2, OfThread DEF AtLabel, Shapes
    <2> QED  BY <1>1, <1>2, <2>1, <2>2, OwnStep, OfThread
<1>3. CASE specific[t] # Null
    <2> DEFINE h == specific[t]
               d == Release(cache[h], Cleanup(cache[h]))
    <2>1. h \in Heaps  BY <1>3, OfThread
    <2>2. SameName(cache[h], d)  BY <2>1, OfThread, CacheOperations DEF Shapes
    <2>3. cache' = [cache EXCEPT ![h] = d]  BY <1>3
    <2> HIDE DEF d
    <2>4. ListKept  BY <2>1, <2>2, <2>3, OfThread, OneChanged DEF ListKept
    <2>5. /\ pc' = [pc EXCEPT ![t] = "unlink"]
          /\ heap' = [heap EXCEPT ![t] = h]
        BY <1>3 DEF GoTo
    <2>6. AtLabel(t)'  BY <2>1, <2>5, NamesAssumption, OfThread DEF AtLabel, Shapes
    <2> QED  BY <1>1, <2>4, <2>5, <2>6, OwnStep, OfThread
<1> QED  BY <1>2, <1>3

LEMMA SetNumericPropertyIInv ==
    ASSUME IInv, SetNumericProperty
    PROVE  IInv'
<1>1. UNCHANGED <<tsd_inited, thread_heaps, cache, specific, pc, heap, depth, round>>
    BY DEF SetNumericProperty, thread
<1>2. Shapes' /\ Named' /\ Early'  BY <1>1 DEF IInv, Shapes, Named, Early
<1>3. \A t \in Threads : AtLabel(t)'  BY <1>1 DEF IInv, AtLabel
<1>4. Owned' /\ OneCachePerThread'  BY <1>1 DEF IInv, Owned, OneCachePerThread, Me
<1> QED  BY <1>2, <1>3, <1>4 DEF IInv

\* The cache that is made or found is not one that another thread has.
LEMMA CreateIInv ==
    ASSUME IInv, NEW t \in Threads, CreateCacheIfNecessary(t)
    PROVE  IInv'
<1> USE DEF CreateCacheIfNecessary, GoTo
<1> DEFINE c(h) == IF h \in thread_heaps THEN cache[h] ELSE NewCache(Me(t))
<1>1. PICK h \in Heaps :
         /\ (h \in Found(t) /\ UNCHANGED list) \/ Link(t, h)
         /\ heap' = [heap EXCEPT ![t] = h]
         /\ \/ /\ MustSet(c(h))
               /\ cache' = [cache EXCEPT ![h] = [c(h) EXCEPT !.in_setspecific = TRUE]]
               /\ depth' = [depth EXCEPT ![t] = 1]
               /\ pc' = [pc EXCEPT ![t] = "set"]
            \/ /\ ~ MustSet(c(h))
               /\ cache' = [cache EXCEPT ![h] = c(h)]
               /\ pc' = [pc EXCEPT ![t] = "use"]
               /\ UNCHANGED depth
    OBVIOUS
<1> DEFINE d == c(h)
           e == cache'[h]
<1>2. heap[t] = Null /\ h # Null /\ h \in Heaps  BY NamesAssumption, OfThread DEF AtLabel
<1>3. thread_heaps' = thread_heaps \cup {h}  BY <1>1 DEF Found, Link, list
<1>4. IsCache(d) /\ d.tid = Me(t)
    <2>1. CASE h \in thread_heaps
        BY <1>1, <2>1, OfThread DEF Found, Link, Shapes
    <2>2. CASE h \notin thread_heaps  BY <2>2 DEF NewCache, IsCache
    <2> QED  BY <2>1, <2>2
<1> HIDE DEF c
<1>5. /\ cache' = [cache EXCEPT ![h] = e]
      /\ IsCache(e) /\ e.tid = Me(t)
      /\ pc'[t] = "set" => e.in_setspecific
    BY <1>1, <1>4, OfThread DEF Shapes, IsCache
<1>6. \A k \in thread_heaps : cache[k].tid = Me(t) => k = h
    BY <1>1 DEF Found, Link, IInv, OneCachePerThread
<1>7. pc[t] \in {"run", "malloc"} /\ specific[t] = Null /\ UNCHANGED <<tsd_inited, specific, round>>
    OBVIOUS
<1>8. /\ pc' = [pc EXCEPT ![t] = IF MustSet(d) THEN "set" ELSE "use"]
      /\ depth' = [depth EXCEPT ![t] = IF MustSet(d) THEN 1 ELSE depth[t]]
    BY <1>1, OfThread
<1>9. MustSet(d) => tsd_inited  BY DEF MustSet
<1>10. heap' = [heap EXCEPT ![t] = h]  BY <1>1
<1> HIDE DEF d, e
<1> USE <1>2, <1>3, <1>5, <1>7, <1>8, <1>10
<1>11. ASSUME NEW k \in thread_heaps, k # h PROVE cache'[k] = cache[k] /\ cache[k].tid # Me(t)
    BY <1>6, <1>11, OfThread DEF Shapes
<1>12. Shapes'  BY OfThread DEF Shapes
<1>13. Named'
    <2>1. Me(t) \in IF tsd_inited THEN Threads ELSE {Zero}  BY DEF Me
    <2>2. cache'[h].tid = Me(t)  BY DEF e
    <2>3. \A k \in thread_heaps : k # h => cache'[k] = cache[k]  BY <1>11
    <2>4. \A k \in thread_heaps : cache[k].tid \in IF tsd_inited THEN Threads ELSE {Zero}
        BY DEF IInv, Named
    <2>5. ASSUME NEW k \in thread_heaps'
          PROVE  cache'[k].tid \in IF tsd_inited THEN Threads ELSE {Zero}
        <3>1. CASE k = h  BY <2>1, <2>2, <3>1
        <3>2. CASE k # h  BY <2>3, <2>4, <3>2
        <3> QED  BY <3>1, <3>2
    <2> QED  BY <2>5 DEF Named
<1>14. Early'  BY <1>9, OfThread DEF IInv, Shapes, Early
<1>15. ASSUME NEW u \in Threads PROVE AtLabel(u)'
    <2>1. CASE u = t  BY <2>1, <1>9, OfThread DEF AtLabel, Shapes
    <2>2. CASE u # t
        <3>1. /\ pc'[u] = pc[u] /\ heap'[u] = heap[u] /\ depth'[u] = depth[u]
              /\ AtLabel(u)
            BY <2>2, OfThread DEF Shapes
        <3>2. ASSUME pc[u] = "set" PROVE cache'[heap[u]] = cache[heap[u]]
            <4>1. heap[u] # Null /\ tsd_inited  BY <3>1, <3>2 DEF AtLabel
            <4>2. heap[u] \in thread_heaps /\ cache[heap[u]].tid = u
                BY <4>1 DEF IInv, Owned, Me
            <4>3. heap[u] # h  BY <2>2, <4>1, <4>2, <1>6, <1>1 DEF Me, Found, Link
            <4> QED  BY <1>11, <4>2, <4>3
        <3> QED  BY <3>1, <3>2 DEF AtLabel
    <2> QED  BY <2>1, <2>2
<1>16. Owned'
    <2> SUFFICES ASSUME NEW u \in Threads, NEW k \in {specific'[u], heap'[u]} \ {Null}
                 PROVE  k \in thread_heaps' /\ cache'[k].tid = Me(u)
        BY DEF Owned, Me
    <2>1. CASE k = h /\ u = t  BY <2>1, OfThread DEF Shapes
    <2>2. CASE u # t
        <3>1. k \in {specific[u], heap[u]} \ {Null}  BY <2>2, OfThread DEF Shapes
        <3>2. k \in thread_heaps /\ cache[k].tid = Me(u)  BY <3>1 DEF IInv, Owned
        <3>3. CASE k # h  BY <1>11, <3>2, <3>3
        <3>4. CASE k = h
            <4>1. h \in thread_heaps => cache[h].tid = Me(t)  BY <1>1 DEF Found, Link
            <4>2. CASE tsd_inited  BY <2>2, <3>2, <3>4, <4>1, <4>2 DEF Me
            <4>3. CASE ~ tsd_inited
                BY <2>2, <3>1, <4>3, NamesAssumption, OfThread DEF AtLabel
            <4> QED  BY <4>2, <4>3
        <3> QED  BY <3>3, <3>4
    <2>3. CASE u = t /\ k # h  BY <2>3, OfThread DEF Shapes
    <2> QED  BY <2>1, <2>2, <2>3
<1>17. OneCachePerThread'
    <2> SUFFICES ASSUME NEW k \in thread_heaps \cup {h}, NEW l \in thread_heaps \cup {h},
                        cache'[k].tid = cache'[l].tid
                 PROVE  k = l
        BY DEF OneCachePerThread
    <2>1. cache'[h].tid = Me(t)  BY DEF e
    <2>2. CASE k # h /\ l # h  BY <1>11, <2>2 DEF IInv, OneCachePerThread
    <2>3. CASE k # h /\ l = h  BY <1>11, <2>1, <2>3
    <2>4. CASE k = h /\ l # h  BY <1>11, <2>1, <2>4
    <2> QED  BY <2>2, <2>3, <2>4
<1> QED  BY <1>12, <1>13, <1>14, <1>15, <1>16, <1>17 DEF IInv

LEMMA SetSpecificIInv ==
    ASSUME IInv, NEW t \in Threads, SetSpecific(t)
    PROVE  IInv'
<1> USE DEF SetSpecific, GoTo, list, limits
<1> DEFINE h == heap[t]
           d == LeavesSetspecific(cache[h])
<1>1. tsd_inited /\ h \in Heaps /\ h # Null  BY OfThread DEF AtLabel
<1>2. IsCache(d) /\ d.tid = cache[h].tid
    BY <1>1, OfThread DEF Shapes, IsCache, LeavesSetspecific
<1>3. cache' = [cache EXCEPT ![h] = d]  OBVIOUS
<1> HIDE DEF d
<1>4. \A k \in Heaps : cache'[k].tid = cache[k].tid  BY <1>2, <1>3, OfThread DEF Shapes
<1>5. thread_heaps \subseteq Heaps  BY OfThread DEF Shapes
<1>6. Shapes'  BY <1>1, <1>2, <1>3, OfThread DEF Shapes
<1>7. Named' /\ OneCachePerThread'
    BY <1>4, <1>5 DEF IInv, Named, OneCachePerThread
<1>8. Early'  BY <1>1 DEF Early
<1>9. ASSUME NEW u \in Threads PROVE AtLabel(u)'
    <2>1. CASE u = t  BY <1>1, <2>1, OfThread DEF AtLabel, Shapes
    <2>2. CASE u # t
        <3>1. /\ pc'[u] = pc[u] /\ heap'[u] = heap[u] /\ depth'[u] = depth[u]
              /\ specific'[u] = specific[u] /\ AtLabel(u)
            BY <2>2, OfThread DEF Shapes
        <3>2. ASSUME pc[u] = "set" PROVE cache'[heap[u]] = cache[heap[u]]
            <4>1. heap[u] \in Heaps /\ heap[u] # Null  BY <3>1, <3>2, OfThread DEF AtLabel
            <4>2. heap[u] # h  BY <1>1, <2>2, <4>1, Exclusive, OfThread DEF IInv
            <4> QED  BY <1>3, <4>1, <4>2, OfThread DEF Shapes
        <3> QED  BY <3>1, <3>2 DEF AtLabel
    <2> QED  BY <2>1, <2>2
<1>10. Owned'
    <2> SUFFICES ASSUME NEW u \in Threads, NEW k \in {specific'[u], heap'[u]} \ {Null}
                 PROVE  k \in thread_heaps /\ cache'[k].tid = Me(u)
        BY DEF Owned, Me
    <2>1. k \in {specific[u], heap[u]}  BY OfThread DEF Shapes
    <2> QED  BY <2>1, <1>4, <1>5 DEF IInv, Owned
<1> QED  BY <1>6, <1>7, <1>8, <1>9, <1>10 DEF IInv

LEMMA DeleteCacheIInv ==
    ASSUME IInv, NEW t \in Threads, DeleteCache(t)
    PROVE  IInv'
<1> USE DEF DeleteCache, GoTo
<1> DEFINE h == heap[t]
<1>1. tsd_inited /\ h \in Heaps /\ h # Null /\ specific[t] = Null
    BY OfThread DEF AtLabel
<1>2. thread_heaps \subseteq Heaps  BY OfThread DEF Shapes
<1>3. \A k \in thread_heaps' : k \in thread_heaps /\ cache'[k] = cache[k]
    BY <1>2, OfThread DEF Shapes
<1>4. Shapes'  BY <1>1, OfThread DEF Shapes, NewCache, IsCache
<1>5. Named' /\ OneCachePerThread'
    BY <1>3 DEF IInv, Named, OneCachePerThread
<1>6. Early'  BY <1>1 DEF Early
<1>7. ASSUME NEW u \in Threads \ {t}
      PROVE  /\ AtLabel(u)'
             /\ \A k \in {specific[u], heap[u]} \ {Null} : k \in thread_heaps' /\ cache[k].tid = Me(u)
    <2>1. /\ pc'[u] = pc[u] /\ heap'[u] = heap[u] /\ depth'[u] = depth[u]
          /\ AtLabel(u)
        BY OfThread DEF Shapes
    <2>2. ASSUME NEW k \in {specific[u], heap[u]} \ {Null}
          PROVE  k \in thread_heaps' /\ cache[k].tid = Me(u)
        <3>1. k # h  BY <1>1, Exclusive, OfThread DEF IInv
        <3> QED  BY <3>1 DEF IInv, Owned
    <2>3. ASSUME pc[u] = "set" PROVE cache'[heap[u]] = cache[heap[u]]
        BY <2>1, <2>2, <2>3, <1>3 DEF AtLabel
    <2> QED  BY <2>1, <2>2, <2>3 DEF AtLabel
<1>8. AtLabel(t)'  BY <1>1, OfThread DEF AtLabel, Shapes
<1>9. Owned'
    <2> SUFFICES ASSUME NEW u \in Threads, NEW k \in {specific'[u], heap'[u]} \ {Null}
                 PROVE  k \in thread_heaps' /\ cache'[k].tid = Me(u)
        BY DEF Owned, Me
    <2>1. u # t  BY <1>1, OfThread DEF Shapes
    <2>2. k \in {specific[u], heap[u]} \ {Null}  BY <2>1, OfThread DEF Shapes
    <2> QED  BY <2>1, <2>2, <1>3, <1>7
<1> QED  BY <1>4, <1>5, <1>6, <1>7, <1>8, <1>9 DEF IInv

LEMMA InitTSDIInv ==
    ASSUME IInv, InitTSD
    PROVE  IInv'
<1> USE NamesAssumption DEF InitTSD, GoTo, list, limits
<1>1. Shapes  BY OfThread
<1>2. \A h \in Heaps : /\ IsCache(Rename(h)) /\ Rename(h).in_setspecific = cache[h].in_setspecific
                       /\ cache[h].tid = Zero => Rename(h).tid = Main
    BY <1>1 DEF Shapes, Rename, IsCache
<1>3. \A h \in thread_heaps : h \in Heaps /\ cache[h].tid = Zero /\ cache'[h].tid = Main
    BY <1>1, <1>2 DEF IInv, Named, Shapes
<1>4. Shapes'  BY <1>1, <1>2 DEF Shapes
<1>5. Named' /\ OneCachePerThread'
    BY <1>3 DEF Named, IInv, OneCachePerThread
<1>6. Early'  BY DEF Early
<1>7. ASSUME NEW t \in Threads PROVE specific[t] = Null /\ heap[t] = Null /\ AtLabel(t)'
    <2>1. specific[t] = Null /\ (pc[t] \in {"run", "none"}) /\ heap[t] = Null
        BY OfThread DEF AtLabel
    <2> QED  BY <1>1, <2>1 DEF AtLabel, Shapes
<1>8. Owned'  BY <1>7 DEF Owned
<1> QED  BY <1>4, <1>5, <1>6, <1>7, <1>8 DEF IInv

LEMMA NextIInv == IInv /\ [Next]_vars => IInv'
<1> SUFFICES ASSUME IInv, [Next]_vars PROVE IInv'  OBVIOUS
<1>1. CASE UNCHANGED vars
    <2>1. /\ tsd_inited' = tsd_inited /\ thread_heaps' = thread_heaps /\ cache' = cache
          /\ specific' = specific /\ pc' = pc /\ heap' = heap /\ depth' = depth
          /\ round' = round
        BY <1>1 DEF vars, list, thread
    <2>2. Shapes'  BY <2>1 DEF IInv, Shapes
    <2>3. Named'  BY <2>1 DEF IInv, Named
    <2>4. Early'  BY <2>1 DEF IInv, Early
    <2>5. ASSUME NEW t \in Threads PROVE AtLabel(t)'
        <3>1. AtLabel(t)  BY DEF IInv
        <3> QED  BY <2>1, <3>1 DEF AtLabel
    <2>6. Owned'
        <3>1. ASSUME NEW t \in Threads PROVE Me(t)' = Me(t)  BY <2>1 DEF Me
        <3> QED  BY <2>1, <3>1 DEF IInv, Owned
    <2>7. OneCachePerThread'  BY <2>1 DEF IInv, OneCachePerThread
    <2> QED  BY <2>2, <2>3, <2>4, <2>5, <2>6, <2>7 DEF IInv
<1>2. CASE InitTSD  BY <1>2, InitTSDIInv
<1>3. CASE SetNumericProperty  BY <1>3, SetNumericPropertyIInv
<1>4. ASSUME NEW t \in Threads, Malloc(t) PROVE IInv'  BY <1>4, MallocIInv
<1>5. ASSUME NEW t \in Threads, CreateCacheIfNecessary(t) PROVE IInv'  BY <1>5, CreateIInv
<1>6. ASSUME NEW t \in Threads, ReentrantMalloc(t) PROVE IInv'  BY <1>6, ReentrantMallocIInv
<1>7. ASSUME NEW t \in Threads, SetSpecific(t) PROVE IInv'  BY <1>7, SetSpecificIInv
<1>8. ASSUME NEW t \in Threads, UseCache(t) PROVE IInv'  BY <1>8, UseCacheIInv
<1>9. ASSUME NEW t \in Threads, Free(t) PROVE IInv'  BY <1>9, FreeIInv
<1>10. ASSUME NEW t \in Threads, Start(t) PROVE IInv'  BY <1>10, StartIInv
<1>11. ASSUME NEW t \in Threads, Exit(t) PROVE IInv'  BY <1>11, ExitIInv
<1>12. ASSUME NEW t \in Threads, Destroy(t) PROVE IInv'  BY <1>12, DestroyIInv
<1>13. ASSUME NEW t \in Threads, DeleteCache(t) PROVE IInv'  BY <1>13, DeleteCacheIInv
<1>14. ASSUME NEW t \in Threads, Gone(t) PROVE IInv'  BY <1>14, GoneIInv
<1> QED  BY <1>1, <1>2, <1>3, <1>4, <1>5, <1>6, <1>7, <1>8, <1>9, <1>10, <1>11, <1>12,
            <1>13, <1>14 DEF Next

-----------------------------------------------------------------------------
(* The limits of the caches.                                                 *)

LEMMA MaxMin ==
    ASSUME NEW a \in Int, NEW b \in Int
    PROVE  /\ Max({a, b}) = IF a >= b THEN a ELSE b
           /\ Min({a, b}) = IF a <= b THEN a ELSE b
<1>1. \E y \in {a, b} : \A z \in {a, b} : y >= z  OBVIOUS
<1>2. \E y \in {a, b} : \A z \in {a, b} : y <= z  OBVIOUS
<1>3. Max({a, b}) \in {a, b} /\ \A z \in {a, b} : Max({a, b}) >= z  BY <1>1 DEF Max
<1>4. Min({a, b}) \in {a, b} /\ \A z \in {a, b} : Min({a, b}) <= z  BY <1>2 DEF Min
<1> QED  BY <1>3, <1>4

\* count caches of the size RecomputeThreadCacheSize computes fit in the
\* overall size, unless that is the least size there is.
LEMMA ShareFits ==
    ASSUME NEW overall \in Nat, NEW count \in Nat
    PROVE  \/ count * RecomputeThreadCacheSize(overall, count) <= overall
           \/ RecomputeThreadCacheSize(overall, count) = MinCache
<1> DEFINE m == Max({count, 1})
           q == overall \div m
           p == RecomputeThreadCacheSize(overall, count)
<1>1. m \in Nat /\ m > 0 /\ count <= m  BY MaxMin
<1> HIDE DEF m
<1>2. q \in Nat /\ m * q <= overall  BY <1>1
<1>3. p = Max({MinCache, Min({MaxCache, q})})  BY DEF RecomputeThreadCacheSize, m
<1> HIDE DEF q, p
<1>4. p \in Nat /\ (p <= q \/ p = MinCache)
    <2> DEFINE r == Min({MaxCache, q})
    <2>1. MinCache \in Nat /\ MaxCache \in Nat  BY LimitsAssumption
    <2>2. r = IF MaxCache <= q THEN MaxCache ELSE q
        <3>1. MaxCache \in Int /\ q \in Int  BY <1>2, <2>1
        <3> QED  BY <3>1, MaxMin
    <2>3. p = Max({MinCache, r})  BY <1>3
    <2> HIDE DEF r
    <2>4. r \in Nat /\ r <= q  BY <1>2, <2>1, <2>2
    <2>5. p = IF MinCache >= r THEN MinCache ELSE r
        <3>1. MinCache \in Int /\ r \in Int  BY <2>1, <2>4
        <3> QED  BY <2>3, <3>1, MaxMin
    <2> QED  BY <2>1, <2>4, <2>5
<1>5. ASSUME p <= q PROVE count * p <= overall
    <2>1. count * p <= m * p  BY <1>1, <1>4
    <2>2. m * p <= m * q  BY <1>1, <1>2, <1>4, <1>5
    <2> QED  BY <1>1, <1>2, <1>4, <2>1, <2>2
<1> QED  BY <1>4, <1>5 DEF p

\* The caches are finitely many and counted.
LimitInv ==
    /\ IsFiniteSet(thread_heaps)
    /\ overall_thread_cache_size \in Limits
    /\ LimitShared

LEMMA LimitInvStep == IInv /\ LimitInv /\ [Next]_vars => LimitInv'
<1> SUFFICES ASSUME IInv, LimitInv, [Next]_vars PROVE LimitInv'  OBVIOUS
<1>1. /\ IsFiniteSet(thread_heaps) /\ thread_heap_count = Cardinality(thread_heaps)
      /\ thread_heap_count \in Nat
    BY FS_CardinalityType DEF LimitInv, LimitShared
<1>2. CASE UNCHANGED list  BY <1>2 DEF list, limits, LimitInv, LimitShared
<1>3. CASE SetNumericProperty
    <2>1. PICK limit \in Limits :
             /\ overall_thread_cache_size' = limit
             /\ per_thread_cache_size' = RecomputeThreadCacheSize(limit, thread_heap_count)
        BY <1>3 DEF SetNumericProperty
    <2>2. limit \in Nat  BY LimitsAssumption
    <2> QED  BY <1>1, <1>3, <2>1, <2>2, ShareFits DEF LimitInv, LimitShared, SetNumericProperty
<1>4. overall_thread_cache_size \in Nat  BY LimitsAssumption DEF LimitInv
<1>5. ASSUME NEW t \in Threads, NEW h, Link(t, h) PROVE LimitInv'
    <2>1. IsFiniteSet(thread_heaps') /\ Cardinality(thread_heaps') = thread_heap_count + 1
        BY <1>1, <1>5, FS_AddElement DEF Link
    <2> QED  BY <1>1, <1>4, <1>5, <2>1, ShareFits DEF LimitInv, LimitShared, Link
<1>6. ASSUME NEW t \in Threads, DeleteCache(t) PROVE LimitInv'
    <2>1. heap[t] \in thread_heaps  BY <1>6, OfThread DEF DeleteCache, AtLabel, IInv, Owned
    <2>2. /\ IsFiniteSet(thread_heaps')
          /\ Cardinality(thread_heaps') = thread_heap_count - 1
        BY <1>1, <1>6, <2>1, FS_RemoveElement DEF DeleteCache
    <2>3. thread_heap_count - 1 \in Nat  BY <2>2, FS_CardinalityType
    <2> QED  BY <1>4, <1>6, <2>2, <2>3, ShareFits DEF LimitInv, LimitShared, DeleteCache
<1>7. UNCHANGED list \/ SetNumericProperty
      \/ \E t \in Threads : DeleteCache(t) \/ \E h : Link(t, h)
    <2>1. CASE UNCHANGED vars  BY <2>1 DEF vars
    <2>2. CASE Next
        BY <2>2 DEF Next, InitTSD, Malloc, CreateCacheIfNecessary, ReentrantMalloc, SetSpecific,
                    UseCache, Free, Start, Exit, Destroy, Gone
    <2> QED  BY <2>1, <2>2
<1> QED  BY <1>2, <1>3, <1>5, <1>6, <1>7

LEMMA InitLimitInv == Init => LimitInv
<1> SUFFICES ASSUME Init PROVE LimitInv  OBVIOUS
<1>1. Max(Limits) \in Limits
    <2>1. PICK m \in Limits : \A l \in Limits : l <= m  BY LimitsAssumption
    <2>2. \A l \in Limits : m >= l  BY <2>1, LimitsAssumption
    <2> QED  BY <2>2 DEF Max
<1>2. overall_thread_cache_size \in Nat /\ per_thread_cache_size \in Nat
    BY <1>1, LimitsAssumption DEF Init
<1>3. 0 * per_thread_cache_size <= overall_thread_cache_size  BY <1>2
<1> QED  BY <1>1, <1>3, FS_EmptySet DEF Init, LimitInv, LimitShared

-----------------------------------------------------------------------------
(* What a thread leaves behind.                                              *)

\* A thread that was given a cache and has none now, outside the calls that give
\* and take it, has none on the list; a name nobody bears was given none yet.
NothingLeft(t) ==
    /\ pc[t] = "none" => ~ served[t]
    /\ tsd_inited /\ served[t] /\ specific[t] = Null =>
         /\ pc[t] # "use"
         /\ pc[t] = "run" => \A h \in thread_heaps : cache[h].tid # t

\* in_setspecific_ is raised in a cache that is being handed to setspecific.
FlagsRight ==
    \A h \in thread_heaps :
        cache[h].in_setspecific => \E t \in Threads : pc[t] = "set" /\ heap[t] = h

LeftInv ==
    /\ served \in [Threads -> BOOLEAN]
    /\ FlagsRight
    /\ \A t \in Threads : NothingLeft(t)

LEMMA InitLeftInv == Init => LeftInv
BY DEF Init, LeftInv, FlagsRight, NothingLeft

\* A step of t that keeps the names and the list: it does not end what t has
\* begun with its cache in setspecific.
LEMMA OwnLeftStep ==
    ASSUME IInv, LeftInv, ListKept, NEW t \in Threads, NothingLeft(t)',
           served' \in [Threads -> BOOLEAN],
           \A u \in Threads \ {t} :
               pc'[u] = pc[u] /\ heap'[u] = heap[u] /\ specific'[u] = specific[u] /\ served'[u] = served[u],
           pc[t] = "set" => pc'[t] = "set" /\ heap'[t] = heap[t]
    PROVE  LeftInv'
<1>1. \A h \in thread_heaps : /\ cache'[h].tid = cache[h].tid
                              /\ cache'[h].in_setspecific = cache[h].in_setspecific
    BY DEF ListKept, NamesKept, SameName, IInv, Shapes
<1>2. thread_heaps' = thread_heaps /\ tsd_inited' = tsd_inited  BY DEF ListKept
<1>3. ASSUME NEW u \in Threads PROVE NothingLeft(u)'
    <2>1. CASE u = t  BY <2>1
    <2>2. CASE u # t
        <3>1. NothingLeft(u)  BY DEF LeftInv
        <3> QED  BY <1>1, <1>2, <2>2, <3>1 DEF NothingLeft
    <2> QED  BY <2>1, <2>2
<1>4. FlagsRight'
    <2> SUFFICES ASSUME NEW h \in thread_heaps, cache'[h].in_setspecific
                 PROVE  \E u \in Threads : pc'[u] = "set" /\ heap'[u] = h
        BY <1>2 DEF FlagsRight
    <2>1. PICK u \in Threads : pc[u] = "set" /\ heap[u] = h
        BY <1>1 DEF LeftInv, FlagsRight
    <2> QED  BY <2>1
<1> QED  BY <1>3, <1>4 DEF LeftInv

\* malloc and free, which move objects, and what changes only where t is.
LEMMA QuietLeft ==
    ASSUME IInv, LeftInv, NEW t \in Threads,
           \/ Malloc(t) \/ ReentrantMalloc(t) \/ UseCache(t) \/ Free(t)
           \/ Start(t) \/ Exit(t) \/ Destroy(t) \/ Gone(t),
           ListKept
    PROVE  LeftInv'
<1> USE DEF list, limits, thread, GoTo
<1>1. NothingLeft(t) /\ served \in [Threads -> BOOLEAN]  BY DEF LeftInv
<1>2. \A h \in thread_heaps : cache'[h].tid = cache[h].tid
    BY DEF ListKept, NamesKept, SameName, IInv, Shapes
<1>3. thread_heaps' = thread_heaps /\ tsd_inited' = tsd_inited  BY DEF ListKept
<1>4. Shapes  BY DEF IInv
<1>5. CASE Malloc(t)
    <2>1. /\ specific[t] # Null /\ pc' = [pc EXCEPT ![t] = "run"] /\ pc[t] # "set"
          /\ UNCHANGED <<specific, heap, served>>
        BY <1>5 DEF Malloc
    <2>2. NothingLeft(t)'  BY <2>1, <1>4 DEF NothingLeft, Shapes
    <2> QED  BY <1>1, <2>1, <2>2, <1>4, OwnLeftStep DEF Shapes
<1>6. CASE ReentrantMalloc(t) \/ Free(t)
    <2>1. UNCHANGED <<specific, pc, heap, served>>  BY <1>6 DEF ReentrantMalloc, Free
    <2>2. NothingLeft(t)'  BY <1>1, <1>2, <1>3, <2>1 DEF NothingLeft
    <2> QED  BY <1>1, <2>1, <2>2, OwnLeftStep
<1>7. CASE UseCache(t)
    <2>1. /\ pc[t] = "use" /\ pc' = [pc EXCEPT ![t] = "run"] /\ heap' = [heap EXCEPT ![t] = Null]
          /\ UNCHANGED <<specific, served>>
        BY <1>7 DEF UseCache
    <2>2. NothingLeft(t)'  BY <1>1, <1>3, <2>1, <1>4 DEF NothingLeft, Shapes
    <2> QED  BY <1>1, <2>1, <2>2, <1>4, OwnLeftStep DEF Shapes
<1>8. CASE Start(t)
    <2>1. pc[t] = "none" /\ pc' = [pc EXCEPT ![t] = "run"] /\ UNCHANGED <<specific, heap, served>>
        BY <1>8 DEF Start
    <2>2. NothingLeft(t)'  BY <1>1, <2>1, <1>4 DEF NothingLeft, Shapes
    <2> QED  BY <1>1, <2>1, <2>2, <1>4, OwnLeftStep DEF Shapes
<1>9. CASE Exit(t)
    <2>1. UNCHANGED <<specific, pc, heap, served>>  BY <1>9 DEF Exit
    <2>2. NothingLeft(t)'  BY <1>1, <1>2, <1>3, <2>1 DEF NothingLeft
    <2> QED  BY <1>1, <2>1, <2>2, OwnLeftStep
<1>10. CASE Destroy(t)
    <2>1. pc[t] = "run" /\ specific' = [specific EXCEPT ![t] = Null] /\ served' = served
        BY <1>10 DEF Destroy
    <2>2. CASE specific[t] = Null
        <3>1. UNCHANGED <<heap, pc>> /\ specific'[t] = Null
            BY <1>10, <2>1, <2>2, <1>4 DEF Destroy, Shapes
        <3>2. NothingLeft(t)'  BY <1>1, <1>2, <1>3, <2>1, <2>2, <3>1 DEF NothingLeft
        <3> QED  BY <1>1, <2>1, <3>1, <3>2, <1>4, OwnLeftStep DEF Shapes
    <2>3. CASE specific[t] # Null
        <3>1. pc' = [pc EXCEPT ![t] = "unlink"] /\ heap' = [heap EXCEPT ![t] = specific[t]]
            BY <1>10, <2>3 DEF Destroy
        <3>2. NothingLeft(t)'  BY <3>1, <1>4 DEF NothingLeft, Shapes
        <3> QED  BY <1>1, <2>1, <3>1, <3>2, <1>4, OwnLeftStep DEF Shapes
    <2> QED  BY <2>2, <2>3
<1>11. CASE Gone(t)
    <2>1. /\ pc[t] = "run" /\ pc' = [pc EXCEPT ![t] = "none"] /\ served' = [served EXCEPT ![t] = FALSE]
          /\ specific' = [specific EXCEPT ![t] = Null] /\ heap' = heap
        BY <1>11 DEF Gone
    <2>2. NothingLeft(t)'  BY <1>1, <2>1, <1>4 DEF NothingLeft, Shapes
    <2> QED  BY <1>1, <2>1, <2>2, <1>4, OwnLeftStep DEF Shapes
<1> QED  BY <1>5, <1>6, <1>7, <1>8, <1>9, <1>10, <1>11

\* These steps keep the names and the list.
LEMMA QuietListKept ==
    ASSUME IInv, NEW t \in Threads,
           \/ Malloc(t) \/ ReentrantMalloc(t) \/ UseCache(t) \/ Free(t)
           \/ Start(t) \/ Exit(t) \/ Destroy(t) \/ Gone(t)
    PROVE  ListKept
<1> USE DEF list, limits, thread
<1>1. CASE Malloc(t)  BY <1>1, OfThread, AllocateKeepsNames DEF ListKept, Malloc
<1>2. CASE ReentrantMalloc(t)
    <2>1. PICK h \in Found(t) :
             \/ Allocate(h)
             \/ MustSet(cache[h]) /\ UNCHANGED <<cache, central, client>>
        BY <1>2 DEF ReentrantMalloc
    <2>2. h \in Heaps  BY OfThread DEF Found, Shapes
    <2>3. UNCHANGED <<tsd_inited, thread_heaps>>  BY <1>2 DEF ReentrantMalloc
    <2> QED  BY <2>1, <2>2, <2>3, OfThread, AllocateKeepsNames, UnchangedCaches DEF ListKept
<1>3. CASE UseCache(t)
    <2>1. heap[t] \in Heaps  BY <1>3, OfThread DEF AtLabel, UseCache
    <2> QED  BY <1>3, <2>1, OfThread, AllocateKeepsNames DEF ListKept, UseCache
<1>4. CASE Free(t)
    BY <1>4, OfThread, FreeKeepsNames, UnchangedCaches DEF ListKept, Free
<1>5. CASE Start(t)  BY <1>5, UnchangedCaches DEF Start
<1>6. CASE Exit(t)  BY <1>6, UnchangedCaches DEF Exit
<1>7. CASE Destroy(t)
    <2>1. UNCHANGED <<tsd_inited, thread_heaps>>  BY <1>7 DEF Destroy
    <2>2. CASE specific[t] = Null  BY <1>7, <2>1, <2>2, UnchangedCaches DEF Destroy
    <2>3. CASE specific[t] # Null
        <3> DEFINE h == specific[t]
                   d == Release(cache[h], Cleanup(cache[h]))
        <3>1. h \in Heaps  BY <2>3, OfThread
        <3>2. SameName(cache[h], d)  BY <3>1, OfThread, CacheOperations DEF Shapes
        <3>3. cache' = [cache EXCEPT ![h] = d]  BY <1>7, <2>3 DEF Destroy
        <3> HIDE DEF d
        <3> QED  BY <2>1, <3>1, <3>2, <3>3, OfThread, OneChanged DEF ListKept
    <2> QED  BY <2>2, <2>3
<1>8. CASE Gone(t)  BY <1>8, UnchangedCaches DEF Gone
<1> QED  BY <1>1, <1>2, <1>3, <1>4, <1>5, <1>6, <1>7, <1>8

\* A thread that has none gets a cache, and goes into setspecific unless it is
\* there already or thread data does not exist.
LEMMA CreateLeft ==
    ASSUME IInv, LeftInv, NEW t \in Threads, CreateCacheIfNecessary(t)
    PROVE  LeftInv'
<1> USE DEF GoTo
<1> DEFINE c(h) == IF h \in thread_heaps THEN cache[h] ELSE NewCache(Me(t))
<1>1. PICK h \in Heaps :
         /\ (h \in Found(t) /\ UNCHANGED list) \/ Link(t, h)
         /\ heap' = [heap EXCEPT ![t] = h]
         /\ \/ /\ MustSet(c(h))
               /\ cache' = [cache EXCEPT ![h] = [c(h) EXCEPT !.in_setspecific = TRUE]]
               /\ pc' = [pc EXCEPT ![t] = "set"]
            \/ /\ ~ MustSet(c(h))
               /\ cache' = [cache EXCEPT ![h] = c(h)]
               /\ pc' = [pc EXCEPT ![t] = "use"]
    BY DEF CreateCacheIfNecessary
<1> DEFINE d == c(h)
<1>2. /\ pc[t] \in {"run", "malloc"} /\ UNCHANGED <<tsd_inited, specific>>
      /\ served' = [served EXCEPT ![t] = TRUE]
    BY DEF CreateCacheIfNecessary
<1>3. IsCache(d) /\ d.tid = Me(t)
    <2>1. CASE h \in thread_heaps  BY <1>1, <2>1, OfThread DEF Found, Link, Shapes
    <2>2. CASE h \notin thread_heaps  BY <2>2 DEF NewCache, IsCache
    <2> QED  BY <2>1, <2>2
<1>4. ~ d.in_setspecific
    <2>1. CASE h \notin thread_heaps  BY <2>1 DEF NewCache
    <2>2. CASE h \in thread_heaps
        <3> SUFFICES ASSUME cache[h].in_setspecific PROVE FALSE  BY <2>2
        <3>1. PICK u \in Threads : pc[u] = "set" /\ heap[u] = h
            BY <2>2 DEF LeftInv, FlagsRight
        <3>2. h # Null /\ tsd_inited  BY <3>1, OfThread DEF AtLabel
        <3>3. cache[h].tid = u  BY <3>1, <3>2 DEF IInv, Owned, Me
        <3>4. cache[h].tid = t  BY <1>3, <2>2, <3>2 DEF Me
        <3> QED  BY <1>2, <3>1, <3>3, <3>4
    <2> QED  BY <2>1, <2>2
<1>5. MustSet(d) <=> tsd_inited  BY <1>4 DEF MustSet
<1>6. cache'[h].tid = Me(t) /\ h \in Heaps  BY <1>1, <1>3, OfThread DEF Shapes, IsCache
<1>7. /\ thread_heaps' = thread_heaps \cup {h} /\ thread_heaps \subseteq Heaps
      /\ \A k \in Heaps \ {h} : cache'[k] = cache[k]
    BY <1>1, OfThread DEF Found, Link, list, Shapes
<1>8. \A u \in Threads \ {t} : pc'[u] = pc[u] /\ heap'[u] = heap[u] /\ served'[u] = served[u]
    BY <1>1, <1>2, OfThread DEF Shapes, LeftInv
<1>9. pc'[t] = (IF tsd_inited THEN "set" ELSE "use") /\ heap'[t] = h
    BY <1>1, <1>5, OfThread DEF Shapes
<1>10. cache'[h].in_setspecific => tsd_inited
    BY <1>1, <1>4, <1>5, OfThread DEF Shapes
<1> HIDE DEF c, d
<1>11. FlagsRight'
    <2> SUFFICES ASSUME NEW k \in thread_heaps', cache'[k].in_setspecific
                 PROVE  \E u \in Threads : pc'[u] = "set" /\ heap'[u] = k
        BY DEF FlagsRight
    <2>1. CASE k = h  BY <1>9, <1>10, <2>1
    <2>2. CASE k # h
        <3>1. PICK u \in Threads : pc[u] = "set" /\ heap[u] = k
            BY <1>7, <2>2 DEF LeftInv, FlagsRight
        <3> QED  BY <1>2, <1>8, <3>1
    <2> QED  BY <2>1, <2>2
<1>12. ASSUME NEW u \in Threads PROVE NothingLeft(u)'
    <2>1. CASE u = t  BY <1>2, <1>9, <2>1 DEF NothingLeft
    <2>2. CASE u # t
        <3>1. NothingLeft(u)  BY DEF LeftInv
        <3>2. \A k \in thread_heaps' : \/ k \in thread_heaps /\ cache'[k].tid = cache[k].tid
                                     \/ cache'[k].tid = Me(t)
            BY <1>6, <1>7
        <3>3. tsd_inited => Me(t) # u  BY <2>2 DEF Me
        <3> QED  BY <1>2, <1>8, <2>2, <3>1, <3>2, <3>3 DEF NothingLeft
    <2> QED  BY <2>1, <2>2
<1>13. served' \in [Threads -> BOOLEAN]  BY <1>2 DEF LeftInv
<1> QED  BY <1>11, <1>12, <1>13 DEF LeftInv

\* setspecific stores it.
LEMMA SetSpecificLeft ==
    ASSUME IInv, LeftInv, NEW t \in Threads, SetSpecific(t)
    PROVE  LeftInv'
<1> USE DEF list, limits, GoTo
<1> DEFINE h == heap[t]
           d == LeavesSetspecific(cache[h])
<1>1. /\ pc[t] = "set" /\ specific' = [specific EXCEPT ![t] = h] /\ pc' = [pc EXCEPT ![t] = "use"]
      /\ UNCHANGED <<tsd_inited, thread_heaps, heap, served>>
      /\ cache' = [cache EXCEPT ![h] = d]
    BY DEF SetSpecific
<1>2. h \in Heaps /\ h # Null  BY <1>1, OfThread DEF AtLabel
<1>3. d.tid = cache[h].tid /\ ~ d.in_setspecific
    BY <1>2, OfThread DEF LeavesSetspecific, Shapes, IsCache
<1> HIDE DEF d
<1>4. /\ \A k \in Heaps : cache'[k].tid = cache[k].tid
      /\ \A k \in Heaps : cache'[k].in_setspecific => k # h /\ cache[k].in_setspecific
    BY <1>1, <1>2, <1>3, OfThread DEF Shapes
<1>5. thread_heaps \subseteq Heaps  BY OfThread DEF Shapes
<1>6. FlagsRight'
    <2> SUFFICES ASSUME NEW k \in thread_heaps, cache'[k].in_setspecific
                 PROVE  \E u \in Threads : pc'[u] = "set" /\ heap'[u] = k
        BY <1>1 DEF FlagsRight
    <2>1. PICK u \in Threads : pc[u] = "set" /\ heap[u] = k
        BY <1>4, <1>5 DEF LeftInv, FlagsRight
    <2>2. u # t  BY <1>4, <1>5, <2>1
    <2>3. pc'[u] = pc[u] /\ heap'[u] = heap[u]  BY <1>1, <2>2, OfThread DEF Shapes
    <2> QED  BY <2>1, <2>3
<1>7. ASSUME NEW u \in Threads PROVE NothingLeft(u)'
    <2>1. NothingLeft(u)  BY DEF LeftInv
    <2>2. CASE u = t  BY <1>1, <1>2, <2>2, OfThread DEF NothingLeft, Shapes
    <2>3. CASE u # t
        <3>1. pc'[u] = pc[u] /\ specific'[u] = specific[u]  BY <1>1, <2>3, OfThread DEF Shapes
        <3> QED  BY <1>1, <1>4, <1>5, <2>1, <3>1 DEF NothingLeft
    <2> QED  BY <2>2, <2>3
<1> QED  BY <1>1, <1>6, <1>7 DEF LeftInv

\* DeleteCache takes the only cache of the thread's name off the list.
LEMMA DeleteCacheLeft ==
    ASSUME IInv, LeftInv, NEW t \in Threads, DeleteCache(t)
    PROVE  LeftInv'
<1> USE DEF GoTo
<1> DEFINE h == heap[t]
<1>1. /\ pc[t] = "unlink" /\ pc' = [pc EXCEPT ![t] = "run"] /\ heap' = [heap EXCEPT ![t] = Null]
      /\ thread_heaps' = thread_heaps \ {h} /\ cache' = [cache EXCEPT ![h] = NewCache(Zero)]
      /\ UNCHANGED <<tsd_inited, specific, served>>
    BY DEF DeleteCache
<1>2. tsd_inited /\ h \in Heaps /\ h # Null  BY <1>1, OfThread DEF AtLabel
<1>3. h \in thread_heaps /\ cache[h].tid = t  BY <1>2 DEF IInv, Owned, Me
<1>4. \A k \in thread_heaps' : k \in thread_heaps /\ cache'[k] = cache[k] /\ cache[k].tid # t
    BY <1>1, <1>3, OfThread DEF Shapes, IInv, OneCachePerThread
<1>5. FlagsRight'
    <2> SUFFICES ASSUME NEW k \in thread_heaps', cache'[k].in_setspecific
                 PROVE  \E u \in Threads : pc'[u] = "set" /\ heap'[u] = k
        BY DEF FlagsRight
    <2>1. PICK u \in Threads : pc[u] = "set" /\ heap[u] = k
        BY <1>4 DEF LeftInv, FlagsRight
    <2>2. u # t  BY <1>1, <2>1
    <2>3. pc'[u] = pc[u] /\ heap'[u] = heap[u]  BY <1>1, <2>2, OfThread DEF Shapes
    <2> QED  BY <2>1, <2>3
<1>6. ASSUME NEW u \in Threads PROVE NothingLeft(u)'
    <2>1. NothingLeft(u)  BY DEF LeftInv
    <2>2. CASE u = t  BY <1>1, <1>4, <2>2, OfThread DEF NothingLeft, Shapes
    <2>3. CASE u # t
        <3>1. pc'[u] = pc[u]  BY <1>1, <2>3, OfThread DEF Shapes
        <3> QED  BY <1>1, <1>4, <2>1, <3>1 DEF NothingLeft
    <2> QED  BY <2>2, <2>3
<1> QED  BY <1>1, <1>5, <1>6 DEF LeftInv

\* The main thread, whose cache gets a name now, has to call malloc next.
LEMMA InitTSDLeft ==
    ASSUME IInv, LeftInv, InitTSD
    PROVE  LeftInv'
<1> USE DEF GoTo, list, limits
<1>1. /\ ~ tsd_inited /\ pc' = [pc EXCEPT ![Main] = "malloc"] /\ pc[Main] = "run"
      /\ UNCHANGED <<thread_heaps, heap, served, specific>>
      /\ cache' = [h \in Heaps |-> IF h \in thread_heaps THEN Rename(h) ELSE cache[h]]
    BY DEF InitTSD
<1>2. \A h \in thread_heaps : ~ cache[h].in_setspecific
    <2> SUFFICES ASSUME NEW h \in thread_heaps, cache[h].in_setspecific PROVE FALSE  OBVIOUS
    <2>1. PICK u \in Threads : pc[u] = "set"  BY DEF LeftInv, FlagsRight
    <2> QED  BY <1>1, <2>1, OfThread
<1>3. \A h \in thread_heaps : ~ cache'[h].in_setspecific
    <2>1. Shapes  BY DEF IInv
    <2> SUFFICES ASSUME NEW h \in thread_heaps PROVE ~ cache'[h].in_setspecific  OBVIOUS
    <2>2. h \in Heaps /\ IsCache(cache[h])  BY <2>1 DEF Shapes
    <2>3. Rename(h).in_setspecific = cache[h].in_setspecific  BY <2>2 DEF Rename, IsCache
    <2> QED  BY <1>1, <1>2, <2>2, <2>3
<1>4. FlagsRight'  BY <1>1, <1>3 DEF FlagsRight
<1>5. ASSUME NEW u \in Threads PROVE NothingLeft(u)'
    <2>1. NothingLeft(u)  BY DEF LeftInv
    <2>2. CASE u = Main  BY <1>1, <2>2, OfThread DEF NothingLeft, Shapes
    <2>3. CASE u # Main
        <3>1. pc[u] = "none" /\ pc'[u] = pc[u]  BY <1>1, <2>3, OfThread DEF Shapes
        <3> QED  BY <1>1, <2>1, <3>1 DEF NothingLeft
    <2> QED  BY <2>2, <2>3
<1> QED  BY <1>1, <1>4, <1>5 DEF LeftInv

LEMMA LeftInvStep == IInv /\ LeftInv /\ [Next]_vars => LeftInv'
<1> SUFFICES ASSUME IInv, LeftInv, [Next]_vars PROVE LeftInv'  OBVIOUS
<1>1. ASSUME UNCHANGED <<tsd_inited, thread_heaps, cache, specific, pc, heap, served>>
      PROVE  LeftInv'
    <2>1. ASSUME NEW t \in Threads PROVE NothingLeft(t)'
        <3>1. NothingLeft(t)  BY DEF LeftInv
        <3> QED  BY <1>1, <3>1 DEF NothingLeft
    <2>2. FlagsRight'  BY <1>1 DEF LeftInv, FlagsRight
    <2> QED  BY <1>1, <2>1, <2>2 DEF LeftInv
<1>2. CASE UNCHANGED vars  BY <1>1, <1>2 DEF vars, list, thread
<1>3. CASE InitTSD  BY <1>3, InitTSDLeft
<1>4. CASE SetNumericProperty  BY <1>1, <1>4 DEF SetNumericProperty, thread
<1>5. ASSUME NEW t \in Threads, CreateCacheIfNecessary(t) PROVE LeftInv'  BY <1>5, CreateLeft
<1>6. ASSUME NEW t \in Threads, SetSpecific(t) PROVE LeftInv'  BY <1>6, SetSpecificLeft
<1>7. ASSUME NEW t \in Threads, DeleteCache(t) PROVE LeftInv'  BY <1>7, DeleteCacheLeft
<1>8. ASSUME NEW t \in Threads,
             \/ Malloc(t) \/ ReentrantMalloc(t) \/ UseCache(t) \/ Free(t)
             \/ Start(t) \/ Exit(t) \/ Destroy(t) \/ Gone(t)
      PROVE  LeftInv'
    BY <1>8, QuietListKept, QuietLeft
<1> QED  BY <1>2, <1>3, <1>4, <1>5, <1>6, <1>7, <1>8 DEF Next

\* Only Gone ends a thread.
LEMMA AbandonedStep ==
    ASSUME IInv, LeftInv, [Next]_vars, NEW t \in Threads,
           pc[t] # "none", pc'[t] = "none", served[t],
           \E h \in thread_heaps : cache[h].tid = t
    PROVE  round[t] = MaxRounds
<1>1. Gone(t)
    <2>1. CASE UNCHANGED vars  BY <2>1 DEF vars, thread
    <2>2. CASE InitTSD  BY <2>2, OfThread DEF InitTSD, GoTo, Shapes
    <2>3. CASE SetNumericProperty  BY <2>3 DEF SetNumericProperty, thread
    <2>4. ASSUME NEW u \in Threads, NEW l \in {"run", "set", "use", "unlink"},
                 pc' = pc \/ pc' = [pc EXCEPT ![u] = l]
          PROVE  FALSE
        BY <2>4, OfThread DEF Shapes
    <2>5. ASSUME NEW u \in Threads,
                 \/ Malloc(u) \/ CreateCacheIfNecessary(u) \/ ReentrantMalloc(u)
                 \/ SetSpecific(u) \/ UseCache(u) \/ Free(u)
                 \/ Start(u) \/ Exit(u) \/ Destroy(u) \/ DeleteCache(u)
          PROVE  FALSE
        <3>1. \E l \in {"run", "set", "use", "unlink"} : pc' = pc \/ pc' = [pc EXCEPT ![u] = l]
            BY <2>5, Zenon DEF Malloc, CreateCacheIfNecessary, ReentrantMalloc, SetSpecific, UseCache,
               Free, Start, Exit, Destroy, DeleteCache, GoTo, thread
        <3> QED  BY <3>1, <2>4
    <2>6. ASSUME NEW u \in Threads, Gone(u), u # t PROVE FALSE
        BY <2>6, OfThread DEF Gone, GoTo, Shapes
    <2> QED  BY <2>1, <2>2, <2>3, <2>5, <2>6 DEF Next
<1>2. /\ pc[t] = "run"
      /\ round[t] = MaxRounds \/ (round[t] >= 0 /\ specific[t] = Null)
    BY <1>1 DEF Gone
<1>3. round[t] >= 0 => tsd_inited  BY OfThread DEF NotExiting
<1>4. NothingLeft(t)  BY DEF LeftInv
<1> QED  BY <1>2, <1>3, <1>4 DEF NothingLeft

-----------------------------------------------------------------------------
(* Induction, with a set in the place of a predicate.                        *)

\* A nonempty set of naturals has a least element.
LEMMA LeastNat ==
    ASSUME NEW T \in SUBSET Nat, T # {}
    PROVE  \E x \in T : \A y \in T : x <= y
<1> DEFINE R == {ss \in Nat \X Nat : ss[1] < ss[2]}
<1>1. IsWellFoundedOn(R, Nat)  BY NatLessThanWellFounded DEF OpToRel
<1>2. PICK x \in T : \A y \in T : ~ (<<y, x>> \in R)
    <2> HIDE DEF R
    <2> QED  BY <1>1, WFMin
<1>3. ASSUME NEW y \in T PROVE x <= y
    <2>1. ~ (y < x)  BY <1>2
    <2> QED  BY <2>1
<1> QED  BY <1>3

LEMMA InductNat ==
    ASSUME NEW Good, 0 \in Good, \A n \in Nat : n \in Good => n + 1 \in Good
    PROVE  Nat \subseteq Good
<1> DEFINE Bad == Nat \ Good
<1> SUFFICES ASSUME Bad # {} PROVE FALSE  OBVIOUS
<1>1. PICK m \in Bad : \A k \in Bad : m <= k
    <2>1. Bad \in SUBSET Nat  OBVIOUS
    <2> HIDE DEF Bad
    <2> QED  BY <2>1, LeastNat
<1>2. m \in Nat /\ m # 0  BY <1>1
<1>3. m - 1 \in Nat /\ ~ (m <= m - 1)  BY <1>2
<1>4. m - 1 \in Good  BY <1>1, <1>3
<1>5. (m - 1) + 1 \in Good  BY <1>3, <1>4
<1>6. (m - 1) + 1 = m  BY <1>2
<1> QED  BY <1>1, <1>5, <1>6

LEMMA InductSet ==
    ASSUME NEW S, IsFiniteSet(S), NEW Good, {} \in Good,
           \A A \in SUBSET S : \A x \in S \ A : A \in Good => A \cup {x} \in Good
    PROVE  S \in Good
<1> DEFINE Small == {n \in Nat : \A A \in SUBSET S : Cardinality(A) = n => A \in Good}
<1>0. \A A \in SUBSET S : IsFiniteSet(A) /\ Cardinality(A) \in Nat
    BY FS_Subset, FS_CardinalityType
<1>1. 0 \in Small  BY <1>0, FS_EmptySet
<1>2. ASSUME NEW n \in Nat, n \in Small PROVE n + 1 \in Small
    <2> SUFFICES ASSUME NEW A \in SUBSET S, Cardinality(A) = n + 1 PROVE A \in Good
        OBVIOUS
    <2>1. A # {}
        <3>1. Cardinality({}) = 0  BY FS_EmptySet
        <3>2. Cardinality(A) = n + 1 /\ n + 1 # 0  OBVIOUS
        <3> QED  BY <3>1, <3>2
    <2>2. PICK x \in A : TRUE  BY <2>1
    <2>3. Cardinality(A \ {x}) = n
        <3>1. IsFiniteSet(A)  BY <1>0
        <3>2. Cardinality(A \ {x}) = Cardinality(A) - 1  BY <2>2, <3>1, FS_RemoveElement
        <3> QED  BY <3>2
    <2>4. A \ {x} \in Good  BY <1>2, <2>3
    <2>5. (A \ {x}) \cup {x} = A  BY <2>2
    <2>6. x \in S \ (A \ {x}) /\ A \ {x} \in SUBSET S  BY <2>2
    <2> QED  BY <2>4, <2>5, <2>6
<1>3. Nat \subseteq Small
    <2> HIDE DEF Small
    <2> QED  BY <1>1, <1>2, InductNat
<1>4. Cardinality(S) \in Small  BY <1>0, <1>3
<1> QED  BY <1>4

-----------------------------------------------------------------------------
(* Sums.                                                                     *)

Pick(s) == CHOOSE x \in s : TRUE

\* g adds up the values of f on each of the sets.
Adds(g, f, sets) ==
    g = [s \in sets |-> IF s = {} THEN 0 ELSE f[Pick(s)] + g[s \ {Pick(s)}]]

LEMMA PickIn == ASSUME NEW s, s # {} PROVE Pick(s) \in s
BY DEF Pick

\* SumFunctionOnSet is such a function, for a finite set.
LEMMA AddsExists ==
    ASSUME NEW f, NEW S, IsFiniteSet(S)
    PROVE  \E g : Adds(g, f, SUBSET S)
<1> DEFINE UpTo(n) == {s \in SUBSET S : Cardinality(s) <= n}
           Good == {n \in Nat : \E g : Adds(g, f, UpTo(n))}
<1>0. \A s \in SUBSET S : IsFiniteSet(s) /\ Cardinality(s) \in Nat
    BY FS_Subset, FS_CardinalityType
<1>1. 0 \in Good
    <2> DEFINE g == [s \in UpTo(0) |-> 0]
    <2>1. \A s \in UpTo(0) : s = {}
        <3> SUFFICES ASSUME NEW s \in UpTo(0) PROVE s = {}  OBVIOUS
        <3>1. IsFiniteSet(s) /\ Cardinality(s) = 0  BY <1>0
        <3> QED  BY <3>1, FS_EmptySet
    <2>2. Adds(g, f, UpTo(0))  BY <2>1 DEF Adds
    <2> QED  BY <2>2
<1>2. ASSUME NEW n \in Nat, n \in Good PROVE n + 1 \in Good
    <2>1. PICK g : Adds(g, f, UpTo(n))  BY <1>2
    <2> DEFINE Step(m, s) == IF s = {} THEN 0 ELSE f[Pick(s)] + m[s \ {Pick(s)}]
               k == [s \in UpTo(n + 1) |-> IF s \in UpTo(n) THEN g[s] ELSE Step(g, s)]
    <2>2. ASSUME NEW s \in UpTo(n + 1), s # {}
          PROVE  s \ {Pick(s)} \in UpTo(n) /\ s \ {Pick(s)} \in UpTo(n + 1)
        <3>1. IsFiniteSet(s) /\ Cardinality(s) <= n + 1 /\ Cardinality(s) \in Nat  BY <1>0
        <3>2. Cardinality(s \ {Pick(s)}) = Cardinality(s) - 1
            BY <2>2, <3>1, PickIn, FS_RemoveElement
        <3>3. s \ {Pick(s)} \in SUBSET S  OBVIOUS
        <3>4. Cardinality(s \ {Pick(s)}) <= n /\ Cardinality(s \ {Pick(s)}) <= n + 1
            BY <3>1, <3>2
        <3> QED  BY <3>3, <3>4
    <2>3. ASSUME NEW s \in UpTo(n + 1) PROVE k[s] = Step(k, s)
        <3>1. CASE s = {}
            <4>1. s \in UpTo(n)  BY <3>1, FS_EmptySet
            <4> QED  BY <2>1, <3>1, <4>1 DEF Adds
        <3>2. CASE s # {}
            <4>1. k[s \ {Pick(s)}] = g[s \ {Pick(s)}]  BY <2>2, <3>2
            <4>2. k[s] = Step(g, s)  BY <2>1 DEF Adds
            <4> HIDE DEF k, UpTo
            <4> QED  BY <3>2, <4>1, <4>2
        <3> QED  BY <3>1, <3>2
    <2>4. k = [s \in UpTo(n + 1) |-> Step(k, s)]
        <3>1. k = [s \in UpTo(n + 1) |-> k[s]]  OBVIOUS
        <3> HIDE DEF k, UpTo, Step
        <3> QED  BY <2>3, <3>1
    <2>5. Adds(k, f, UpTo(n + 1))
        <3> HIDE DEF k, UpTo
        <3> QED  BY <2>4 DEF Adds
    <2> HIDE DEF k, UpTo
    <2> QED  BY <2>5
<1>3. Cardinality(S) \in Good
    <2> HIDE DEF Good
    <2> QED  BY <1>0, <1>1, <1>2, InductNat
<1>4. UpTo(Cardinality(S)) = SUBSET S  BY <1>0, FS_Subset
<1> QED  BY <1>3, <1>4

LEMMA SumAdds ==
    ASSUME NEW f, NEW S, IsFiniteSet(S)
    PROVE  \E g : Adds(g, f, SUBSET S) /\ SumFunctionOnSet(f, S) = g[S]
<1>1. SumFunctionOnSet(f, S) = (CHOOSE g : Adds(g, f, SUBSET S))[S]
    BY DEF SumFunctionOnSet, FoldFunctionOnSet, MapThenFoldSet, Pick, Adds
<1> QED  BY <1>1, AddsExists

\* It depends on the values of f on the set alone.
LEMMA AddsSame ==
    ASSUME NEW S, IsFiniteSet(S), NEW f, NEW g, NEW e, NEW h, NEW B, S \subseteq B,
           \A x \in S : e[x] = f[x], Adds(g, f, SUBSET S), Adds(h, e, SUBSET B)
    PROVE  g[S] = h[S]
<1> DEFINE Small == {n \in Nat : \A s \in SUBSET S : Cardinality(s) <= n => g[s] = h[s]}
<1>0. /\ \A s \in SUBSET S : IsFiniteSet(s) /\ Cardinality(s) \in Nat
      /\ g[{}] = 0 /\ h[{}] = 0
    BY FS_Subset, FS_CardinalityType DEF Adds
<1>1. 0 \in Small
    <2> SUFFICES ASSUME NEW s \in SUBSET S, Cardinality(s) <= 0 PROVE g[s] = h[s]
        OBVIOUS
    <2>1. IsFiniteSet(s) /\ Cardinality(s) = 0  BY <1>0
    <2>2. s = {}  BY <2>1, FS_EmptySet
    <2> QED  BY <1>0, <2>2
<1>2. ASSUME NEW n \in Nat, n \in Small PROVE n + 1 \in Small
    <2> SUFFICES ASSUME NEW s \in SUBSET S, Cardinality(s) <= n + 1, s # {} PROVE g[s] = h[s]
        BY <1>0
    <2> DEFINE p == Pick(s)
    <2>1. p \in s  BY PickIn
    <2>2. Cardinality(s \ {p}) <= n
        <3>1. IsFiniteSet(s) /\ Cardinality(s) \in Nat  BY <1>0
        <3>2. Cardinality(s \ {p}) = Cardinality(s) - 1  BY <2>1, <3>1, FS_RemoveElement
        <3> QED  BY <3>1, <3>2
    <2>3. g[s \ {p}] = h[s \ {p}]  BY <1>2, <2>2
    <2>4. g[s] = f[p] + g[s \ {p}] /\ h[s] = e[p] + h[s \ {p}]
        BY DEF Adds
    <2>5. e[p] = f[p]  BY <2>1
    <2> QED  BY <2>3, <2>4, <2>5
<1>3. Nat \subseteq Small
    <2> HIDE DEF Small
    <2> QED  BY <1>1, <1>2, InductNat
<1> QED  BY <1>0, <1>3

LEMMA SumSame ==
    ASSUME NEW S, IsFiniteSet(S), NEW f, NEW e, \A x \in S : e[x] = f[x]
    PROVE  SumFunctionOnSet(f, S) = SumFunctionOnSet(e, S)
<1>1. PICK g : Adds(g, f, SUBSET S) /\ SumFunctionOnSet(f, S) = g[S]  BY SumAdds
<1>2. PICK h : Adds(h, e, SUBSET S) /\ SumFunctionOnSet(e, S) = h[S]  BY SumAdds
<1>3. S \subseteq S  OBVIOUS
<1> QED  BY <1>1, <1>2, <1>3, AddsSame

LEMMA SumEmpty == \A f : SumFunctionOnSet(f, {}) = 0
<1> TAKE f
<1>1. PICK g : Adds(g, f, SUBSET {}) /\ SumFunctionOnSet(f, {}) = g[{}]  BY SumAdds, FS_EmptySet
<1> QED  BY <1>1 DEF Adds

\* As the definition has it, with the element it picks.
LEMMA SumPick ==
    ASSUME NEW S, IsFiniteSet(S), S # {}, NEW f
    PROVE  SumFunctionOnSet(f, S) = f[Pick(S)] + SumFunctionOnSet(f, S \ {Pick(S)})
<1> DEFINE R == S \ {Pick(S)}
<1>1. PICK g : Adds(g, f, SUBSET S) /\ SumFunctionOnSet(f, S) = g[S]  BY SumAdds
<1>2. IsFiniteSet(R) /\ R \subseteq S /\ \A x \in R : f[x] = f[x]  BY FS_RemoveElement
<1>3. PICK h : Adds(h, f, SUBSET R) /\ SumFunctionOnSet(f, R) = h[R]  BY <1>2, SumAdds
<1>4. g[S] = f[Pick(S)] + g[R]  BY <1>1 DEF Adds
<1>5. h[R] = g[R]
    <2> HIDE DEF R
    <2> QED  BY <1>1, <1>2, <1>3, AddsSame
<1> QED  BY <1>1, <1>3, <1>4, <1>5

Numbers(f, S) == \A x \in S : f[x] \in Int

LEMMA SumType ==
    ASSUME NEW S, IsFiniteSet(S), NEW f, Numbers(f, S)
    PROVE  SumFunctionOnSet(f, S) \in Int
<1> DEFINE Small == {n \in Nat : \A A \in SUBSET S : Cardinality(A) = n => SumFunctionOnSet(f, A) \in Int}
<1>0. \A A \in SUBSET S : IsFiniteSet(A) /\ Cardinality(A) \in Nat
    BY FS_Subset, FS_CardinalityType
<1>1. 0 \in Small
    <2>1. \A A \in SUBSET S : Cardinality(A) = 0 => A = {}  BY <1>0, FS_EmptySet
    <2> QED  BY <2>1, SumEmpty
<1>2. ASSUME NEW n \in Nat, n \in Small PROVE n + 1 \in Small
    <2> SUFFICES ASSUME NEW A \in SUBSET S, Cardinality(A) = n + 1
                 PROVE  SumFunctionOnSet(f, A) \in Int
        OBVIOUS
    <2> DEFINE p == Pick(A)
    <2>1. IsFiniteSet(A) /\ A # {}
        <3>1. Cardinality({}) = 0 /\ n + 1 # 0  BY FS_EmptySet
        <3> QED  BY <1>0, <3>1
    <2>2. p \in A  BY <2>1, PickIn
    <2>3. Cardinality(A \ {p}) = n
        <3>1. Cardinality(A \ {p}) = Cardinality(A) - 1  BY <2>1, <2>2, FS_RemoveElement
        <3> QED  BY <3>1
    <2>4. SumFunctionOnSet(f, A \ {p}) \in Int  BY <1>2, <2>3
    <2>5. f[p] \in Int  BY <2>2 DEF Numbers
    <2> HIDE DEF p
    <2>6. SumFunctionOnSet(f, A) = f[p] + SumFunctionOnSet(f, A \ {p})  BY <2>1, SumPick DEF p
    <2> QED  BY <2>4, <2>5, <2>6
<1>3. Cardinality(S) \in Small
    <2> HIDE DEF Small
    <2> QED  BY <1>0, <1>1, <1>2, InductNat
<1> QED  BY <1>3

\* Any element may be taken out, not only the one that was picked.
LEMMA SumSplit ==
    ASSUME NEW S, IsFiniteSet(S), NEW f, Numbers(f, S), NEW x \in S
    PROVE  SumFunctionOnSet(f, S) = f[x] + SumFunctionOnSet(f, S \ {x})
<1> DEFINE Splits(A) == \A y \in A : SumFunctionOnSet(f, A) = f[y] + SumFunctionOnSet(f, A \ {y})
           Small == {n \in Nat : \A A \in SUBSET S : Cardinality(A) = n => Splits(A)}
<1>0. \A A \in SUBSET S : IsFiniteSet(A) /\ Cardinality(A) \in Nat /\ Numbers(f, A)
    BY FS_Subset, FS_CardinalityType DEF Numbers
<1>1. 0 \in Small
    <2>1. \A A \in SUBSET S : Cardinality(A) = 0 => A = {}  BY <1>0, FS_EmptySet
    <2> QED  BY <2>1
<1>2. ASSUME NEW n \in Nat, n \in Small PROVE n + 1 \in Small
    <2> SUFFICES ASSUME NEW A \in SUBSET S, Cardinality(A) = n + 1, NEW y \in A
                 PROVE  SumFunctionOnSet(f, A) = f[y] + SumFunctionOnSet(f, A \ {y})
        OBVIOUS
    <2> DEFINE p == Pick(A)
    <2>1. p \in A /\ IsFiniteSet(A)  BY <1>0, PickIn
    <2>2. SumFunctionOnSet(f, A) = f[p] + SumFunctionOnSet(f, A \ {p})  BY <2>1, SumPick
    <2> HIDE DEF p
    <2>3. CASE y = p  BY <2>2, <2>3
    <2>4. CASE y # p
        <3>1. Cardinality(A \ {p}) = n /\ Cardinality(A \ {y}) = n
            <4>1. /\ Cardinality(A \ {p}) = Cardinality(A) - 1
                  /\ Cardinality(A \ {y}) = Cardinality(A) - 1
                BY <2>1, FS_RemoveElement
            <4> QED  BY <4>1
        <3>2. Splits(A \ {p}) /\ Splits(A \ {y})  BY <1>2, <3>1
        <3>3. (A \ {p}) \ {y} = (A \ {y}) \ {p}  OBVIOUS
        <3>4. /\ SumFunctionOnSet(f, A \ {p}) = f[y] + SumFunctionOnSet(f, (A \ {p}) \ {y})
              /\ SumFunctionOnSet(f, A \ {y}) = f[p] + SumFunctionOnSet(f, (A \ {p}) \ {y})
            BY <2>1, <2>4, <3>2, <3>3
        <3>5. /\ f[p] \in Int /\ f[y] \in Int
              /\ SumFunctionOnSet(f, (A \ {p}) \ {y}) \in Int
            BY <1>0, <2>1, SumType DEF Numbers
        <3> QED  BY <2>2, <3>4, <3>5
    <2> QED  BY <2>3, <2>4
<1>3. Cardinality(S) \in Small
    <2> HIDE DEF Small
    <2> QED  BY <1>0, <1>1, <1>2, InductNat
<1> QED  BY <1>3

\* Sums of two functions, term by term.
LEMMA SumPlus ==
    ASSUME NEW S, IsFiniteSet(S), NEW f, NEW g, NEW e, Numbers(f, S), Numbers(g, S),
           \A x \in S : e[x] = f[x] + g[x]
    PROVE  SumFunctionOnSet(e, S) = SumFunctionOnSet(f, S) + SumFunctionOnSet(g, S)
<1> DEFINE Good == {A \in SUBSET S :
                      SumFunctionOnSet(e, A) = SumFunctionOnSet(f, A) + SumFunctionOnSet(g, A)}
<1>0. Numbers(e, S)  BY DEF Numbers
<1>1. {} \in Good  BY SumEmpty
<1>2. ASSUME NEW A \in SUBSET S, NEW x \in S \ A, A \in Good PROVE A \cup {x} \in Good
    <2> DEFINE B == A \cup {x}
    <2>1. /\ IsFiniteSet(B) /\ IsFiniteSet(A) /\ B \ {x} = A /\ x \in B
          /\ Numbers(e, B) /\ Numbers(f, B) /\ Numbers(g, B) /\ Numbers(f, A) /\ Numbers(g, A)
        BY <1>0, FS_Subset DEF Numbers
    <2> HIDE DEF B
    <2>2. /\ SumFunctionOnSet(e, B) = e[x] + SumFunctionOnSet(e, A)
          /\ SumFunctionOnSet(f, B) = f[x] + SumFunctionOnSet(f, A)
          /\ SumFunctionOnSet(g, B) = g[x] + SumFunctionOnSet(g, A)
        <3>1. /\ SumFunctionOnSet(e, B) = e[x] + SumFunctionOnSet(e, B \ {x})
              /\ SumFunctionOnSet(f, B) = f[x] + SumFunctionOnSet(f, B \ {x})
              /\ SumFunctionOnSet(g, B) = g[x] + SumFunctionOnSet(g, B \ {x})
            BY <2>1, SumSplit
        <3> QED  BY <2>1, <3>1
    <2>3. /\ SumFunctionOnSet(f, A) \in Int /\ SumFunctionOnSet(g, A) \in Int
          /\ f[x] \in Int /\ g[x] \in Int
        BY <2>1, SumType DEF Numbers
    <2>4. SumFunctionOnSet(e, A) = SumFunctionOnSet(f, A) + SumFunctionOnSet(g, A)  BY <1>2
    <2>5. SumFunctionOnSet(e, B) = SumFunctionOnSet(f, B) + SumFunctionOnSet(g, B)
        BY <2>2, <2>3, <2>4
    <2> QED  BY <2>5 DEF B
<1>3. S \in Good
    <2> HIDE DEF Good
    <2> QED  BY <1>1, <1>2, InductSet
<1> QED  BY <1>3

\* One term changes.
LEMMA SumChange ==
    ASSUME NEW S, IsFiniteSet(S), NEW f, NEW e, Numbers(f, S), Numbers(e, S), NEW x \in S,
           \A y \in S \ {x} : e[y] = f[y]
    PROVE  SumFunctionOnSet(e, S) = SumFunctionOnSet(f, S) + (e[x] - f[x])
<1> DEFINE R == S \ {x}
<1>1. /\ SumFunctionOnSet(e, S) = e[x] + SumFunctionOnSet(e, R)
      /\ SumFunctionOnSet(f, S) = f[x] + SumFunctionOnSet(f, R)
    BY SumSplit
<1>2. IsFiniteSet(R) /\ Numbers(f, R) /\ \A y \in R : e[y] = f[y]
    BY FS_RemoveElement DEF Numbers
<1> HIDE DEF R
<1>3. SumFunctionOnSet(e, R) = SumFunctionOnSet(f, R)  BY <1>2, SumSame
<1>4. SumFunctionOnSet(f, R) \in Int /\ f[x] \in Int /\ e[x] \in Int
    BY <1>2, SumType DEF Numbers
<1> QED  BY <1>1, <1>3, <1>4

\* Terms that are zero may be left out.
LEMMA SumZeros ==
    ASSUME NEW S, IsFiniteSet(S), NEW f, Numbers(f, S), NEW R \in SUBSET S,
           \A x \in S \ R : f[x] = 0
    PROVE  SumFunctionOnSet(f, S) = SumFunctionOnSet(f, R)
<1> DEFINE Good == {A \in SUBSET (S \ R) : SumFunctionOnSet(f, R \cup A) = SumFunctionOnSet(f, R)}
<1>1. {} \in Good
    <2>1. R \cup {} = R  OBVIOUS
    <2> QED  BY <2>1
<1>2. ASSUME NEW A \in SUBSET (S \ R), NEW x \in (S \ R) \ A, A \in Good PROVE A \cup {x} \in Good
    <2> DEFINE B == R \cup (A \cup {x})
    <2>1. IsFiniteSet(B) /\ B \ {x} = R \cup A /\ x \in B /\ Numbers(f, B) /\ f[x] = 0
        BY FS_Subset DEF Numbers
    <2>2. IsFiniteSet(R \cup A) /\ Numbers(f, R \cup A)  BY FS_Subset DEF Numbers
    <2> HIDE DEF B
    <2>3. SumFunctionOnSet(f, B) = f[x] + SumFunctionOnSet(f, B \ {x})  BY <2>1, SumSplit
    <2>4. SumFunctionOnSet(f, R \cup A) \in Int  BY <2>2, SumType
    <2>5. SumFunctionOnSet(f, B) = 0 + SumFunctionOnSet(f, R \cup A)  BY <2>1, <2>3
    <2>6. SumFunctionOnSet(f, B) = SumFunctionOnSet(f, R \cup A)  BY <2>4, <2>5
    <2> QED  BY <1>2, <2>6 DEF B
<1>3. S \ R \in Good
    <2>1. IsFiniteSet(S \ R)  BY FS_Difference
    <2> HIDE DEF Good
    <2> QED  BY <1>1, <1>2, <2>1, InductSet
<1>4. R \cup (S \ R) = S  OBVIOUS
<1> QED  BY <1>3, <1>4

\* Of a sequence, from its front.
LEMMA SumNext ==
    ASSUME NEW n \in Nat, NEW f, Numbers(f, 1 .. n + 1)
    PROVE  SumFunctionOnSet(f, 1 .. n + 1) = SumFunctionOnSet(f, 1 .. n) + f[n + 1]
<1> DEFINE S == 1 .. n + 1
           R == 1 .. n
<1>1. n + 1 \in S /\ S \ {n + 1} = R  OBVIOUS
<1>2. IsFiniteSet(S) /\ IsFiniteSet(R)
    <2>1. n + 1 \in Int /\ n \in Int /\ 1 \in Int  OBVIOUS
    <2> QED  BY <2>1, FS_Interval
<1>3. Numbers(f, S) /\ Numbers(f, R) /\ f[n + 1] \in Int  BY DEF Numbers
<1> HIDE DEF S, R
<1>4. SumFunctionOnSet(f, S) = f[n + 1] + SumFunctionOnSet(f, R)  BY <1>1, <1>2, <1>3, SumSplit
<1>5. SumFunctionOnSet(f, R) \in Int  BY <1>2, <1>3, SumType
<1>6. SumFunctionOnSet(f, S) = SumFunctionOnSet(f, R) + f[n + 1]  BY <1>3, <1>4, <1>5
<1> QED  BY <1>6 DEF S, R

LEMMA SumConstant ==
    ASSUME NEW n \in Nat, NEW b \in Int, NEW f, \A i \in 1 .. n : f[i] = b
    PROVE  SumFunctionOnSet(f, 1 .. n) = n * b
<1> DEFINE Good == {m \in Nat : m <= n => SumFunctionOnSet(f, 1 .. m) = m * b}
<1>1. 0 \in Good
    <2>1. 1 .. 0 = {}  OBVIOUS
    <2> QED  BY <2>1, SumEmpty
<1>2. ASSUME NEW m \in Nat, m \in Good PROVE m + 1 \in Good
    <2> SUFFICES ASSUME m + 1 <= n PROVE SumFunctionOnSet(f, 1 .. m + 1) = (m + 1) * b
        OBVIOUS
    <2>1. Numbers(f, 1 .. m + 1) /\ f[m + 1] = b  BY DEF Numbers
    <2>2. SumFunctionOnSet(f, 1 .. m + 1) = SumFunctionOnSet(f, 1 .. m) + f[m + 1]
        BY <2>1, SumNext
    <2>3. SumFunctionOnSet(f, 1 .. m) = m * b  BY <1>2
    <2>4. m * b + b = (m + 1) * b  OBVIOUS
    <2> QED  BY <2>1, <2>2, <2>3, <2>4
<1>3. n \in Good
    <2> HIDE DEF Good
    <2> QED  BY <1>1, <1>2, InductNat
<1> QED  BY <1>3

LEMMA SumConcat ==
    ASSUME NEW s \in Seq(Int), NEW t \in Seq(Int)
    PROVE  SumFunction(s \o t) = SumFunction(s) + SumFunction(t)
<1> DEFINE e == s \o t
           l == Len(s)
           k == Len(t)
           Good == {n \in Nat : n <= k =>
                      SumFunctionOnSet(e, 1 .. l + n) =
                      SumFunctionOnSet(s, 1 .. l) + SumFunctionOnSet(t, 1 .. n)}
<1>0. /\ l \in Nat /\ k \in Nat /\ DOMAIN s = 1 .. l /\ DOMAIN t = 1 .. k /\ DOMAIN e = 1 .. l + k
      /\ \A i \in 1 .. l : e[i] = s[i] /\ s[i] \in Int
      /\ \A i \in 1 .. k : e[l + i] = t[i] /\ t[i] \in Int
      /\ \A i \in 1 .. l + k : e[i] \in Int
    OBVIOUS
<1> HIDE DEF e, l, k
<1>1. 0 \in Good
    <2>1. IsFiniteSet(1 .. l) /\ \A i \in 1 .. l : s[i] = e[i]  BY <1>0, FS_Interval
    <2>2. SumFunctionOnSet(e, 1 .. l) = SumFunctionOnSet(s, 1 .. l)  BY <2>1, SumSame
    <2>3. SumFunctionOnSet(s, 1 .. l) \in Int  BY <1>0, <2>1, SumType DEF Numbers
    <2>4. SumFunctionOnSet(t, {}) = 0  BY SumEmpty
    <2>5. 1 .. 0 = {} /\ l + 0 = l  BY <1>0
    <2> QED  BY <2>2, <2>3, <2>4, <2>5
<1>2. ASSUME NEW n \in Nat, n \in Good PROVE n + 1 \in Good
    <2> SUFFICES ASSUME n + 1 <= k
                 PROVE  SumFunctionOnSet(e, 1 .. l + (n + 1)) =
                        SumFunctionOnSet(s, 1 .. l) + SumFunctionOnSet(t, 1 .. n + 1)
        OBVIOUS
    <2>1. /\ Numbers(e, 1 .. (l + n) + 1) /\ Numbers(t, 1 .. n + 1) /\ Numbers(s, 1 .. l)
          /\ e[(l + n) + 1] = t[n + 1] /\ t[n + 1] \in Int
          /\ l + n \in Nat /\ l + (n + 1) = (l + n) + 1 /\ Numbers(t, 1 .. n)
        BY <1>0 DEF Numbers
    <2>2. SumFunctionOnSet(e, 1 .. (l + n) + 1) = SumFunctionOnSet(e, 1 .. l + n) + e[(l + n) + 1]
        BY <2>1, SumNext
    <2>3. SumFunctionOnSet(t, 1 .. n + 1) = SumFunctionOnSet(t, 1 .. n) + t[n + 1]
        BY <2>1, SumNext
    <2>4. SumFunctionOnSet(e, 1 .. l + n) = SumFunctionOnSet(s, 1 .. l) + SumFunctionOnSet(t, 1 .. n)
        BY <1>2, <1>0
    <2>5. SumFunctionOnSet(s, 1 .. l) \in Int /\ SumFunctionOnSet(t, 1 .. n) \in Int
        <3>1. IsFiniteSet(1 .. l) /\ IsFiniteSet(1 .. n)  BY <1>0, FS_Interval
        <3> QED  BY <2>1, <3>1, SumType
    <2> QED  BY <2>1, <2>2, <2>3, <2>4, <2>5
<1>3. k \in Good
    <2> HIDE DEF Good
    <2> QED  BY <1>0, <1>1, <1>2, InductNat
<1>4. SumFunctionOnSet(e, 1 .. l + k) = SumFunctionOnSet(s, 1 .. l) + SumFunctionOnSet(t, 1 .. k)
    BY <1>0, <1>3
<1> QED  BY <1>0, <1>4 DEF SumFunction, e

-----------------------------------------------------------------------------
(* The lists of one cache.                                                   *)

\* Its size is what its lists hold, and no low-water mark is above a length.
Counted(h) ==
    /\ {"size", "length", "lowater"} \subseteq DOMAIN h
    /\ h.length \in [Classes -> Nat] /\ h.lowater \in [Classes -> Nat]
    /\ h.size = Bytes(h)
    /\ \A c \in Classes : h.lowater[c] <= h.length[c]

LEMMA TimesNat == ASSUME NEW a \in Nat, NEW b \in Nat PROVE a * b \in Nat
OBVIOUS

\* Bytes of lengths.
LEMMA BytesOf ==
    ASSUME NEW h, h.length \in [Classes -> Nat]
    PROVE  /\ IsFiniteSet(Classes)
           /\ Bytes(h) = SumFunctionOnSet([c \in Classes |-> Size[c] * h.length[c]], Classes)
           /\ Numbers([c \in Classes |-> Size[c] * h.length[c]], Classes)
<1>1. \A c \in Classes : Size[c] * h.length[c] \in Int
    <2> TAKE c \in Classes
    <2>1. Size[c] \in Nat /\ h.length[c] \in Nat  BY TablesAssumption
    <2> QED  BY <2>1, TimesNat
<1> QED  BY <1>1, TablesAssumption DEF Bytes, SumFunction, Numbers

\* When the length of one list changes by n, the bytes do by n objects' size.
LEMMA BytesChange ==
    ASSUME NEW h, NEW k, NEW c \in Classes, NEW n \in Int,
           h.length \in [Classes -> Nat], k.length \in [Classes -> Nat],
           k.length[c] = h.length[c] + n,
           \A d \in Classes \ {c} : k.length[d] = h.length[d]
    PROVE  Bytes(k) = Bytes(h) + Size[c] * n
<1> DEFINE f == [d \in Classes |-> Size[d] * h.length[d]]
           e == [d \in Classes |-> Size[d] * k.length[d]]
<1>1. /\ Bytes(h) = SumFunctionOnSet(f, Classes) /\ Numbers(f, Classes)
      /\ Bytes(k) = SumFunctionOnSet(e, Classes) /\ Numbers(e, Classes)
      /\ IsFiniteSet(Classes)
    BY BytesOf
<1>2. \A d \in Classes \ {c} : e[d] = f[d]  OBVIOUS
<1>3. e[c] - f[c] = Size[c] * n
    <2>1. Size[c] \in Int /\ h.length[c] \in Int  BY TablesAssumption
    <2>2. Size[c] * (h.length[c] + n) - Size[c] * h.length[c] = Size[c] * n  BY <2>1
    <2> QED  BY <2>2
<1> HIDE DEF e, f
<1>4. SumFunctionOnSet(e, Classes) = SumFunctionOnSet(f, Classes) + (e[c] - f[c])
    BY <1>1, <1>2, SumChange
<1> QED  BY <1>1, <1>3, <1>4

\* Push, Pop and Fetch.
Moved(h, k, c, n) ==
    /\ k.length = [h.length EXCEPT ![c] = h.length[c] + n]
    /\ k.size = h.size + Size[c] * n

LEMMA OneList ==
    ASSUME NEW h, Counted(h), NEW k, NEW c \in Classes, NEW n \in Int,
           Moved(h, k, c, n), DOMAIN k = DOMAIN h, h.length[c] + n >= 0, k.lowater \in [Classes -> Nat],
           \A d \in Classes : k.lowater[d] <= k.length[d]
    PROVE  Counted(k)
<1>1. k.length \in [Classes -> Nat]
    <2>1. h.length \in [Classes -> Nat] /\ h.length[c] + n \in Nat  BY DEF Counted
    <2> QED  BY <2>1 DEF Moved
<1>2. /\ h.length \in [Classes -> Nat] /\ k.length[c] = h.length[c] + n
      /\ \A d \in Classes \ {c} : k.length[d] = h.length[d]
    BY DEF Counted, Moved
<1>3. Bytes(k) = Bytes(h) + Size[c] * n  BY <1>1, <1>2, BytesChange
<1> QED  BY <1>1, <1>3 DEF Counted, Moved

\* How the lengths change.
LengthMoved(h, k, c, n) ==
    /\ k.length[c] = h.length[c] + n
    /\ \A d \in Classes \ {c} : k.length[d] = h.length[d]

LEMMA PushRight ==
    ASSUME NEW h, Counted(h), NEW c \in Classes
    PROVE  Counted(Push(h, c)) /\ LengthMoved(h, Push(h, c), c, 1)
<1> DEFINE k == Push(h, c)
<1>1. /\ Moved(h, k, c, 1) /\ DOMAIN k = DOMAIN h /\ k.lowater = h.lowater
      /\ h.length \in [Classes -> Nat] /\ h.lowater \in [Classes -> Nat]
      /\ \A d \in Classes : h.lowater[d] <= h.length[d]
    <2>1. Size[c] * 1 = Size[c]  BY TablesAssumption
    <2> QED  BY <2>1 DEF Push, Moved, Counted
<1> HIDE DEF k
<1>2. LengthMoved(h, k, c, 1)  BY <1>1 DEF Moved, LengthMoved
<1>3. \A d \in Classes : k.lowater[d] <= k.length[d]  BY <1>1, <1>2 DEF LengthMoved
<1>4. h.length[c] + 1 >= 0  BY <1>1
<1>5. Counted(k)  BY <1>1, <1>3, <1>4, OneList
<1> QED  BY <1>2, <1>5 DEF k

LEMMA FetchRight ==
    ASSUME NEW h, Counted(h), NEW c \in Classes, NEW n \in Nat
    PROVE  Counted(Fetch(h, c, n)) /\ LengthMoved(h, Fetch(h, c, n), c, n)
<1> DEFINE k == Fetch(h, c, n)
<1>1. /\ Moved(h, k, c, n) /\ DOMAIN k = DOMAIN h /\ k.lowater = h.lowater
      /\ h.length \in [Classes -> Nat] /\ h.lowater \in [Classes -> Nat]
      /\ \A d \in Classes : h.lowater[d] <= h.length[d]
    BY DEF Fetch, Moved, Counted
<1> HIDE DEF k
<1>2. LengthMoved(h, k, c, n)  BY <1>1 DEF Moved, LengthMoved
<1>3. \A d \in Classes : k.lowater[d] <= k.length[d]  BY <1>1, <1>2 DEF LengthMoved
<1>4. h.length[c] + n >= 0  BY <1>1
<1>5. Counted(k)  BY <1>1, <1>3, <1>4, OneList
<1> QED  BY <1>2, <1>5 DEF k

LEMMA PopRight ==
    ASSUME NEW h, Counted(h), NEW c \in Classes, h.length[c] > 0
    PROVE  Counted(Pop(h, c)) /\ LengthMoved(h, Pop(h, c), c, -1)
<1> DEFINE k == Pop(h, c)
           m == Min({h.lowater[c], h.length[c] - 1})
<1>0. /\ h.length \in [Classes -> Nat] /\ h.lowater \in [Classes -> Nat]
      /\ \A d \in Classes : h.lowater[d] <= h.length[d]
      /\ {"size", "length", "lowater"} \subseteq DOMAIN h
    BY DEF Counted
<1>1. m \in Nat /\ m <= h.length[c] - 1
    <2> DEFINE a == h.lowater[c]
               b == h.length[c] - 1
    <2>1. a \in Nat /\ b \in Nat  BY <1>0
    <2> HIDE DEF a, b
    <2>2. Min({a, b}) = IF a <= b THEN a ELSE b  BY <2>1, MaxMin
    <2>3. m = Min({a, b})  BY DEF a, b
    <2> HIDE DEF m
    <2>4. m \in Nat /\ m <= b  BY <2>1, <2>2, <2>3
    <2> QED  BY <2>4 DEF b
<1> HIDE DEF m
<1>2. /\ Moved(h, k, c, -1) /\ DOMAIN k = DOMAIN h
      /\ k.lowater = [h.lowater EXCEPT ![c] = m]
    <2>1. Size[c] * (-1) = - Size[c] /\ Size[c] \in Int  BY TablesAssumption
    <2>2. k.size = h.size - Size[c] /\ DOMAIN k = DOMAIN h
          /\ k.length = [h.length EXCEPT ![c] = h.length[c] - 1]
          /\ k.lowater = [h.lowater EXCEPT ![c] = m]
        BY <1>0 DEF Pop, m
    <2>3. h.size \in Int
        <3>1. h.size = Bytes(h)  BY DEF Counted
        <3> QED  BY <1>0, <3>1, BytesOf, SumType
    <2>4. h.size - Size[c] = h.size + Size[c] * (-1)  BY <2>1, <2>3
    <2>5. h.length[c] - 1 = h.length[c] + (-1)  BY <1>0
    <2> QED  BY <2>2, <2>4, <2>5 DEF Moved
<1> HIDE DEF k
<1>3. LengthMoved(h, k, c, -1)  BY <1>0, <1>2 DEF Moved, LengthMoved
<1>4. \A d \in Classes : k.lowater[d] <= k.length[d]
    <2>1. k.lowater[c] = m /\ k.length[c] = h.length[c] + -1 /\ h.length[c] \in Int
        BY <1>0, <1>2, <1>3 DEF LengthMoved
    <2>2. \A d \in Classes \ {c} : k.lowater[d] = h.lowater[d] /\ k.length[d] = h.length[d]
        BY <1>0, <1>2, <1>3 DEF LengthMoved
    <2>3. k.lowater[c] <= k.length[c]  BY <1>1, <2>1
    <2> QED  BY <1>0, <2>2, <2>3
<1>5. k.lowater \in [Classes -> Nat]  BY <1>0, <1>1, <1>2
<1>6. h.length[c] + -1 >= 0  BY <1>0
<1>7. Counted(k)  BY <1>2, <1>4, <1>5, <1>6, OneList
<1> QED  BY <1>3, <1>7 DEF k

-----------------------------------------------------------------------------
(* ReleaseToCentralCache.                                                    *)

\* n objects are given back in calls of a batch and one of the rest.
LEMMA PiecesRight ==
    ASSUME NEW c \in Classes, NEW n \in Nat \ {0}
    PROVE  /\ Pieces(c, n) \in Seq(Int)
           /\ SumFunction(Pieces(c, n)) = n
           /\ ToSet(Pieces(c, n)) \subseteq 1 .. Batch[c]
<1> DEFINE b == Batch[c]
           full == (n - 1) \div b
           p == Pieces(c, n)
           rest == n - full * b
<1>1. b \in Nat \ {0}  BY TablesAssumption
<1>2. p = [i \in 1 .. full + 1 |-> IF i <= full THEN b ELSE rest]  BY DEF Pieces
<1> HIDE DEF b, p
<1>3. full \in Nat /\ full * b <= n - 1 /\ n - 1 < full * b + b /\ full * b \in Int
    <2>1. n - 1 \in Nat  OBVIOUS
    <2> DEFINE a == n - 1
    <2>2. a = b * (a \div b) + (a % b) /\ a % b \in 0 .. b - 1 /\ a \div b \in Nat
        BY <1>1, <2>1
    <2>3. b * (a \div b) = (a \div b) * b  BY <1>1, <2>2
    <2>4. (a \div b) * b \in Int  BY <1>1, <2>2
    <2> QED  BY <1>1, <2>1, <2>2, <2>3, <2>4
<1> HIDE DEF full
<1>4. rest \in 1 .. b  BY <1>1, <1>3
<1> HIDE DEF rest
<1>5. p \in Seq(Int) /\ DOMAIN p = 1 .. full + 1  BY <1>1, <1>2, <1>3, <1>4
<1>6. ToSet(p) \subseteq 1 .. b  BY <1>1, <1>2, <1>3, <1>4 DEF ToSet
<1>7. SumFunctionOnSet(p, 1 .. full + 1) = SumFunctionOnSet(p, 1 .. full) + rest
    <2>1. Numbers(p, 1 .. full + 1)  BY <1>1, <1>2, <1>4 DEF Numbers
    <2>2. p[full + 1] = rest  BY <1>2, <1>3
    <2> QED  BY <1>3, <2>1, <2>2, SumNext
<1>8. SumFunctionOnSet(p, 1 .. full) = full * b
    <2>1. \A i \in 1 .. full : p[i] = b  BY <1>2, <1>3
    <2> QED  BY <1>1, <1>3, <2>1, SumConstant
<1>9. SumFunction(p) = n
    <2>1. full * b + rest = n  BY <1>3 DEF rest
    <2> QED  BY <1>5, <1>7, <1>8, <2>1 DEF SumFunction
<1> QED  BY <1>5, <1>6, <1>9 DEF p, b

\* What can be asked for: something of lists that have something.
Asks(h, N) ==
    /\ DOMAIN N \subseteq Classes
    /\ \A c \in DOMAIN N : N[c] \in Nat \ {0} /\ h.length[c] > 0

\* What the central lists get.
Given(h, N, c) == SumFunction(Calls(h, N)[c])

LEMMA ClipRight ==
    ASSUME NEW h, Counted(h), NEW N, Asks(h, N)
    PROVE  /\ DOMAIN Clip(h, N) = DOMAIN N
           /\ \A c \in DOMAIN N : /\ Clip(h, N)[c] \in 1 .. h.length[c]
                                  /\ Clip(h, N)[c] = h.length[c] \/ Clip(h, N)[c] = N[c]
<1> SUFFICES ASSUME NEW c \in DOMAIN N
             PROVE  /\ Clip(h, N)[c] \in 1 .. h.length[c]
                    /\ Clip(h, N)[c] = h.length[c] \/ Clip(h, N)[c] = N[c]
    BY DEF Clip
<1> DEFINE a == N[c]
           b == h.length[c]
<1>1. a \in Nat \ {0} /\ b \in Nat \ {0}  BY DEF Asks, Counted
<1>2. Clip(h, N)[c] = Min({a, b})  BY DEF Clip
<1> HIDE DEF a, b
<1>3. Min({a, b}) = IF a <= b THEN a ELSE b  BY <1>1, MaxMin
<1>4. Min({a, b}) \in 1 .. b /\ (Min({a, b}) = b \/ Min({a, b}) = a)  BY <1>1, <1>3
<1> QED  BY <1>2, <1>4 DEF a, b

LEMMA CallsRight ==
    ASSUME NEW h, Counted(h), NEW N, Asks(h, N), NEW c \in Classes
    PROVE  /\ Calls(h, N)[c] \in Seq(Int)
           /\ ToSet(Calls(h, N)[c]) \subseteq 1 .. Batch[c]
           /\ Given(h, N, c) = IF c \in DOMAIN N THEN Clip(h, N)[c] ELSE 0
           /\ Given(h, N, c) \in 0 .. h.length[c]
<1>0. h.length[c] \in Nat  BY DEF Counted
<1>1. CASE c \in DOMAIN N
    <2> DEFINE n == Clip(h, N)[c]
    <2>1. n \in 1 .. h.length[c]  BY <1>1, ClipRight
    <2>2. Calls(h, N)[c] = Pieces(c, n)  BY <1>1 DEF Calls
    <2> HIDE DEF n
    <2>3. n \in Nat \ {0}  BY <1>0, <2>1
    <2>4. /\ Pieces(c, n) \in Seq(Int) /\ SumFunction(Pieces(c, n)) = n
          /\ ToSet(Pieces(c, n)) \subseteq 1 .. Batch[c]
        BY <2>3, PiecesRight
    <2> QED  BY <1>0, <1>1, <2>1, <2>2, <2>4 DEF Given, n
<1>2. CASE c \notin DOMAIN N
    <2>1. Calls(h, N)[c] = <<>>  BY <1>2 DEF Calls
    <2>2. SumFunction(<<>>) = 0
        <3>1. DOMAIN <<>> = {}  OBVIOUS
        <3> QED  BY <3>1, SumEmpty DEF SumFunction
    <2>3. ToSet(<<>>) = {} /\ <<>> \in Seq(Int)  BY DEF ToSet
    <2> QED  BY <1>0, <1>2, <2>1, <2>2, <2>3 DEF Given
<1> QED  BY <1>1, <1>2

\* What a cache gives is what its lists lose.
LEMMA ReleaseRight ==
    ASSUME NEW h, Counted(h), NEW N, Asks(h, N)
    PROVE  /\ Counted(Release(h, N))
           /\ \A c \in Classes : h.length[c] = Release(h, N).length[c] + Given(h, N, c)
<1> DEFINE n == Clip(h, N)
           k == Release(h, N)
           zeros == [c \in Classes |-> IF c \in DOMAIN n THEN n[c] ELSE 0]
           f == [c \in Classes |-> Size[c] * h.length[c]]
           e == [c \in Classes |-> Size[c] * k.length[c]]
           g == [c \in Classes |-> Size[c] * zeros[c]]
           short == [c \in DOMAIN n |-> Size[c] * n[c]]
<1>0. /\ h.length \in [Classes -> Nat] /\ h.lowater \in [Classes -> Nat]
      /\ {"size", "length", "lowater"} \subseteq DOMAIN h
      /\ h.size = Bytes(h)
      /\ DOMAIN N \subseteq Classes
    BY DEF Counted, Asks
<1>1. /\ DOMAIN n = DOMAIN N
      /\ \A c \in DOMAIN N : n[c] \in 1 .. h.length[c]
    BY ClipRight
<1>2. /\ \A c \in Classes : zeros[c] \in 0 .. h.length[c]
      /\ \A c \in Classes : Given(h, N, c) = zeros[c]
    <2>1. \A c \in Classes : Given(h, N, c) = IF c \in DOMAIN N THEN n[c] ELSE 0  BY CallsRight
    <2>2. ASSUME NEW c \in Classes PROVE zeros[c] \in 0 .. h.length[c]
        <3>1. h.length[c] \in Nat  BY <1>0
        <3>2. CASE c \in DOMAIN N
            <4>1. zeros[c] = n[c] /\ n[c] \in 1 .. h.length[c]  BY <1>1, <3>2
            <4> QED  BY <3>1, <4>1
        <3>3. CASE c \notin DOMAIN N
            <4>1. zeros[c] = 0  BY <1>1, <3>3
            <4> QED  BY <3>1, <4>1
        <3> QED  BY <3>2, <3>3
    <2> QED  BY <1>1, <2>1, <2>2
<1>3. /\ k.length = [c \in Classes |-> h.length[c] - zeros[c]]
      /\ k.lowater = [c \in Classes |-> Min({h.lowater[c], k.length[c]})]
      /\ k.size = h.size - SumFunction(short)
      /\ DOMAIN k = DOMAIN h
    BY <1>0 DEF Release
<1> HIDE DEF n, k, zeros
<1>4. /\ k.length \in [Classes -> Nat]
      /\ \A c \in Classes : h.length[c] = k.length[c] + zeros[c]
    <2>1. ASSUME NEW c \in Classes PROVE k.length[c] \in Nat /\ h.length[c] = k.length[c] + zeros[c]
        <3>1. zeros[c] \in 0 .. h.length[c] /\ h.length[c] \in Nat  BY <1>0, <1>2
        <3>2. k.length[c] = h.length[c] - zeros[c]  BY <1>3
        <3> QED  BY <3>1, <3>2
    <2>2. k.length = [c \in Classes |-> k.length[c]]  BY <1>3
    <2> QED  BY <2>1, <2>2
<1>5. /\ k.lowater \in [Classes -> Nat]
      /\ \A c \in Classes : k.lowater[c] <= k.length[c]
    <2>1. ASSUME NEW c \in Classes PROVE k.lowater[c] \in Nat /\ k.lowater[c] <= k.length[c]
        <3> DEFINE a == h.lowater[c]
                   b == k.length[c]
        <3>1. a \in Nat /\ b \in Nat  BY <1>0, <1>4
        <3>2. k.lowater[c] = Min({a, b})  BY <1>3
        <3> HIDE DEF a, b
        <3>3. Min({a, b}) = IF a <= b THEN a ELSE b  BY <3>1, MaxMin
        <3>4. Min({a, b}) \in Nat /\ Min({a, b}) <= b  BY <3>1, <3>3
        <3> QED  BY <3>2, <3>4 DEF b
    <2>2. k.lowater = [c \in Classes |-> k.lowater[c]]  BY <1>3
    <2> QED  BY <2>1, <2>2
<1>6. k.size = Bytes(k)
    <2>1. /\ Bytes(h) = SumFunctionOnSet(f, Classes)
          /\ Bytes(k) = SumFunctionOnSet(e, Classes) /\ Numbers(e, Classes)
          /\ IsFiniteSet(Classes)
        BY <1>0, <1>4, BytesOf
    <2>2. Numbers(g, Classes) /\ \A c \in Classes : f[c] = e[c] + g[c]
        <3> SUFFICES ASSUME NEW c \in Classes PROVE g[c] \in Int /\ f[c] = e[c] + g[c]
            BY DEF Numbers
        <3> DEFINE s == Size[c]
                   a == k.length[c]
                   b == zeros[c]
        <3>1. s \in Int /\ a \in Int /\ b \in Int  BY <1>0, <1>2, <1>4, TablesAssumption
        <3>2. h.length[c] = a + b  BY <1>4
        <3>3. f[c] = s * (a + b) /\ e[c] = s * a /\ g[c] = s * b  BY <3>2
        <3> HIDE DEF s, a, b, f, e, g
        <3>4. s * (a + b) = s * a + s * b /\ s * b \in Int  BY <3>1
        <3> QED  BY <3>3, <3>4
    <2>3. SumFunctionOnSet(g, Classes) = SumFunctionOnSet(g, DOMAIN n)
        <3>1. \A c \in Classes \ DOMAIN n : g[c] = 0
            <4> SUFFICES ASSUME NEW c \in Classes \ DOMAIN n PROVE Size[c] * zeros[c] = 0
                OBVIOUS
            <4>1. zeros[c] = 0 /\ Size[c] \in Int  BY TablesAssumption DEF zeros
            <4> QED  BY <4>1
        <3>2. DOMAIN n \in SUBSET Classes  BY <1>0, <1>1
        <3> HIDE DEF g
        <3> QED  BY <2>1, <2>2, <3>1, <3>2, SumZeros
    <2>4. SumFunctionOnSet(g, DOMAIN n) = SumFunction(short)
        <3>1. \A c \in DOMAIN n : short[c] = g[c]  BY <1>0, <1>1 DEF zeros
        <3>2. IsFiniteSet(DOMAIN n)  BY <1>0, <1>1, <2>1, FS_Subset
        <3>3. DOMAIN short = DOMAIN n  OBVIOUS
        <3> HIDE DEF g, short
        <3> QED  BY <3>1, <3>2, <3>3, SumSame DEF SumFunction
    <2> HIDE DEF f, e, g, short
    <2>5. SumFunctionOnSet(f, Classes) = SumFunctionOnSet(e, Classes) + SumFunctionOnSet(g, Classes)
        BY <2>1, <2>2, SumPlus
    <2>6. SumFunctionOnSet(e, Classes) \in Int /\ SumFunctionOnSet(g, Classes) \in Int
        BY <2>1, <2>2, SumType
    <2> QED  BY <1>0, <1>3, <2>1, <2>3, <2>4, <2>5, <2>6
<1>7. Counted(k)  BY <1>0, <1>3, <1>4, <1>5, <1>6 DEF Counted
<1> QED  BY <1>2, <1>4, <1>7 DEF k

-----------------------------------------------------------------------------
(* The invariant of the lists.                                               *)

ListsOK(h) == Counted(h) /\ \A c \in Classes : h.length[c] <= MaxFreeListLength

Caches == \A h \in Heaps : ListsOK(cache[h])
Stock == central \in [Classes -> Nat] /\ client \in [Classes -> Nat]
Emptied ==
    \A t \in Threads : pc[t] = "unlink" => \A c \in Classes : cache[heap[t]].length[c] = 0
Batches == \A call \in inserted : call[2] \in 1 .. Batch[call[1]]

CountInv == Caches /\ Stock /\ Emptied /\ Batches /\ NothingStranded

\* What is outside the caches and in this one.
Around(h, c) == h.length[c] + central[c] + client[c]

\* In this step the cache of t becomes d, and what d gains or loses is gained or
\* lost outside.
Becomes(h, d) == cache' = [cache EXCEPT ![h] = d]
Exchange(h, d) ==
    /\ ListsOK(d)
    /\ Becomes(h, d)
    /\ Stock'
    /\ \A c \in Classes : d.length[c] + central'[c] + client'[c] = Around(cache[h], c)

LEMMA StrandedStep ==
    ASSUME IInv, LimitInv, CountInv, NEW h \in thread_heaps, NEW d, Exchange(h, d),
           UNCHANGED thread_heaps
    PROVE  Caches' /\ NothingStranded'
<1>1. /\ cache = [x \in Heaps |-> cache[x]] /\ h \in Heaps /\ thread_heaps \subseteq Heaps
      /\ IsFiniteSet(thread_heaps)
    BY DEF IInv, Shapes, LimitInv
<1>2. cache'[h] = d /\ \A x \in Heaps \ {h} : cache'[x] = cache[x]
    BY <1>1 DEF Exchange, Becomes
<1>3. Caches'  BY <1>2 DEF Exchange, CountInv, Caches, ListsOK, Counted, Bytes
<1>4. ASSUME NEW c \in Classes
      PROVE  central'[c] + client'[c] + Cached(c)' = Total[c]
    <2> DEFINE f == [x \in thread_heaps |-> cache[x].length[c]]
               e == [x \in thread_heaps |-> cache'[x].length[c]]
    <2>1. \A x \in thread_heaps : cache[x].length[c] \in Int /\ cache'[x].length[c] \in Int
        BY <1>1, <1>3 DEF CountInv, Caches, ListsOK, Counted
    <2>2. /\ Numbers(f, thread_heaps) /\ Numbers(e, thread_heaps)
          /\ \A x \in thread_heaps \ {h} : e[x] = f[x]
          /\ e[h] = d.length[c] /\ f[h] = cache[h].length[c]
        BY <1>1, <1>2, <2>1 DEF Numbers
    <2>3. /\ Cached(c) = SumFunctionOnSet(f, thread_heaps)
          /\ Cached(c)' = SumFunctionOnSet(e, thread_heaps)
        BY DEF Cached, SumFunction
    <2>4. f[h] \in Int /\ e[h] \in Int  BY <2>2 DEF Numbers
    <2> HIDE DEF e, f
    <2>5. SumFunctionOnSet(e, thread_heaps) = SumFunctionOnSet(f, thread_heaps) + (e[h] - f[h])
        BY <1>1, <2>2, SumChange
    <2>6. SumFunctionOnSet(f, thread_heaps) \in Int  BY <1>1, <2>2, SumType
    <2>7. central[c] + client[c] + Cached(c) = Total[c]  BY DEF CountInv, NothingStranded
    <2>8. /\ central[c] \in Int /\ client[c] \in Int /\ central'[c] \in Int /\ client'[c] \in Int
          /\ e[h] + central'[c] + client'[c] = f[h] + central[c] + client[c]
        BY <2>2 DEF CountInv, Stock, Exchange, Around
    <2> QED  BY <2>3, <2>4, <2>5, <2>6, <2>7, <2>8
<1>5. NothingStranded'  BY <1>4 DEF NothingStranded
<1> QED  BY <1>3, <1>5

\* Such a step of the thread that uses the cache.
LEMMA ExchangeStep ==
    ASSUME IInv, LimitInv, CountInv, NEW t \in Threads, NEW h \in {specific[t], heap[t]} \ {Null},
           NEW d, Exchange(h, d), UNCHANGED thread_heaps, Batches',
           \A u \in Threads \ {t} : pc'[u] = pc[u] /\ heap'[u] = heap[u],
           pc'[t] = "unlink" => heap'[t] = h /\ \A c \in Classes : d.length[c] = 0
    PROVE  CountInv'
<1>1. h \in thread_heaps /\ h \in Heaps /\ cache = [x \in Heaps |-> cache[x]]
    BY DEF IInv, Owned, Shapes
<1>2. cache'[h] = d /\ \A x \in Heaps \ {h} : cache'[x] = cache[x]
    BY <1>1 DEF Exchange, Becomes
<1>3. ASSUME NEW u \in Threads, pc'[u] = "unlink", NEW c \in Classes
      PROVE  cache'[heap'[u]].length[c] = 0
    <2>1. CASE u = t  BY <1>2, <1>3, <2>1
    <2>2. CASE u # t
        <3>1. pc[u] = "unlink" /\ heap'[u] = heap[u]  BY <1>3, <2>2
        <3>2. heap[u] \in Heaps /\ heap[u] # h
            <4>1. heap[u] \in Heaps  BY <3>1, OfThread DEF AtLabel
            <4>2. heap[u] # h
                <5>1. Owned /\ Early /\ AtLabel(t) /\ AtLabel(u)  BY OfThread DEF IInv
                <5> QED  BY <2>2, <5>1, Exclusive
            <4> QED  BY <4>1, <4>2
        <3>3. cache[heap[u]].length[c] = 0  BY <3>1 DEF CountInv, Emptied
        <3> QED  BY <1>2, <3>1, <3>2, <3>3
    <2> QED  BY <2>1, <2>2
<1>4. Emptied'  BY <1>3 DEF Emptied
<1> QED  BY <1>1, <1>4, StrandedStep DEF CountInv, Exchange

\* A step in which every list stays as it is.
SameLists(c, d) ==
    /\ {"size", "length", "lowater"} \subseteq DOMAIN d
    /\ d.size = c.size /\ d.length = c.length /\ d.lowater = c.lowater

LEMMA SameListsStep ==
    ASSUME IInv, CountInv, \A h \in Heaps : SameLists(cache[h], cache'[h]),
           UNCHANGED thread_heaps, Stock', Batches',
           \A c \in Classes : central'[c] + client'[c] = central[c] + client[c],
           \A u \in Threads : pc'[u] = "unlink" => pc[u] = "unlink" /\ heap'[u] = heap[u]
    PROVE  CountInv'
<1>1. Caches'
    <2> SUFFICES ASSUME NEW h \in Heaps PROVE ListsOK(cache'[h])  BY DEF Caches
    <2> DEFINE c == cache[h]
               d == cache'[h]
    <2>1. ListsOK(c) /\ SameLists(c, d)  BY DEF CountInv, Caches
    <2> HIDE DEF c, d
    <2>2. ListsOK(d)  BY <2>1 DEF ListsOK, Counted, SameLists, Bytes
    <2> QED  BY <2>2 DEF d
<1>2. Emptied'
    <2> SUFFICES ASSUME NEW u \in Threads, pc'[u] = "unlink", NEW c \in Classes
                 PROVE  cache'[heap'[u]].length[c] = 0
        BY DEF Emptied
    <2>1. pc[u] = "unlink" /\ heap'[u] = heap[u]  OBVIOUS
    <2>2. heap[u] \in Heaps  BY <2>1, OfThread DEF AtLabel
    <2>3. cache[heap[u]].length[c] = 0  BY <2>1 DEF CountInv, Emptied
    <2> QED  BY <2>1, <2>2, <2>3 DEF SameLists
<1>3. NothingStranded'
    <2> SUFFICES ASSUME NEW c \in Classes
                 PROVE  central'[c] + client'[c] + Cached(c)' = Total[c]
        BY DEF NothingStranded
    <2>1. \A h \in thread_heaps : cache'[h].length[c] = cache[h].length[c]
        BY DEF IInv, Shapes, SameLists
    <2>2. Cached(c)' = Cached(c)  BY <2>1 DEF Cached
    <2>3. central[c] + client[c] + Cached(c) = Total[c]  BY DEF CountInv, NothingStranded
    <2> QED  BY <2>2, <2>3
<1> QED  BY <1>1, <1>2, <1>3 DEF CountInv

-----------------------------------------------------------------------------
(* Every step keeps the lists right.                                         *)

\* malloc moves objects from the central lists to the cache and one to the client.
LEMMA AllocateRight ==
    ASSUME IInv, CountInv, NEW h \in Heaps, Allocate(h)
    PROVE  \E d : Exchange(h, d)
<1> DEFINE k == cache[h]
<1>0. /\ ListsOK(k) /\ central \in [Classes -> Nat] /\ client \in [Classes -> Nat]
      /\ cache = [cache EXCEPT ![h] = k]
      /\ MaxFreeListLength \in Nat
    BY LimitsAssumption DEF CountInv, Caches, Stock, IInv, Shapes
<1>1. CASE UNCHANGED <<cache, central, client>>
    <2>1. Exchange(h, k)  BY <1>0, <1>1 DEF Exchange, Becomes, Around, Stock
    <2> QED  BY <2>1
<1>2. ASSUME NEW c \in Classes, k.length[c] > 0, cache' = [cache EXCEPT ![h] = Pop(k, c)],
             client' = [client EXCEPT ![c] = @ + 1], UNCHANGED central
      PROVE  \E d : Exchange(h, d)
    <2> DEFINE d == Pop(k, c)
    <2>1. Counted(d) /\ LengthMoved(k, d, c, -1)  BY <1>0, <1>2, PopRight DEF ListsOK
    <2>2. Becomes(h, d) /\ Stock' /\ client'[c] = client[c] + 1 /\ central' = central
          /\ \A x \in Classes \ {c} : client'[x] = client[x]
        BY <1>0, <1>2 DEF Becomes, Stock
    <2> HIDE DEF d, k
    <2>3. \A x \in Classes : k.length[x] \in Nat /\ central[x] \in Nat /\ client[x] \in Nat
                             /\ k.length[x] <= MaxFreeListLength
        BY <1>0 DEF ListsOK, Counted
    <2>4. ASSUME NEW x \in Classes
          PROVE  /\ d.length[x] <= MaxFreeListLength
                 /\ d.length[x] + central'[x] + client'[x] = Around(k, x)
        <3>1. CASE x = c
            <4>1. d.length[x] = k.length[x] + -1 /\ client'[x] = client[x] + 1 /\ central'[x] = central[x]
                BY <2>1, <2>2, <3>1 DEF LengthMoved
            <4> QED  BY <1>0, <2>3, <4>1 DEF Around
        <3>2. CASE x # c
            <4>1. d.length[x] = k.length[x] /\ client'[x] = client[x] /\ central'[x] = central[x]
                BY <2>1, <2>2, <3>2 DEF LengthMoved
            <4> QED  BY <1>0, <2>3, <4>1 DEF Around
        <3> QED  BY <3>1, <3>2
    <2>5. Exchange(h, d)  BY <2>1, <2>2, <2>4 DEF Exchange, ListsOK, k
    <2> QED  BY <2>5
<1>3. ASSUME NEW c \in Classes, k.length[c] = 0,
             NEW n \in 1 .. Min({Batch[c], central[c]}),
             cache' = [cache EXCEPT ![h] = Pop(Fetch(k, c, n), c)],
             central' = [central EXCEPT ![c] = @ - n],
             client' = [client EXCEPT ![c] = @ + 1]
      PROVE  \E d : Exchange(h, d)
    <2> DEFINE f == Fetch(k, c, n)
               d == Pop(f, c)
    <2>0. n \in Nat \ {0} /\ n <= Batch[c] /\ n <= central[c]
        <3> DEFINE a == Batch[c]
                   b == central[c]
        <3>1. a \in Nat /\ b \in Nat  BY <1>0, TablesAssumption
        <3>2. n \in 1 .. Min({a, b})  BY <1>3
        <3> HIDE DEF a, b
        <3>3. Min({a, b}) = IF a <= b THEN a ELSE b  BY <3>1, MaxMin
        <3>4. n \in Nat \ {0} /\ n <= a /\ n <= b  BY <3>1, <3>2, <3>3
        <3> QED  BY <3>4 DEF a, b
    <2>1. Counted(f) /\ LengthMoved(k, f, c, n)  BY <1>0, <2>0, FetchRight DEF ListsOK
    <2>2. f.length[c] > 0  BY <1>3, <2>0, <2>1 DEF LengthMoved
    <2> HIDE DEF f
    <2>3. Counted(d) /\ LengthMoved(f, d, c, -1)  BY <2>1, <2>2, PopRight
    <2>4. /\ Becomes(h, d) /\ Stock' /\ client'[c] = client[c] + 1 /\ central'[c] = central[c] - n
          /\ \A x \in Classes \ {c} : client'[x] = client[x] /\ central'[x] = central[x]
        <3>1. central[c] - n \in Nat  BY <1>0, <2>0
        <3> QED  BY <1>0, <1>3, <3>1 DEF Becomes, Stock, f
    <2> HIDE DEF d, k
    <2>5. \A x \in Classes : k.length[x] \in Nat /\ central[x] \in Nat /\ client[x] \in Nat
                             /\ k.length[x] <= MaxFreeListLength
        BY <1>0 DEF ListsOK, Counted
    <2>6. ASSUME NEW x \in Classes
          PROVE  /\ d.length[x] <= MaxFreeListLength
                 /\ d.length[x] + central'[x] + client'[x] = Around(k, x)
        <3>1. CASE x = c
            <4>1. /\ d.length[x] = f.length[x] + -1 /\ f.length[x] = k.length[x] + n
                  /\ client'[x] = client[x] + 1 /\ central'[x] = central[x] - n
                BY <2>1, <2>3, <2>4, <3>1 DEF LengthMoved
            <4>2. k.length[x] = 0 /\ Batch[x] <= MaxFreeListLength /\ Batch[x] \in Nat
                BY <1>3, <3>1, TablesAssumption
            <4> QED  BY <1>0, <2>0, <2>5, <3>1, <4>1, <4>2 DEF Around
        <3>2. CASE x # c
            <4>1. /\ d.length[x] = f.length[x] /\ f.length[x] = k.length[x]
                  /\ client'[x] = client[x] /\ central'[x] = central[x]
                BY <2>1, <2>3, <2>4, <3>2 DEF LengthMoved
            <4> QED  BY <1>0, <2>5, <4>1 DEF Around
        <3> QED  BY <3>1, <3>2
    <2>7. Exchange(h, d)  BY <2>3, <2>4, <2>6 DEF Exchange, ListsOK, k
    <2> QED  BY <2>7
<1> QED  BY <1>1, <1>2, <1>3 DEF Allocate

LEMMA InsertRight ==
    ASSUME NEW calls, Insert(calls), \A c \in Classes : ToSet(calls[c]) \subseteq 1 .. Batch[c]
    PROVE  Batches'
<1> SUFFICES ASSUME NEW call \in inserted' PROVE call[2] \in 1 .. Batch[call[1]]
    BY DEF Batches
<1>1. PICK c \in Classes : call \in {c} \X ToSet(calls[c])  BY DEF Insert
<1> QED  BY <1>1

LEMMA ToSetConcat ==
    ASSUME NEW s \in Seq(Int), NEW t \in Seq(Int)
    PROVE  ToSet(s \o t) \subseteq ToSet(s) \cup ToSet(t)
<1> SUFFICES ASSUME NEW i \in DOMAIN (s \o t)
             PROVE  (s \o t)[i] \in ToSet(s) \cup ToSet(t)
    BY DEF ToSet
<1>1. i \in 1 .. Len(s) + Len(t) /\ Len(s) \in Nat /\ Len(t) \in Nat
      /\ DOMAIN s = 1 .. Len(s) /\ DOMAIN t = 1 .. Len(t)
    OBVIOUS
<1>2. CASE i <= Len(s)
    <2>1. (s \o t)[i] = s[i] /\ i \in DOMAIN s  BY <1>1, <1>2
    <2> QED  BY <2>1 DEF ToSet
<1>3. CASE i > Len(s)
    <2>1. (s \o t)[i] = t[i - Len(s)] /\ i - Len(s) \in DOMAIN t  BY <1>1, <1>3
    <2> QED  BY <2>1 DEF ToSet
<1> QED  BY <1>1, <1>2, <1>3

\* What Deallocate and Scavenge ask for is there.
LEMMA AsksRight ==
    ASSUME NEW h, Counted(h)
    PROVE  /\ \A c \in Classes : Asks(h, Overflow(h, c))
           /\ Asks(h, Drop(h)) /\ Asks(h, Cleanup(h)) /\ Asks(h, <<>>)
<1>0. /\ h.length \in [Classes -> Nat] /\ h.lowater \in [Classes -> Nat]
      /\ \A c \in Classes : h.lowater[c] <= h.length[c]
    BY DEF Counted
<1>1. ASSUME NEW c \in Classes PROVE Asks(h, Overflow(h, c))
    <2>1. CASE h.length[c] > MaxFreeListLength
        <3>1. Overflow(h, c) = [d \in {c} |-> Batch[c]]  BY <2>1 DEF Overflow
        <3>2. h.length[c] > 0  BY <1>0, <2>1, LimitsAssumption
        <3> QED  BY <3>1, <3>2, TablesAssumption DEF Asks
    <2>2. CASE ~ (h.length[c] > MaxFreeListLength)
        BY <2>2 DEF Overflow, Asks
    <2> QED  BY <2>1, <2>2
<1>2. Asks(h, Drop(h))
    <2>1. ASSUME NEW c \in Classes, h.lowater[c] > 0
          PROVE  /\ (IF h.lowater[c] > 1 THEN h.lowater[c] \div 2 ELSE 1) \in Nat \ {0}
                 /\ h.length[c] > 0
        <3>1. h.lowater[c] \in Nat /\ h.length[c] \in Nat /\ h.lowater[c] <= h.length[c]  BY <1>0
        <3> QED  BY <2>1, <3>1
    <2> QED  BY <2>1 DEF Drop, Asks
<1>3. Asks(h, Cleanup(h))  BY <1>0 DEF Cleanup, Asks
<1>4. Asks(h, <<>>)  BY DEF Asks
<1> QED  BY <1>1, <1>2, <1>3, <1>4

LEMMA ClearRight ==
    ASSUME NEW h, Counted(h)
    PROVE  /\ Counted(ClearLowWatermarks(h)) /\ ClearLowWatermarks(h).length = h.length
<1> DEFINE k == ClearLowWatermarks(h)
<1>1. /\ k.length = h.length /\ k.size = h.size /\ k.lowater = h.length
      /\ {"size", "length", "lowater"} \subseteq DOMAIN k
    BY DEF ClearLowWatermarks, Counted
<1>2. \A c \in Classes : h.length[c] \in Nat /\ h.length \in [Classes -> Nat]  BY DEF Counted
<1> HIDE DEF k
<1>3. Bytes(k) = Bytes(h)  BY <1>1 DEF Bytes
<1>4. \A c \in Classes : k.lowater[c] <= k.length[c]  BY <1>1, <1>2
<1>5. Counted(k)  BY <1>1, <1>3, <1>4 DEF Counted
<1> QED  BY <1>1, <1>5 DEF k

LEMMA FreeToCacheRight ==
    ASSUME IInv, CountInv, NEW h \in Heaps, NEW c \in Classes, client[c] > 0,
           client' = [client EXCEPT ![c] = @ - 1], FreeToCache(h, c)
    PROVE  Batches' /\ \E d : Exchange(h, d)
<1> DEFINE own == cache[h]
           pushed == Push(own, c)
           over == Overflow(pushed, c)
           kept == Release(pushed, over)
           scavenge == kept.size >= per_thread_cache_size
           drop == IF scavenge THEN Drop(kept) ELSE <<>>
           scavenged == Release(kept, drop)
           first == Calls(pushed, over)
           second == Calls(kept, drop)
           calls == [d \in Classes |-> first[d] \o second[d]]
           last == IF scavenge THEN ClearLowWatermarks(scavenged) ELSE kept
<1>0. /\ ListsOK(own) /\ central \in [Classes -> Nat] /\ client \in [Classes -> Nat]
      /\ MaxFreeListLength \in Nat
    BY LimitsAssumption DEF CountInv, Caches, Stock
<1>1. Becomes(h, last) /\ Insert(calls)  BY DEF FreeToCache, Becomes
<1>2. Counted(pushed) /\ LengthMoved(own, pushed, c, 1)  BY <1>0, PushRight DEF ListsOK
<1> HIDE DEF pushed
<1>3. Asks(pushed, over)  BY <1>2, AsksRight
<1> HIDE DEF over
<1>4. /\ Counted(kept)
      /\ \A x \in Classes : pushed.length[x] = kept.length[x] + Given(pushed, over, x)
    BY <1>2, <1>3, ReleaseRight
<1> HIDE DEF kept
<1>5. Asks(kept, drop)  BY <1>4, AsksRight
<1> HIDE DEF drop, scavenge
<1>6. /\ Counted(scavenged)
      /\ \A x \in Classes : kept.length[x] = scavenged.length[x] + Given(kept, drop, x)
    BY <1>4, <1>5, ReleaseRight
<1>7. \A x \in Classes :
        /\ first[x] \in Seq(Int) /\ ToSet(first[x]) \subseteq 1 .. Batch[x]
        /\ second[x] \in Seq(Int) /\ ToSet(second[x]) \subseteq 1 .. Batch[x]
        /\ Given(pushed, over, x) \in Nat /\ Given(kept, drop, x) \in Nat
        /\ SumFunction(calls[x]) = Given(pushed, over, x) + Given(kept, drop, x)
        /\ ToSet(calls[x]) \subseteq 1 .. Batch[x]
    <2> TAKE x \in Classes
    <2>1. /\ first[x] \in Seq(Int) /\ ToSet(first[x]) \subseteq 1 .. Batch[x]
          /\ second[x] \in Seq(Int) /\ ToSet(second[x]) \subseteq 1 .. Batch[x]
          /\ Given(pushed, over, x) \in Nat /\ Given(kept, drop, x) \in Nat
        <3>1. /\ Given(pushed, over, x) \in 0 .. pushed.length[x]
              /\ Given(kept, drop, x) \in 0 .. kept.length[x]
              /\ first[x] \in Seq(Int) /\ ToSet(first[x]) \subseteq 1 .. Batch[x]
              /\ second[x] \in Seq(Int) /\ ToSet(second[x]) \subseteq 1 .. Batch[x]
            BY <1>2, <1>3, <1>4, <1>5, CallsRight
        <3>2. pushed.length[x] \in Nat /\ kept.length[x] \in Nat  BY <1>2, <1>4 DEF Counted
        <3> QED  BY <3>1, <3>2
    <2>2. calls[x] = first[x] \o second[x]  OBVIOUS
    <2>3. /\ Given(pushed, over, x) = SumFunction(first[x])
          /\ Given(kept, drop, x) = SumFunction(second[x])
        BY DEF Given
    <2> HIDE DEF first, second, calls
    <2>4. SumFunction(first[x] \o second[x]) = SumFunction(first[x]) + SumFunction(second[x])
        BY <2>1, SumConcat
    <2>5. ToSet(first[x] \o second[x]) \subseteq ToSet(first[x]) \cup ToSet(second[x])
        BY <2>1, ToSetConcat
    <2> QED  BY <2>1, <2>2, <2>3, <2>4, <2>5
<1>8. Batches'
    <2> HIDE DEF calls
    <2> QED  BY <1>1, <1>7, InsertRight
<1>9. /\ Counted(last)
      /\ \A x \in Classes : kept.length[x] = last.length[x] + Given(kept, drop, x)
    <2>1. CASE scavenge
        <3>1. last = ClearLowWatermarks(scavenged)  BY <2>1
        <3> HIDE DEF last, scavenged
        <3>2. Counted(last) /\ last.length = scavenged.length  BY <1>6, <3>1, ClearRight
        <3> QED  BY <1>6, <3>2
    <2>2. CASE ~ scavenge
        <3>1. last = kept /\ drop = <<>>  BY <2>2 DEF drop
        <3>2. ASSUME NEW x \in Classes PROVE Given(kept, drop, x) = 0
            <4>1. Given(kept, drop, x) = IF x \in DOMAIN drop THEN Clip(kept, drop)[x] ELSE 0
                BY <1>4, <1>5, CallsRight
            <4> QED  BY <3>1, <4>1
        <3>3. \A x \in Classes : kept.length[x] \in Nat  BY <1>4 DEF Counted
        <3> HIDE DEF last
        <3> QED  BY <1>4, <3>1, <3>2, <3>3
    <2> QED  BY <2>1, <2>2
<1> HIDE DEF last, scavenged, first, second
<1>10. ASSUME NEW x \in Classes PROVE last.length[x] <= MaxFreeListLength
    <2>0. /\ own.length[x] \in Nat /\ pushed.length[x] \in Nat /\ kept.length[x] \in Nat
          /\ last.length[x] \in Nat /\ own.length[x] <= MaxFreeListLength
          /\ Given(kept, drop, x) \in Nat /\ Given(pushed, over, x) \in Nat
          /\ kept.length[x] = last.length[x] + Given(kept, drop, x)
          /\ pushed.length[x] = kept.length[x] + Given(pushed, over, x)
        BY <1>0, <1>2, <1>4, <1>7, <1>9 DEF ListsOK, Counted
    <2>1. last.length[x] <= kept.length[x] /\ kept.length[x] <= pushed.length[x]
        BY <2>0
    <2>2. CASE x # c \/ pushed.length[x] <= MaxFreeListLength
        <3>1. pushed.length[x] <= MaxFreeListLength  BY <1>0, <1>2, <2>0, <2>2 DEF LengthMoved
        <3> QED  BY <1>0, <2>0, <2>1, <3>1
    <2>3. CASE x = c /\ ~ (pushed.length[x] <= MaxFreeListLength)
        <3>1. pushed.length[x] = own.length[x] + 1  BY <1>2, <2>3 DEF LengthMoved
        <3>2. Given(pushed, over, x) > 0
            <4>0. pushed.length[c] > MaxFreeListLength
                <5>1. pushed.length[x] \in Nat /\ MaxFreeListLength \in Nat  BY <1>0, <2>0
                <5>2. pushed.length[x] > MaxFreeListLength  BY <5>1, <2>3
                <5> QED  BY <2>3, <5>2
            <4>1. over = [d \in {c} |-> Batch[c]]  BY <4>0 DEF over, Overflow
            <4>2. x \in DOMAIN over  BY <2>3, <4>1
            <4>3. Given(pushed, over, x) = Clip(pushed, over)[x]  BY <1>2, <1>3, <4>2, CallsRight
            <4>4. Clip(pushed, over)[x] \in 1 .. pushed.length[x]  BY <1>2, <1>3, <4>2, ClipRight
            <4> QED  BY <2>0, <4>3, <4>4
        <3> QED  BY <1>0, <2>0, <2>1, <3>1, <3>2
    <2> QED  BY <2>2, <2>3
<1>11. ASSUME NEW x \in Classes
       PROVE  /\ central'[x] \in Nat /\ client'[x] \in Nat
              /\ last.length[x] + central'[x] + client'[x] = Around(own, x)
    <2>1. /\ central'[x] = central[x] + (Given(pushed, over, x) + Given(kept, drop, x))
          /\ central[x] \in Nat /\ client[x] \in Nat
          /\ Given(pushed, over, x) \in Nat /\ Given(kept, drop, x) \in Nat
          /\ own.length[x] \in Nat /\ last.length[x] \in Nat /\ kept.length[x] \in Nat
          /\ kept.length[x] = last.length[x] + Given(kept, drop, x)
          /\ pushed.length[x] = kept.length[x] + Given(pushed, over, x)
        BY <1>0, <1>1, <1>4, <1>7, <1>9 DEF Insert, ListsOK, Counted
    <2>2. CASE x = c
        <3>1. pushed.length[x] = own.length[x] + 1 /\ client'[x] = client[x] - 1 /\ client[x] > 0
            BY <1>0, <1>2, <2>2 DEF LengthMoved
        <3> QED  BY <2>1, <3>1 DEF Around
    <2>3. CASE x # c
        <3>1. pushed.length[x] = own.length[x] /\ client'[x] = client[x]
            BY <1>0, <1>2, <2>3 DEF LengthMoved
        <3> QED  BY <2>1, <3>1 DEF Around
    <2> QED  BY <2>2, <2>3
<1>12. Stock'
    <2>1. central' = [x \in Classes |-> central'[x]] /\ client' = [x \in Classes |-> client'[x]]
        BY <1>0, <1>1 DEF Insert
    <2> QED  BY <1>11, <2>1 DEF Stock
<1>13. Exchange(h, last)
    BY <1>1, <1>9, <1>10, <1>11, <1>12 DEF Exchange, ListsOK
<1> QED  BY <1>8, <1>13

LEMMA NewCacheRight ==
    ASSUME NEW name
    PROVE  ListsOK(NewCache(name)) /\ \A c \in Classes : NewCache(name).length[c] = 0
<1> DEFINE k == NewCache(name)
           f == [c \in Classes |-> Size[c] * k.length[c]]
<1>1. /\ k.length = [c \in Classes |-> 0] /\ k.lowater = [c \in Classes |-> 0] /\ k.size = 0
      /\ {"size", "length", "lowater"} \subseteq DOMAIN k
    BY DEF NewCache
<1> HIDE DEF k
<1>2. k.length \in [Classes -> Nat]  BY <1>1
<1>3. Bytes(k) = SumFunctionOnSet(f, Classes) /\ IsFiniteSet(Classes) /\ Numbers(f, Classes)
    BY <1>2, BytesOf
<1>4. \A c \in Classes \ {} : f[c] = 0
    <2> TAKE c \in Classes \ {}
    <2>1. Size[c] \in Int /\ k.length[c] = 0  BY <1>1, TablesAssumption
    <2> QED  BY <2>1
<1> HIDE DEF f
<1>5. SumFunctionOnSet(f, Classes) = SumFunctionOnSet(f, {})
    <2>1. {} \in SUBSET Classes  OBVIOUS
    <2> QED  BY <1>3, <1>4, <2>1, SumZeros
<1>6. Bytes(k) = 0  BY <1>3, <1>5, SumEmpty
<1>7. Counted(k)  BY <1>1, <1>6 DEF Counted
<1>8. \A c \in Classes : k.length[c] <= MaxFreeListLength  BY <1>1, LimitsAssumption
<1> QED  BY <1>1, <1>7, <1>8 DEF ListsOK, k

LEMMA InitCountInv == Init => CountInv
<1> SUFFICES ASSUME Init PROVE CountInv  OBVIOUS
<1>1. /\ cache = [h \in Heaps |-> NewCache(Zero)] /\ thread_heaps = {} /\ inserted = {}
      /\ central = Total /\ client = [c \in Classes |-> 0]
      /\ \A t \in Threads : pc[t] # "unlink"
    BY DEF Init
<1>2. Caches  BY <1>1, NewCacheRight DEF Caches
<1>3. Stock  BY <1>1, TablesAssumption DEF Stock
<1>4. Emptied /\ Batches  BY <1>1 DEF Emptied, Batches
<1>5. NothingStranded
    <2> SUFFICES ASSUME NEW c \in Classes PROVE central[c] + client[c] + Cached(c) = Total[c]
        BY DEF NothingStranded
    <2>1. DOMAIN [h \in thread_heaps |-> cache[h].length[c]] = {}  BY <1>1
    <2>2. Cached(c) = 0  BY <2>1, SumEmpty DEF Cached, SumFunction
    <2>3. Total[c] \in Nat /\ central[c] = Total[c] /\ client[c] = 0  BY <1>1, TablesAssumption
    <2> QED  BY <2>2, <2>3
<1> QED  BY <1>2, <1>3, <1>4, <1>5 DEF CountInv

LEMMA MallocCountInv ==
    ASSUME IInv, LimitInv, CountInv, NEW t \in Threads, Malloc(t)
    PROVE  CountInv'
<1>1. /\ specific[t] \in Heaps /\ specific[t] # Null /\ Allocate(specific[t])
      /\ inserted' = {} /\ thread_heaps' = thread_heaps
      /\ heap' = heap /\ pc' = [pc EXCEPT ![t] = "run"]
    BY OfThread DEF Malloc, GoTo, list
<1>2. PICK d : Exchange(specific[t], d)  BY <1>1, AllocateRight
<1>3. Batches'  BY <1>1 DEF Batches
<1>4. pc'[t] # "unlink" /\ \A u \in Threads \ {t} : pc'[u] = pc[u]  BY <1>1, OfThread DEF Shapes
<1>5. specific[t] \in {specific[t], heap[t]} \ {Null}  BY <1>1
<1> QED  BY <1>1, <1>2, <1>3, <1>4, <1>5, ExchangeStep

LEMMA UseCacheCountInv ==
    ASSUME IInv, LimitInv, CountInv, NEW t \in Threads, UseCache(t)
    PROVE  CountInv'
<1>1. /\ heap[t] \in Heaps /\ heap[t] # Null /\ Allocate(heap[t])
      /\ inserted' = {} /\ thread_heaps' = thread_heaps
      /\ heap' = [heap EXCEPT ![t] = Null] /\ pc' = [pc EXCEPT ![t] = "run"]
    BY OfThread DEF UseCache, GoTo, list, AtLabel
<1>2. PICK d : Exchange(heap[t], d)  BY <1>1, AllocateRight
<1>3. Batches'  BY <1>1 DEF Batches
<1>4. pc'[t] # "unlink" /\ \A u \in Threads \ {t} : pc'[u] = pc[u] /\ heap'[u] = heap[u]
    BY <1>1, OfThread DEF Shapes
<1>5. heap[t] \in {specific[t], heap[t]} \ {Null}  BY <1>1
<1> QED  BY <1>1, <1>2, <1>3, <1>4, <1>5, ExchangeStep

LEMMA ReentrantMallocCountInv ==
    ASSUME IInv, LimitInv, CountInv, NEW t \in Threads, ReentrantMalloc(t)
    PROVE  CountInv'
<1>1. PICK h \in Found(t) :
         \/ ~ MustSet(cache[h]) /\ Allocate(h)
         \/ UNCHANGED <<cache, central, client>>
    BY DEF ReentrantMalloc
<1>2. h = heap[t] /\ h \in Heaps /\ h # Null
    <2>1. heap[t] # Null /\ tsd_inited  BY OfThread DEF ReentrantMalloc, AtLabel
    <2>2. heap[t] \in thread_heaps /\ cache[heap[t]].tid = Me(t)
        BY <2>1 DEF IInv, Owned
    <2> QED  BY <2>1, <2>2 DEF IInv, OneCachePerThread, Found, Shapes
<1>3. \E d : Exchange(h, d)
    <2>1. CASE Allocate(h)  BY <1>2, <2>1, AllocateRight
    <2>2. CASE UNCHANGED <<cache, central, client>>
        <3>1. Allocate(h)  BY <2>2 DEF Allocate
        <3> QED  BY <1>2, <3>1, AllocateRight
    <2> QED  BY <1>1, <2>1, <2>2
<1>4. PICK d : Exchange(h, d)  BY <1>3
<1>5. Batches' /\ UNCHANGED <<thread_heaps, pc, heap>> /\ pc[t] = "set"
    BY DEF ReentrantMalloc, list, Batches
<1>6. h \in {specific[t], heap[t]} \ {Null}  BY <1>2
<1> QED  BY <1>4, <1>5, <1>6, ExchangeStep

LEMMA FreeCountInv ==
    ASSUME IInv, LimitInv, CountInv, NEW t \in Threads, Free(t)
    PROVE  CountInv'
<1>1. PICK c \in Classes :
         /\ client[c] > 0
         /\ client' = [client EXCEPT ![c] = @ - 1]
         /\ \/ specific[t] # Null /\ FreeToCache(specific[t], c)
            \/ /\ Insert([d \in Classes |-> IF d = c THEN <<1>> ELSE <<>>])
               /\ UNCHANGED cache
    BY DEF Free
<1>2. UNCHANGED <<thread_heaps, pc, heap>> /\ pc[t] # "unlink"
    BY DEF Free, list, thread
<1>3. CASE specific[t] # Null /\ FreeToCache(specific[t], c)
    <2>1. specific[t] \in Heaps  BY <1>3, OfThread
    <2>2. Batches' /\ \E d : Exchange(specific[t], d)  BY <1>1, <1>3, <2>1, FreeToCacheRight
    <2>3. PICK d : Exchange(specific[t], d)  BY <2>2
    <2>4. specific[t] \in {specific[t], heap[t]} \ {Null}  BY <1>3
    <2> QED  BY <1>2, <2>2, <2>3, <2>4, ExchangeStep
<1>4. CASE /\ Insert([d \in Classes |-> IF d = c THEN <<1>> ELSE <<>>])
           /\ UNCHANGED cache
    <2> DEFINE calls == [d \in Classes |-> IF d = c THEN <<1>> ELSE <<>>]
    <2>1. \A x \in Classes : /\ SumFunction(calls[x]) = IF x = c THEN 1 ELSE 0
                             /\ ToSet(calls[x]) \subseteq 1 .. Batch[x]
        <3> TAKE x \in Classes
        <3>1. CASE x = c
            <4>1. calls[x] = <<1>>  BY <3>1
            <4>2. DOMAIN <<1>> = 1 .. 1 /\ <<1>>[1] = 1 /\ ToSet(<<1>>) = {1}  BY DEF ToSet
            <4>3. SumFunctionOnSet(<<1>>, 1 .. 1) = 1 * 1
                <5> DEFINE f == <<1>>
                <5>1. \A i \in 1 .. 1 : f[i] = 1  BY <4>2
                <5>2. 1 \in Nat /\ 1 \in Int  OBVIOUS
                <5> HIDE DEF f
                <5>3. SumFunctionOnSet(f, 1 .. 1) = 1 * 1  BY <5>1, <5>2, SumConstant
                <5> QED  BY <5>3 DEF f
            <4>4. 1 \in 1 .. Batch[x]  BY TablesAssumption
            <4> QED  BY <3>1, <4>1, <4>2, <4>3, <4>4 DEF SumFunction
        <3>2. CASE x # c
            <4>1. calls[x] = <<>> /\ DOMAIN <<>> = {} /\ ToSet(<<>>) = {}  BY <3>2 DEF ToSet
            <4> QED  BY <3>2, <4>1, SumEmpty DEF SumFunction
        <3> QED  BY <3>1, <3>2
    <2>2. Insert(calls)  BY <1>4
    <2> HIDE DEF calls
    <2>3. Batches'  BY <2>1, <2>2, InsertRight
    <2>4. /\ central' = [x \in Classes |-> central[x] + SumFunction(calls[x])]
          /\ central \in [Classes -> Nat] /\ client \in [Classes -> Nat]
        BY <2>2 DEF Insert, CountInv, Stock
    <2>5. ASSUME NEW x \in Classes
          PROVE  /\ central'[x] \in Nat /\ client'[x] \in Nat
                 /\ central'[x] + client'[x] = central[x] + client[x]
        <3>1. central[x] \in Nat /\ client[x] \in Nat  BY <2>4
        <3>2. CASE x = c
            <4>1. central'[x] = central[x] + 1 /\ client'[x] = client[x] - 1 /\ client[x] > 0
                BY <1>1, <2>1, <2>4, <3>2
            <4> QED  BY <3>1, <4>1
        <3>3. CASE x # c
            <4>1. central'[x] = central[x] + 0 /\ client'[x] = client[x]
                BY <1>1, <2>1, <2>4, <3>3
            <4> QED  BY <3>1, <4>1
        <3> QED  BY <3>2, <3>3
    <2>6. Stock'
        <3>1. central' = [x \in Classes |-> central'[x]] /\ client' = [x \in Classes |-> client'[x]]
            BY <1>1, <2>4
        <3> QED  BY <2>5, <3>1 DEF Stock
    <2>7. \A h \in Heaps : SameLists(cache[h], cache'[h])
        BY <1>4 DEF CountInv, Caches, ListsOK, Counted, SameLists
    <2> QED  BY <1>2, <2>3, <2>5, <2>6, <2>7, SameListsStep
<1> QED  BY <1>1, <1>3, <1>4

\* A step that moves no object.
LEMMA QuietStep ==
    ASSUME IInv, CountInv, UNCHANGED <<thread_heaps, cache, central, client>>, inserted' = {},
           \A u \in Threads : pc'[u] = "unlink" => pc[u] = "unlink" /\ heap'[u] = heap[u]
    PROVE  CountInv'
<1>1. \A h \in Heaps : SameLists(cache[h], cache'[h])
    BY DEF CountInv, Caches, ListsOK, Counted, SameLists
<1>2. Stock' /\ Batches' /\ \A c \in Classes : central'[c] + client'[c] = central[c] + client[c]
    BY DEF CountInv, Stock, Batches
<1> QED  BY <1>1, <1>2, SameListsStep

LEMMA SetSpecificCountInv ==
    ASSUME IInv, LimitInv, CountInv, NEW t \in Threads, SetSpecific(t)
    PROVE  CountInv'
<1>1. /\ heap[t] \in Heaps
      /\ cache' = [cache EXCEPT ![heap[t]] = LeavesSetspecific(cache[heap[t]])]
      /\ UNCHANGED <<thread_heaps, heap, central, client>> /\ inserted' = {}
      /\ pc' = [pc EXCEPT ![t] = "use"]
    BY OfThread DEF SetSpecific, GoTo, list, AtLabel
<1>2. ASSUME NEW h \in Heaps PROVE SameLists(cache[h], cache'[h])
    <2>1. Counted(cache[h])  BY DEF CountInv, Caches, ListsOK
    <2>2. cache'[h] = cache[h] \/ cache'[h] = LeavesSetspecific(cache[h])
        BY <1>1 DEF IInv, Shapes
    <2>3. SameLists(cache[h], cache[h]) /\ SameLists(cache[h], LeavesSetspecific(cache[h]))
        BY <2>1 DEF Counted, SameLists, LeavesSetspecific
    <2> QED  BY <2>2, <2>3
<1>3. Stock' /\ Batches' /\ \A c \in Classes : central'[c] + client'[c] = central[c] + client[c]
    BY <1>1 DEF CountInv, Stock, Batches
<1>4. \A u \in Threads : pc'[u] = "unlink" => pc[u] = "unlink" /\ heap'[u] = heap[u]
    BY <1>1, OfThread DEF Shapes
<1> QED  BY <1>1, <1>2, <1>3, <1>4, SameListsStep

LEMMA InitTSDCountInv ==
    ASSUME IInv, LimitInv, CountInv, InitTSD
    PROVE  CountInv'
<1>1. /\ \A h \in Heaps : cache'[h] = cache[h] \/ cache'[h] = [cache[h] EXCEPT !.tid = Main]
      /\ UNCHANGED <<thread_heaps, heap, central, client>> /\ inserted' = {}
      /\ pc' = [pc EXCEPT ![Main] = "malloc"]
    BY DEF InitTSD, GoTo, list, Rename
<1>2. ASSUME NEW h \in Heaps PROVE SameLists(cache[h], cache'[h])
    <2>1. Counted(cache[h])  BY DEF CountInv, Caches, ListsOK
    <2>2. SameLists(cache[h], cache[h]) /\ SameLists(cache[h], [cache[h] EXCEPT !.tid = Main])
        BY <2>1 DEF Counted, SameLists
    <2> QED  BY <1>1, <2>2
<1>3. Stock' /\ Batches' /\ \A c \in Classes : central'[c] + client'[c] = central[c] + client[c]
    BY <1>1 DEF CountInv, Stock, Batches
<1>4. \A u \in Threads : pc'[u] = "unlink" => pc[u] = "unlink" /\ heap'[u] = heap[u]
    BY <1>1 DEF IInv, Shapes
<1> QED  BY <1>1, <1>2, <1>3, <1>4, SameListsStep

\* A cache that comes on the list or leaves it is empty.
LEMMA ListChanges ==
    ASSUME IInv, LimitInv, CountInv, NEW h \in Heaps, NEW d, ListsOK(d), Becomes(h, d),
           \A c \in Classes : d.length[c] = 0,
           \/ thread_heaps' = thread_heaps \cup {h} /\ h \notin thread_heaps
           \/ /\ thread_heaps' = thread_heaps \ {h} /\ h \in thread_heaps
              /\ \A c \in Classes : cache[h].length[c] = 0,
           UNCHANGED <<central, client>>
    PROVE  Caches' /\ NothingStranded'
<1>1. /\ cache = [x \in Heaps |-> cache[x]] /\ thread_heaps \subseteq Heaps
      /\ IsFiniteSet(thread_heaps)
    BY DEF IInv, Shapes, LimitInv
<1>2. cache'[h] = d /\ \A x \in Heaps \ {h} : cache'[x] = cache[x]
    BY <1>1 DEF Becomes
<1>3. Caches'  BY <1>2 DEF CountInv, Caches, ListsOK, Counted, Bytes
<1>4. ASSUME NEW c \in Classes PROVE Cached(c)' = Cached(c)
    <2> DEFINE R == thread_heaps \ {h}
               f == [x \in thread_heaps |-> cache[x].length[c]]
               e == [x \in thread_heaps' |-> cache'[x].length[c]]
    <2>0. Cached(c) = SumFunctionOnSet(f, thread_heaps) /\ Cached(c)' = SumFunctionOnSet(e, thread_heaps')
        BY DEF Cached, SumFunction
    <2>1. \A x \in Heaps : cache[x].length[c] \in Int /\ cache'[x].length[c] \in Int
        BY <1>3 DEF CountInv, Caches, ListsOK, Counted
    <2>2. /\ IsFiniteSet(thread_heaps') /\ thread_heaps' \subseteq Heaps
          /\ R \in SUBSET thread_heaps /\ R \in SUBSET thread_heaps' /\ IsFiniteSet(R)
        BY <1>1, FS_AddElement, FS_RemoveElement
    <2>3. Numbers(f, thread_heaps) /\ Numbers(e, thread_heaps')  BY <1>1, <2>1, <2>2 DEF Numbers
    <2>4. /\ \A x \in thread_heaps \ R : f[x] = 0
          /\ \A x \in thread_heaps' \ R : e[x] = 0
          /\ \A x \in R : e[x] = f[x]
        BY <1>1, <1>2
    <2> HIDE DEF e, f, R
    <2>5. SumFunctionOnSet(f, thread_heaps) = SumFunctionOnSet(f, R)  BY <1>1, <2>2, <2>3, <2>4, SumZeros
    <2>6. SumFunctionOnSet(e, thread_heaps') = SumFunctionOnSet(e, R)  BY <2>2, <2>3, <2>4, SumZeros
    <2>7. SumFunctionOnSet(f, R) = SumFunctionOnSet(e, R)  BY <2>2, <2>4, SumSame
    <2> QED  BY <2>0, <2>5, <2>6, <2>7
<1>5. NothingStranded'
    <2> SUFFICES ASSUME NEW c \in Classes
                 PROVE  central'[c] + client'[c] + Cached(c)' = Total[c]
        BY DEF NothingStranded
    <2>1. central[c] + client[c] + Cached(c) = Total[c]  BY DEF CountInv, NothingStranded
    <2> QED  BY <1>4, <2>1
<1> QED  BY <1>3, <1>5

LEMMA CreateCountInv ==
    ASSUME IInv, LimitInv, CountInv, NEW t \in Threads, CreateCacheIfNecessary(t)
    PROVE  CountInv'
<1> DEFINE first(h) == IF h \in thread_heaps THEN cache[h] ELSE NewCache(Me(t))
           marked(h) == [first(h) EXCEPT !.in_setspecific = TRUE]
<1>1. PICK h \in Heaps :
         /\ \/ h \in Found(t) /\ UNCHANGED thread_heaps
            \/ h \notin thread_heaps /\ thread_heaps' = thread_heaps \cup {h}
         /\ \/ Becomes(h, first(h)) /\ pc' = [pc EXCEPT ![t] = "use"]
            \/ Becomes(h, marked(h)) /\ pc' = [pc EXCEPT ![t] = "set"]
         /\ heap' = [heap EXCEPT ![t] = h]
    BY DEF CreateCacheIfNecessary, Link, GoTo, list, Becomes
<1>2. UNCHANGED <<central, client>> /\ inserted' = {} /\ pc[t] \in {"run", "malloc"}
    BY DEF CreateCacheIfNecessary
<1>3. Stock' /\ Batches' /\ \A c \in Classes : central'[c] + client'[c] = central[c] + client[c]
    BY <1>2 DEF CountInv, Stock, Batches
<1>4. \A u \in Threads : pc'[u] = "unlink" => pc[u] = "unlink" /\ heap'[u] = heap[u]
    BY <1>1, <1>2, OfThread DEF Shapes
<1>5. Counted(first(h)) /\ SameLists(first(h), first(h)) /\ SameLists(first(h), marked(h))
    <2>1. Counted(first(h))
        BY NewCacheRight DEF CountInv, Caches, ListsOK
    <2> HIDE DEF first
    <2> QED  BY <2>1 DEF Counted, SameLists
<1>6. CASE h \in Found(t) /\ UNCHANGED thread_heaps
    <2>1. first(h) = cache[h]  BY <1>6 DEF Found
    <2>2. ASSUME NEW x \in Heaps PROVE SameLists(cache[x], cache'[x])
        <3>1. CASE x = h
            <4>1. cache'[h] = first(h) \/ cache'[h] = marked(h)
                <5> HIDE DEF first, marked
                <5> QED  BY <1>1 DEF Becomes, IInv, Shapes
            <4> HIDE DEF first, marked
            <4> QED  BY <1>5, <2>1, <3>1, <4>1
        <3>2. CASE x # h
            <4>1. cache'[x] = cache[x]
                <5> HIDE DEF first, marked
                <5> QED  BY <1>1, <3>2 DEF Becomes, IInv, Shapes
            <4> QED  BY <4>1 DEF CountInv, Caches, ListsOK, Counted, SameLists
        <3> QED  BY <3>1, <3>2
    <2> QED  BY <1>3, <1>4, <1>6, <2>2, SameListsStep
<1>7. CASE h \notin thread_heaps /\ thread_heaps' = thread_heaps \cup {h}
    <2>1. first(h) = NewCache(Me(t))  BY <1>7
    <2>2. ListsOK(first(h)) /\ \A c \in Classes : first(h).length[c] = 0  BY <2>1, NewCacheRight
    <2>3. PICK d \in {first(h), marked(h)} : Becomes(h, d)  BY <1>1
    <2>4. SameLists(first(h), d)  BY <1>5, <2>3
    <2> HIDE DEF first, marked
    <2>5. ListsOK(d) /\ \A c \in Classes : d.length[c] = 0
        BY <2>2, <2>4 DEF ListsOK, Counted, SameLists, Bytes
    <2>6. Caches' /\ NothingStranded'  BY <1>2, <1>7, <2>3, <2>5, ListChanges
    <2>7. Emptied'
        <3> SUFFICES ASSUME NEW u \in Threads, pc'[u] = "unlink", NEW c \in Classes
                     PROVE  cache'[heap'[u]].length[c] = 0
            BY DEF Emptied
        <3>1. pc[u] = "unlink" /\ heap'[u] = heap[u]  BY <1>4
        <3>2. heap[u] \in Heaps /\ heap[u] \in thread_heaps
            <4>1. heap[u] \in Heaps /\ heap[u] # Null  BY <3>1, OfThread DEF AtLabel
            <4> QED  BY <4>1 DEF IInv, Owned
        <3>3. cache'[heap[u]] = cache[heap[u]]  BY <1>7, <2>3, <3>2 DEF Becomes, IInv, Shapes
        <3>4. cache[heap[u]].length[c] = 0  BY <3>1 DEF CountInv, Emptied
        <3> QED  BY <3>1, <3>3, <3>4
    <2> QED  BY <1>3, <2>6, <2>7 DEF CountInv
<1> QED  BY <1>1, <1>6, <1>7

LEMMA DestroyCountInv ==
    ASSUME IInv, LimitInv, CountInv, NEW t \in Threads, Destroy(t)
    PROVE  CountInv'
<1>0. UNCHANGED <<thread_heaps, client>> /\ pc[t] = "run"
    BY DEF Destroy, list
<1>1. CASE specific[t] = Null
    <2>1. inserted' = {} /\ UNCHANGED <<cache, heap, pc, central>>  BY <1>1 DEF Destroy
    <2> QED  BY <1>0, <2>1, QuietStep
<1>2. CASE specific[t] # Null
    <2> DEFINE h == specific[t]
               own == cache[h]
               N == Cleanup(own)
               d == Release(own, N)
               calls == Calls(own, N)
    <2>1. /\ Becomes(h, d) /\ Insert(calls) /\ heap' = [heap EXCEPT ![t] = h]
          /\ pc' = [pc EXCEPT ![t] = "unlink"]
        BY <1>2 DEF Destroy, Becomes, GoTo
    <2>2. h \in Heaps /\ h \in {specific[t], heap[t]} \ {Null}  BY <1>2, OfThread
    <2> HIDE DEF h
    <2>3. ListsOK(own) /\ central \in [Classes -> Nat] /\ client \in [Classes -> Nat]
        BY <2>2 DEF CountInv, Caches, Stock
    <2> HIDE DEF own
    <2>4. Asks(own, N)  BY <2>3, AsksRight DEF ListsOK
    <2>5. /\ Counted(d) /\ \A c \in Classes : own.length[c] = d.length[c] + Given(own, N, c)
          /\ \A c \in Classes : /\ Given(own, N, c) \in 0 .. own.length[c]
                                /\ ToSet(calls[c]) \subseteq 1 .. Batch[c]
        BY <2>3, <2>4, ReleaseRight, CallsRight DEF ListsOK
    <2>6. ASSUME NEW c \in Classes PROVE Given(own, N, c) = own.length[c]
        <3>1. own.length[c] \in Nat  BY <2>3 DEF ListsOK, Counted
        <3>2. Given(own, N, c) = IF c \in DOMAIN N THEN Clip(own, N)[c] ELSE 0
            BY <2>3, <2>4, CallsRight DEF ListsOK
        <3>3. CASE own.length[c] > 0
            <4>1. c \in DOMAIN N /\ N[c] = own.length[c]  BY <3>3 DEF Cleanup
            <4>2. Clip(own, N)[c] = own.length[c]
                BY <2>3, <2>4, <4>1, ClipRight DEF ListsOK
            <4> QED  BY <3>2, <4>1, <4>2
        <3>4. CASE ~ (own.length[c] > 0)
            <4>1. c \notin DOMAIN N  BY <3>4 DEF Cleanup
            <4> QED  BY <3>1, <3>2, <3>4, <4>1
        <3> QED  BY <3>3, <3>4
    <2>7. \A c \in Classes : Given(own, N, c) = SumFunction(calls[c])  BY DEF Given
    <2> HIDE DEF d, calls, N
    <2>8. Batches'  BY <2>1, <2>5, InsertRight
    <2>9. ASSUME NEW c \in Classes
          PROVE  /\ d.length[c] = 0 /\ central'[c] \in Nat
                 /\ d.length[c] + central'[c] + client'[c] = Around(own, c)
                 /\ d.length[c] <= MaxFreeListLength
        <3>1. /\ central'[c] = central[c] + Given(own, N, c)
              /\ central[c] \in Nat /\ client[c] \in Nat /\ client'[c] = client[c]
              /\ own.length[c] \in Nat /\ d.length[c] \in Nat
              /\ own.length[c] = d.length[c] + Given(own, N, c)
              /\ Given(own, N, c) = own.length[c] /\ MaxFreeListLength \in Nat
            BY <1>0, <2>1, <2>3, <2>5, <2>6, <2>7, LimitsAssumption DEF Insert, ListsOK, Counted
        <3> QED  BY <3>1 DEF Around
    <2>10. Stock'
        <3>1. central' = [c \in Classes |-> central'[c]]  BY <2>1 DEF Insert
        <3> QED  BY <1>0, <2>3, <2>9, <3>1 DEF Stock
    <2>11. Exchange(h, d)  BY <2>1, <2>5, <2>9, <2>10 DEF Exchange, ListsOK, own
    <2>12. \A u \in Threads \ {t} : pc'[u] = pc[u] /\ heap'[u] = heap[u]
        BY <2>1, OfThread DEF Shapes
    <2>13. heap'[t] = h  BY <2>1, OfThread DEF Shapes
    <2> QED  BY <1>0, <2>2, <2>8, <2>9, <2>11, <2>12, <2>13, ExchangeStep
<1> QED  BY <1>1, <1>2

LEMMA DeleteCacheCountInv ==
    ASSUME IInv, LimitInv, CountInv, NEW t \in Threads, DeleteCache(t)
    PROVE  CountInv'
<1> DEFINE h == heap[t]
           d == NewCache(Zero)
<1>1. /\ pc[t] = "unlink" /\ thread_heaps' = thread_heaps \ {h} /\ Becomes(h, d)
      /\ heap' = [heap EXCEPT ![t] = Null] /\ pc' = [pc EXCEPT ![t] = "run"]
      /\ UNCHANGED <<central, client>> /\ inserted' = {}
    BY DEF DeleteCache, Becomes, GoTo
<1>2. h \in Heaps /\ h # Null /\ h \in thread_heaps
    <2>1. h \in Heaps /\ h # Null  BY <1>1, OfThread DEF AtLabel
    <2> QED  BY <2>1 DEF IInv, Owned
<1>3. \A c \in Classes : cache[h].length[c] = 0  BY <1>1 DEF CountInv, Emptied
<1>4. ListsOK(d) /\ \A c \in Classes : d.length[c] = 0  BY NewCacheRight
<1> HIDE DEF h, d
<1>5. Caches' /\ NothingStranded'  BY <1>1, <1>2, <1>3, <1>4, ListChanges
<1>6. Stock' /\ Batches'  BY <1>1 DEF CountInv, Stock, Batches
<1>7. Emptied'
    <2> SUFFICES ASSUME NEW u \in Threads, pc'[u] = "unlink", NEW c \in Classes
                 PROVE  cache'[heap'[u]].length[c] = 0
        BY DEF Emptied
    <2>1. u # t /\ pc[u] = "unlink" /\ heap'[u] = heap[u]  BY <1>1, OfThread DEF Shapes
    <2>2. heap[u] \in Heaps /\ heap[u] # h
        <3>1. heap[u] \in Heaps  BY <2>1, OfThread DEF AtLabel
        <3>2. Owned /\ Early /\ AtLabel(t) /\ AtLabel(u)  BY OfThread DEF IInv
        <3>3. h \in {specific[t], heap[t]} \ {Null}  BY <1>2 DEF h
        <3> QED  BY <2>1, <3>1, <3>2, <3>3, Exclusive
    <2>3. cache'[heap[u]] = cache[heap[u]]  BY <1>1, <2>2 DEF Becomes, IInv, Shapes
    <2>4. cache[heap[u]].length[c] = 0  BY <2>1 DEF CountInv, Emptied
    <2> QED  BY <2>1, <2>3, <2>4
<1> QED  BY <1>5, <1>6, <1>7 DEF CountInv

LEMMA CountInvStep == IInv /\ LimitInv /\ CountInv /\ [Next]_vars => CountInv'
<1> SUFFICES ASSUME IInv, LimitInv, CountInv, [Next]_vars PROVE CountInv'  OBVIOUS
<1>1. CASE UNCHANGED vars
    <2>1. /\ UNCHANGED <<thread_heaps, cache, central, client, inserted, pc, heap>>
        BY <1>1 DEF vars, list, thread, stock
    <2> QED  BY <2>1 DEF CountInv, Caches, ListsOK, Counted, Bytes, Stock, Emptied, Batches,
                         NothingStranded, Cached
<1>2. CASE InitTSD  BY <1>2, InitTSDCountInv
<1>3. CASE SetNumericProperty
    <2>1. UNCHANGED <<thread_heaps, cache, central, client, pc, heap>> /\ inserted' = {}
        BY <1>3 DEF SetNumericProperty, thread
    <2> QED  BY <2>1, QuietStep
<1>4. ASSUME NEW t \in Threads, Start(t) \/ Exit(t) \/ Gone(t) PROVE CountInv'
    <2>1. /\ UNCHANGED <<thread_heaps, cache, central, client, heap>> /\ inserted' = {}
          /\ \A u \in Threads : pc'[u] = "unlink" => pc[u] = "unlink"
        BY <1>4, OfThread DEF Start, Exit, Gone, GoTo, list, Shapes
    <2> QED  BY <2>1, QuietStep
<1>5. ASSUME NEW t \in Threads,
             \/ Malloc(t) \/ CreateCacheIfNecessary(t) \/ ReentrantMalloc(t)
             \/ SetSpecific(t) \/ UseCache(t) \/ Free(t) \/ Destroy(t) \/ DeleteCache(t)
      PROVE  CountInv'
    BY <1>5, MallocCountInv, CreateCountInv, ReentrantMallocCountInv, SetSpecificCountInv,
       UseCacheCountInv, FreeCountInv, DestroyCountInv, DeleteCacheCountInv
<1> QED  BY <1>1, <1>2, <1>3, <1>4, <1>5 DEF Next

-----------------------------------------------------------------------------
(* The theorems.                                                             *)

\* IInv, LimitInv, LeftInv and CountInv hold in every reachable state, whatever the
\* threads, the caches, the classes and the sizes.
THEOREM ThreadCacheInvariance == Spec => [](IInv /\ LimitInv /\ LeftInv /\ CountInv)
<1>1. Init => IInv /\ LimitInv /\ LeftInv /\ CountInv
    BY InitIInv, InitLimitInv, InitLeftInv, InitCountInv
<1>2. (IInv /\ LimitInv /\ LeftInv /\ CountInv) /\ [Next]_vars =>
        (IInv /\ LimitInv /\ LeftInv /\ CountInv)'
    BY NextIInv, LimitInvStep, LeftInvStep, CountInvStep
<1> QED  BY <1>1, <1>2, PTL DEF Spec

\* Allocate, Deallocate, Scavenge, Cleanup and the transfer of batches keep the size
\* of a cache what its lists hold and the lists within their bounds, and no object
\* is lost with a cache.
THEOREM CountsRightHolds == Spec => []CountsRight
<1>1. IInv /\ CountInv => CountsRight
    <2> SUFFICES ASSUME IInv, CountInv PROVE CountsRight  OBVIOUS
    <2>1. \A h \in thread_heaps : ListsOK(cache[h])  BY DEF IInv, Shapes, CountInv, Caches
    <2>2. SizeRight  BY <2>1 DEF SizeRight, ListsOK, Counted
    <2>3. ListsBounded  BY <2>1 DEF ListsBounded, ListsOK, Counted, CountInv, Batches
    <2> QED  BY <2>2, <2>3 DEF CountsRight, CountInv
<1> QED  BY <1>1, ThreadCacheInvariance, PTL

\* CreateCacheIfNecessary never makes a second cache for a thread, with any
\* number of threads that come and go under reused names.
THEOREM OneCachePerThreadHolds == Spec => []OneCachePerThread
<1>1. IInv => OneCachePerThread  BY DEF IInv
<1> QED  BY <1>1, ThreadCacheInvariance, PTL

\* The cache of GetCache, of CreateCacheIfNecessary and of DeleteCache is on the
\* list, is the thread's own, and is used by no other thread.
THEOREM CacheOwnedHolds == Spec => []CacheOwned
<1>1. IInv => CacheOwned
    <2> SUFFICES ASSUME IInv, NEW t \in Threads, NEW h \in {specific[t], heap[t]} \ {Null}
                 PROVE  /\ h \in thread_heaps
                        /\ cache[h].tid \in {t, Zero}
                        /\ cache[h].tid = Zero => t = Main
                        /\ \A u \in Threads \ {t} : h \notin {specific[u], heap[u]}
        BY DEF CacheOwned
    <2>1. h \in thread_heaps /\ cache[h].tid = Me(t)  BY DEF IInv, Owned
    <2>2. Me(t) \in {t, Zero} /\ (Me(t) = Zero => ~ tsd_inited)
        BY NamesAssumption DEF Me
    <2>3. ~ tsd_inited => t = Main  BY OfThread DEF AtLabel
    <2>4. \A u \in Threads \ {t} : h \notin {specific[u], heap[u]}
        BY Exclusive, OfThread DEF IInv
    <2> QED  BY <2>1, <2>2, <2>3, <2>4
<1> QED  BY <1>1, ThreadCacheInvariance, PTL

\* in_setspecific_ stops CreateCacheIfNecessary from calling setspecific from
\* inside setspecific.
THEOREM NoRecursionHolds == Spec => []NoRecursion
<1>1. IInv => NoRecursion  BY DEF IInv, Shapes, NoRecursion
<1> QED  BY <1>1, ThreadCacheInvariance, PTL

\* The limits of the caches add up to no more than the overall size, or are
\* kMinThreadCacheSize.
THEOREM LimitSharedHolds == Spec => []LimitShared
<1>1. LimitInv => LimitShared  BY DEF LimitInv
<1> QED  BY <1>1, ThreadCacheInvariance, PTL

\* A cache outlives the thread it was made for, and waits for another one of the
\* same name, only if destructors made it in the last round.
THEOREM AbandonedOnlyLateHolds == Spec => AbandonedOnlyLate
<1>1. IInv /\ LeftInv /\ [Next]_vars =>
        [\A t \in Threads :
           /\ pc[t] # "none" /\ pc'[t] = "none" /\ served[t]
           /\ \E h \in thread_heaps : cache[h].tid = t
           => round[t] = MaxRounds]_vars
    BY AbandonedStep
<1>2. Spec => [][Next]_vars  BY PTL DEF Spec
<1> QED  BY <1>1, <1>2, ThreadCacheInvariance, PTL DEF AbandonedOnlyLate

-----------------------------------------------------------------------------
(* More about sums.                                                          *)

LEMMA SumUnion ==
    ASSUME NEW S, IsFiniteSet(S), NEW R, IsFiniteSet(R), S \cap R = {}, NEW f,
           Numbers(f, S), Numbers(f, R)
    PROVE  SumFunctionOnSet(f, S \cup R) = SumFunctionOnSet(f, S) + SumFunctionOnSet(f, R)
<1> DEFINE Good == {A \in SUBSET R :
                      SumFunctionOnSet(f, S \cup A) = SumFunctionOnSet(f, S) + SumFunctionOnSet(f, A)}
<1>1. {} \in Good
    <2>1. S \cup {} = S /\ SumFunctionOnSet(f, S) \in Int  BY SumType
    <2> QED  BY <2>1, SumEmpty
<1>2. ASSUME NEW A \in SUBSET R, NEW x \in R \ A, A \in Good PROVE A \cup {x} \in Good
    <2> DEFINE B == A \cup {x}
               U == S \cup B
    <2>1. /\ IsFiniteSet(A) /\ IsFiniteSet(B) /\ B \ {x} = A /\ x \in B
          /\ Numbers(f, A) /\ Numbers(f, B)
        BY FS_Subset DEF Numbers
    <2>2. /\ IsFiniteSet(U) /\ U \ {x} = S \cup A /\ x \in U /\ Numbers(f, U)
        BY <2>1, FS_Union DEF Numbers
    <2> HIDE DEF U, B
    <2>3. /\ SumFunctionOnSet(f, B) = f[x] + SumFunctionOnSet(f, B \ {x})
          /\ SumFunctionOnSet(f, U) = f[x] + SumFunctionOnSet(f, U \ {x})
        BY <2>1, <2>2, SumSplit
    <2>4. /\ SumFunctionOnSet(f, A) \in Int /\ SumFunctionOnSet(f, S) \in Int /\ f[x] \in Int
        BY <2>1, SumType DEF Numbers
    <2>5. SumFunctionOnSet(f, S \cup A) = SumFunctionOnSet(f, S) + SumFunctionOnSet(f, A)
        BY <1>2
    <2>6. SumFunctionOnSet(f, U) = SumFunctionOnSet(f, S) + SumFunctionOnSet(f, B)
        <3>1. /\ SumFunctionOnSet(f, B) = f[x] + SumFunctionOnSet(f, A)
              /\ SumFunctionOnSet(f, U) = f[x] + SumFunctionOnSet(f, S \cup A)
            BY <2>1, <2>2, <2>3
        <3> QED  BY <2>4, <2>5, <3>1
    <2> QED  BY <2>6 DEF U, B
<1>3. R \in Good
    <2> HIDE DEF Good
    <2> QED  BY <1>1, <1>2, InductSet
<1> QED  BY <1>3

LEMMA SumSingle ==
    ASSUME NEW x, NEW f, f[x] \in Int
    PROVE  SumFunctionOnSet(f, {x}) = f[x]
<1>1. IsFiniteSet({x}) /\ Numbers(f, {x}) /\ {x} \ {x} = {}  BY FS_Singleton DEF Numbers
<1>2. SumFunctionOnSet(f, {x}) = f[x] + SumFunctionOnSet(f, {x} \ {x})  BY <1>1, SumSplit
<1> QED  BY <1>1, <1>2, SumEmpty

\* Term by term, sums are as near to zero as their terms.
LEMMA SumWithin ==
    ASSUME NEW S, IsFiniteSet(S), NEW f, NEW g, Numbers(f, S), Numbers(g, S),
           \A x \in S : - f[x] <= g[x] /\ g[x] <= f[x]
    PROVE  /\ - SumFunctionOnSet(f, S) <= SumFunctionOnSet(g, S)
           /\ SumFunctionOnSet(g, S) <= SumFunctionOnSet(f, S)
<1> DEFINE Good == {A \in SUBSET S :
                      /\ - SumFunctionOnSet(f, A) <= SumFunctionOnSet(g, A)
                      /\ SumFunctionOnSet(g, A) <= SumFunctionOnSet(f, A)}
<1>1. {} \in Good  BY SumEmpty
<1>2. ASSUME NEW A \in SUBSET S, NEW x \in S \ A, A \in Good PROVE A \cup {x} \in Good
    <2> DEFINE B == A \cup {x}
    <2>1. /\ IsFiniteSet(B) /\ IsFiniteSet(A) /\ B \ {x} = A /\ x \in B
          /\ Numbers(f, B) /\ Numbers(g, B) /\ Numbers(f, A) /\ Numbers(g, A)
        BY FS_Subset DEF Numbers
    <2> HIDE DEF B
    <2>2. /\ SumFunctionOnSet(f, B) = f[x] + SumFunctionOnSet(f, A)
          /\ SumFunctionOnSet(g, B) = g[x] + SumFunctionOnSet(g, A)
        <3>1. /\ SumFunctionOnSet(f, B) = f[x] + SumFunctionOnSet(f, B \ {x})
              /\ SumFunctionOnSet(g, B) = g[x] + SumFunctionOnSet(g, B \ {x})
            BY <2>1, SumSplit
        <3> QED  BY <2>1, <3>1
    <2>3. /\ SumFunctionOnSet(f, A) \in Int /\ SumFunctionOnSet(g, A) \in Int
          /\ f[x] \in Int /\ g[x] \in Int /\ - f[x] <= g[x] /\ g[x] <= f[x]
        BY <2>1, SumType DEF Numbers
    <2>4. /\ - SumFunctionOnSet(f, A) <= SumFunctionOnSet(g, A)
          /\ SumFunctionOnSet(g, A) <= SumFunctionOnSet(f, A)
        BY <1>2
    <2>5. /\ - SumFunctionOnSet(f, B) <= SumFunctionOnSet(g, B)
          /\ SumFunctionOnSet(g, B) <= SumFunctionOnSet(f, B)
        BY <2>2, <2>3, <2>4
    <2> QED  BY <2>5 DEF B
<1>3. S \in Good
    <2> HIDE DEF Good
    <2> QED  BY <1>1, <1>2, InductSet
<1> QED  BY <1>3

LEMMA SumNat ==
    ASSUME NEW S, IsFiniteSet(S), NEW f, \A x \in S : f[x] \in Nat
    PROVE  SumFunctionOnSet(f, S) \in Nat
<1> DEFINE z == [x \in S |-> 0]
<1>1. Numbers(f, S) /\ Numbers(z, S) /\ \A x \in S : - f[x] <= z[x] /\ z[x] <= f[x]
    BY DEF Numbers
<1>2. SumFunctionOnSet(z, S) = 0
    <2>1. {} \in SUBSET S /\ \A x \in S \ {} : z[x] = 0  OBVIOUS
    <2> HIDE DEF z
    <2>2. SumFunctionOnSet(z, S) = SumFunctionOnSet(z, {})  BY <1>1, <2>1, SumZeros
    <2> QED  BY <2>2, SumEmpty
<1> HIDE DEF z
<1>3. SumFunctionOnSet(z, S) <= SumFunctionOnSet(f, S)  BY <1>1, SumWithin
<1>4. SumFunctionOnSet(f, S) \in Int  BY <1>1, SumType
<1> QED  BY <1>2, <1>3, <1>4

\* A sum of some of the terms.
LEMMA SumPart ==
    ASSUME NEW S, IsFiniteSet(S), NEW f, \A x \in S : f[x] \in Nat, NEW R \in SUBSET S
    PROVE  SumFunctionOnSet(f, R) <= SumFunctionOnSet(f, S)
<1> DEFINE Q == S \ R
<1>1. IsFiniteSet(R) /\ IsFiniteSet(Q) /\ R \cap Q = {} /\ R \cup Q = S  BY FS_Subset
<1>2. Numbers(f, R) /\ Numbers(f, Q) /\ \A x \in Q : f[x] \in Nat  BY DEF Numbers
<1> HIDE DEF Q
<1>3. SumFunctionOnSet(f, S) = SumFunctionOnSet(f, R) + SumFunctionOnSet(f, Q)
    BY <1>1, <1>2, SumUnion
<1>4. SumFunctionOnSet(f, Q) \in Nat /\ SumFunctionOnSet(f, R) \in Int  BY <1>1, <1>2, SumNat, SumType
<1> QED  BY <1>3, <1>4

-----------------------------------------------------------------------------
(* Arithmetic modulo the range of a type.                                    *)

LEMMA DivisionInt ==
    ASSUME NEW x \in Int, NEW M \in Nat \ {0}
    PROVE  /\ x \div M \in Int /\ x % M \in Nat /\ x % M < M
           /\ x = (x \div M) * M + (x % M)
<1>1. x \div M \in Int /\ x % M \in 0 .. M - 1 /\ x = M * (x \div M) + (x % M)
    OBVIOUS
<1>2. M * (x \div M) = (x \div M) * M  BY <1>1
<1> QED  BY <1>1, <1>2

LEMMA NoMultipleBetween ==
    ASSUME NEW M \in Nat \ {0}, NEW k \in Int, k * M < M, - M < k * M
    PROVE  k = 0
<1>1. CASE k >= 1
    <2>1. PICK j \in Nat : k = 1 + j
        <3>1. k - 1 \in Nat /\ k = 1 + (k - 1)  BY <1>1
        <3> QED  BY <3>1
    <2>2. k * M = M + j * M /\ j * M >= 0  BY <2>1
    <2> QED  BY <2>2
<1>2. CASE k <= - 1
    <2>1. PICK j \in Nat : k = - 1 - j
        <3>1. - 1 - k \in Nat /\ k = - 1 - (- 1 - k)  BY <1>2
        <3> QED  BY <3>1
    <2>2. k * M = - M - j * M /\ j * M >= 0  BY <2>1
    <2> QED  BY <2>2
<1> QED  BY <1>1, <1>2

LEMMA SameModulo ==
    ASSUME NEW M \in Nat \ {0}, NEW x \in Int, NEW y \in Int, NEW k \in Int, x = y + k * M
    PROVE  x % M = y % M
<1> DEFINE p == x \div M
           r == x % M
           q == y \div M
           s == y % M
<1>1. p \in Int /\ r \in Nat /\ r < M /\ x = p * M + r  BY DivisionInt
<1>2. q \in Int /\ s \in Nat /\ s < M /\ y = q * M + s  BY DivisionInt
<1> HIDE DEF p, r, q, s
<1> DEFINE n == q + k - p
<1>3. r - s = n * M
    <2>1. n * M = q * M + k * M - p * M  BY <1>1, <1>2
    <2>2. q * M \in Int /\ k * M \in Int /\ p * M \in Int  BY <1>1, <1>2
    <2> HIDE DEF n
    <2> QED  BY <1>1, <1>2, <2>1, <2>2
<1>4. n = 0
    <2>1. n \in Int  BY <1>1, <1>2
    <2>2. r - s < M /\ - M < r - s  BY <1>1, <1>2
    <2> HIDE DEF n
    <2> QED  BY <1>3, <2>1, <2>2, NoMultipleBetween
<1>5. r - s = 0
    <2> HIDE DEF n
    <2> QED  BY <1>3, <1>4
<1> QED  BY <1>1, <1>2, <1>5 DEF r, s

\* A sum of three numbers that were taken modulo M themselves.
LEMMA SumModulo ==
    ASSUME NEW M \in Nat \ {0}, NEW x \in Int, NEW y \in Int, NEW z \in Int
    PROVE  ((x % M) + (y % M) + (z % M)) % M = (x + y + z) % M
<1> DEFINE p == x \div M
           q == y \div M
           r == z \div M
           a == x % M
           b == y % M
           c == z % M
<1>1. /\ p \in Int /\ q \in Int /\ r \in Int /\ a \in Int /\ b \in Int /\ c \in Int
      /\ x = p * M + a /\ y = q * M + b /\ z = r * M + c
    BY DivisionInt
<1>0. a = x % M /\ b = y % M /\ c = z % M  OBVIOUS
<1> HIDE DEF p, q, r, a, b, c
<1>2. x + y + z = (a + b + c) + (p + q + r) * M
    <2>1. (p + q + r) * M = p * M + q * M + r * M  BY <1>1
    <2>2. p * M \in Int /\ q * M \in Int /\ r * M \in Int  BY <1>1
    <2> QED  BY <1>1, <2>1, <2>2
<1>3. a + b + c \in Int /\ p + q + r \in Int /\ x + y + z \in Int  BY <1>1
<1>4. (x + y + z) % M = (a + b + c) % M  BY <1>2, <1>3, SameModulo
<1> QED  BY <1>0, <1>4

-----------------------------------------------------------------------------
(* The parts and the order they are read in.                                 *)

LEMMA PartsAre ==
    /\ IsFiniteSet(CentralLists) /\ IsFiniteSet(TransferCaches) /\ IsFiniteSet(ThreadCaches)
    /\ IsFiniteSet(Parts)
    /\ System \notin Parts /\ PageHeap \in Parts
    /\ PageHeap \notin CentralLists \cup TransferCaches \cup ThreadCaches
    /\ CentralLists \cap TransferCaches = {} /\ CentralLists \cap ThreadCaches = {}
    /\ TransferCaches \cap ThreadCaches = {}
<1>1. IsFiniteSet(ClassIds) /\ IsFiniteSet(CacheIds)  BY BoundsAssumption
<1>2. IsFiniteSet(CentralLists)
    <2> DEFINE f == [c \in ClassIds |-> Central(c)]
    <2>1. f \in Surjection(ClassIds, CentralLists)  BY DEF CentralLists, Surjection
    <2> QED  BY <1>1, <2>1, FS_Surjection
<1>3. IsFiniteSet(TransferCaches)
    <2> DEFINE f == [c \in ClassIds |-> Transfer(c)]
    <2>1. f \in Surjection(ClassIds, TransferCaches)  BY DEF TransferCaches, Surjection
    <2> QED  BY <1>1, <2>1, FS_Surjection
<1>4. IsFiniteSet(ThreadCaches)
    <2> DEFINE f == [h \in CacheIds |-> Cache(h)]
    <2>1. f \in Surjection(CacheIds, ThreadCaches)  BY DEF ThreadCaches, Surjection
    <2> QED  BY <1>1, <2>1, FS_Surjection
<1>5. IsFiniteSet(Parts)
    <2>1. IsFiniteSet({PageHeap})  BY FS_Singleton
    <2>2. IsFiniteSet(CentralLists \cup TransferCaches)  BY <1>2, <1>3, FS_Union
    <2>3. IsFiniteSet((CentralLists \cup TransferCaches) \cup ThreadCaches)  BY <1>4, <2>2, FS_Union
    <2> QED  BY <2>1, <2>3, FS_Union DEF Parts
<1>6. \A c, d : /\ Central(c) # Transfer(d) /\ Central(c) # Cache(d) /\ Transfer(c) # Cache(d)
    BY DEF Central, Transfer, Cache
<1>7. \A c : /\ Central(c) # PageHeap /\ Transfer(c) # PageHeap /\ Cache(c) # PageHeap
             /\ Central(c) # System /\ Transfer(c) # System /\ Cache(c) # System
    <2>1. \A c : /\ Len(Central(c)) = 2 /\ Len(Transfer(c)) = 2 /\ Len(Cache(c)) = 2
        BY DEF Central, Transfer, Cache
    <2>2. Len(PageHeap) = 1 /\ Len(System) = 1  BY DEF PageHeap, System
    <2> QED  BY <2>1, <2>2
<1>8. PageHeap # System  BY DEF PageHeap, System
<1>9. System \notin Parts /\ PageHeap \in Parts
    BY <1>7, <1>8 DEF Parts, CentralLists, TransferCaches, ThreadCaches
<1>10. PageHeap \notin CentralLists \cup TransferCaches \cup ThreadCaches
    BY <1>7 DEF CentralLists, TransferCaches, ThreadCaches
<1>11. /\ CentralLists \cap TransferCaches = {} /\ CentralLists \cap ThreadCaches = {}
       /\ TransferCaches \cap ThreadCaches = {}
    BY <1>6 DEF CentralLists, TransferCaches, ThreadCaches
<1> QED  BY <1>2, <1>3, <1>4, <1>5, <1>9, <1>10, <1>11

\* Every element of a set is in its sequence.
LEMMA InSequence ==
    ASSUME NEW S, IsFiniteSet(S)
    PROVE  /\ Cardinality(S) \in Nat /\ \A i \in 1 .. Cardinality(S) : SetToSeq(S)[i] \in S
           /\ \A x \in S : \E i \in 1 .. Cardinality(S) : SetToSeq(S)[i] = x
<1> DEFINE n == Cardinality(S)
           f == SetToSeq(S)
<1>1. n \in Nat /\ ExistsBijection(1 .. n, S)  BY FS_CardinalityType
<1>2. PICK g : g \in Bijection(1 .. n, S)  BY <1>1 DEF ExistsBijection
<1>3. g \in [1 .. n -> S] /\ IsInjective(g)  BY <1>2 DEF Bijection, Injection
<1>4. f \in [1 .. n -> S] /\ IsInjective(f)  BY <1>3 DEF SetToSeq
<1>5. f \in Injection(1 .. n, S)  BY <1>4 DEF Injection
<1> HIDE DEF f
<1>6. IsFiniteSet(1 .. n) /\ Cardinality(1 .. n) = n
    <2> HIDE DEF n
    <2>1. 1 \in Int /\ n \in Int /\ (IF 1 > n THEN 0 ELSE n - 1 + 1) = n  BY <1>1
    <2> QED  BY <2>1, FS_Interval
<1>7. f \in Surjection(1 .. n, S)  BY <1>5, <1>6, FS_Injection
<1> QED  BY <1>1, <1>4, <1>7 DEF Surjection, f

LEMMA IntervalsSame ==
    ASSUME NEW m \in Nat, NEW n \in Nat, 1 .. m = 1 .. n
    PROVE  m = n
<1>1. m < n => n \in 1 .. n /\ n \notin 1 .. m  OBVIOUS
<1>2. n < m => m \in 1 .. m /\ m \notin 1 .. n  OBVIOUS
<1> QED  BY <1>1, <1>2

\* One read is of one part, but for that of the page heap, which is of the bytes
\* from the system too; and every part is read.
LEMMA ReadsAre ==
    /\ Len(Reads) \in Nat \ {0}
    /\ \A i \in 1 .. Len(Reads) :
          Reads[i] = {PageHeap, System} \/ \E p \in Parts \ {PageHeap} : Reads[i] = {p}
    /\ \A p \in Parts \cup {System} : \E i \in 1 .. Len(Reads) : p \in Reads[i]
<1> DEFINE cs == SetToSeq(ClassIds)
           hs == SetToSeq(CacheIds)
           k == Cardinality(ClassIds)
           n == 2 * k
           m == Cardinality(CacheIds)
           N == n + m + 1
           R(i) == IF i <= n
                   THEN {IF i % 2 = 1 THEN Central(cs[(i + 1) \div 2]) ELSE Transfer(cs[i \div 2])}
                   ELSE IF i <= n + m THEN {Cache(hs[i - n])} ELSE {PageHeap, System}
           All == Parts \cup {System}
<1>1. /\ k \in Nat /\ \A i \in 1 .. k : cs[i] \in ClassIds
      /\ \A c \in ClassIds : \E i \in 1 .. k : cs[i] = c
    BY InSequence, BoundsAssumption
<1>2. /\ m \in Nat /\ \A i \in 1 .. m : hs[i] \in CacheIds
      /\ \A h \in CacheIds : \E i \in 1 .. m : hs[i] = h
    BY InSequence, BoundsAssumption
<1>3. Reads = [i \in 1 .. N |-> R(i)]  BY DEF Reads
<1> HIDE DEF cs, hs, k, m
<1>4. n \in Nat /\ N \in Nat \ {0}  BY <1>1, <1>2
<1>5. /\ \A i \in 1 .. k : 2 * i \in 1 .. n /\ (2 * i) \div 2 = i /\ (2 * i) % 2 = 0
      /\ \A i \in 1 .. k : 2 * i - 1 \in 1 .. n /\ ((2 * i - 1) + 1) \div 2 = i /\ (2 * i - 1) % 2 = 1
      /\ \A i \in 1 .. n : i % 2 = 1 => (i + 1) \div 2 \in 1 .. k
      /\ \A i \in 1 .. n : i % 2 # 1 => i \div 2 \in 1 .. k
    BY <1>1
<1>6. ASSUME NEW i \in 1 .. N
      PROVE  R(i) = {PageHeap, System} \/ \E p \in Parts \ {PageHeap} : R(i) = {p}
    <2>1. CASE i <= n /\ i % 2 = 1
        <3>1. (i + 1) \div 2 \in 1 .. k  BY <1>4, <1>5, <2>1
        <3>2. Central(cs[(i + 1) \div 2]) \in Parts \ {PageHeap}
            BY <1>1, <3>1, PartsAre DEF Parts, CentralLists
        <3>3. R(i) = {Central(cs[(i + 1) \div 2])}  BY <2>1
        <3> QED  BY <3>2, <3>3
    <2>2. CASE i <= n /\ i % 2 # 1
        <3>1. i \div 2 \in 1 .. k  BY <1>4, <1>5, <2>2
        <3>2. Transfer(cs[i \div 2]) \in Parts \ {PageHeap}
            BY <1>1, <3>1, PartsAre DEF Parts, TransferCaches
        <3>3. R(i) = {Transfer(cs[i \div 2])}  BY <2>2
        <3> QED  BY <3>2, <3>3
    <2>3. CASE ~ (i <= n) /\ i <= n + m
        <3>1. i - n \in 1 .. m  BY <1>2, <1>4, <2>3
        <3>2. Cache(hs[i - n]) \in Parts \ {PageHeap}
            BY <1>2, <3>1, PartsAre DEF Parts, ThreadCaches
        <3>3. R(i) = {Cache(hs[i - n])}  BY <2>3
        <3> QED  BY <3>2, <3>3
    <2>4. CASE ~ (i <= n) /\ ~ (i <= n + m)  BY <2>4
    <2> QED  BY <2>1, <2>2, <2>3, <2>4
<1>7. ASSUME NEW p \in All PROVE \E i \in 1 .. N : p \in R(i)
    <2>1. CASE p \in CentralLists
        <3>1. PICK c \in ClassIds : p = Central(c)  BY <2>1 DEF CentralLists
        <3>2. PICK j \in 1 .. k : cs[j] = c  BY <1>1
        <3>3. /\ 2 * j - 1 \in 1 .. n /\ ((2 * j - 1) + 1) \div 2 = j /\ (2 * j - 1) % 2 = 1
              /\ 2 * j - 1 \in 1 .. N
            BY <1>2, <1>4, <1>5
        <3> DEFINE i == 2 * j - 1
        <3>4. i \in 1 .. N /\ i <= n /\ i % 2 = 1 /\ cs[(i + 1) \div 2] = c  BY <1>4, <3>2, <3>3
        <3> HIDE DEF i
        <3>5. p \in R(i)  BY <3>1, <3>4
        <3> QED  BY <3>4, <3>5
    <2>2. CASE p \in TransferCaches
        <3>1. PICK c \in ClassIds : p = Transfer(c)  BY <2>2 DEF TransferCaches
        <3>2. PICK j \in 1 .. k : cs[j] = c  BY <1>1
        <3>3. 2 * j \in 1 .. n /\ (2 * j) \div 2 = j /\ (2 * j) % 2 = 0 /\ 2 * j \in 1 .. N
            BY <1>2, <1>4, <1>5
        <3> DEFINE i == 2 * j
        <3>4. i \in 1 .. N /\ i <= n /\ i % 2 # 1 /\ cs[i \div 2] = c  BY <1>4, <3>2, <3>3
        <3> HIDE DEF i
        <3>5. p \in R(i)  BY <3>1, <3>4
        <3> QED  BY <3>4, <3>5
    <2>3. CASE p \in ThreadCaches
        <3>1. PICK h \in CacheIds : p = Cache(h)  BY <2>3 DEF ThreadCaches
        <3>2. PICK j \in 1 .. m : hs[j] = h  BY <1>2
        <3> DEFINE i == n + j
        <3>3. i \in 1 .. N /\ ~ (i <= n) /\ i <= n + m /\ i - n = j  BY <1>2, <1>4
        <3> HIDE DEF i
        <3>4. p \in R(i)  BY <3>1, <3>2, <3>3
        <3> QED  BY <3>3, <3>4
    <2>4. CASE p \in {PageHeap, System}
        <3>1. N \in 1 .. N /\ ~ (N <= n) /\ ~ (N <= n + m)  BY <1>2, <1>4
        <3>2. R(N) = {PageHeap, System}  BY <3>1
        <3> HIDE DEF R
        <3> QED  BY <2>4, <3>1, <3>2
    <2> QED  BY <2>1, <2>2, <2>3, <2>4 DEF Parts
<1> HIDE DEF R, N
<1>8. Len(Reads) = N /\ \A i \in 1 .. N : Reads[i] = R(i)
    <2>1. \A i \in 1 .. N : R(i) \in SUBSET All  BY <1>6, PartsAre
    <2> HIDE DEF All
    <2>2. Reads \in [1 .. N -> SUBSET All]  BY <1>3, <2>1
    <2>3. Len(Reads) \in Nat /\ DOMAIN Reads = 1 .. Len(Reads)
        <3>1. Reads \in Seq(SUBSET All)  BY <1>4, <2>2
        <3> QED  BY <3>1
    <2>4. 1 .. Len(Reads) = 1 .. N  BY <2>2, <2>3
    <2> QED  BY <1>3, <1>4, <2>3, <2>4, IntervalsSame
<1> QED  BY <1>4, <1>6, <1>7, <1>8

-----------------------------------------------------------------------------
(* How far what was read is from what is there.                              *)

\* The parts of which ExtractStats has read what it will report.
Seen == IF doing = "extract" THEN UNION {Reads[i] : i \in 1 .. next - 1}
        ELSE IF doing = "report" THEN Parts \cup {System} ELSE {}

\* What was freed into a part, less what was taken from it, since it was read; of
\* the page heap, which grows with the bytes from the system, without the growth.
Gap(seen, sys, fr, st, p) ==
    IF p \notin seen THEN 0
    ELSE IF p = PageHeap THEN (fr[PageHeap] - sys) - (st[PageHeap] - st[System]) ELSE fr[p] - st[p]
AbsOf(n) == IF n < 0 THEN - n ELSE n
Gaps(seen, sys, fr, st) == [p \in Parts |-> Gap(seen, sys, fr, st, p)]
GapSizes(seen, sys, fr, st) == [p \in Parts |-> AbsOf(Gap(seen, sys, fr, st, p))]
\* The parts that were read changed by no more than was moved, in sum; the bytes
\* from the system did, too.
Within(seen, sys, fr, st, n) ==
    /\ SumFunctionOnSet(GapSizes(seen, sys, fr, st), Parts) <= n
    /\ System \in seen => AbsOf(sys - st[System]) <= n

StatsTypes ==
    /\ system_bytes \in Nat /\ free \in [Parts -> Nat] /\ moved \in Nat
    /\ stats \in [Parts \cup {System} -> Nat]
    /\ doing \in {"idle", "extract", "report", "fill"}
    /\ next \in 1 .. Len(Reads)
    /\ doing # "extract" => next = 1

StatsInv == StatsTypes /\ Within(Seen, system_bytes, free, stats, moved)

LEMMA GapTypes ==
    ASSUME NEW seen, NEW sys \in Nat, NEW fr \in [Parts -> Nat], NEW st \in [Parts \cup {System} -> Nat]
    PROVE  /\ \A p \in Parts : Gap(seen, sys, fr, st, p) \in Int
           /\ \A p \in Parts : GapSizes(seen, sys, fr, st)[p] \in Nat
           /\ Numbers(Gaps(seen, sys, fr, st), Parts) /\ Numbers(GapSizes(seen, sys, fr, st), Parts)
           /\ SumFunctionOnSet(GapSizes(seen, sys, fr, st), Parts) \in Nat
<1>1. ASSUME NEW p \in Parts PROVE Gap(seen, sys, fr, st, p) \in Int
    <2>1. /\ fr[p] \in Nat /\ st[p] \in Nat /\ st[System] \in Nat
          /\ fr[PageHeap] \in Nat /\ st[PageHeap] \in Nat
        BY PartsAre
    <2> QED  BY <2>1 DEF Gap
<1>2. ASSUME NEW p \in Parts PROVE GapSizes(seen, sys, fr, st)[p] \in Nat
    <2>1. Gap(seen, sys, fr, st, p) \in Int  BY <1>1
    <2> QED  BY <2>1 DEF GapSizes, AbsOf
<1>3. Numbers(Gaps(seen, sys, fr, st), Parts)  BY <1>1 DEF Gaps, Numbers
<1>4. Numbers(GapSizes(seen, sys, fr, st), Parts)  BY <1>2 DEF Numbers
<1>5. SumFunctionOnSet(GapSizes(seen, sys, fr, st), Parts) \in Nat  BY <1>2, PartsAre, SumNat
<1> QED  BY <1>1, <1>2, <1>3, <1>4, <1>5

\* Nothing was read: nothing is far.
LEMMA WithinNothing ==
    ASSUME NEW sys \in Nat, NEW fr \in [Parts -> Nat], NEW st \in [Parts \cup {System} -> Nat],
           NEW n \in Nat
    PROVE  Within({}, sys, fr, st, n)
<1> DEFINE f == GapSizes({}, sys, fr, st)
<1>1. \A p \in Parts : f[p] = 0  BY DEF GapSizes, AbsOf, Gap
<1>2. Numbers(f, Parts) /\ {} \in SUBSET Parts  BY GapTypes
<1> HIDE DEF f
<1>3. SumFunctionOnSet(f, Parts) = SumFunctionOnSet(f, {})  BY <1>1, <1>2, PartsAre, SumZeros
<1>4. SumFunctionOnSet(f, Parts) <= n  BY <1>3, SumEmpty
<1> QED  BY <1>4 DEF Within, f

\* n bytes enter or leave one part.
LEMMA WithinMoves ==
    ASSUME NEW seen, NEW sys \in Nat, NEW fr \in [Parts -> Nat], NEW st \in [Parts \cup {System} -> Nat],
           NEW n \in Nat, NEW N \in Nat, Within(seen, sys, fr, st, N),
           NEW gr \in [Parts -> Nat], NEW p \in Parts, \A q \in Parts \ {p} : gr[q] = fr[q],
           gr[p] = fr[p] + n \/ gr[p] = fr[p] - n
    PROVE  Within(seen, sys, gr, st, N + n)
<1> DEFINE f == GapSizes(seen, sys, fr, st)
           g == GapSizes(seen, sys, gr, st)
<1>1. \A q \in Parts \ {p} : g[q] = f[q]
    <2> SUFFICES ASSUME NEW q \in Parts \ {p} PROVE Gap(seen, sys, gr, st, q) = Gap(seen, sys, fr, st, q)
        BY DEF GapSizes
    <2> QED  BY DEF Gap
<1>2. g[p] - f[p] <= n
    <2> DEFINE a == Gap(seen, sys, fr, st, p)
               b == Gap(seen, sys, gr, st, p)
    <2>1. a \in Int /\ b \in Int  BY GapTypes
    <2>2. b = a \/ b = a + n \/ b = a - n
        <3>1. /\ fr[p] \in Nat /\ gr[p] \in Nat /\ st[p] \in Nat /\ st[System] \in Nat
              /\ fr[PageHeap] \in Nat /\ gr[PageHeap] \in Nat /\ st[PageHeap] \in Nat
            BY PartsAre
        <3>2. CASE p \notin seen  BY <3>2 DEF Gap
        <3>3. CASE p \in seen /\ p = PageHeap
            <4>1. a = (fr[p] - sys) - (st[p] - st[System]) /\ b = (gr[p] - sys) - (st[p] - st[System])
                BY <3>3 DEF Gap
            <4> HIDE DEF a, b
            <4> QED  BY <3>1, <4>1
        <3>4. CASE p \in seen /\ p # PageHeap
            <4>1. a = fr[p] - st[p] /\ b = gr[p] - st[p]  BY <3>4 DEF Gap
            <4> HIDE DEF a, b
            <4> QED  BY <3>1, <4>1
        <3> QED  BY <3>2, <3>3, <3>4
    <2>3. f[p] = AbsOf(a) /\ g[p] = AbsOf(b)  BY DEF GapSizes
    <2> HIDE DEF a, b, f, g
    <2> QED  BY <2>1, <2>2, <2>3 DEF AbsOf
<1>3. Numbers(f, Parts) /\ Numbers(g, Parts) /\ f[p] \in Nat /\ g[p] \in Nat  BY GapTypes
<1>4. SumFunctionOnSet(f, Parts) \in Nat /\ SumFunctionOnSet(f, Parts) <= N  BY GapTypes DEF Within
<1> HIDE DEF f, g
<1>5. SumFunctionOnSet(g, Parts) = SumFunctionOnSet(f, Parts) + (g[p] - f[p])
    BY <1>1, <1>3, PartsAre, SumChange
<1>6. SumFunctionOnSet(g, Parts) <= N + n  BY <1>2, <1>3, <1>4, <1>5
<1>7. System \in seen => AbsOf(sys - st[System]) <= N + n
    <2>1. sys - st[System] \in Int  OBVIOUS
    <2>2. AbsOf(sys - st[System]) \in Int  BY <2>1 DEF AbsOf
    <2> QED  BY <2>2 DEF Within
<1> QED  BY <1>6, <1>7 DEF Within, g

\* The page heap grows by n bytes from the system.
LEMMA WithinGrows ==
    ASSUME NEW seen, NEW sys \in Nat, NEW fr \in [Parts -> Nat], NEW st \in [Parts \cup {System} -> Nat],
           NEW n \in Nat, NEW N \in Nat, Within(seen, sys, fr, st, N)
    PROVE  Within(seen, sys + n, [fr EXCEPT ![PageHeap] = @ + n], st, N + n)
<1> DEFINE gr == [fr EXCEPT ![PageHeap] = @ + n]
<1>1. GapSizes(seen, sys + n, gr, st) = GapSizes(seen, sys, fr, st)
    <2> SUFFICES ASSUME NEW p \in Parts PROVE Gap(seen, sys + n, gr, st, p) = Gap(seen, sys, fr, st, p)
        BY DEF GapSizes
    <2>1. /\ fr[PageHeap] \in Nat /\ gr[PageHeap] = fr[PageHeap] + n
          /\ st[PageHeap] \in Nat /\ st[System] \in Nat /\ (p # PageHeap => gr[p] = fr[p])
        BY PartsAre
    <2> HIDE DEF gr
    <2>2. (gr[PageHeap] - (sys + n)) - (st[PageHeap] - st[System])
          = (fr[PageHeap] - sys) - (st[PageHeap] - st[System])
        BY <2>1
    <2> QED  BY <2>1, <2>2 DEF Gap
<1>2. SumFunctionOnSet(GapSizes(seen, sys, fr, st), Parts) \in Nat  BY GapTypes
<1>3. System \in seen => AbsOf((sys + n) - st[System]) <= N + n
    <2> DEFINE a == st[System]
    <2>1. a \in Nat /\ (System \in seen => AbsOf(sys - a) <= N)  BY DEF Within
    <2> HIDE DEF a
    <2>2. System \in seen => AbsOf((sys + n) - a) <= N + n  BY <2>1 DEF AbsOf
    <2> QED  BY <2>2 DEF a
<1> HIDE DEF gr
<1> QED  BY <1>1, <1>2, <1>3 DEF Within, gr

\* What is read now is right.
LEMMA WithinRead ==
    ASSUME NEW seen \in SUBSET (Parts \cup {System}), NEW sys \in Nat, NEW fr \in [Parts -> Nat],
           NEW st \in [Parts \cup {System} -> Nat], NEW N \in Nat, Within(seen, sys, fr, st, N),
           NEW read \in SUBSET (Parts \cup {System}), System \in read <=> PageHeap \in read,
           NEW su \in [Parts \cup {System} -> Nat],
           \A p \in Parts \cup {System} :
              su[p] = IF p \notin read THEN st[p] ELSE IF p = System THEN sys ELSE fr[p]
    PROVE  Within(seen \cup read, sys, fr, su, N)
<1> DEFINE f == GapSizes(seen, sys, fr, st)
           g == GapSizes(seen \cup read, sys, fr, su)
<1>1. /\ \A p \in Parts : f[p] \in Nat /\ g[p] \in Nat
      /\ Numbers(f, Parts) /\ Numbers(g, Parts)
    BY GapTypes
<1>2. ASSUME NEW p \in Parts PROVE g[p] <= f[p]
    <2>1. /\ fr[p] \in Nat /\ fr[PageHeap] \in Nat /\ p # System /\ PageHeap # System
          /\ PageHeap \in Parts
        BY PartsAre
    <2>2. CASE p \in read
        <3>1. su[p] = fr[p] /\ (p = PageHeap => su[System] = sys)  BY <2>1, <2>2
        <3>2. Gap(seen \cup read, sys, fr, su, p) = 0  BY <2>1, <2>2, <3>1 DEF Gap
        <3>3. g[p] = 0  BY <3>2 DEF GapSizes, AbsOf
        <3> QED  BY <1>1, <3>3
    <2>3. CASE p \notin read
        <3>1. su[p] = st[p] /\ (p = PageHeap => su[System] = st[System])  BY <2>1, <2>3
        <3>2. Gap(seen \cup read, sys, fr, su, p) = Gap(seen, sys, fr, st, p)
            BY <2>3, <3>1 DEF Gap
        <3>3. g[p] = f[p]  BY <3>2 DEF GapSizes
        <3> QED  BY <1>1, <3>3
    <2> QED  BY <2>2, <2>3
<1>3. SumFunctionOnSet(f, Parts) <= N /\ SumFunctionOnSet(f, Parts) \in Nat
      /\ SumFunctionOnSet(g, Parts) \in Nat
    BY GapTypes DEF Within
<1> HIDE DEF f, g
<1>4. SumFunctionOnSet(g, Parts) <= SumFunctionOnSet(f, Parts)
    <2>1. \A p \in Parts : - f[p] <= g[p] /\ g[p] <= f[p]  BY <1>1, <1>2
    <2> QED  BY <1>1, <2>1, PartsAre, SumWithin
<1>5. System \in seen \cup read => AbsOf(sys - su[System]) <= N
    <2>1. System \in read => AbsOf(sys - su[System]) = 0  BY DEF AbsOf
    <2>2. System \notin read => su[System] = st[System]  OBVIOUS
    <2> QED  BY <2>1, <2>2 DEF Within
<1>6. SumFunctionOnSet(g, Parts) <= N  BY <1>3, <1>4
<1> QED  BY <1>5, <1>6 DEF Within, g

-----------------------------------------------------------------------------
(* The inductive invariant of ExtractStats.                                  *)

LEMMA SeenIs ==
    ASSUME StatsTypes
    PROVE  /\ Seen \subseteq Parts \cup {System}
           /\ \A i \in 1 .. Len(Reads) :
                Reads[i] \subseteq Parts \cup {System} /\ (System \in Reads[i] <=> PageHeap \in Reads[i])
<1>1. \A i \in 1 .. Len(Reads) :
         Reads[i] \subseteq Parts \cup {System} /\ (System \in Reads[i] <=> PageHeap \in Reads[i])
    BY ReadsAre, PartsAre
<1>2. \A i \in 1 .. next - 1 : i \in 1 .. Len(Reads)  BY ReadsAre DEF StatsTypes
<1> QED  BY <1>1, <1>2 DEF Seen

LEMMA InitStats == Init_T => StatsInv
<1> SUFFICES ASSUME Init_T PROVE StatsInv  OBVIOUS
<1>1. StatsTypes  BY ReadsAre DEF Init_T, StatsTypes
<1>2. Seen = {}  BY DEF Init_T, Seen
<1> QED  BY <1>1, <1>2, WithinNothing DEF StatsInv, StatsTypes

\* Memory that moves.
LEMMA CountStep ==
    ASSUME StatsInv, NEW n \in Nat, Count(n), UNCHANGED <<doing, next, stats>>,
           system_bytes' \in Nat, free' \in [Parts -> Nat],
           Within(Seen, system_bytes', free', stats, moved + n)
    PROVE  StatsInv'
<1>1. Seen' = Seen  BY DEF Seen
<1>2. moved' \in Nat  BY DEF StatsInv, StatsTypes, Count
<1>3. StatsTypes'
    <2>1. Len(Reads)' = Len(Reads)  OBVIOUS
    <2> QED  BY <1>2, <2>1 DEF StatsInv, StatsTypes
<1>4. CASE Extracting
    <2>1. moved' = moved + n  BY <1>4 DEF Count
    <2>2. Within(Seen', system_bytes', free', stats', moved')  BY <1>1, <2>1
    <2> QED  BY <1>3, <2>2 DEF StatsInv, Within, GapSizes, Gap, AbsOf
<1>5. CASE ~ Extracting
    <2>1. Seen' = {}  BY <1>1, <1>5 DEF Seen, Extracting
    <2>2. Within({}, system_bytes', free', stats, moved')
        BY <1>2, WithinNothing DEF StatsInv, StatsTypes
    <2>3. Within(Seen', system_bytes', free', stats', moved')  BY <2>1, <2>2
    <2> QED  BY <1>3, <2>3 DEF StatsInv, Within, GapSizes, Gap, AbsOf
<1> QED  BY <1>4, <1>5

LEMMA TakeStep ==
    ASSUME StatsInv, NEW n \in Chunks, NEW p \in Parts, Take(p, n) \/ Put(p, n)
    PROVE  StatsInv'
<1>1. n \in Nat  BY BoundsAssumption
<1>2. /\ free \in [Parts -> Nat] /\ system_bytes \in Nat /\ moved \in Nat
      /\ stats \in [Parts \cup {System} -> Nat] /\ free[p] \in Nat
    BY DEF StatsInv, StatsTypes
<1>3. /\ free' \in [Parts -> Nat] /\ \A q \in Parts \ {p} : free'[q] = free[q]
      /\ free'[p] = free[p] + n \/ free'[p] = free[p] - n
    <2>1. CASE Take(p, n)
        <3>1. free[p] - n \in Nat /\ free' = [free EXCEPT ![p] = free[p] - n]
            BY <1>1, <1>2, <2>1 DEF Take
        <3> QED  BY <1>2, <3>1
    <2>2. CASE Put(p, n)
        <3>1. free[p] + n \in Nat /\ free' = [free EXCEPT ![p] = free[p] + n]
            BY <1>1, <1>2, <2>2 DEF Put
        <3> QED  BY <1>2, <3>1
    <2> QED  BY <2>1, <2>2
<1>4. Count(n) /\ UNCHANGED <<system_bytes, doing, next, stats>>  BY DEF Take, Put
<1>5. Within(Seen, system_bytes, free', stats, moved + n)
    BY <1>1, <1>2, <1>3, WithinMoves DEF StatsInv
<1> QED  BY <1>1, <1>2, <1>3, <1>4, <1>5, CountStep

LEMMA GrowHeapStep ==
    ASSUME StatsInv, NEW n \in Chunks, GrowHeap(n)
    PROVE  StatsInv'
<1>1. n \in Nat  BY BoundsAssumption
<1>2. /\ free \in [Parts -> Nat] /\ system_bytes \in Nat /\ moved \in Nat
      /\ stats \in [Parts \cup {System} -> Nat] /\ PageHeap \in Parts /\ free[PageHeap] \in Nat
    BY PartsAre DEF StatsInv, StatsTypes
<1>3. /\ system_bytes' = system_bytes + n /\ free' = [free EXCEPT ![PageHeap] = @ + n]
      /\ Count(n) /\ UNCHANGED <<doing, next, stats>>
    BY DEF GrowHeap
<1>4. Within(Seen, system_bytes', free', stats, moved + n)
    BY <1>1, <1>2, <1>3, WithinGrows DEF StatsInv
<1>5. system_bytes' \in Nat /\ free' \in [Parts -> Nat]  BY <1>1, <1>2, <1>3
<1> QED  BY <1>1, <1>3, <1>4, <1>5, CountStep

LEMMA ExtractStep == ASSUME StatsInv, Extract PROVE StatsInv'
<1> DEFINE read == Reads[next]
<1>1. /\ free \in [Parts -> Nat] /\ system_bytes \in Nat /\ moved \in Nat
      /\ stats \in [Parts \cup {System} -> Nat] /\ next \in 1 .. Len(Reads)
      /\ doing = "extract" /\ UNCHANGED <<system_bytes, free, moved>>
    BY DEF StatsInv, StatsTypes, Extract, memory
<1>2. stats' \in [Parts \cup {System} -> Nat]
      /\ \A p \in Parts \cup {System} :
            stats'[p] = IF p \notin read THEN stats[p] ELSE IF p = System THEN system_bytes ELSE free[p]
    <2>1. stats' = [p \in Parts \cup {System} |->
                      IF p \notin read THEN stats[p] ELSE IF p = System THEN system_bytes ELSE free[p]]
        BY <1>1 DEF Extract
    <2> HIDE DEF read
    <2> QED  BY <1>1, <2>1
<1>3. /\ Seen \in SUBSET (Parts \cup {System}) /\ read \in SUBSET (Parts \cup {System})
      /\ System \in read <=> PageHeap \in read
    BY <1>1, SeenIs DEF StatsInv
<1>4. Len(Reads) \in Nat \ {0} /\ Len(Reads)' = Len(Reads) /\ Reads' = Reads
    BY ReadsAre DEF Reads, Central, Transfer, Cache, PageHeap, System
<1>5. Seen' = Seen \cup read /\ StatsTypes'
    <2>1. Seen = UNION {Reads[i] : i \in 1 .. next - 1}  BY <1>1 DEF Seen
    <2>2. Seen \cup read = UNION {Reads[i] : i \in 1 .. next}
        <3>1. \A i \in 1 .. next : i = next \/ i \in 1 .. next - 1  BY <1>1
        <3>2. \A i \in 1 .. next - 1 : i \in 1 .. next  BY <1>1
        <3>3. next \in 1 .. next  BY <1>1
        <3> QED  BY <2>1, <3>1, <3>2, <3>3
    <2>3. CASE next < Len(Reads)
        <3>1. next' = next + 1 /\ doing' = "extract" /\ next + 1 \in 1 .. Len(Reads)
            BY <1>1, <2>3, <1>4 DEF Extract
        <3>2. next' - 1 = next  BY <1>1, <3>1
        <3>3. Seen' = UNION {Reads[i] : i \in 1 .. next}  BY <1>4, <3>1, <3>2 DEF Seen
        <3> QED  BY <1>1, <1>2, <1>4, <2>2, <3>1, <3>3 DEF StatsTypes
    <2>4. CASE ~ (next < Len(Reads))
        <3>1. next' = 1 /\ doing' = "report" /\ next = Len(Reads)  BY <1>1, <1>4, <2>4 DEF Extract
        <3>2. Seen' = Parts \cup {System}  BY <3>1 DEF Seen
        <3>3. UNION {Reads[i] : i \in 1 .. next} = Parts \cup {System}
            BY <3>1, SeenIs, ReadsAre DEF StatsInv
        <3>4. 1 \in 1 .. Len(Reads)  BY <1>4
        <3> QED  BY <1>1, <1>2, <1>4, <2>2, <3>1, <3>2, <3>3, <3>4 DEF StatsTypes
    <2> QED  BY <2>3, <2>4
<1>6. Within(Seen \cup read, system_bytes, free, stats', moved)
    <2> HIDE DEF read
    <2>1. Within(Seen, system_bytes, free, stats, moved)  BY DEF StatsInv
    <2> QED  BY <1>1, <1>2, <1>3, <2>1, WithinRead
<1>7. Within(Seen', system_bytes', free', stats', moved')  BY <1>1, <1>5, <1>6
<1> QED  BY <1>5, <1>7 DEF StatsInv, Within, GapSizes, Gap, AbsOf

LEMMA StatsStep == ASSUME StatsInv, [Next_T]_vars_T PROVE StatsInv'
<1>0. Len(Reads) \in Nat \ {0} /\ Len(Reads)' = Len(Reads) /\ Reads' = Reads
    BY ReadsAre DEF Reads, Central, Transfer, Cache, PageHeap, System
<1>1. ASSUME UNCHANGED <<memory, doing, report>> PROVE StatsInv'
    <2>1. UNCHANGED <<system_bytes, free, doing, next, stats, moved>>  BY <1>1 DEF memory, report
    <2>2. Seen' = Seen  BY <1>0, <2>1 DEF Seen
    <2>3. Within(Seen', system_bytes', free', stats', moved')  BY <2>1, <2>2 DEF StatsInv
    <2>4. StatsTypes'  BY <1>0, <2>1 DEF StatsInv, StatsTypes
    <2> QED  BY <2>3, <2>4 DEF StatsInv, Within, GapSizes, Gap, AbsOf
\* What begins or ends with nothing read.
<1>2. ASSUME system_bytes' = system_bytes, free' = free, StatsTypes', Seen' = {} PROVE StatsInv'
    <2>1. Within({}, system_bytes', free', stats', moved')
        <3>1. /\ system_bytes' \in Nat /\ free' \in [Parts -> Nat] /\ moved' \in Nat
              /\ stats' \in [Parts \cup {System} -> Nat]
            BY <1>2 DEF StatsTypes
        <3> QED  BY <3>1, WithinNothing
    <2>2. Within(Seen', system_bytes', free', stats', moved')  BY <1>2, <2>1
    <2> QED  BY <1>2, <2>2 DEF StatsInv, Within, GapSizes, Gap, AbsOf
<1>3. CASE \E n \in Chunks : GrowHeap(n) \/ \E p \in Parts : Take(p, n) \/ Put(p, n)
    BY <1>3, GrowHeapStep, TakeStep
<1>4. CASE \E d \in Depths : Sample(d)  BY <1>1, <1>4 DEF Sample
<1>5. CASE \E i \in DOMAIN sampled : Unsample(i)  BY <1>1, <1>5 DEF Unsample
<1>6. CASE ExtractBegin
    <2>1. /\ doing' = "extract" /\ next' = 1 /\ moved' = 0 /\ UNCHANGED <<system_bytes, free>>
          /\ stats' = [p \in Parts \cup {System} |-> 0]
        BY <1>6 DEF ExtractBegin, memory, StatsInv, StatsTypes
    <2>2. Seen' = {}
        <3>1. 1 .. next' - 1 = {}  BY <2>1
        <3> QED  BY <2>1, <3>1 DEF Seen
    <2>3. StatsTypes'
        <3>1. 1 \in 1 .. Len(Reads)  BY <1>0
        <3> QED  BY <1>0, <2>1, <3>1 DEF StatsInv, StatsTypes
    <2> QED  BY <1>2, <2>1, <2>2, <2>3
<1>7. CASE ExtractEnd
    <2>1. /\ doing' = "idle" /\ next' = next /\ moved' = 0 /\ UNCHANGED <<system_bytes, free>>
          /\ stats' = [p \in Parts \cup {System} |-> 0] /\ next = 1
        BY <1>7 DEF ExtractEnd, memory, StatsInv, StatsTypes
    <2>2. Seen' = {}  BY <2>1 DEF Seen
    <2>3. StatsTypes'  BY <1>0, <2>1 DEF StatsInv, StatsTypes
    <2> QED  BY <1>2, <2>1, <2>2, <2>3
<1>8. CASE Measure \/ Fill
    <2>1. /\ doing' \in {"idle", "fill"} /\ doing \in {"idle", "fill"}
          /\ UNCHANGED <<system_bytes, free, next, stats, moved>>
        BY <1>8 DEF Measure, Fill, memory, report
    <2>2. Seen' = {}  BY <2>1 DEF Seen
    <2>3. StatsTypes'  BY <1>0, <2>1 DEF StatsInv, StatsTypes
    <2> QED  BY <1>2, <2>1, <2>2, <2>3
<1>9. CASE UNCHANGED vars_T  BY <1>1, <1>9 DEF vars_T
<1> QED
    BY <1>3, <1>4, <1>5, <1>6, <1>7, <1>8, <1>9, ExtractStep DEF Next_T

\* Whatever moves, and of however many classes and caches: the parts that
\* ExtractStats has read changed since by no more than was moved, in sum.
THEOREM StatsInvariance == Spec_T => []StatsInv
<1>1. Init_T => StatsInv  BY InitStats
<1>2. StatsInv /\ [Next_T]_vars_T => StatsInv'  BY StatsStep
<1> QED  BY <1>1, <1>2, PTL DEF Spec_T

-----------------------------------------------------------------------------
(* The figures.                                                              *)

\* A sum over all parts, kind by kind; and over all but the transfer caches.
LEMMA KindsSum ==
    ASSUME NEW f, Numbers(f, Parts)
    PROVE  LET cl == SumOver(f, CentralLists)
               tr == SumOver(f, TransferCaches)
               th == SumOver(f, ThreadCaches)
           IN  /\ cl \in Int /\ tr \in Int /\ th \in Int /\ f[PageHeap] \in Int
               /\ SumOver(f, Parts) = cl + tr + th + f[PageHeap]
               /\ SumOver(f, Parts \ TransferCaches) = cl + th + f[PageHeap]
<1> DEFINE A == CentralLists \cup ThreadCaches
           B == A \cup {PageHeap}
           cl == SumFunctionOnSet(f, CentralLists)
           tr == SumFunctionOnSet(f, TransferCaches)
           th == SumFunctionOnSet(f, ThreadCaches)
<1>1. /\ IsFiniteSet(CentralLists) /\ IsFiniteSet(TransferCaches) /\ IsFiniteSet(ThreadCaches)
      /\ IsFiniteSet({PageHeap}) /\ IsFiniteSet(A) /\ IsFiniteSet(B)
    BY PartsAre, FS_Singleton, FS_Union
<1>2. /\ Numbers(f, CentralLists) /\ Numbers(f, TransferCaches) /\ Numbers(f, ThreadCaches)
      /\ Numbers(f, {PageHeap}) /\ Numbers(f, A) /\ Numbers(f, B)
    BY DEF Numbers, Parts
<1>3. /\ CentralLists \cap ThreadCaches = {} /\ A \cap {PageHeap} = {} /\ B \cap TransferCaches = {}
      /\ B = Parts \ TransferCaches /\ B \cup TransferCaches = Parts
    BY PartsAre DEF Parts
<1>4. cl \in Int /\ tr \in Int /\ th \in Int /\ f[PageHeap] \in Int
    BY <1>1, <1>2, SumType, PartsAre DEF Numbers
<1>5. SumFunctionOnSet(f, A) = cl + th  BY <1>1, <1>2, <1>3, SumUnion
<1>6. SumFunctionOnSet(f, B) = SumFunctionOnSet(f, A) + f[PageHeap]
    <2>1. SumFunctionOnSet(f, {PageHeap}) = f[PageHeap]  BY <1>4, SumSingle
    <2>2. SumFunctionOnSet(f, A \cup {PageHeap})
          = SumFunctionOnSet(f, A) + SumFunctionOnSet(f, {PageHeap})
        <3> HIDE DEF A
        <3> QED  BY <1>1, <1>2, <1>3, SumUnion
    <2> QED  BY <2>1, <2>2
<1>7. SumFunctionOnSet(f, B \cup TransferCaches) = SumFunctionOnSet(f, B) + tr
    <2> HIDE DEF B
    <2> QED  BY <1>1, <1>2, <1>3, SumUnion
<1> HIDE DEF cl, tr, th, A
<1>8. SumFunctionOnSet(f, B) = cl + th + f[PageHeap]  BY <1>5, <1>6
<1>9. SumFunctionOnSet(f, Parts) = cl + tr + th + f[PageHeap]
    <2>1. SumFunctionOnSet(f, Parts) = (cl + th + f[PageHeap]) + tr
        <3> HIDE DEF B
        <3> QED  BY <1>3, <1>7, <1>8
    <2> QED  BY <1>4, <2>1
<1>10. SumFunctionOnSet(f, Parts \ TransferCaches) = cl + th + f[PageHeap]
    <2> HIDE DEF B
    <2> QED  BY <1>3, <1>8
<1> QED  BY <1>4, <1>9, <1>10 DEF SumOver, cl, tr, th

\* The sum of the gaps of one kind of part is what its figure is off by.
LEMMA KindGap ==
    ASSUME StatsTypes, doing = "report", NEW S \in SUBSET (Parts \ {PageHeap})
    PROVE  LET g == Gaps(Seen, system_bytes, free, stats)
           IN  SumOver(free, S) = SumOver(g, S) + SumOver(stats, S)
<1> DEFINE g == Gaps(Seen, system_bytes, free, stats)
<1>1. IsFiniteSet(S)  BY PartsAre, FS_Subset
<1>2. \A p \in S : free[p] \in Int /\ stats[p] \in Int /\ g[p] = free[p] - stats[p]
    BY DEF StatsTypes, Gaps, Gap, Seen
<1>3. Numbers(g, S) /\ Numbers(stats, S) /\ \A p \in S : free[p] = g[p] + stats[p]
    <2>1. \A p \in S : g[p] \in Int /\ free[p] = g[p] + stats[p]
        <3> HIDE DEF g
        <3> QED  BY <1>2
    <2> QED  BY <1>2, <2>1 DEF Numbers
<1> HIDE DEF g
<1>4. SumFunctionOnSet(free, S) = SumFunctionOnSet(g, S) + SumFunctionOnSet(stats, S)
    BY <1>1, <1>3, SumPlus
<1> QED  BY <1>4 DEF SumOver, g

\* So are sums of gaps of any parts at most what was moved.
LEMMA GapsWithin ==
    ASSUME StatsInv, NEW S \in SUBSET Parts
    PROVE  LET g == Gaps(Seen, system_bytes, free, stats)
           IN  SumOver(g, S) \in Int /\ SumOver(g, S) \in - moved .. moved
<1> DEFINE g == Gaps(Seen, system_bytes, free, stats)
           f == GapSizes(Seen, system_bytes, free, stats)
<1>1. /\ Numbers(g, Parts) /\ Numbers(f, Parts) /\ \A p \in Parts : f[p] \in Nat
      /\ SumFunctionOnSet(f, Parts) \in Nat
    BY GapTypes DEF StatsInv, StatsTypes
<1>2. \A p \in Parts : - f[p] <= g[p] /\ g[p] <= f[p]
    <2> SUFFICES ASSUME NEW p \in Parts PROVE - f[p] <= g[p] /\ g[p] <= f[p]  OBVIOUS
    <2>1. g[p] \in Int  BY <1>1 DEF Numbers
    <2>2. f[p] = AbsOf(g[p])  BY DEF GapSizes, Gaps
    <2> HIDE DEF f, g
    <2> QED  BY <2>1, <2>2 DEF AbsOf
<1>3. SumFunctionOnSet(f, Parts) <= moved /\ moved \in Nat  BY DEF StatsInv, StatsTypes, Within
<1> HIDE DEF f, g
<1>4. IsFiniteSet(S) /\ Numbers(f, S) /\ Numbers(g, S)  BY <1>1, PartsAre, FS_Subset DEF Numbers
<1>5. SumFunctionOnSet(f, S) <= SumFunctionOnSet(f, Parts) /\ SumFunctionOnSet(f, S) \in Int
    BY <1>1, <1>4, PartsAre, SumPart, SumType
<1>6. /\ - SumFunctionOnSet(f, S) <= SumFunctionOnSet(g, S)
      /\ SumFunctionOnSet(g, S) <= SumFunctionOnSet(f, S)
    BY <1>2, <1>4, SumWithin
<1>7. SumFunctionOnSet(g, S) \in Int  BY <1>4, SumType
<1>8. SumFunctionOnSet(g, S) \in - moved .. moved  BY <1>1, <1>3, <1>5, <1>6, <1>7
<1> QED  BY <1>7, <1>8 DEF SumOver, g

LEMMA FiguresAreNear == ASSUME StatsInv PROVE FiguresNear
<1> SUFFICES ASSUME doing = "report"
             PROVE  /\ Near(bytes_in_use, InUse, Word)
                    /\ Near(uordblks, InUse, IntWord)
                    /\ Near((uordblks + fsmblks + fordblks) % IntWord, system_bytes, IntWord)
                    /\ Near(current_allocated_bytes, InUse + SumOver(free, TransferCaches), Word)
    BY DEF FiguresNear
<1> DEFINE g == Gaps(Seen, system_bytes, free, stats)
           gc == SumOver(g, CentralLists)
           gt == SumOver(g, TransferCaches)
           gh == SumOver(g, ThreadCaches)
           gp == g[PageHeap]
           fc == SumOver(free, CentralLists)
           ft == SumOver(free, TransferCaches)
           fh == SumOver(free, ThreadCaches)
           fp == free[PageHeap]
           C == central_bytes
           T == transfer_bytes
           H == thread_bytes
           P == pageheap_bytes
           R == system_bytes_read
           N == system_bytes
<1>1. StatsTypes /\ N \in Int /\ moved \in Nat /\ R \in Nat
    BY DEF StatsInv, StatsTypes, system_bytes_read
<1>2. Numbers(free, Parts) /\ Numbers(stats, Parts) /\ Numbers(g, Parts)
    <2>1. system_bytes \in Nat /\ free \in [Parts -> Nat] /\ stats \in [Parts \cup {System} -> Nat]
        BY <1>1 DEF StatsTypes
    <2>2. Numbers(g, Parts)  BY <2>1, GapTypes
    <2> HIDE DEF g
    <2>3. Numbers(free, Parts) /\ Numbers(stats, Parts)  BY <2>1 DEF Numbers
    <2> QED  BY <2>2, <2>3
<1>3. /\ fc \in Int /\ ft \in Int /\ fh \in Int /\ fp \in Int
      /\ SumOver(free, Parts) = fc + ft + fh + fp
    BY <1>2, KindsSum
<1>4. C \in Int /\ T \in Int /\ H \in Int /\ P \in Int
    BY <1>2, KindsSum DEF central_bytes, transfer_bytes, thread_bytes, pageheap_bytes
<1>5. /\ gc \in Int /\ gt \in Int /\ gh \in Int /\ gp \in Int
      /\ SumOver(g, Parts) = gc + gt + gh + gp
      /\ SumOver(g, Parts \ TransferCaches) = gc + gh + gp
    <2> HIDE DEF g
    <2> QED  BY <1>2, KindsSum
<1>6. fc = gc + C /\ ft = gt + T /\ fh = gh + H
    <2>1. /\ CentralLists \in SUBSET (Parts \ {PageHeap}) /\ TransferCaches \in SUBSET (Parts \ {PageHeap})
          /\ ThreadCaches \in SUBSET (Parts \ {PageHeap})
        BY PartsAre DEF Parts
    <2> QED  BY <1>1, <2>1, KindGap DEF central_bytes, transfer_bytes, thread_bytes
<1>7. gp = (fp - N) - (P - R)
    <2>1. PageHeap \in Seen /\ PageHeap \in Parts  BY PartsAre DEF Seen
    <2> QED  BY <2>1 DEF Gaps, Gap, pageheap_bytes, system_bytes_read
<1>8. gc + gt + gh + gp \in - moved .. moved /\ gc + gh + gp \in - moved .. moved
    <2>1. SumOver(g, Parts) \in - moved .. moved /\ SumOver(g, Parts \ TransferCaches) \in - moved .. moved
        BY GapsWithin
    <2> HIDE DEF g, gc, gt, gh, gp
    <2> QED  BY <1>5, <2>1
<1>9. R - N \in - moved .. moved
    <2>1. AbsOf(N - R) <= moved  BY DEF StatsInv, Within, Seen, system_bytes_read
    <2> HIDE DEF N
    <2> QED  BY <1>1, <2>1 DEF AbsOf
<1>10. InUse = N - (fc + ft + fh + fp)
    <2> HIDE DEF fc, ft, fh, fp
    <2> QED  BY <1>3 DEF InUse
<1> HIDE DEF g, gc, gt, gh, gp, fc, fh, fp, C, T, H, P, R, N
<1>11. InUse + (gc + gt + gh + gp) = R - P - C - T - H
    <2> HIDE DEF ft
    <2> QED  BY <1>1, <1>3, <1>4, <1>5, <1>6, <1>7, <1>10
<1>12. (InUse + ft) + (gc + gh + gp) = R - H - C - P
    <2> HIDE DEF ft
    <2> QED  BY <1>1, <1>3, <1>4, <1>5, <1>6, <1>7, <1>10
<1>13. R - H - C - T - P = R - P - C - T - H  BY <1>1, <1>4
<1>14. N + (R - N) = R  BY <1>1
<1>15. Near(bytes_in_use, InUse, Word)
    BY <1>8, <1>11 DEF Near, bytes_in_use, C, T, H, P, R
<1>16. Near(uordblks, InUse, IntWord)
    <2>1. uordblks = (R - H - C - T - P) % IntWord  BY DEF uordblks, C, T, H, P, R
    <2> QED  BY <1>8, <1>11, <1>13, <2>1 DEF Near
<1>17. Near((uordblks + fsmblks + fordblks) % IntWord, system_bytes, IntWord)
    <2> DEFINE x == R - H - C - T - P
               y == H + C + T
    <2>1. uordblks = x % IntWord /\ fsmblks = y % IntWord /\ fordblks = P % IntWord
        BY DEF uordblks, fsmblks, fordblks, C, T, H, P, R
    <2>2. x \in Int /\ y \in Int /\ x + y + P = R /\ IntWord \in Nat \ {0}
        BY <1>1, <1>4, BoundsAssumption
    <2> HIDE DEF x, y
    <2>3. ((x % IntWord) + (y % IntWord) + (P % IntWord)) % IntWord = R % IntWord
        <3>1. x \in Int /\ y \in Int /\ P \in Int /\ IntWord \in Nat \ {0}  BY <1>4, <2>2
        <3>2. ((x % IntWord) + (y % IntWord) + (P % IntWord)) % IntWord = (x + y + P) % IntWord
            BY <3>1, SumModulo, Zenon
        <3>3. x + y + P = R  BY <2>2
        <3> QED  BY <3>2, <3>3, Zenon
    <2>4. (uordblks + fsmblks + fordblks) % IntWord = (N + (R - N)) % IntWord
        BY <1>14, <2>1, <2>3
    <2> QED  BY <1>9, <2>4 DEF Near, N
<1>18. Near(current_allocated_bytes, InUse + SumOver(free, TransferCaches), Word)
    <2>1. current_allocated_bytes = (R - H - C - P) % Word  BY DEF current_allocated_bytes, C, H, P, R
    <2>2. Near(current_allocated_bytes, InUse + ft, Word)  BY <1>8, <1>12, <2>1 DEF Near
    <2> QED  BY <2>2
<1> QED  BY <1>15, <1>16, <1>17, <1>18

\* However many classes and caches there are, whatever moves while they are read
\* and whatever the widths of the types: the figures are off by no more than what
\* was moved in the meantime.
THEOREM FiguresNearHolds == Spec_T => []FiguresNear
<1>1. StatsInv => FiguresNear  BY FiguresAreNear
<1> QED  BY <1>1, StatsInvariance, PTL

\* RemoveAt leaves out one element.
LEMMA RemovedAt ==
    ASSUME NEW S, NEW s \in Seq(S), NEW i \in 1 .. Len(s)
    PROVE  /\ RemoveAt(s, i) \in Seq(S) /\ Len(RemoveAt(s, i)) = Len(s) - 1
           /\ \A j \in 1 .. Len(s) - 1 : RemoveAt(s, i)[j] = IF j < i THEN s[j] ELSE s[j + 1]
<1> DEFINE n == Len(s)
           p == SubSeq(s, 1, i - 1)
           q == SubSeq(s, i + 1, n)
<1>1. n \in Nat /\ i \in 1 .. n /\ \A j \in 1 .. n : s[j] \in S  BY LenProperties, ElementOfSeq
<1> HIDE DEF n
<1>2. p \in Seq(S) /\ Len(p) = i - 1 /\ \A j \in 1 .. i - 1 : p[j] = s[j]
    <2>1. 1 \in Int /\ i - 1 \in Int /\ \A j \in 1 .. i - 1 : s[j] \in S  BY <1>1
    <2>2. /\ p \in Seq(S) /\ Len(p) = IF 1 <= i - 1 THEN (i - 1) - 1 + 1 ELSE 0
          /\ \A j \in 1 .. (i - 1) - 1 + 1 : p[j] = s[1 + j - 1]
        BY <2>1, SubSeqProperties
    <2>3. (i - 1) - 1 + 1 = i - 1 /\ \A j \in 1 .. i - 1 : 1 + j - 1 = j  BY <1>1
    <2> HIDE DEF p
    <2> QED  BY <1>1, <2>2, <2>3
<1>3. q \in Seq(S) /\ Len(q) = n - i /\ \A j \in 1 .. n - i : q[j] = s[i + j]
    <2>1. i + 1 \in Int /\ n \in Int /\ \A j \in i + 1 .. n : s[j] \in S  BY <1>1
    <2>2. /\ q \in Seq(S) /\ Len(q) = IF i + 1 <= n THEN n - (i + 1) + 1 ELSE 0
          /\ \A j \in 1 .. n - (i + 1) + 1 : q[j] = s[(i + 1) + j - 1]
        BY <2>1, SubSeqProperties
    <2>3. n - (i + 1) + 1 = n - i /\ \A j \in 1 .. n - i : (i + 1) + j - 1 = i + j  BY <1>1
    <2> HIDE DEF q
    <2> QED  BY <1>1, <2>2, <2>3
<1>4. RemoveAt(s, i) = p \o q  BY DEF RemoveAt, n
<1> HIDE DEF p, q
<1>5. /\ p \o q \in Seq(S) /\ Len(p \o q) = (i - 1) + (n - i)
      /\ \A j \in 1 .. (i - 1) + (n - i) : (p \o q)[j] = IF j <= i - 1 THEN p[j] ELSE q[j - (i - 1)]
    <2>1. /\ p \o q \in Seq(S) /\ Len(p \o q) = Len(p) + Len(q)
          /\ \A j \in 1 .. Len(p) + Len(q) : (p \o q)[j] = IF j <= Len(p) THEN p[j] ELSE q[j - Len(p)]
        <3>1. p \in Seq(S) /\ q \in Seq(S)  BY <1>2, <1>3
        <3> QED  BY <3>1, ConcatProperties
    <2> DEFINE r == p \o q
    <2> HIDE DEF r
    <2>2. Len(p) = i - 1 /\ Len(q) = n - i  BY <1>2, <1>3
    <2> QED  BY <2>1, <2>2
<1>6. (i - 1) + (n - i) = n - 1  BY <1>1
<1>7. ASSUME NEW j \in 1 .. n - 1 PROVE (p \o q)[j] = IF j < i THEN s[j] ELSE s[j + 1]
    <2>1. CASE j < i
        <3>1. j <= i - 1 /\ j \in 1 .. i - 1  BY <1>1, <2>1
        <3> QED  BY <1>2, <1>5, <1>6, <2>1, <3>1
    <2>2. CASE ~ (j < i)
        <3>1. ~ (j <= i - 1) /\ j - (i - 1) \in 1 .. n - i /\ i + (j - (i - 1)) = j + 1  BY <1>1, <2>2
        <3>2. (p \o q)[j] = q[j - (i - 1)]  BY <1>5, <1>6, <3>1
        <3> QED  BY <1>3, <2>2, <3>1, <3>2
    <2> QED  BY <2>1, <2>2
<1> QED  BY <1>4, <1>5, <1>6, <1>7 DEF n

-----------------------------------------------------------------------------
(* The slots of a list of blocks.                                            *)

LEMMA SlotsNext ==
    ASSUME NEW s \in Seq(Nat)
    PROVE  /\ SlotsOf(s, 0) = 0
           /\ \A k \in 0 .. Len(s) : SlotsOf(s, k) \in Nat
           /\ \A k \in 1 .. Len(s) : SlotsOf(s, k) = SlotsOf(s, k - 1) + 3 + s[k]
<1>0. Len(s) \in Nat /\ \A i \in 1 .. Len(s) : s[i] \in Nat  BY LenProperties, ElementOfSeq
<1>1. SlotsOf(s, 0) = 0
    <2>1. 1 .. 0 = {}  OBVIOUS
    <2> QED  BY <2>1, SumEmpty DEF SlotsOf
<1>2. ASSUME NEW k \in 0 .. Len(s) PROVE SlotsOf(s, k) \in Nat
    <2> DEFINE f == [i \in 1 .. k |-> 3 + s[i]]
    <2>1. IsFiniteSet(1 .. k)
        <3>1. 1 \in Int /\ k \in Int  OBVIOUS
        <3> QED  BY <3>1, FS_Interval
    <2>2. \A i \in 1 .. k : f[i] \in Nat
        <3>1. \A i \in 1 .. k : s[i] \in Nat  BY <1>0
        <3> QED  BY <3>1
    <2>3. SlotsOf(s, k) = SumFunctionOnSet(f, 1 .. k)  BY DEF SlotsOf
    <2> HIDE DEF f
    <2> QED  BY <2>1, <2>2, <2>3, SumNat
<1>3. ASSUME NEW k \in 1 .. Len(s) PROVE SlotsOf(s, k) = SlotsOf(s, k - 1) + 3 + s[k]
    <2> DEFINE f == [i \in 1 .. k |-> 3 + s[i]]
               g == [i \in 1 .. k - 1 |-> 3 + s[i]]
               m == k - 1
    <2>1. IsFiniteSet(1 .. m)
        <3>1. 1 \in Int /\ m \in Int  OBVIOUS
        <3> QED  BY <3>1, FS_Interval
    <2>2. m \in Nat /\ m + 1 = k /\ k \in Nat /\ 1 .. m \subseteq 1 .. k  OBVIOUS
    <2>3. /\ \A i \in 1 .. k : f[i] \in Int
          /\ \A i \in 1 .. m : g[i] = f[i]
          /\ f[k] = 3 + s[k] /\ s[k] \in Nat
        <3>1. \A i \in 1 .. k : s[i] \in Nat  BY <1>0
        <3> QED  BY <3>1
    <2>4. SlotsOf(s, k) = SumFunctionOnSet(f, 1 .. k) /\ SlotsOf(s, m) = SumFunctionOnSet(g, 1 .. m)
        BY DEF SlotsOf
    <2>5. SlotsOf(s, m) \in Nat
        <3>1. m \in 0 .. Len(s)  BY <1>0, <2>2
        <3> HIDE DEF m
        <3> QED  BY <3>1, <1>2
    <2> HIDE DEF f, g, m
    <2>6. SumFunctionOnSet(f, 1 .. m + 1) = SumFunctionOnSet(f, 1 .. m) + f[m + 1]
        <3>1. Numbers(f, 1 .. m + 1)  BY <2>2, <2>3 DEF Numbers
        <3> QED  BY <2>2, <3>1, SumNext
    <2>7. SumFunctionOnSet(f, 1 .. m) = SumFunctionOnSet(g, 1 .. m)  BY <2>1, <2>3, SumSame
    <2>8. SlotsOf(s, k) = SlotsOf(s, m) + (3 + s[k])  BY <2>2, <2>3, <2>4, <2>6, <2>7
    <2>9. SlotsOf(s, m) + (3 + s[k]) = SlotsOf(s, m) + 3 + s[k]
        <3>1. s[k] \in Nat /\ SlotsOf(s, m) \in Nat  BY <2>3, <2>5
        <3>2. \A a, b \in Nat : a + (3 + b) = a + 3 + b  OBVIOUS
        <3> QED  BY <3>1, <3>2, Zenon
    <2> QED  BY <2>8, <2>9 DEF m
<1> QED  BY <1>1, <1>2, <1>3

\* A part of a list takes no more slots than the list.
LEMMA SlotsGrow ==
    ASSUME NEW s \in Seq(Nat), NEW k \in 0 .. Len(s)
    PROVE  SlotsOf(s, k) <= SlotsOf(s, Len(s))
<1> DEFINE Good == {n \in Nat : n <= Len(s) => \A i \in 0 .. n : SlotsOf(s, i) <= SlotsOf(s, n)}
<1>0. Len(s) \in Nat /\ \A i \in 1 .. Len(s) : s[i] \in Nat  BY LenProperties, ElementOfSeq
<1>1. 0 \in Good
    <2>1. 0 \in 0 .. Len(s)  BY <1>0
    <2>2. SlotsOf(s, 0) = 0  BY SlotsNext
    <2>3. \A i \in 0 .. 0 : i = 0  OBVIOUS
    <2> QED  BY <2>2, <2>3
<1>2. ASSUME NEW n \in Nat, n \in Good PROVE n + 1 \in Good
    <2> SUFFICES ASSUME n + 1 <= Len(s), NEW i \in 0 .. n + 1
                 PROVE  SlotsOf(s, i) <= SlotsOf(s, n + 1)
        OBVIOUS
    <2>1. n + 1 \in 1 .. Len(s) /\ (n + 1) - 1 = n /\ n \in 0 .. Len(s) /\ n + 1 \in 0 .. Len(s)
          /\ n <= Len(s) /\ i \in 0 .. Len(s)
        BY <1>0
    <2>2. SlotsOf(s, n + 1) = SlotsOf(s, n) + 3 + s[n + 1]  BY <2>1, SlotsNext
    <2>3. SlotsOf(s, n) \in Nat /\ SlotsOf(s, n + 1) \in Nat /\ SlotsOf(s, i) \in Nat /\ s[n + 1] \in Nat
        BY <1>0, <2>1, SlotsNext
    <2>4. CASE i = n + 1  BY <2>3, <2>4
    <2>5. CASE i # n + 1
        <3>1. i \in 0 .. n  BY <2>5
        <3>2. SlotsOf(s, i) <= SlotsOf(s, n)  BY <1>2, <2>1, <3>1
        <3> QED  BY <2>2, <2>3, <3>2
    <2> QED  BY <2>4, <2>5
<1>3. Len(s) \in Good
    <2> HIDE DEF Good
    <2> QED  BY <1>0, <1>1, <1>2, InductNat
<1> QED  BY <1>0, <1>3

\* Nor does a list of which a block was removed.
LEMMA SlotsRemoved ==
    ASSUME NEW s \in Seq(Nat), NEW i \in 1 .. Len(s)
    PROVE  SlotsOf(RemoveAt(s, i), Len(RemoveAt(s, i))) <= SlotsOf(s, Len(s))
<1> DEFINE r == RemoveAt(s, i)
           N == Len(s)
           Good == {n \in Nat : n <= N - 1 =>
                       SlotsOf(r, n) <= IF n < i THEN SlotsOf(s, n) ELSE SlotsOf(s, n + 1)}
<1>0. N \in Nat /\ i \in 1 .. N /\ \A j \in 1 .. N : s[j] \in Nat  BY LenProperties, ElementOfSeq
<1>1. /\ r \in Seq(Nat) /\ Len(r) = N - 1
      /\ \A j \in 1 .. N - 1 : r[j] = IF j < i THEN s[j] ELSE s[j + 1]
    BY RemovedAt
<1> HIDE DEF r
<1>2. /\ SlotsOf(s, 0) = 0 /\ SlotsOf(r, 0) = 0
      /\ \A k \in 0 .. N : SlotsOf(s, k) \in Nat
      /\ \A k \in 0 .. N - 1 : SlotsOf(r, k) \in Nat
      /\ \A k \in 1 .. N : SlotsOf(s, k) = SlotsOf(s, k - 1) + 3 + s[k]
      /\ \A k \in 1 .. N - 1 : SlotsOf(r, k) = SlotsOf(r, k - 1) + 3 + r[k]
    BY <1>1, SlotsNext
<1> HIDE DEF N
<1>3. 0 \in Good
    <2>1. 0 < i  BY <1>0
    <2> QED  BY <1>2, <2>1
<1>4. ASSUME NEW n \in Nat, n \in Good PROVE n + 1 \in Good
    <2> SUFFICES ASSUME n + 1 <= N - 1
                 PROVE  SlotsOf(r, n + 1) <= IF n + 1 < i THEN SlotsOf(s, n + 1) ELSE SlotsOf(s, (n + 1) + 1)
        OBVIOUS
    <2> DEFINE k == n + 1
    <2>1. /\ k \in 1 .. N - 1 /\ k \in 1 .. N /\ k + 1 \in 1 .. N /\ k - 1 = n /\ (k + 1) - 1 = k
          /\ n \in 0 .. N /\ n \in 0 .. N - 1 /\ k \in 0 .. N /\ k \in 0 .. N - 1 /\ k + 1 \in 0 .. N
          /\ n <= N - 1 /\ k \in Nat
        BY <1>0
    <2>2. SlotsOf(r, n) <= IF n < i THEN SlotsOf(s, n) ELSE SlotsOf(s, k)
        BY <1>4, <2>1
    <2>3. (k < i => n < i) /\ (n < i => k < i \/ k = i) /\ (~ (n < i) => ~ (k < i))  BY <1>0
    <2> HIDE DEF k
    <2>4. SlotsOf(r, k) = SlotsOf(r, n) + 3 + r[k]  BY <1>2, <2>1
    <2>5. /\ SlotsOf(s, k) = SlotsOf(s, n) + 3 + s[k]
          /\ SlotsOf(s, k + 1) = SlotsOf(s, k) + 3 + s[k + 1]
        BY <1>2, <2>1
    <2>6. /\ SlotsOf(r, n) \in Nat /\ SlotsOf(s, n) \in Nat /\ SlotsOf(s, k) \in Nat
          /\ s[k] \in Nat /\ s[k + 1] \in Nat
          /\ r[k] = IF k < i THEN s[k] ELSE s[k + 1]
        BY <1>0, <1>1, <1>2, <2>1
    <2>7. CASE k < i
        <3>1. SlotsOf(r, n) <= SlotsOf(s, n) /\ r[k] = s[k]  BY <2>2, <2>3, <2>6, <2>7
        <3>2. SlotsOf(r, k) <= SlotsOf(s, k)
            <4>1. SlotsOf(r, k) = SlotsOf(r, n) + 3 + s[k]  BY <2>4, <3>1
            <4>2. SlotsOf(s, k) = SlotsOf(s, n) + 3 + s[k]  BY <2>5
            <4>3. SlotsOf(r, n) \in Nat /\ SlotsOf(s, n) \in Nat /\ s[k] \in Nat  BY <2>6
            <4> QED  BY <3>1, <4>1, <4>2, <4>3
        <3> QED  BY <2>7, <3>2 DEF k
    <2>8. CASE ~ (k < i)
        <3>1. SlotsOf(s, n) <= SlotsOf(s, k)
            <4>1. SlotsOf(s, k) = SlotsOf(s, n) + 3 + s[k]  BY <2>5
            <4>2. SlotsOf(s, n) \in Nat /\ s[k] \in Nat  BY <2>6
            <4> QED  BY <4>1, <4>2
        <3>2. SlotsOf(r, n) <= SlotsOf(s, k) /\ r[k] = s[k + 1]  BY <2>2, <2>6, <2>8, <3>1
        <3>3. SlotsOf(r, k) <= SlotsOf(s, k + 1)
            <4>1. SlotsOf(r, k) = SlotsOf(r, n) + 3 + s[k + 1]  BY <2>4, <3>2
            <4>2. SlotsOf(s, k + 1) = SlotsOf(s, k) + 3 + s[k + 1]  BY <2>5
            <4>3. SlotsOf(r, n) \in Nat /\ SlotsOf(s, k) \in Nat /\ s[k + 1] \in Nat  BY <2>6
            <4> QED  BY <3>2, <4>1, <4>2, <4>3
        <3> QED  BY <2>8, <3>3 DEF k
    <2> QED  BY <2>7, <2>8
<1>5. N - 1 \in Good
    <2>1. N - 1 \in Nat  BY <1>0
    <2> HIDE DEF Good
    <2> QED  BY <1>3, <1>4, <2>1, InductNat
<1>6. SlotsOf(r, N - 1) <= SlotsOf(s, N)
    <2>1. N - 1 \in Nat /\ N - 1 <= N - 1 /\ (N - 1) + 1 = N /\ N \in 0 .. N /\ N - 1 \in 0 .. N
          /\ N \in 1 .. N
        BY <1>0
    <2>2. SlotsOf(r, N - 1) <= IF N - 1 < i THEN SlotsOf(s, N - 1) ELSE SlotsOf(s, N)
        BY <1>5, <2>1
    <2>3. SlotsOf(s, N - 1) <= SlotsOf(s, N)
        <3>1. SlotsOf(s, N - 1) \in Nat /\ s[N] \in Nat /\ SlotsOf(s, N) = SlotsOf(s, N - 1) + 3 + s[N]
            BY <1>0, <1>2, <2>1
        <3> QED  BY <3>1
    <2>4. SlotsOf(r, N - 1) \in Nat /\ SlotsOf(s, N - 1) \in Nat /\ SlotsOf(s, N) \in Nat
        <3>1. N - 1 \in 0 .. N - 1  BY <2>1
        <3> QED  BY <1>2, <2>1, <3>1
    <2> QED  BY <2>2, <2>3, <2>4
<1> QED  BY <1>1, <1>6 DEF N, r

\* How many blocks fit: no more than there are, and what they take is less than
\* the array.
LEMMA FittingMax ==
    ASSUME sampled \in Seq(Nat), needed \in Nat \ {0}
    PROVE  /\ Max(Fitting) \in 0 .. Len(sampled)
           /\ SlotsOf(sampled, Max(Fitting)) < needed
           /\ SlotsOf(sampled, Len(sampled)) < needed => Max(Fitting) = Len(sampled)
<1> DEFINE N == Len(sampled)
           Spare == {j \in 0 .. N : N - j \in Fitting}
<1>0. /\ N \in Nat /\ \A j \in 1 .. N : sampled[j] \in Nat
      /\ SlotsOf(sampled, 0) = 0
      /\ \A k \in 0 .. N : SlotsOf(sampled, k) \in Nat /\ SlotsOf(sampled, k) <= SlotsOf(sampled, N)
      /\ \A k \in 1 .. N : SlotsOf(sampled, k) = SlotsOf(sampled, k - 1) + 3 + sampled[k]
    BY LenProperties, ElementOfSeq, SlotsNext, SlotsGrow
<1>1. Fitting = {k \in 0 .. N : \A i \in 1 .. k : SlotsOf(sampled, i) < needed}
    <2> SUFFICES ASSUME NEW k \in 0 .. N, NEW i \in 1 .. k
                 PROVE  ~ NoRoom(SlotsOf(sampled, i - 1), sampled[i]) <=> SlotsOf(sampled, i) < needed
        BY DEF Fitting
    <2>1. i \in 1 .. N /\ i - 1 \in 0 .. N  BY <1>0
    <2>2. /\ SlotsOf(sampled, i) = SlotsOf(sampled, i - 1) + 3 + sampled[i]
          /\ SlotsOf(sampled, i - 1) \in Nat /\ sampled[i] \in Nat
        BY <1>0, <2>1
    <2> QED  BY <2>2 DEF NoRoom
<1> HIDE DEF N
<1>2. 0 \in Fitting  BY <1>0, <1>1
<1>3. PICK m \in Spare : \A k \in Spare : m <= k
    <2>1. N \in Spare  BY <1>0, <1>2
    <2>2. Spare \in SUBSET Nat /\ Spare # {}  BY <2>1
    <2> HIDE DEF Spare
    <2> QED  BY <2>2, LeastNat
<1>4. N - m \in Fitting /\ \A k \in Fitting : N - m >= k
    <2>1. ASSUME NEW k \in Fitting PROVE N - m >= k
        <3>1. k \in 0 .. N /\ N - k \in 0 .. N /\ N - (N - k) = k  BY <1>0, <1>1
        <3>2. m <= N - k /\ m \in 0 .. N  BY <1>3, <3>1
        <3> QED  BY <1>0, <3>1, <3>2
    <2> QED  BY <1>3, <2>1
<1>5. Max(Fitting) \in Fitting /\ \A k \in Fitting : Max(Fitting) >= k
    <2> DEFINE n == N - m
    <2>1. n \in Fitting /\ \A k \in Fitting : n >= k  BY <1>4
    <2> HIDE DEF n
    <2> QED  BY <2>1 DEF Max
<1> DEFINE x == Max(Fitting)
<1> HIDE DEF x
<1>6. x \in 0 .. N /\ (\A i \in 1 .. x : SlotsOf(sampled, i) < needed) /\ \A k \in Fitting : x >= k
    BY <1>1, <1>5 DEF x
<1>7. SlotsOf(sampled, x) < needed
    <2>1. CASE x = 0  BY <1>0, <2>1
    <2>2. CASE x # 0
        <3>1. x \in 1 .. x  BY <1>6, <2>2
        <3> QED  BY <1>6, <3>1
    <2> QED  BY <2>1, <2>2
<1>8. ASSUME SlotsOf(sampled, N) < needed PROVE x = N
    <2>1. \A i \in 1 .. N : SlotsOf(sampled, i) < needed
        <3> SUFFICES ASSUME NEW i \in 1 .. N PROVE SlotsOf(sampled, i) < needed  OBVIOUS
        <3>1. i \in 0 .. N /\ N \in 0 .. N  BY <1>0
        <3> QED  BY <1>0, <1>8, <3>1
    <2>2. N \in Fitting  BY <1>0, <1>1, <2>1
    <2> QED  BY <1>0, <1>6, <2>2
<1> QED  BY <1>6, <1>7, <1>8 DEF N, x

-----------------------------------------------------------------------------
(* The dump.                                                                 *)

\* The array is larger than the list takes unless the list has grown since it was
\* measured.
DumpInv ==
    /\ sampled \in Seq(Nat)
    /\ needed \in Nat \ {0} /\ used \in Nat /\ used < needed
    /\ grown \in BOOLEAN /\ missed \in BOOLEAN /\ (missed => grown)
    /\ doing = "fill" /\ ~ grown => SlotsOf(sampled, Len(sampled)) < needed

LEMMA InitDump == Init_T => DumpInv
<1> SUFFICES ASSUME Init_T PROVE DumpInv  OBVIOUS
<1>1. /\ sampled = <<>> /\ doing = "idle" /\ needed = 1 /\ used = 0
      /\ grown = FALSE /\ missed = FALSE
    BY DEF Init_T
<1>2. <<>> \in Seq(Nat)  BY EmptySeq
<1>3. needed \in Nat \ {0} /\ used \in Nat /\ used < needed  BY <1>1
<1> QED  BY <1>1, <1>2, <1>3 DEF DumpInv

\* A step that leaves the dump and the list alone and begins none.
LEMMA DumpQuiet ==
    ASSUME DumpInv, UNCHANGED <<sampled, needed, used, grown, missed>>,
           doing' = doing \/ doing' # "fill"
    PROVE  DumpInv'
BY DEF DumpInv, SlotsOf

LEMMA SampleDump ==
    ASSUME DumpInv, NEW d \in Depths, Sample(d)
    PROVE  DumpInv'
<1>1. d \in Nat  BY BoundsAssumption
<1>2. /\ sampled' = <<d>> \o sampled /\ grown' = TRUE
      /\ UNCHANGED <<needed, used, missed>>
    BY DEF Sample
<1>3. sampled \in Seq(Nat)  BY DEF DumpInv
<1>4. <<d>> \in Seq(Nat)  BY <1>1
<1>5. sampled' \in Seq(Nat)  BY <1>2, <1>3, <1>4, ConcatProperties
<1> QED  BY <1>2, <1>5 DEF DumpInv

LEMMA UnsampleDump ==
    ASSUME DumpInv, NEW i \in DOMAIN sampled, Unsample(i)
    PROVE  DumpInv'
<1>1. sampled' = RemoveAt(sampled, i) /\ UNCHANGED <<doing, needed, used, grown, missed>>
    BY DEF Unsample, dump
<1>2. sampled \in Seq(Nat) /\ i \in 1 .. Len(sampled)
    <2>1. sampled \in Seq(Nat)  BY DEF DumpInv
    <2> QED  BY <2>1, LenProperties
<1>3. /\ sampled' \in Seq(Nat)
      /\ SlotsOf(sampled', Len(sampled')) <= SlotsOf(sampled, Len(sampled))
    BY <1>1, <1>2, RemovedAt, SlotsRemoved
<1>4. ASSUME doing = "fill", ~ grown
      PROVE  SlotsOf(sampled', Len(sampled')) < needed
    <2>1. SlotsOf(sampled, Len(sampled)) < needed /\ needed \in Nat  BY <1>4 DEF DumpInv
    <2>2. /\ SlotsOf(sampled, Len(sampled)) \in Nat
          /\ SlotsOf(sampled', Len(sampled')) \in Nat
        <3>1. ASSUME NEW s \in Seq(Nat) PROVE SlotsOf(s, Len(s)) \in Nat
            <4>1. Len(s) \in Nat  BY LenProperties
            <4>2. Len(s) \in 0 .. Len(s)  BY <4>1
            <4> QED  BY <4>2, SlotsNext
        <3> QED  BY <1>2, <1>3, <3>1
    <2> QED  BY <1>3, <2>1, <2>2
<1>5. doing' = "fill" /\ ~ grown' => SlotsOf(sampled', Len(sampled')) < needed'
    BY <1>1, <1>4
<1> QED  BY <1>1, <1>3, <1>5 DEF DumpInv, SlotsOf

LEMMA MeasureDump ==
    ASSUME DumpInv, Measure
    PROVE  DumpInv'
<1> DEFINE k == SlotsOf(sampled, Len(sampled))
           n == k + Slop
<1>1. /\ needed' = n + n \div 8 /\ used' = 0 /\ grown' = FALSE /\ missed' = FALSE
      /\ UNCHANGED sampled
    BY DEF Measure
<1>2. sampled \in Seq(Nat)  BY DEF DumpInv
<1>3. k \in Nat
    <2>1. Len(sampled) \in Nat  BY <1>2, LenProperties
    <2>2. Len(sampled) \in 0 .. Len(sampled)  BY <2>1
    <2> QED  BY <1>2, <2>2, SlotsNext
<1>4. SlotsOf(sampled', Len(sampled')) = k  BY <1>1
<1> HIDE DEF k
<1>5. n \in Nat \ {0} /\ k < n  BY <1>3, BoundsAssumption
<1> HIDE DEF n
<1>6. n \div 8 \in Nat  BY <1>5
<1>7. needed' \in Nat \ {0} /\ used' \in Nat /\ used' < needed' /\ k < needed'
    BY <1>1, <1>3, <1>5, <1>6
<1> QED  BY <1>1, <1>2, <1>4, <1>7 DEF DumpInv, SlotsOf

LEMMA FillDump ==
    ASSUME DumpInv, Fill
    PROVE  DumpInv'
<1> DEFINE x == Max(Fitting)
<1>1. /\ doing = "fill" /\ doing' = "idle" /\ used' = SlotsOf(sampled, x)
      /\ missed' = (x < Len(sampled))
      /\ UNCHANGED <<sampled, needed, grown>>
    BY DEF Fill
<1>2. sampled \in Seq(Nat) /\ needed \in Nat \ {0}  BY DEF DumpInv
<1>3. /\ x \in 0 .. Len(sampled) /\ SlotsOf(sampled, x) < needed
      /\ SlotsOf(sampled, Len(sampled)) < needed => x = Len(sampled)
    BY <1>2, FittingMax
<1>4. SlotsOf(sampled, x) \in Nat  BY <1>2, <1>3, SlotsNext
<1>5. Len(sampled) \in Nat  BY <1>2, LenProperties
<1> HIDE DEF x
<1>6. ASSUME ~ grown PROVE ~ missed'
    <2>1. x = Len(sampled)  BY <1>1, <1>3, <1>6 DEF DumpInv
    <2>2. ~ (x < Len(sampled))  BY <1>5, <2>1
    <2> QED  BY <1>1, <2>2
<1>7. used' \in Nat /\ used' < needed' /\ missed' \in BOOLEAN /\ (missed' => grown')
    BY <1>1, <1>3, <1>4, <1>6
<1> QED  BY <1>1, <1>2, <1>7 DEF DumpInv

LEMMA DumpStep == DumpInv /\ [Next_T]_vars_T => DumpInv'
<1> SUFFICES ASSUME DumpInv, [Next_T]_vars_T PROVE DumpInv'  OBVIOUS
<1>1. CASE UNCHANGED vars_T
    <2>1. UNCHANGED <<sampled, needed, used, grown, missed, doing>>  BY <1>1 DEF vars_T, dump
    <2> QED  BY <2>1, DumpQuiet
<1>2. ASSUME NEW n \in Chunks,
             \/ GrowHeap(n)
             \/ \E p \in Parts : Take(p, n) \/ Put(p, n)
      PROVE  DumpInv'
    <2>1. UNCHANGED <<sampled, needed, used, grown, missed, doing>>
        BY <1>2 DEF GrowHeap, Take, Put, dump
    <2> QED  BY <2>1, DumpQuiet
<1>3. ASSUME NEW d \in Depths, Sample(d) PROVE DumpInv'  BY <1>3, SampleDump
<1>4. ASSUME NEW i \in DOMAIN sampled, Unsample(i) PROVE DumpInv'  BY <1>4, UnsampleDump
<1>5. CASE ExtractBegin \/ Extract \/ ExtractEnd
    <2>1. /\ UNCHANGED <<sampled, needed, used, grown, missed>>
          /\ doing' = doing \/ doing' # "fill"
        BY <1>5 DEF ExtractBegin, Extract, ExtractEnd, dump
    <2> QED  BY <2>1, DumpQuiet
<1>6. CASE Measure  BY <1>6, MeasureDump
<1>7. CASE Fill  BY <1>7, FillDump
<1> QED  BY <1>1, <1>2, <1>3, <1>4, <1>5, <1>6, <1>7 DEF Next_T

\* An array measured with room to spare is larger than the list takes until a
\* block is sampled, in every execution.
THEOREM DumpInvariance == Spec_T => []DumpInv
<1>1. Init_T => DumpInv  BY InitDump
<1>2. DumpInv /\ [Next_T]_vars_T => DumpInv'  BY DumpStep
<1> QED  BY <1>1, <1>2, PTL DEF Spec_T

\* DumpStackTraces keeps within the array it allocated between two holds of
\* pageheap_lock, terminator included, and lacks a block only if one was sampled
\* in between: for any depths of traces and any steps of the other threads.
THEOREM DumpFitsHolds == Spec_T => []DumpFits
<1>1. DumpInv => DumpFits  BY DEF DumpInv, DumpFits
<1> QED  BY <1>1, DumpInvariance, PTL

=============================================================================
