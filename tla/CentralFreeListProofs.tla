----------------------- MODULE CentralFreeListProofs -----------------------
(***************************************************************************)
(* Theorems about CentralFreeList, for any number of threads, spans and    *)
(* size classes.  The first part is about locks and capacity: the locks    *)
(* cannot deadlock, transfer-cache capacity is conserved, and no class     *)
(* overfills its slots.  The second is about the objects: none is lost or  *)
(* handed out twice, the spans' counts and lists agree with them, no idle  *)
(* span stays with its class, and to the thread caches the central lists   *)
(* are an ObjectPool.                                                      *)
(***************************************************************************)
EXTENDS CentralFreeList, FiniteSetTheorems, SequenceTheorems, TLAPS

-----------------------------------------------------------------------------
(* The inductive invariant.                                                  *)

IsSeq(s) == \E S : s \in Seq(S)

\* The types of what decides where a thread goes next, and that the slots of
\* a class are a sequence, of whatever.
ControlOK ==
    /\ lock \in [Classes -> Threads \cup {NoThread}]
    /\ cache_size \in [Classes -> Nat]
    /\ tc_slots = [c \in Classes |-> tc_slots[c]]
    /\ \A c \in Classes : IsSeq(tc_slots[c])
    /\ pc \in [Threads -> Labels]
    /\ cl \in [Threads -> Classes]
    /\ victim \in [Threads -> Classes \cup {NoClass}]
    /\ force \in [Threads -> BOOLEAN]
    /\ grown \in [Threads -> BOOLEAN]

\* A thread has a victim from Evict until it is back under its own lock.
VictimOK ==
    \A t \in Threads :
        /\ pc[t] \in {"peek_size", "peek_used", "shrink", "revert"} => victim[t] \in Classes
        /\ pc[t] \in {"idle", "fetch", "refetch", "populate", "attach", "evict"} => victim[t] = NoClass

\* A thread that took a slot is on its way back to its own class.
GrownOK ==
    \A t \in Threads :
        grown[t] => /\ pc[t] \in {"revert", "release", "delete", "relock"}
                    /\ victim[t] \in Classes

\* Which lock a thread holds at each label.
Holds(t, c) ==
    \/ pc[t] \in {"fetch", "refetch", "evict", "peek_size", "peek_used"} /\ c = cl[t]
    \/ pc[t] = "release" /\ c = ReleaseClass(t)

LocksOK == \A t \in Threads, c \in Classes : lock[c] = t <=> Holds(t, c)

SlotsOK == \A c \in Classes : used_slots(c) <= cache_size[c]

CapacityOK ==
    /\ IsFiniteSet(CapacityTokens(cache_size, grown))
    /\ Cardinality(CapacityTokens(cache_size, grown)) = NumClasses

Control == ControlOK /\ VictimOK /\ GrownOK /\ LocksOK

IInv == Control /\ SlotsOK /\ CapacityOK

-----------------------------------------------------------------------------
(* Sequences.                                                                *)

LEMMA AppendSeq ==
    ASSUME NEW s, NEW e, IsSeq(s)
    PROVE  /\ IsSeq(Append(s, e))
           /\ Len(s) \in Nat
           /\ Len(Append(s, e)) = Len(s) + 1
<1>1. PICK S : s \in Seq(S)  BY DEF IsSeq
<1>2. s \in Seq(S \cup {e})  BY <1>1, SeqMonotonic
<1>3. Append(s, e) \in Seq(S \cup {e}) /\ Len(Append(s, e)) = Len(s) + 1
    BY <1>2, AppendProperties
<1>4. Len(s) \in Nat  BY <1>1, LenProperties
<1> QED  BY <1>3, <1>4 DEF IsSeq

LEMMA FrontSeq ==
    ASSUME NEW s, IsSeq(s), s # <<>>
    PROVE  /\ IsSeq(Front(s))
           /\ Len(s) \in Nat
           /\ Len(s) > 0
           /\ Len(Front(s)) = Len(s) - 1
<1> DEFINE n == Len(s)
<1>1. PICK S : s \in Seq(S)  BY DEF IsSeq
<1>2. n \in Nat /\ n # 0  BY <1>1, EmptySeq
<1>3. \A i \in 1 .. n - 1 : s[i] \in S  BY <1>1, <1>2, ElementOfSeq
<1>4. /\ Front(s) \in Seq(S)
      /\ Len(Front(s)) = IF 1 <= n - 1 THEN (n - 1) - 1 + 1 ELSE 0
    BY <1>2, <1>3, SubSeqProperties DEF Front
<1> HIDE DEF n
<1>5. Len(Front(s)) = n - 1  BY <1>2, <1>4
<1>6. n > 0  BY <1>2
<1> QED  BY <1>2, <1>4, <1>5, <1>6 DEF IsSeq, n

LEMMA LenOfSeq ==
    ASSUME NEW s, IsSeq(s)
    PROVE  /\ Len(s) \in Nat
           /\ Len(s) = 0 <=> s = <<>>
<1>1. PICK S : s \in Seq(S)  BY DEF IsSeq
<1> QED  BY <1>1, LenProperties, EmptySeq

-----------------------------------------------------------------------------
(* The initial state.                                                        *)

LEMMA InitControl == Init => Control
<1> SUFFICES ASSUME Init PROVE Control  OBVIOUS
<1> USE NumClassesAssumption, NullAssumption DEF Init, Classes
<1>1. \A c \in Classes : IsSeq(tc_slots[c])
    <2>1. <<>> \in Seq({})  BY EmptySeq
    <2> QED  BY <2>1 DEF IsSeq
<1>2. ControlOK  BY <1>1 DEF ControlOK, Labels
<1>3. VictimOK  BY DEF VictimOK
<1>4. GrownOK  BY DEF GrownOK
<1>5. LocksOK  BY DEF LocksOK, Holds
<1> QED  BY <1>2, <1>3, <1>4, <1>5 DEF Control

-----------------------------------------------------------------------------
(* Every step keeps Control.                                                 *)

LEMMA RemoveFromCacheControl ==
    ASSUME Control, NEW t \in Threads, NEW c \in UsedClasses, RemoveFromCache(t, c)
    PROVE  Control'
<1> USE NullAssumption DEF Control, RemoveFromCache, PopSlot, GoTo, Acquire, Release, NoClass, shared, spans, locals
<1>1. IsSeq(Front(tc_slots[c]))  BY FrontSeq DEF ControlOK, UsedClasses
<1>2. ControlOK'  BY <1>1 DEF ControlOK, Labels
<1>3. VictimOK'  BY DEF ControlOK, VictimOK
<1>4. GrownOK'  BY DEF ControlOK, GrownOK
<1>5. LocksOK'  BY DEF ControlOK, VictimOK, GrownOK, LocksOK, Holds, ReleaseClass
<1> QED  BY <1>2, <1>3, <1>4, <1>5

LEMMA RemoveBeginControl ==
    ASSUME Control, NEW t \in Threads, NEW c \in UsedClasses, RemoveBegin(t, c)
    PROVE  Control'
<1> USE NullAssumption DEF Control, RemoveBegin, GoTo, Acquire, Release, NoClass, shared, spans, locals
<1>1. ControlOK'  BY DEF ControlOK, Labels, UsedClasses
<1>2. VictimOK'  BY DEF ControlOK, VictimOK
<1>3. GrownOK'  BY DEF ControlOK, GrownOK
<1>4. LocksOK'  BY DEF ControlOK, VictimOK, GrownOK, LocksOK, Holds, ReleaseClass
<1> QED  BY <1>1, <1>2, <1>3, <1>4

LEMMA FetchObjectControl ==
    ASSUME Control, NEW t \in Threads, FetchObject(t)
    PROVE  Control'
<1> USE NullAssumption DEF Control, FetchObject, FetchFromSpans, ReturnObjects, GoTo, Acquire, Release, NoClass, shared, spans, locals
<1>1. ControlOK'  BY DEF ControlOK, Labels
<1>2. VictimOK'  BY SMTT(30), ZenonT(60) DEF ControlOK, VictimOK
<1>3. GrownOK'  BY DEF ControlOK, GrownOK
<1>4. LocksOK'  BY SMTT(30), ZenonT(60) DEF ControlOK, VictimOK, GrownOK, LocksOK, Holds, ReleaseClass
<1> QED  BY <1>1, <1>2, <1>3, <1>4

LEMMA FetchNothingControl ==
    ASSUME Control, NEW t \in Threads, FetchNothing(t)
    PROVE  Control'
<1> USE NullAssumption DEF Control, FetchNothing, ReturnObjects, GoTo, Acquire, Release, NoClass, shared, spans, locals
<1>1. ControlOK'  BY DEF ControlOK, Labels
<1>2. VictimOK'  BY DEF ControlOK, VictimOK
<1>3. GrownOK'  BY DEF ControlOK, GrownOK
<1>4. LocksOK'  BY DEF ControlOK, VictimOK, GrownOK, LocksOK, Holds, ReleaseClass
<1> QED  BY <1>1, <1>2, <1>3, <1>4

LEMMA PopulateNewControl ==
    ASSUME Control, NEW t \in Threads, PopulateNew(t)
    PROVE  Control'
<1> USE NullAssumption DEF Control, PopulateNew, GoTo, Acquire, Release, NoClass, shared, spans, locals
<1>1. ControlOK'  BY DEF ControlOK, Labels
<1>2. VictimOK'  BY DEF ControlOK, VictimOK
<1>3. GrownOK'  BY DEF ControlOK, GrownOK
<1>4. LocksOK'  BY DEF ControlOK, VictimOK, GrownOK, LocksOK, Holds, ReleaseClass
<1> QED  BY <1>1, <1>2, <1>3, <1>4

LEMMA PopulateAttachControl ==
    ASSUME Control, NEW t \in Threads, PopulateAttach(t)
    PROVE  Control'
<1> USE NullAssumption DEF Control, PopulateAttach, AfterPopulate, GoTo, Acquire, Release, NoClass, shared, spans, locals
<1>1. ControlOK'  BY DEF ControlOK, Labels
<1>2. VictimOK'  BY DEF ControlOK, VictimOK
<1>3. GrownOK'  BY DEF ControlOK, GrownOK
<1>4. LocksOK'  BY DEF ControlOK, VictimOK, GrownOK, LocksOK, Holds, ReleaseClass
<1> QED  BY <1>1, <1>2, <1>3, <1>4

LEMMA InsertIntoCacheControl ==
    ASSUME Control, NEW t \in Threads, NEW c \in UsedClasses, NEW l, InsertIntoCache(t, c, l)
    PROVE  Control'
<1> USE NullAssumption DEF Control, InsertIntoCache, GoTo, Acquire, Release, NoClass, shared, spans, locals
<1>1. IsSeq(Append(tc_slots[c], l))  BY AppendSeq DEF ControlOK, UsedClasses
<1>2. ControlOK'  BY <1>1 DEF ControlOK, Labels
<1>3. VictimOK'  BY DEF ControlOK, VictimOK
<1>4. GrownOK'  BY DEF ControlOK, GrownOK
<1>5. LocksOK'  BY DEF ControlOK, VictimOK, GrownOK, LocksOK, Holds, ReleaseClass
<1> QED  BY <1>2, <1>3, <1>4, <1>5

LEMMA InsertBeginControl ==
    ASSUME Control, NEW t \in Threads, NEW c \in UsedClasses, NEW l, InsertBegin(t, c, l)
    PROVE  Control'
<1> USE NullAssumption DEF Control, InsertBegin, GoTo, Acquire, Release, NoClass, shared, spans, locals
<1>1. ControlOK'  BY DEF ControlOK, Labels, UsedClasses
<1>2. VictimOK'  BY DEF ControlOK, VictimOK
<1>3. GrownOK'  BY DEF ControlOK, GrownOK
<1>4. LocksOK'  BY DEF ControlOK, VictimOK, GrownOK, LocksOK, Holds, ReleaseClass
<1> QED  BY <1>1, <1>2, <1>3, <1>4

LEMMA ReleaseObjectControl ==
    ASSUME Control, NEW t \in Threads, ReleaseObject(t)
    PROVE  Control'
<1> USE NullAssumption DEF Control, ReleaseObject, ReleaseDone, GoTo, Acquire, Release, NoClass, shared, spans, locals
<1>1. ControlOK'  BY DEF ControlOK, Labels
<1>2. VictimOK'  BY SMTT(30), ZenonT(60) DEF ControlOK, VictimOK
<1>3. GrownOK'  BY NumClassesAssumption, SMTT(30), ZenonT(60) DEF ControlOK, GrownOK, Classes
<1>4. LocksOK'  BY SMTT(30), ZenonT(60) DEF ControlOK, VictimOK, GrownOK, LocksOK, Holds, ReleaseClass
<1> QED  BY <1>1, <1>2, <1>3, <1>4

LEMMA ReleaseLastObjectControl ==
    ASSUME Control, NEW t \in Threads, ReleaseLastObject(t)
    PROVE  Control'
<1> USE NullAssumption DEF Control, ReleaseLastObject, GoTo, Acquire, Release, NoClass, shared, spans, locals
<1>1. ControlOK'  BY DEF ControlOK, Labels
<1>2. VictimOK'  BY DEF ControlOK, VictimOK
<1>3. GrownOK'  BY DEF ControlOK, GrownOK
<1>4. LocksOK'  BY DEF ControlOK, VictimOK, GrownOK, LocksOK, Holds, ReleaseClass
<1> QED  BY <1>1, <1>2, <1>3, <1>4

LEMMA DeleteSpanControl ==
    ASSUME Control, NEW t \in Threads, DeleteSpan(t)
    PROVE  Control'
<1> USE NullAssumption DEF Control, DeleteSpan, GoTo, Acquire, Release, NoClass, shared, spans, locals
<1>1. ControlOK'  BY DEF ControlOK, Labels
<1>2. VictimOK'  BY DEF ControlOK, VictimOK
<1>3. GrownOK'  BY DEF ControlOK, GrownOK
<1>4. LocksOK'  BY DEF ControlOK, VictimOK, GrownOK, LocksOK, Holds, ReleaseClass
<1> QED  BY <1>1, <1>2, <1>3, <1>4

LEMMA RelockControl ==
    ASSUME Control, NEW t \in Threads, Relock(t)
    PROVE  Control'
<1> USE NullAssumption DEF Control, NoClass
<1>1. /\ UNCHANGED <<tc_slots, cache_size, cl, victim, force, grown>>
      /\ pc[t] = "relock"
      /\ \/ /\ lock' = [lock EXCEPT ![ReleaseClass(t)] = NoThread]
            /\ \/ victim[t] = NoClass /\ pc' = [pc EXCEPT ![t] = "idle"]
               \/ victim[t] # NoClass /\ pc' = [pc EXCEPT ![t] = "revert"]
         \/ /\ lock' = [lock EXCEPT ![ReleaseClass(t)] = t]
            /\ pc' = [pc EXCEPT ![t] = "release"]
      /\ lock[ReleaseClass(t)] = NoThread
    BY DEF Relock, ReleaseDone, GoTo, Acquire, Release, shared, locals
<1>2. ControlOK'  BY <1>1 DEF ControlOK, Labels
<1>3. VictimOK'  BY <1>1 DEF ControlOK, VictimOK
<1>4. grown[t] => victim[t] # -1  BY NumClassesAssumption DEF GrownOK, Classes
<1>5. GrownOK'  BY <1>1, <1>4 DEF ControlOK, GrownOK
<1>6. LocksOK'  BY <1>1 DEF ControlOK, VictimOK, GrownOK, LocksOK, Holds, ReleaseClass
<1> QED  BY <1>2, <1>3, <1>5, <1>6

LEMMA EvictControl ==
    ASSUME Control, NEW t \in Threads, Evict(t)
    PROVE  Control'
<1> USE NullAssumption DEF Control, Evict, EvictFailed, GoTo, Acquire, Release, NoClass, shared, spans, locals
<1>1. ControlOK'  BY SMTT(30), ZenonT(60) DEF ControlOK, Labels
<1>2. VictimOK'  BY SMTT(30), ZenonT(60) DEF ControlOK, VictimOK
<1>3. GrownOK'  BY SMTT(30), ZenonT(60) DEF ControlOK, GrownOK
<1>4. LocksOK'  BY SMTT(30), ZenonT(60) DEF ControlOK, VictimOK, GrownOK, LocksOK, Holds, ReleaseClass
<1> QED  BY <1>1, <1>2, <1>3, <1>4

LEMMA PeekSizeControl ==
    ASSUME Control, NEW t \in Threads, PeekSize(t)
    PROVE  Control'
<1> USE NullAssumption DEF Control, PeekSize, EvictFailed, GoTo, Acquire, Release, NoClass, shared, spans, locals
<1>1. ControlOK'  BY SMTT(30), ZenonT(60) DEF ControlOK, Labels
<1>2. VictimOK'  BY SMTT(30), ZenonT(60) DEF ControlOK, VictimOK
<1>3. GrownOK'  BY SMTT(30), ZenonT(60) DEF ControlOK, GrownOK
<1>4. LocksOK'  BY SMTT(30), ZenonT(60) DEF ControlOK, VictimOK, GrownOK, LocksOK, Holds, ReleaseClass
<1> QED  BY <1>1, <1>2, <1>3, <1>4

LEMMA PeekUsedControl ==
    ASSUME Control, NEW t \in Threads, PeekUsed(t)
    PROVE  Control'
<1> USE NullAssumption DEF Control, PeekUsed, EvictFailed, GoTo, Acquire, Release, NoClass, shared, spans, locals
<1>1. ControlOK'  BY SMTT(30), ZenonT(60) DEF ControlOK, Labels
<1>2. VictimOK'  BY SMTT(30), ZenonT(60) DEF ControlOK, VictimOK
<1>3. GrownOK'  BY DEF ControlOK, GrownOK
<1>4. LocksOK'  BY DEF ControlOK, VictimOK, GrownOK, LocksOK, Holds, ReleaseClass
<1> QED  BY <1>1, <1>2, <1>3, <1>4

\* What Shrink does to the locks and to the capacity: nothing, or one of the
\* two ways to take a slot.
ShrinkEffect(t) ==
    LET v == victim[t] IN
    /\ v \in Classes /\ ~ grown[t] /\ pc[t] = "shrink" /\ lock[v] = NoThread
    /\ UNCHANGED <<cl, victim, force>>
    /\ \/ /\ UNCHANGED <<lock, cache_size, tc_slots, grown>>
          /\ pc' = [pc EXCEPT ![t] = "revert"]
       \/ /\ cache_size[v] # 0 /\ used_slots(v) # cache_size[v]
          /\ cache_size' = [cache_size EXCEPT ![v] = @ - 1]
          /\ grown' = [grown EXCEPT ![t] = TRUE]
          /\ pc' = [pc EXCEPT ![t] = "revert"]
          /\ UNCHANGED <<lock, tc_slots>>
       \/ /\ cache_size[v] # 0 /\ used_slots(v) = cache_size[v]
          /\ cache_size' = [cache_size EXCEPT ![v] = @ - 1]
          /\ grown' = [grown EXCEPT ![t] = TRUE]
          /\ tc_slots' = [tc_slots EXCEPT ![v] = Front(@)]
          /\ pc' = [pc EXCEPT ![t] = "release"]
          /\ lock' = [lock EXCEPT ![v] = t]

LEMMA ShrinkCases ==
    ASSUME Control, NEW t \in Threads, Shrink(t)
    PROVE  ShrinkEffect(t)
<1> USE DEF ShrinkEffect
<1>1. pc[t] = "shrink" /\ lock[victim[t]] = NoThread /\ UNCHANGED <<cl, victim, force>>
    BY DEF Shrink
<1>2. victim[t] \in Classes /\ ~ grown[t]
    BY <1>1 DEF Control, VictimOK, GrownOK
<1>3. CASE NothingToTake(victim[t], force[t])
    BY <1>1, <1>2, <1>3 DEF Shrink, GoTo
<1>4. CASE ~ NothingToTake(victim[t], force[t])
    BY <1>1, <1>2, <1>4 DEF Shrink, GoTo, NothingToTake, PopSlot, Acquire
<1> QED  BY <1>3, <1>4

LEMMA ShrinkControl ==
    ASSUME Control, NEW t \in Threads, Shrink(t)
    PROVE  Control'
<1> DEFINE v == victim[t]
<1>1. ControlOK /\ VictimOK /\ GrownOK /\ LocksOK  BY DEF Control
<1>2. v \in Classes /\ ShrinkEffect(t)  BY ShrinkCases DEF ShrinkEffect
<1>3. cache_size' \in [Classes -> Nat]
    <2>1. cache_size[v] \in Nat  BY <1>1, <1>2 DEF ControlOK
    <2>2. CASE UNCHANGED cache_size  BY <1>1, <2>2 DEF ControlOK
    <2>3. CASE cache_size[v] # 0 /\ cache_size' = [cache_size EXCEPT ![v] = @ - 1]
        <3> DEFINE n == cache_size[v] - 1
        <3>1. n \in Nat  BY <2>1, <2>3
        <3>2. cache_size' = [cache_size EXCEPT ![v] = n]  BY <2>3
        <3> HIDE DEF n
        <3> QED  BY <1>1, <3>1, <3>2 DEF ControlOK
    <2>4. \/ UNCHANGED cache_size
          \/ cache_size[v] # 0 /\ cache_size' = [cache_size EXCEPT ![v] = @ - 1]
        BY <1>2 DEF ShrinkEffect
    <2> QED  BY <2>2, <2>3, <2>4
<1>4. tc_slots' = [c \in Classes |-> tc_slots'[c]] /\ \A c \in Classes : IsSeq(tc_slots'[c])
    <2>1. CASE UNCHANGED tc_slots  BY <1>1, <2>1 DEF ControlOK
    <2>2. CASE /\ cache_size[v] # 0 /\ used_slots(v) = cache_size[v]
               /\ tc_slots' = [tc_slots EXCEPT ![v] = Front(@)]
        <3>1. IsSeq(tc_slots[v])  BY <1>1, <1>2 DEF ControlOK
        <3>2. tc_slots[v] # <<>>  BY <2>2, <3>1, LenOfSeq DEF used_slots
        <3>3. IsSeq(Front(tc_slots[v]))  BY <3>1, <3>2, FrontSeq
        <3> QED  BY <1>1, <2>2, <3>3 DEF ControlOK
    <2> QED  BY <1>2, <2>1, <2>2 DEF ShrinkEffect
<1>5. lock' \in [Classes -> Threads \cup {NoThread}] /\ pc' \in [Threads -> Labels]
    BY <1>1, <1>2 DEF ShrinkEffect, ControlOK, Labels
<1>6. /\ cl' \in [Threads -> Classes]
       /\ victim' \in [Threads -> Classes \cup {NoClass}]
       /\ force' \in [Threads -> BOOLEAN]
       /\ grown' \in [Threads -> BOOLEAN]
    BY <1>1, <1>2 DEF ShrinkEffect, ControlOK
<1>7. ControlOK'  BY <1>3, <1>4, <1>5, <1>6 DEF ControlOK
<1>8. VictimOK'  BY <1>1, <1>2 DEF ShrinkEffect, ControlOK, VictimOK
<1>9. GrownOK'  BY <1>1, <1>2 DEF ShrinkEffect, ControlOK, GrownOK
<1>10. LocksOK'
    <2> SUFFICES ASSUME NEW u \in Threads, NEW d \in Classes
                 PROVE  lock'[d] = u <=> Holds(u, d)'
        BY DEF LocksOK
    <2>1. lock[d] = u <=> Holds(u, d)  BY <1>1 DEF LocksOK
    <2>2. lock[v] = NoThread /\ NoThread # u /\ v # NoClass /\ ~ Holds(t, d)
        <3>1. lock[v] = NoThread /\ pc[t] = "shrink"  BY <1>2 DEF ShrinkEffect
        <3> QED  BY <1>2, <3>1, NumClassesAssumption, NullAssumption DEF Holds, NoClass, Classes
    <2>3. CASE u # t
        <3>1. Holds(u, d)' <=> Holds(u, d)
            BY <1>1, <1>2, <2>3 DEF ShrinkEffect, ControlOK, Holds, ReleaseClass
        <3>2. lock'[d] = u <=> lock[d] = u
            BY <1>1, <1>2, <2>2, <2>3 DEF ShrinkEffect, ControlOK
        <3> QED  BY <2>1, <3>1, <3>2
    <2>4. CASE u = t
        <3>1. lock[d] # t  BY <2>1, <2>2, <2>4
        <3>2. CASE pc' = [pc EXCEPT ![t] = "revert"]
            <4>1. lock' = lock  BY <1>1, <1>2, <3>2 DEF ShrinkEffect, ControlOK
            <4>2. ~ Holds(t, d)'  BY <1>1, <3>2 DEF ControlOK, Holds
            <4> QED  BY <2>4, <3>1, <4>1, <4>2
        <3>3. CASE pc' = [pc EXCEPT ![t] = "release"] /\ lock' = [lock EXCEPT ![v] = t]
            <4>1. victim'[t] = v  BY <1>2 DEF ShrinkEffect
            <4>2. Holds(t, d)' <=> d = v
                BY <1>1, <2>2, <3>3, <4>1 DEF ControlOK, Holds, ReleaseClass
            <4> QED  BY <1>1, <1>2, <2>4, <3>1, <3>3, <4>2 DEF ControlOK
        <3> QED  BY <1>2, <3>2, <3>3 DEF ShrinkEffect
    <2> QED  BY <2>3, <2>4
<1> QED  BY <1>7, <1>8, <1>9, <1>10 DEF Control

\* What Revert does: give the slot to its own class, or try again.
RevertEffect(t) ==
    LET c == cl[t] IN
    /\ victim[t] \in Classes /\ pc[t] = "revert" /\ lock[c] = NoThread
    /\ victim' = [victim EXCEPT ![t] = NoClass]
    /\ force' \in [Threads -> BOOLEAN]
    /\ UNCHANGED cl
    /\ \/ /\ grown[t]
          /\ cache_size' = [cache_size EXCEPT ![c] = @ + 1]
          /\ tc_slots' = [tc_slots EXCEPT ![c] = Append(@, range[t])]
          /\ grown' = [grown EXCEPT ![t] = FALSE]
          /\ pc' = [pc EXCEPT ![t] = "idle"]
          /\ UNCHANGED lock
       \/ /\ ~ grown[t]
          /\ pc' \in {[pc EXCEPT ![t] = "evict"], [pc EXCEPT ![t] = "release"]}
          /\ lock' = [lock EXCEPT ![c] = t]
          /\ UNCHANGED <<cache_size, tc_slots, grown>>

LEMMA RevertCases ==
    ASSUME Control, NEW t \in Threads, Revert(t)
    PROVE  RevertEffect(t)
<1> USE DEF RevertEffect
<1>1. pc[t] = "revert" /\ UNCHANGED cl
    BY DEF Revert
<1>2. victim[t] \in Classes
    BY <1>1 DEF Control, VictimOK
<1>3. CASE grown[t]
    BY <1>1, <1>2, <1>3 DEF Revert, GoTo, GrowCache, Control, ControlOK
<1>4. CASE ~ grown[t]
    <2>1. Acquire(t, cl[t]) /\ EvictFailed(t) /\ UNCHANGED <<cache_size, tc_slots, grown>>
        BY <1>4 DEF Revert
    <2>2. force' \in [Threads -> BOOLEAN]
        BY <2>1 DEF EvictFailed, Control, ControlOK
    <2>3. pc' \in {[pc EXCEPT ![t] = "evict"], [pc EXCEPT ![t] = "release"]}
        BY <2>1 DEF EvictFailed, GoTo
    <2> QED  BY <1>1, <1>2, <1>4, <2>1, <2>2, <2>3 DEF EvictFailed, Acquire
<1> QED  BY <1>3, <1>4

LEMMA RevertControl ==
    ASSUME Control, NEW t \in Threads, Revert(t)
    PROVE  Control'
<1> DEFINE c == cl[t]
<1>1. ControlOK /\ VictimOK /\ GrownOK /\ LocksOK  BY DEF Control
<1>2. c \in Classes /\ RevertEffect(t)  BY <1>1, RevertCases DEF ControlOK
<1>3. cache_size' \in [Classes -> Nat]  BY <1>1, <1>2, SMTT(30), ZenonT(60) DEF RevertEffect, ControlOK
<1>4. tc_slots' = [d \in Classes |-> tc_slots'[d]] /\ \A d \in Classes : IsSeq(tc_slots'[d])
    <2>1. IsSeq(Append(tc_slots[c], range[t]))  BY <1>1, <1>2, AppendSeq DEF ControlOK
    <2> QED  BY <1>1, <2>1, <1>2 DEF RevertEffect, ControlOK
<1>5. lock' \in [Classes -> Threads \cup {NoThread}] /\ pc' \in [Threads -> Labels]
    <2>1. lock' \in [Classes -> Threads \cup {NoThread}]
        BY <1>1, <1>2, SMTT(30), ZenonT(60) DEF RevertEffect, ControlOK
    <2>2. pc' \in [Threads -> Labels]
        BY <1>1, <1>2, SMTT(30), ZenonT(60) DEF RevertEffect, ControlOK, Labels
    <2> QED  BY <2>1, <2>2
<1>6. /\ cl' \in [Threads -> Classes]
       /\ victim' \in [Threads -> Classes \cup {NoClass}]
       /\ force' \in [Threads -> BOOLEAN]
       /\ grown' \in [Threads -> BOOLEAN]
    BY <1>1, <1>2 DEF RevertEffect, ControlOK
<1>7. ControlOK'  BY <1>3, <1>4, <1>5, <1>6 DEF ControlOK
<1>8. VictimOK'  BY <1>1, <1>2 DEF RevertEffect, ControlOK, VictimOK
<1>9. GrownOK'  BY <1>1, <1>2 DEF RevertEffect, ControlOK, GrownOK
<1>10. LocksOK'
    BY <1>1, <1>2, NumClassesAssumption, NullAssumption, SMTT(60), ZenonT(60)
    DEF RevertEffect, ControlOK, LocksOK, Holds, ReleaseClass, NoClass, Classes
<1> QED  BY <1>7, <1>8, <1>9, <1>10 DEF Control

LEMMA ControlStep == Control /\ [Next]_vars => Control'
<1> SUFFICES ASSUME Control, [Next]_vars PROVE Control'  OBVIOUS
<1>1. CASE UNCHANGED vars
    <2>1. /\ lock' = lock /\ cache_size' = cache_size /\ tc_slots' = tc_slots
          /\ pc' = pc /\ cl' = cl /\ victim' = victim /\ force' = force /\ grown' = grown
        BY <1>1 DEF vars, shared, spans, locals
    <2>2. ControlOK'  BY <2>1 DEF Control, ControlOK
    <2>3. VictimOK'  BY <2>1 DEF Control, VictimOK
    <2>4. GrownOK'  BY <2>1 DEF Control, GrownOK
    <2>5. LocksOK'  BY <2>1 DEF Control, LocksOK, Holds, ReleaseClass
    <2> QED  BY <2>2, <2>3, <2>4, <2>5 DEF Control
<1>2. ASSUME NEW t \in Threads, RemoveRange(t)
      PROVE  Control'
    BY <1>2, RemoveFromCacheControl, RemoveBeginControl, FetchObjectControl,
       FetchNothingControl, PopulateNewControl, PopulateAttachControl
    DEF RemoveRange
<1>3. ASSUME NEW t \in Threads, InsertRange(t)
      PROVE  Control'
    BY <1>3, InsertIntoCacheControl, InsertBeginControl, EvictControl, PeekSizeControl,
       PeekUsedControl, ShrinkControl, RevertControl, ReleaseObjectControl,
       ReleaseLastObjectControl, DeleteSpanControl, RelockControl
    DEF InsertRange
<1> QED  BY <1>1, <1>2, <1>3 DEF Next

-----------------------------------------------------------------------------
(* Capacity.                                                                 *)

LEMMA TokenMember ==
    ASSUME NEW size, NEW took, NEW x
    PROVE  x \in CapacityTokens(size, took) <=>
             \/ \E c \in Classes : \E i \in 1 .. size[c] : x = <<c, i>>
             \/ \E t \in Threads : took[t] /\ x = <<NoClass, t>>
<1>1. x \in UNION {{c} \X (1 .. size[c]) : c \in Classes}
         <=> \E c \in Classes : x \in {c} \X (1 .. size[c])
    OBVIOUS
<1>2. ASSUME NEW c \in Classes
      PROVE  x \in {c} \X (1 .. size[c]) <=> \E i \in 1 .. size[c] : x = <<c, i>>
    OBVIOUS
<1>3. x \in {<<NoClass, t>> : t \in {u \in Threads : took[u]}}
         <=> \E t \in Threads : took[t] /\ x = <<NoClass, t>>
    OBVIOUS
<1>4. x \in CapacityTokens(size, took) <=>
         \/ \E c \in Classes : x \in {c} \X (1 .. size[c])
         \/ \E t \in Threads : took[t] /\ x = <<NoClass, t>>
    BY <1>1, <1>3, Zenon DEF CapacityTokens
<1> QED  BY <1>2, <1>4, Zenon

LEMMA Exchange ==
    ASSUME NEW S, IsFiniteSet(S), NEW x \in S, NEW y, y \notin S
    PROVE  /\ IsFiniteSet((S \ {x}) \cup {y})
           /\ Cardinality((S \ {x}) \cup {y}) = Cardinality(S)
<1>1. /\ IsFiniteSet(S \ {x})
      /\ Cardinality(S \ {x}) = Cardinality(S) - 1
    BY FS_RemoveElement
<1>2. /\ IsFiniteSet((S \ {x}) \cup {y})
      /\ Cardinality((S \ {x}) \cup {y}) = Cardinality(S \ {x}) + 1
    BY <1>1, FS_AddElement
<1>3. Cardinality(S) \in Nat  BY FS_CardinalityType
<1> QED  BY <1>1, <1>2, <1>3

\* Thread t takes a slot from class c.
Takes(size, took, size2, took2, c, t) ==
    /\ size[c] # 0 /\ size2[c] = size[c] - 1
    /\ \A d \in Classes \ {c} : size2[d] = size[d]
    /\ ~ took[t] /\ took2[t]
    /\ \A u \in Threads \ {t} : took2[u] = took[u]

\* It exchanges a token for another.
LEMMA TakeToken ==
    ASSUME NEW size \in [Classes -> Nat], NEW size2 \in [Classes -> Nat],
           NEW took \in [Threads -> BOOLEAN], NEW took2 \in [Threads -> BOOLEAN],
           NEW c \in Classes, NEW t \in Threads, Takes(size, took, size2, took2, c, t)
    PROVE  /\ <<c, size[c]>> \in CapacityTokens(size, took)
           /\ <<NoClass, t>> \notin CapacityTokens(size, took)
           /\ CapacityTokens(size2, took2) =
                (CapacityTokens(size, took) \ {<<c, size[c]>>}) \cup {<<NoClass, t>>}
<1> DEFINE n == size[c]
           S == CapacityTokens(size, took)
           T == CapacityTokens(size2, took2)
<1> USE DEF Takes
<1>1. n \in Nat /\ n # 0  OBVIOUS
<1>2. <<c, n>> \in S  BY <1>1, TokenMember
<1>3. \A d \in Classes : d # NoClass  BY NumClassesAssumption DEF Classes, NoClass
<1>4. <<NoClass, t>> \notin S  BY <1>3, TokenMember
<1>5. ASSUME NEW x
      PROVE  x \in T <=> x \in (S \ {<<c, n>>}) \cup {<<NoClass, t>>}
    <2>1. ASSUME NEW d \in Classes, NEW i, x = <<d, i>>
          PROVE  i \in 1 .. size2[d] <=> i \in 1 .. size[d] /\ x # <<c, n>>
        <3>1. CASE d = c  BY <1>1, <2>1, <3>1
        <3>2. CASE d # c  BY <2>1, <3>2
        <3> QED  BY <3>1, <3>2
    <2>2. ASSUME NEW u \in Threads, x = <<NoClass, u>>
          PROVE  took2[u] <=> took[u] \/ x = <<NoClass, t>>
        BY <2>2
    <2> HIDE DEF n, NoClass
    <2>3. x \in T <=>
             \/ \E d \in Classes : \E i \in 1 .. size2[d] : x = <<d, i>>
             \/ \E u \in Threads : took2[u] /\ x = <<NoClass, u>>
        BY TokenMember
    <2>4. x \in S <=>
             \/ \E d \in Classes : \E i \in 1 .. size[d] : x = <<d, i>>
             \/ \E u \in Threads : took[u] /\ x = <<NoClass, u>>
        BY TokenMember
    <2>5. (\E d \in Classes : \E i \in 1 .. size2[d] : x = <<d, i>>)
             <=> (\E d \in Classes : \E i \in 1 .. size[d] : x = <<d, i>>) /\ x # <<c, n>>
        BY <2>1
    <2>6. (\E u \in Threads : took2[u] /\ x = <<NoClass, u>>)
             <=> \/ \E u \in Threads : took[u] /\ x = <<NoClass, u>>
                 \/ x = <<NoClass, t>>
        BY <2>2
    <2>7. ASSUME NEW u \in Threads, x = <<NoClass, u>>
          PROVE  x # <<c, n>>
        BY <1>3, <2>7
    <2> HIDE DEF S, T, Takes
    <2> QED  BY <2>3, <2>4, <2>5, <2>6, <2>7
<1>6. T = (S \ {<<c, n>>}) \cup {<<NoClass, t>>}
    <2> HIDE DEF S, T, n
    <2> QED  BY <1>5
<1> QED  BY <1>2, <1>4, <1>6

LEMMA InitCapacity == Init => CapacityOK
<1> SUFFICES ASSUME Init PROVE CapacityOK  OBVIOUS
<1>1. CapacityTokens(cache_size, grown) = Classes \X {1}
    <2>1. ASSUME NEW x
          PROVE  x \in CapacityTokens(cache_size, grown) <=> x \in Classes \X {1}
        <3>1. x \in CapacityTokens(cache_size, grown) <=> \E c \in Classes : \E i \in 1 .. 1 : x = <<c, i>>
            BY TokenMember DEF Init
        <3> QED  BY <3>1
    <2> QED  BY <2>1
<1>2. IsFiniteSet(Classes) /\ Cardinality(Classes) = NumClasses
    <2>1. /\ IsFiniteSet(0 .. NumClasses - 1)
          /\ Cardinality(0 .. NumClasses - 1) = IF 0 > NumClasses - 1 THEN 0 ELSE (NumClasses - 1) - 0 + 1
        BY FS_Interval, NumClassesAssumption
    <2> QED  BY <2>1, NumClassesAssumption DEF Classes
<1>3. IsFiniteSet({1}) /\ Cardinality({1}) = 1  BY FS_Singleton
<1>4. /\ IsFiniteSet(Classes \X {1})
      /\ Cardinality(Classes \X {1}) = NumClasses * 1
    BY <1>2, <1>3, FS_Product
<1> QED  BY <1>1, <1>4, NumClassesAssumption DEF CapacityOK

LEMMA CapacityStep == Control /\ CapacityOK /\ [Next]_vars => CapacityOK'
<1> SUFFICES ASSUME Control, CapacityOK, [Next]_vars PROVE CapacityOK'  OBVIOUS
<1> DEFINE S == CapacityTokens(cache_size, grown)
           T == CapacityTokens(cache_size', grown')
<1>1. /\ cache_size \in [Classes -> Nat] /\ cache_size' \in [Classes -> Nat]
      /\ grown \in [Threads -> BOOLEAN] /\ grown' \in [Threads -> BOOLEAN]
    BY ControlStep DEF Control, ControlOK
<1>2. IsFiniteSet(S) /\ Cardinality(S) = NumClasses  BY DEF CapacityOK
<1>3. CASE UNCHANGED <<cache_size, grown>>
    BY <1>3 DEF CapacityOK
<1>4. ASSUME NEW t \in Threads, Shrink(t)
      PROVE  CapacityOK'
    <2>1. ShrinkEffect(t)  BY <1>4, ShrinkCases
    <2>2. PICK v \in Classes : v = victim[t]  BY <2>1 DEF ShrinkEffect
    <2>3. ~ grown[t]  BY <2>1 DEF ShrinkEffect
    <2>4. CASE /\ cache_size[v] # 0
               /\ cache_size' = [cache_size EXCEPT ![v] = @ - 1]
               /\ grown' = [grown EXCEPT ![t] = TRUE]
        <3>1. Takes(cache_size, grown, cache_size', grown', v, t)
            BY <1>1, <2>4, <2>3 DEF Takes
        <3>2. /\ <<v, cache_size[v]>> \in S
              /\ <<NoClass, t>> \notin S
              /\ T = (S \ {<<v, cache_size[v]>>}) \cup {<<NoClass, t>>}
            BY <1>1, <3>1, TakeToken
        <3>3. IsFiniteSet(T) /\ Cardinality(T) = Cardinality(S)
            BY <1>2, <3>2, Exchange
        <3> QED  BY <1>2, <3>3 DEF CapacityOK
    <2> QED  BY <1>3, <2>1, <2>2, <2>4 DEF ShrinkEffect
<1>5. ASSUME NEW t \in Threads, Revert(t)
      PROVE  CapacityOK'
    <2>1. RevertEffect(t)  BY <1>5, RevertCases
    <2>2. PICK c \in Classes : c = cl[t]  BY DEF Control, ControlOK
    <2>3. CASE /\ grown[t]
               /\ cache_size' = [cache_size EXCEPT ![c] = @ + 1]
               /\ grown' = [grown EXCEPT ![t] = FALSE]
        \* Read backwards, this step takes the slot away again.
        <3>1. Takes(cache_size', grown', cache_size, grown, c, t)
            BY <1>1, <2>3 DEF Takes
        <3>2. /\ <<c, cache_size'[c]>> \in T
              /\ <<NoClass, t>> \notin T
              /\ S = (T \ {<<c, cache_size'[c]>>}) \cup {<<NoClass, t>>}
            BY <1>1, <3>1, TakeToken
        <3>3. T = (S \ {<<NoClass, t>>}) \cup {<<c, cache_size'[c]>>}
            BY <3>2
        <3>4. <<NoClass, t>> \in S /\ <<c, cache_size'[c]>> \notin S
            BY <3>2, NumClassesAssumption DEF Classes, NoClass
        <3>5. IsFiniteSet(T) /\ Cardinality(T) = Cardinality(S)
            BY <1>2, <3>3, <3>4, Exchange
        <3> QED  BY <1>2, <3>5 DEF CapacityOK
    <2> QED  BY <1>3, <2>1, <2>2, <2>3 DEF RevertEffect
<1>6. ASSUME NEW t \in Threads, RemoveRange(t)
      PROVE  UNCHANGED <<cache_size, grown>>
    BY <1>6 DEF RemoveRange, RemoveFromCache, RemoveBegin, FetchObject, FetchNothing,
                PopulateNew, PopulateAttach, shared, locals
<1>7. ASSUME NEW t \in Threads, InsertRange(t), ~ Shrink(t), ~ Revert(t)
      PROVE  UNCHANGED <<cache_size, grown>>
    BY <1>7 DEF InsertRange, InsertIntoCache, InsertBegin, Evict, PeekSize, PeekUsed,
                ReleaseObject, ReleaseLastObject, DeleteSpan, Relock, shared, locals
<1>8. CASE UNCHANGED vars  BY <1>3, <1>8 DEF vars, shared, locals
<1> QED  BY <1>3, <1>4, <1>5, <1>6, <1>7, <1>8 DEF Next

-----------------------------------------------------------------------------
(* Slots.                                                                    *)

LEMMA SlotsStep == Control /\ SlotsOK /\ [Next]_vars => SlotsOK'
<1> SUFFICES ASSUME Control, SlotsOK, [Next]_vars PROVE SlotsOK'  OBVIOUS
<1>1. /\ cache_size \in [Classes -> Nat]
      /\ tc_slots = [c \in Classes |-> tc_slots[c]]
      /\ \A c \in Classes : IsSeq(tc_slots[c])
      /\ \A c \in Classes : used_slots(c) \in Nat
    BY LenOfSeq DEF Control, ControlOK, used_slots
<1>2. ASSUME UNCHANGED <<cache_size, tc_slots>>
      PROVE  SlotsOK'
    BY <1>2 DEF SlotsOK, used_slots
\* It is enough to look at the one class whose slots or size change.
<1>3. ASSUME NEW c \in Classes,
             \A d \in Classes \ {c} : cache_size'[d] = cache_size[d] /\ tc_slots'[d] = tc_slots[d],
             used_slots(c)' <= cache_size'[c]
      PROVE  SlotsOK'
    BY <1>3 DEF SlotsOK, used_slots
<1>4. ASSUME NEW t \in Threads, NEW c \in UsedClasses, RemoveFromCache(t, c)
      PROVE  SlotsOK'
    <2>1. /\ c \in Classes /\ tc_slots[c] # <<>>
          /\ cache_size' = cache_size
          /\ tc_slots' = [tc_slots EXCEPT ![c] = Front(@)]
        BY <1>4 DEF RemoveFromCache, PopSlot, UsedClasses
    <2>2. used_slots(c)' = used_slots(c) - 1
        BY <1>1, <2>1, FrontSeq DEF used_slots
    <2>3. used_slots(c)' <= cache_size'[c]
        BY <1>1, <2>1, <2>2 DEF SlotsOK
    <2> QED  BY <1>1, <1>3, <2>1, <2>3
<1>5. ASSUME NEW t \in Threads, NEW c \in UsedClasses, NEW l, InsertIntoCache(t, c, l)
      PROVE  SlotsOK'
    <2>1. /\ c \in Classes /\ used_slots(c) < cache_size[c]
          /\ cache_size' = cache_size
          /\ tc_slots' = [tc_slots EXCEPT ![c] = Append(@, l)]
        BY <1>5 DEF InsertIntoCache, HasSpace, UsedClasses
    <2>2. used_slots(c)' = used_slots(c) + 1
        BY <1>1, <2>1, AppendSeq DEF used_slots
    <2>3. used_slots(c)' <= cache_size'[c]
        BY <1>1, <2>1, <2>2
    <2> QED  BY <1>1, <1>3, <2>1, <2>3
<1>6. ASSUME NEW t \in Threads, Shrink(t)
      PROVE  SlotsOK'
    <2>1. ShrinkEffect(t)  BY <1>6, ShrinkCases
    <2>2. PICK v \in Classes : v = victim[t]  BY <2>1 DEF ShrinkEffect
    <2>3. used_slots(v) <= cache_size[v]  BY DEF SlotsOK
    <2>4. CASE /\ used_slots(v) # cache_size[v]
               /\ cache_size' = [cache_size EXCEPT ![v] = @ - 1]
               /\ tc_slots' = tc_slots
        <3>1. used_slots(v)' = used_slots(v)  BY <2>4 DEF used_slots
        <3>2. used_slots(v)' <= cache_size'[v]  BY <1>1, <2>3, <2>4, <3>1
        <3> QED  BY <1>1, <1>3, <2>3, <2>4, <3>2
    <2>5. CASE /\ cache_size[v] # 0 /\ used_slots(v) = cache_size[v]
               /\ cache_size' = [cache_size EXCEPT ![v] = @ - 1]
               /\ tc_slots' = [tc_slots EXCEPT ![v] = Front(@)]
        <3>1. tc_slots[v] # <<>>  BY <1>1, <2>3, <2>5, LenOfSeq DEF used_slots
        <3>2. used_slots(v)' = used_slots(v) - 1
            BY <1>1, <2>3, <2>5, <3>1, FrontSeq DEF used_slots
        <3>3. used_slots(v)' <= cache_size'[v]  BY <1>1, <2>3, <2>5, <3>2
        <3> QED  BY <1>1, <1>3, <2>3, <2>5, <3>3
    <2> QED  BY <1>2, <2>1, <2>4, <2>5, <2>2 DEF ShrinkEffect
<1>7. ASSUME NEW t \in Threads, Revert(t)
      PROVE  SlotsOK'
    <2>1. RevertEffect(t)  BY <1>7, RevertCases
    <2>2. PICK c \in Classes : c = cl[t]  BY DEF Control, ControlOK
    <2>3. used_slots(c) <= cache_size[c]  BY DEF SlotsOK
    <2>4. CASE /\ cache_size' = [cache_size EXCEPT ![c] = @ + 1]
               /\ tc_slots' = [tc_slots EXCEPT ![c] = Append(@, range[t])]
        <3>1. used_slots(c)' = used_slots(c) + 1
            BY <1>1, <2>3, <2>4, AppendSeq DEF used_slots
        <3>2. used_slots(c)' <= cache_size'[c]  BY <1>1, <2>3, <2>4, <3>1
        <3> QED  BY <1>1, <1>3, <2>3, <2>4, <3>2
    <2> QED  BY <1>2, <2>1, <2>4, <2>2 DEF RevertEffect
<1>8. ASSUME NEW t \in Threads,
             \/ FetchObject(t) \/ FetchNothing(t) \/ PopulateNew(t) \/ PopulateAttach(t)
             \/ \E c \in UsedClasses : RemoveBegin(t, c) \/ \E l \in Ranges(c) : InsertBegin(t, c, l)
             \/ Evict(t) \/ PeekSize(t) \/ PeekUsed(t) \/ ReleaseObject(t)
             \/ ReleaseLastObject(t) \/ DeleteSpan(t) \/ Relock(t)
      PROVE  UNCHANGED <<cache_size, tc_slots>>
    BY <1>8 DEF FetchObject, FetchNothing, PopulateNew, PopulateAttach, RemoveBegin, InsertBegin,
                Evict, PeekSize, PeekUsed, ReleaseObject, ReleaseLastObject, DeleteSpan, Relock,
                shared
<1>9. CASE UNCHANGED vars  BY <1>2, <1>9 DEF vars, shared
<1> QED
    BY <1>2, <1>4, <1>5, <1>6, <1>7, <1>8, <1>9 DEF Next, RemoveRange, InsertRange

-----------------------------------------------------------------------------
(* The theorems.                                                             *)

\* IInv is inductive.
THEOREM Invariance == Spec => []IInv
<1>1. Init => IInv
    <2>1. Init => SlotsOK
        BY EmptySeq DEF Init, SlotsOK, used_slots
    <2> QED  BY <2>1, InitControl, InitCapacity DEF IInv
<1>2. IInv /\ [Next]_vars => IInv'
    BY ControlStep, CapacityStep, SlotsStep DEF IInv
<1> QED  BY <1>1, <1>2, PTL DEF Spec

\* No thread waits for a spin lock while it holds one, nor holds two.
THEOREM LockDisciplineHolds == Spec => []LockDiscipline
<1>1. IInv => LockDiscipline
    <2> SUFFICES ASSUME IInv PROVE LockDiscipline  OBVIOUS
    <2> USE DEF IInv, Control, LocksOK
    <2>1. ASSUME NEW t \in Threads, Waiting(t), NEW c \in Classes
          PROVE  lock[c] # t
        BY <2>1 DEF Waiting, Holds
    <2>2. ASSUME NEW t \in Threads, NEW c \in Classes, NEW d \in Classes, lock[c] = t, lock[d] = t
          PROVE  c = d
        BY <2>2 DEF Holds
    <2> QED  BY <2>1, <2>2 DEF LockDiscipline
<1> QED  BY <1>1, Invariance, PTL

\* Stealing neither creates nor loses transfer-cache capacity.
THEOREM CapacityConservedHolds == Spec => []CapacityConserved
<1>1. IInv => CapacityConserved  BY DEF IInv, CapacityOK, CapacityConserved
<1> QED  BY <1>1, Invariance, PTL

\* No class stores more batches than it may or than its array holds.
THEOREM SlotsWithinCacheHolds == Spec => []SlotsWithinCache
<1>1. IInv => SlotsWithinCache
    <2> SUFFICES ASSUME IInv, NEW c \in Classes
                 PROVE  used_slots(c) <= cache_size[c] /\ cache_size[c] <= NumTransferEntries
        BY DEF SlotsWithinCache
    <2> DEFINE S == CapacityTokens(cache_size, grown)
               n == cache_size[c]
    <2>1. n \in Nat  BY DEF IInv, Control, ControlOK
    <2>2. IsFiniteSet(S) /\ Cardinality(S) = NumClasses  BY DEF IInv, CapacityOK
    <2>3. {c} \X (1 .. n) \subseteq S  BY DEF CapacityTokens
    <2>4. Cardinality({c} \X (1 .. n)) <= NumClasses  BY <2>2, <2>3, FS_Subset
    <2>5. IsFiniteSet(1 .. n) /\ Cardinality(1 .. n) = n
        <3>1. /\ IsFiniteSet(1 .. n)
              /\ Cardinality(1 .. n) = IF 1 > n THEN 0 ELSE n - 1 + 1
            BY <2>1, FS_Interval
        <3> HIDE DEF n
        <3> QED  BY <2>1, <3>1
    <2>6. Cardinality({c} \X (1 .. n)) = 1 * n
        <3>1. IsFiniteSet({c}) /\ Cardinality({c}) = 1  BY FS_Singleton
        <3> QED  BY <2>5, <3>1, FS_Product
    <2> QED  BY <2>1, <2>4, <2>6 DEF IInv, SlotsOK, NumTransferEntries
<1> QED  BY <1>1, Invariance, PTL

-----------------------------------------------------------------------------
(* Lists of distinct elements.                                               *)

\* A list has no more elements than its length, and as many if they differ.
LEMMA ListFacts ==
    ASSUME NEW S, NEW s \in Seq(S)
    PROVE  /\ ToSet(s) \subseteq S
           /\ Len(s) \in Nat
           /\ (s = <<>>) <=> (ToSet(s) = {})
           /\ (s = <<>>) <=> (Len(s) = 0)
           /\ IsFiniteSet(ToSet(s))
           /\ Cardinality(ToSet(s)) <= Len(s)
           /\ IsInjective(s) => Cardinality(ToSet(s)) = Len(s)
<1>1. Len(s) \in Nat /\ s \in [1 .. Len(s) -> S] /\ DOMAIN s = 1 .. Len(s)
    BY LenProperties
<1>2. s \in Surjection(1 .. Len(s), ToSet(s))
    BY <1>1 DEF Surjection, ToSet
<1>3. IsFiniteSet(1 .. Len(s)) /\ Cardinality(1 .. Len(s)) = Len(s)
    BY <1>1, FS_Interval
<1>4. /\ IsFiniteSet(ToSet(s))
      /\ Cardinality(ToSet(s)) <= Len(s)
      /\ s \in Injection(1 .. Len(s), ToSet(s)) => Cardinality(ToSet(s)) = Len(s)
    BY <1>2, <1>3, FS_Surjection
<1>5. IsInjective(s) => s \in Injection(1 .. Len(s), ToSet(s))
    BY <1>1 DEF Injection, IsInjective, ToSet
<1>6. (s = <<>>) <=> (Len(s) = 0)  BY EmptySeq
<1>7. (Len(s) = 0) <=> (ToSet(s) = {})
    <2>1. Len(s) = 0 => ToSet(s) = {}  BY <1>1 DEF ToSet
    <2>2. Len(s) # 0 => s[1] \in ToSet(s)  BY <1>1 DEF ToSet
    <2> QED  BY <2>1, <2>2
<1>8. ToSet(s) \subseteq S  BY <1>1 DEF ToSet
<1> QED  BY <1>1, <1>4, <1>5, <1>6, <1>7, <1>8

LEMMA EmptyList ==
    /\ ToSet(<<>>) = {}
    /\ IsInjective(<<>>)
    /\ Len(<<>>) = 0
    /\ \A S : <<>> \in Seq(S)
<1>1. <<>> \in Seq({})  BY EmptySeq
<1>2. DOMAIN <<>> = {}  BY <1>1, LenProperties, EmptySeq
<1> QED  BY <1>1, <1>2, ListFacts, EmptySeq DEF IsInjective

\* The first element and the rest.
LEMMA HeadTail ==
    ASSUME NEW S, NEW s \in Seq(S), s # <<>>
    PROVE  /\ Head(s) \in S
           /\ Head(s) \in ToSet(s)
           /\ Tail(s) \in Seq(S)
           /\ Len(Tail(s)) = Len(s) - 1
           /\ ToSet(s) = {Head(s)} \cup ToSet(Tail(s))
           /\ IsInjective(s) => IsInjective(Tail(s)) /\ Head(s) \notin ToSet(Tail(s))
<1>1. Len(s) \in Nat /\ Len(s) # 0 /\ DOMAIN s = 1 .. Len(s)
    BY LenProperties, EmptySeq
<1>2. /\ Head(s) = s[1]
      /\ Head(s) \in S
      /\ Tail(s) \in Seq(S)
      /\ Len(Tail(s)) = Len(s) - 1
      /\ \A i \in 1 .. Len(s) - 1 : Tail(s)[i] = s[i + 1]
    BY HeadTailProperties, <1>1
<1>3. DOMAIN Tail(s) = 1 .. Len(s) - 1  BY <1>2, LenProperties
<1> DEFINE r == Tail(s)
           n == Len(s)
<1> HIDE DEF r, n
<1>4. /\ n \in Nat /\ n # 0 /\ DOMAIN s = 1 .. n /\ DOMAIN r = 1 .. n - 1
      /\ Head(s) = s[1] /\ \A i \in 1 .. n - 1 : r[i] = s[i + 1]
    BY <1>1, <1>2, <1>3 DEF r, n
<1>5. ToSet(s) = {Head(s)} \cup ToSet(r)
    <2>1. ASSUME NEW i \in 1 .. n PROVE s[i] \in {Head(s)} \cup ToSet(r)
        <3>1. CASE i = 1  BY <3>1, <1>4
        <3>2. CASE i # 1
            <4>1. i - 1 \in 1 .. n - 1 /\ r[i - 1] = s[i]  BY <3>2, <1>4
            <4> QED  BY <4>1, <1>4 DEF ToSet
        <3> QED  BY <3>1, <3>2
    <2>2. ASSUME NEW i \in 1 .. n - 1 PROVE r[i] \in ToSet(s)
        <3>1. i + 1 \in 1 .. n  BY <1>4
        <3> QED  BY <3>1, <1>4 DEF ToSet
    <2>3. Head(s) \in ToSet(s)
        <3>1. 1 \in 1 .. n  BY <1>4
        <3> QED  BY <3>1, <1>4 DEF ToSet
    <2> QED  BY <2>1, <2>2, <2>3, <1>4 DEF ToSet
<1>6. ASSUME IsInjective(s) PROVE IsInjective(r) /\ Head(s) \notin ToSet(r)
    <2>1. \A i, j \in 1 .. n : s[i] = s[j] => i = j  BY <1>6, <1>4 DEF IsInjective
    <2>2. ASSUME NEW i \in 1 .. n - 1, NEW j \in 1 .. n - 1, r[i] = r[j] PROVE i = j
        <3>1. i + 1 \in 1 .. n /\ j + 1 \in 1 .. n /\ s[i + 1] = s[j + 1]  BY <2>2, <1>4
        <3> QED  BY <3>1, <2>1
    <2>3. ASSUME NEW i \in 1 .. n - 1 PROVE r[i] # s[1]
        <3>1. i + 1 \in 1 .. n /\ 1 \in 1 .. n /\ r[i] = s[i + 1]  BY <1>4
        <3> QED  BY <3>1, <2>1
    <2> QED  BY <2>2, <2>3, <1>4 DEF IsInjective, ToSet
<1> QED  BY <1>2, <1>5, <1>6 DEF r

\* An element in front.
LEMMA ConsList ==
    ASSUME NEW S, NEW s \in Seq(S), NEW e \in S
    PROVE  /\ <<e>> \o s \in Seq(S)
           /\ <<e>> \o s # <<>>
           /\ Len(<<e>> \o s) = Len(s) + 1
           /\ ToSet(<<e>> \o s) = {e} \cup ToSet(s)
           /\ IsInjective(s) /\ e \notin ToSet(s) => IsInjective(<<e>> \o s)
<1> DEFINE r == <<e>> \o s
           n == Len(s)
<1>1. <<e>> \in Seq(S) /\ Len(<<e>>) = 1 /\ <<e>>[1] = e  OBVIOUS
<1>2. n \in Nat /\ DOMAIN s = 1 .. n  BY LenProperties
<1>3. /\ r \in Seq(S)
      /\ Len(r) = 1 + n
      /\ \A i \in 1 .. 1 + n : r[i] = IF i <= 1 THEN <<e>>[i] ELSE s[i - 1]
    BY <1>1, ConcatProperties
<1>4. DOMAIN r = 1 .. 1 + n  BY <1>3, LenProperties
<1> HIDE DEF r, n
<1>5. r[1] = e /\ \A i \in 2 .. 1 + n : r[i] = s[i - 1]  BY <1>1, <1>2, <1>3
<1>6. ToSet(r) = {e} \cup ToSet(s)
    <2>1. ASSUME NEW i \in 1 .. 1 + n PROVE r[i] \in {e} \cup ToSet(s)
        <3>1. CASE i = 1  BY <3>1, <1>5
        <3>2. CASE i # 1
            <4>1. i \in 2 .. 1 + n /\ i - 1 \in 1 .. n  BY <3>2, <1>2
            <4> QED  BY <4>1, <1>5, <1>2 DEF ToSet
        <3> QED  BY <3>1, <3>2
    <2>2. ASSUME NEW i \in 1 .. n PROVE s[i] \in ToSet(r)
        <3>1. i + 1 \in 2 .. 1 + n /\ i + 1 \in 1 .. 1 + n /\ (i + 1) - 1 = i  BY <1>2
        <3>2. r[i + 1] = s[i]  BY <3>1, <1>5
        <3> QED  BY <3>1, <3>2, <1>4 DEF ToSet
    <2>3. e \in ToSet(r)
        <3>1. 1 \in 1 .. 1 + n  BY <1>2
        <3> QED  BY <3>1, <1>5, <1>4 DEF ToSet
    <2> QED  BY <2>1, <2>2, <2>3, <1>2, <1>4 DEF ToSet
<1>7. ASSUME IsInjective(s), e \notin ToSet(s) PROVE IsInjective(r)
    <2>1. \A i, j \in 1 .. n : s[i] = s[j] => i = j  BY <1>7, <1>2 DEF IsInjective
    <2>2. \A i \in 1 .. n : s[i] # e  BY <1>7, <1>2 DEF ToSet
    <2>3. ASSUME NEW i \in 1 .. 1 + n, NEW j \in 1 .. 1 + n, r[i] = r[j] PROVE i = j
        <3>1. CASE i = 1 /\ j = 1  BY <3>1
        <3>2. CASE i = 1 /\ j # 1
            <4>1. j \in 2 .. 1 + n /\ j - 1 \in 1 .. n  BY <3>2, <1>2
            <4>2. r[j] = s[j - 1]  BY <4>1, <1>5
            <4> QED  BY <4>1, <4>2, <3>2, <2>3, <2>2, <1>5
        <3>3. CASE i # 1 /\ j = 1
            <4>1. i \in 2 .. 1 + n /\ i - 1 \in 1 .. n  BY <3>3, <1>2
            <4>2. r[i] = s[i - 1]  BY <4>1, <1>5
            <4> QED  BY <4>1, <4>2, <3>3, <2>3, <2>2, <1>5
        <3>4. CASE i # 1 /\ j # 1
            <4>1. i \in 2 .. 1 + n /\ j \in 2 .. 1 + n /\ i - 1 \in 1 .. n /\ j - 1 \in 1 .. n
                BY <3>4, <1>2
            <4>2. r[i] = s[i - 1] /\ r[j] = s[j - 1]  BY <4>1, <1>5
            <4>3. i - 1 = j - 1  BY <4>1, <4>2, <2>3, <2>1
            <4> QED  BY <4>1, <4>3
        <3> QED  BY <3>1, <3>2, <3>3, <3>4
    <2> QED  BY <2>3, <1>4 DEF IsInjective
<1>8. r # <<>>  BY <1>2, <1>3, EmptySeq
<1>9. Len(r) = n + 1  BY <1>2, <1>3
<1> QED  BY <1>3, <1>6, <1>7, <1>8, <1>9 DEF r, n

\* An element at the end.
LEMMA AppendList ==
    ASSUME NEW S, NEW s \in Seq(S), NEW e \in S
    PROVE  /\ Append(s, e) \in Seq(S)
           /\ Append(s, e) # <<>>
           /\ Len(Append(s, e)) = Len(s) + 1
           /\ ToSet(Append(s, e)) = ToSet(s) \cup {e}
           /\ IsInjective(s) /\ e \notin ToSet(s) => IsInjective(Append(s, e))
           /\ \A i \in 1 .. Len(s) : Append(s, e)[i] = s[i]
           /\ Append(s, e)[Len(s) + 1] = e
<1> DEFINE r == Append(s, e)
           n == Len(s)
<1>1. n \in Nat /\ DOMAIN s = 1 .. n  BY LenProperties
<1>2. /\ r \in Seq(S) /\ r # <<>> /\ Len(r) = n + 1
      /\ \A i \in 1 .. n : r[i] = s[i]
      /\ r[n + 1] = e
    BY AppendProperties
<1>3. DOMAIN r = 1 .. n + 1  BY <1>2, LenProperties
<1> HIDE DEF r, n
<1>4. ToSet(r) = ToSet(s) \cup {e}
    <2>1. \A i \in 1 .. n + 1 : i \in 1 .. n \/ i = n + 1  BY <1>1
    <2>2. \A i \in 1 .. n : i \in 1 .. n + 1  BY <1>1
    <2>3. n + 1 \in 1 .. n + 1  BY <1>1
    <2> QED  BY <2>1, <2>2, <2>3, <1>1, <1>2, <1>3 DEF ToSet
<1>5. ASSUME IsInjective(s), e \notin ToSet(s) PROVE IsInjective(r)
    <2>1. \A i, j \in 1 .. n : s[i] = s[j] => i = j  BY <1>5, <1>1 DEF IsInjective
    <2>2. \A i \in 1 .. n : s[i] # e  BY <1>5, <1>1 DEF ToSet
    <2>3. \A i \in 1 .. n + 1 : i \in 1 .. n \/ i = n + 1  BY <1>1
    <2> QED  BY <2>1, <2>2, <2>3, <1>2, <1>3 DEF IsInjective
<1> QED  BY <1>2, <1>4, <1>5 DEF r, n

\* All but the last.
LEMMA FrontList ==
    ASSUME NEW S, NEW s \in Seq(S), s # <<>>
    PROVE  /\ Front(s) \in Seq(S)
           /\ Len(s) \in Nat \ {0}
           /\ Len(Front(s)) = Len(s) - 1
           /\ \A i \in 1 .. Len(s) - 1 : Front(s)[i] = s[i]
           /\ Last(s) = s[Len(s)]
           /\ Last(s) \in S
<1> DEFINE n == Len(s)
<1>1. n \in Nat /\ n # 0  BY EmptySeq
<1>2. \A i \in 1 .. n - 1 : s[i] \in S  BY <1>1, ElementOfSeq
<1>3. /\ Front(s) \in Seq(S)
      /\ Len(Front(s)) = IF 1 <= n - 1 THEN (n - 1) - 1 + 1 ELSE 0
      /\ \A i \in 1 .. (n - 1) - 1 + 1 : Front(s)[i] = s[1 + i - 1]
    BY <1>1, <1>2, SubSeqProperties DEF Front
<1>4. s[n] \in S  BY <1>1, ElementOfSeq
<1> HIDE DEF n
<1>5. Len(Front(s)) = n - 1 /\ \A i \in 1 .. n - 1 : Front(s)[i] = s[i]  BY <1>1, <1>3
<1> QED  BY <1>1, <1>3, <1>4, <1>5 DEF n, Last

\* DLL_Remove takes out the element and no other.
LEMMA RemoveFromList ==
    ASSUME NEW S, NEW s \in Seq(S), NEW e, IsInjective(s)
    PROVE  /\ DLL_Remove(s, e) \in Seq(S)
           /\ ToSet(DLL_Remove(s, e)) = ToSet(s) \ {e}
           /\ IsInjective(DLL_Remove(s, e))
<1> DEFINE n == Len(s)
<1>1. n \in Nat /\ DOMAIN s = 1 .. n  BY LenProperties
<1>2. CASE e \notin ToSet(s)
    <2>1. DLL_Remove(s, e) = s  BY <1>2 DEF DLL_Remove
    <2> QED  BY <2>1, <1>2
<1>3. CASE e \in ToSet(s)
    <2> DEFINE k == CHOOSE i \in DOMAIN s : s[i] = e
    <2>1. k \in 1 .. n /\ s[k] = e  BY <1>1, <1>3 DEF ToSet
    <2>2. DLL_Remove(s, e) = RemoveAt(s, k)  BY <1>3 DEF DLL_Remove
    <2> DEFINE a == SubSeq(s, 1, k - 1)
               b == SubSeq(s, k + 1, n)
    <2> HIDE DEF k
    <2>3. k \in Int /\ k - 1 \in Int /\ k + 1 \in Int /\ n \in Int /\ 1 \in Int  BY <1>1, <2>1
    <2>4. /\ \A i \in 1 .. k - 1 : s[i] \in S
          /\ \A i \in k + 1 .. n : s[i] \in S
        BY <1>1, <2>1, ElementOfSeq
    <2>5. /\ a \in Seq(S) /\ Len(a) = IF 1 <= k - 1 THEN (k - 1) - 1 + 1 ELSE 0
          /\ \A i \in 1 .. (k - 1) - 1 + 1 : a[i] = s[1 + i - 1]
        BY <2>3, <2>4, SubSeqProperties
    <2>6. /\ b \in Seq(S) /\ Len(b) = IF k + 1 <= n THEN n - (k + 1) + 1 ELSE 0
          /\ \A i \in 1 .. n - (k + 1) + 1 : b[i] = s[(k + 1) + i - 1]
        BY <2>3, <2>4, SubSeqProperties
    <2> DEFINE r == a \o b
    <2>7. /\ r \in Seq(S) /\ Len(r) = Len(a) + Len(b)
          /\ \A i \in 1 .. Len(a) + Len(b) : r[i] = IF i <= Len(a) THEN a[i] ELSE b[i - Len(a)]
        BY <2>5, <2>6, ConcatProperties
    <2>8. DOMAIN r = 1 .. Len(r)  BY <2>7, LenProperties
    <2>9. DLL_Remove(s, e) = r  BY <2>2 DEF RemoveAt
    <2> HIDE DEF a, b, r, n
    <2>10. Len(a) = k - 1 /\ Len(b) = n - k /\ Len(r) = n - 1
        <3>1. k \in Nat /\ 1 <= k /\ k <= n  BY <1>1, <2>1
        <3>2. Len(a) = k - 1  BY <3>1, <2>5
        <3>3. Len(b) = n - k  BY <3>1, <2>6, <1>1
        <3> QED  BY <3>1, <3>2, <3>3, <2>7, <1>1
    <2>11. \A i \in 1 .. n - 1 : r[i] = IF i < k THEN s[i] ELSE s[i + 1]
        <3>1. ASSUME NEW i \in 1 .. n - 1, i < k PROVE r[i] = s[i]
            <4>1. i \in 1 .. (k - 1) - 1 + 1 /\ i <= Len(a) /\ i \in 1 .. Len(a) + Len(b) /\ 1 + i - 1 = i
                BY <3>1, <2>10, <1>1, <2>1
            <4> QED  BY <4>1, <2>5, <2>7
        <3>2. ASSUME NEW i \in 1 .. n - 1, ~ i < k PROVE r[i] = s[i + 1]
            <4>1. /\ i - (k - 1) \in 1 .. n - (k + 1) + 1 /\ ~ i <= Len(a) /\ i \in 1 .. Len(a) + Len(b)
                  /\ (k + 1) + (i - (k - 1)) - 1 = i + 1
                BY <3>2, <2>10, <1>1, <2>1
            <4> QED  BY <4>1, <2>6, <2>7, <2>10
        <3> QED  BY <3>1, <3>2
    <2>12. \A i, j \in 1 .. n : s[i] = s[j] => i = j  BY <1>1 DEF IsInjective
    <2> DEFINE m(i) == IF i < k THEN i ELSE i + 1
    <2>13. \A i \in 1 .. n - 1 : m(i) \in 1 .. n /\ m(i) # k /\ r[i] = s[m(i)]
        BY <1>1, <2>1, <2>11
    <2>14. \A i, j \in 1 .. n - 1 : m(i) = m(j) => i = j  BY <1>1, <2>1
    <2>15. IsInjective(r)
        <3>1. DOMAIN r = 1 .. n - 1  BY <2>8, <2>10
        <3>2. \A i, j \in 1 .. n - 1 : r[i] = r[j] => m(i) = m(j)
            <4> HIDE DEF m
            <4> QED  BY <2>12, <2>13
        <3> QED  BY <3>1, <3>2, <2>14 DEF IsInjective
    <2>16. ToSet(r) = ToSet(s) \ {e}
        <3>0. DOMAIN r = 1 .. n - 1  BY <2>8, <2>10
        <3>1. ASSUME NEW i \in 1 .. n - 1 PROVE r[i] \in ToSet(s) /\ r[i] # e
            <4> HIDE DEF m
            <4> QED  BY <2>1, <2>12, <2>13, <1>1 DEF ToSet
        <3>2. ASSUME NEW j \in 1 .. n, s[j] # e PROVE s[j] \in ToSet(r)
            <4>1. CASE j < k
                <5>1. j \in 1 .. n - 1 /\ r[j] = s[j]  BY <4>1, <1>1, <2>1, <2>11
                <5> QED  BY <5>1, <3>0 DEF ToSet
            <4>2. CASE ~ j < k
                <5>1. j # k  BY <3>2, <2>1
                <5>2. j - 1 \in 1 .. n - 1 /\ ~ j - 1 < k /\ (j - 1) + 1 = j  BY <5>1, <4>2, <1>1, <2>1
                <5>3. r[j - 1] = s[j]  BY <5>2, <2>11
                <5> QED  BY <5>2, <5>3, <3>0 DEF ToSet
            <4> QED  BY <4>1, <4>2
        <3> QED  BY <3>0, <3>1, <3>2, <1>1 DEF ToSet
    <2> QED  BY <2>7, <2>9, <2>15, <2>16
<1> QED  BY <1>2, <1>3

\* If all the objects of a span but one are distinct elements of a list, then
\* every other object is on it.
LEMMA OnlyOneOut ==
    ASSUME NEW n \in Nat, NEW s, NEW S, NEW q \in Seq(S), IsInjective(q), Len(q) = n - 1,
           \A x \in ToSet(q) : \E i \in 1 .. n : x = <<s, i>>,
           NEW j \in 1 .. n, <<s, j>> \notin ToSet(q)
    PROVE  \A i \in 1 .. n : i # j => <<s, i>> \in ToSet(q)
<1> DEFINE X == {<<s, i>> : i \in 1 .. n}
           f == [i \in 1 .. n |-> <<s, i>>]
           T == ToSet(q) \cup {<<s, j>>}
<1>1. IsFiniteSet(1 .. n) /\ Cardinality(1 .. n) = n  BY FS_Interval
<1>2. f \in Surjection(1 .. n, X)  BY DEF Surjection
<1>3. f \in Injection(1 .. n, X)  BY DEF Injection, IsInjective
<1>4. IsFiniteSet(X) /\ Cardinality(X) = n  BY <1>1, <1>2, <1>3, FS_Surjection
<1>5. IsFiniteSet(ToSet(q)) /\ Cardinality(ToSet(q)) = n - 1  BY ListFacts
<1>6. IsFiniteSet(T) /\ Cardinality(T) = n  BY <1>5, FS_AddElement
<1>7. T \in SUBSET X  OBVIOUS
<1>8. X = T  BY <1>4, <1>6, <1>7, FS_Subset
<1> QED  BY <1>8

-----------------------------------------------------------------------------
(* The inductive invariant of the objects, beside IInv.                      *)

\* The places an object can be in, and that of one that does not exist.
AtClient == <<"client", 0, 0>>
AtSpan(s) == <<"span", s, 0>>
AtSlot(c, i) == <<"slot", c, i>>
AtRange(t) == <<"range", t, 0>>
AtRel(t) == <<"rel", t, 0>>
AtGot(t) == <<"got", t, 0>>
Nowhere == <<"nowhere", 0, 0>>

AllPlaces ==
    {AtClient, Nowhere}
    \cup {AtSpan(s) : s \in Spans}
    \cup {AtSlot(c, i) : c \in UsedClasses, i \in Nat \ {0}}
    \cup {AtRange(t) : t \in Threads}
    \cup {AtRel(t) : t \in Threads}
    \cup {AtGot(t) : t \in Threads}

\* The span of the object has been cut into objects, this one among them.
Exists(o) ==
    sizeclass[SpanOf(o)] # 0 /\ o[2] <= ObjectsPerSpan[sizeclass[SpanOf(o)]]

Typed ==
    /\ sizeclass \in [Spans -> Classes]
    /\ refcount \in [Spans -> Int]
    /\ objects \in [Spans -> Seq(Objects)]
    /\ nonempty \in [Classes -> Seq(Spans)]
    /\ tc_slots \in [Classes -> Seq(Seq(Objects))]
    /\ client \subseteq Objects
    /\ range \in [Threads -> Seq(Objects)]
    /\ rel \in [Threads -> Seq(Objects)]
    /\ got \in [Threads -> Seq(Objects)]
    /\ span \in [Threads -> Spans \cup {NoSpan}]

\* A slot holds some objects of a class, a batch at most.
Batches(c, l) == l # <<>> /\ IsInjective(l) /\ Len(l) <= Batch[c]

\* No list has an element twice.
Listed ==
    /\ tc_slots[0] = <<>>
    /\ \A c \in Classes : IsInjective(nonempty[c])
    /\ \A s \in Spans : IsInjective(objects[s])
    /\ \A c \in UsedClasses : \A i \in 1 .. used_slots(c) : Batches(c, tc_slots[c][i])
    /\ \A t \in Threads : range[t] # <<>> => Batches(cl[t], range[t])
    /\ \A t \in Threads : IsInjective(rel[t]) /\ IsInjective(got[t])

\* The labels between the two halves of MakeCacheSpace, where InsertRange has
\* its objects with it.
Stealing(t) ==
    \/ pc[t] \in {"evict", "peek_size", "peek_used", "shrink", "revert"}
    \/ pc[t] \in {"release", "delete", "relock"} /\ victim[t] # NoClass

\* What a thread has with it at each label.
AtLabel(t) ==
    /\ pc[t] # "idle" => cl[t] # 0
    /\ range[t] # <<>> <=> Stealing(t)
    /\ pc[t] = "release" => rel[t] # <<>>
    /\ rel[t] # <<>> => pc[t] \in {"release", "delete", "relock"}
    /\ got[t] # <<>> => pc[t] = "fetch"
    /\ Len(got[t]) <= Batch[cl[t]]
    /\ span[t] # NoSpan => pc[t] \in {"attach", "refetch", "delete"}
    /\ pc[t] = "attach" /\ span[t] # NoSpan =>
        sizeclass[span[t]] = cl[t] /\ objects[span[t]] # <<>>
    /\ pc[t] = "delete" => span[t] # NoSpan /\ sizeclass[span[t]] # 0
    /\ pc[t] = "refetch" /\ span[t] # NoSpan => nonempty[cl[t]] # <<>>

\* A thread has this span with it, off every list.
Carries(t) == pc[t] \in {"attach", "delete"} /\ span[t] # NoSpan

\* refcount counts the objects that are out, the spans of nonempty_ have free
\* objects and are of the class, and no two threads have the same span.
Counted ==
    \A s \in Spans : sizeclass[s] # 0 /\ ~ Dying(s) =>
        refcount[s] + Len(objects[s]) = ObjectsPerSpan[sizeclass[s]]

OnList ==
    \A c \in Classes : \A s \in ToSet(nonempty[c]) :
        c # 0 /\ objects[s] # <<>> /\ sizeclass[s] = c /\ ~ InFlight(s)

Separate == \A t, u \in Threads : Carries(t) /\ Carries(u) /\ span[t] = span[u] => t = u

SpansKept == Counted /\ OnList /\ Separate

\* The object is in this place and no other.
IsAt(o, p) ==
    /\ o \in client <=> p = AtClient
    /\ \A s \in Spans : o \in ToSet(objects[s]) <=> p = AtSpan(s)
    /\ \A c \in UsedClasses, i \in Nat \ {0} :
        i <= used_slots(c) /\ o \in ToSet(tc_slots[c][i]) <=> p = AtSlot(c, i)
    /\ \A t \in Threads :
        /\ o \in ToSet(range[t]) <=> p = AtRange(t)
        /\ o \in ToSet(rel[t]) <=> p = AtRel(t)
        /\ o \in ToSet(got[t]) <=> p = AtGot(t)

\* loc says where each object is.
Located(loc) == loc \in [Objects -> AllPlaces] /\ \A o \in Objects : IsAt(o, loc[o])

\* The object exists and may be in this place: with those of its class.
Fits(o, p) ==
    /\ Exists(o)
    /\ InFlight(SpanOf(o)) => p = AtSpan(SpanOf(o))
    /\ \A s \in Spans : p = AtSpan(s) => SpanOf(o) = s
    /\ \A c \in UsedClasses, i \in Nat \ {0} : p = AtSlot(c, i) => sizeclass[SpanOf(o)] = c
    /\ \A t \in Threads :
        /\ p \in {AtRange(t), AtGot(t)} => sizeclass[SpanOf(o)] = cl[t]
        /\ p = AtRel(t) => sizeclass[SpanOf(o)] = ReleaseClass(t)

\* Each object is in a place it may be in, and in some place if it exists.
Classed(loc) ==
    \A o \in Objects :
        /\ Exists(o) /\ ~ Dying(SpanOf(o)) => loc[o] # Nowhere
        /\ loc[o] # Nowhere => Fits(o, loc[o])

Placed == \E loc : Located(loc) /\ Classed(loc)

OInv == Typed /\ Listed /\ (\A t \in Threads : AtLabel(t)) /\ SpansKept /\ Placed

-----------------------------------------------------------------------------
(* Facts all steps use.                                                      *)

LEMMA Distinct ==
    /\ AtClient # Nowhere
    /\ \A x : /\ AtSpan(x) # Nowhere /\ AtRange(x) # Nowhere /\ AtRel(x) # Nowhere /\ AtGot(x) # Nowhere
              /\ AtSpan(x) # AtClient /\ AtRange(x) # AtClient /\ AtRel(x) # AtClient /\ AtGot(x) # AtClient
    /\ \A x, y : /\ AtSlot(x, y) # Nowhere /\ AtSlot(x, y) # AtClient
                 /\ AtSpan(x) # AtRange(y) /\ AtSpan(x) # AtRel(y) /\ AtSpan(x) # AtGot(y)
                 /\ AtRange(x) # AtRel(y) /\ AtRange(x) # AtGot(y) /\ AtRel(x) # AtGot(y)
                 /\ AtSpan(x) = AtSpan(y) => x = y
                 /\ AtRange(x) = AtRange(y) => x = y
                 /\ AtRel(x) = AtRel(y) => x = y
                 /\ AtGot(x) = AtGot(y) => x = y
    /\ \A x, y, z : /\ AtSlot(x, y) # AtSpan(z) /\ AtSlot(x, y) # AtRange(z)
                    /\ AtSlot(x, y) # AtRel(z) /\ AtSlot(x, y) # AtGot(z)
    /\ \A x, y, z, w : AtSlot(x, y) = AtSlot(z, w) => x = z /\ y = w
BY DEF AtClient, AtSpan, AtSlot, AtRange, AtRel, AtGot, Nowhere

LEMMA PlacesFacts ==
    /\ AtClient \in AllPlaces /\ Nowhere \in AllPlaces
    /\ \A s \in Spans : AtSpan(s) \in AllPlaces
    /\ \A c \in UsedClasses, i \in Nat \ {0} : AtSlot(c, i) \in AllPlaces
    /\ \A t \in Threads : AtRange(t) \in AllPlaces /\ AtRel(t) \in AllPlaces /\ AtGot(t) \in AllPlaces
BY DEF AllPlaces

LEMMA ObjectFacts ==
    \A o \in Objects : SpanOf(o) \in Spans /\ o[2] \in Nat \ {0} /\ o = <<SpanOf(o), o[2]>>
<1> SUFFICES ASSUME NEW o \in Objects
             PROVE  SpanOf(o) \in Spans /\ o[2] \in Nat \ {0} /\ o = <<SpanOf(o), o[2]>>
    OBVIOUS
<1>1. PICK c \in UsedClasses : o \in Spans \X (1 .. ObjectsPerSpan[c])  BY DEF Objects
<1>2. ObjectsPerSpan[c] \in Nat  BY SizeTablesAssumption DEF UsedClasses
<1> QED  BY <1>1, <1>2 DEF SpanOf

\* A span cut into objects has each of them once.
LEMMA CutFacts ==
    ASSUME NEW s \in Spans, NEW c \in UsedClasses
    PROVE  /\ SpanObjects(s, c) \in Seq(Objects)
           /\ SpanObjects(s, c) # <<>>
           /\ IsInjective(SpanObjects(s, c))
           /\ Len(SpanObjects(s, c)) = ObjectsPerSpan[c]
           /\ \A o \in Objects :
                o \in ToSet(SpanObjects(s, c)) <=> SpanOf(o) = s /\ o[2] <= ObjectsPerSpan[c]
<1> DEFINE n == ObjectsPerSpan[c]
           q == SpanObjects(s, c)
<1>1. n \in Nat /\ n > 0  BY SizeTablesAssumption DEF UsedClasses
<1>2. \A i \in 1 .. n : <<s, i>> \in Objects  BY DEF Objects
<1>3. q = [i \in 1 .. n |-> <<s, i>>]  BY DEF SpanObjects
<1> HIDE DEF n, q
<1>4. q \in Seq(Objects)
    <2>1. q \in [1 .. n -> Objects]  BY <1>2, <1>3
    <2> QED  BY <2>1, <1>1, SeqDef
<1>5. DOMAIN q = 1 .. n  BY <1>3
<1>6. Len(q) = n  BY <1>1, <1>4, <1>5, LenProperties
<1>7. IsInjective(q)  BY <1>3, <1>5 DEF IsInjective
<1>8. q # <<>>  BY <1>1, <1>6, EmptyList
<1>9. ASSUME NEW o \in Objects
      PROVE  o \in ToSet(q) <=> SpanOf(o) = s /\ o[2] <= n
    <2>1. o[2] \in Nat \ {0} /\ o = <<SpanOf(o), o[2]>>  BY ObjectFacts
    <2>2. o \in ToSet(q) <=> \E i \in 1 .. n : o = <<s, i>>  BY <1>3, <1>5 DEF ToSet
    <2>3. o \in ToSet(q) => SpanOf(o) = s /\ o[2] <= n  BY <2>2, <1>1 DEF SpanOf
    <2>4. SpanOf(o) = s /\ o[2] <= n => o \in ToSet(q)  BY <2>1, <2>2, <1>1
    <2> QED  BY <2>3, <2>4
<1> QED  BY <1>4, <1>6, <1>7, <1>8, <1>9 DEF n, q

\* The step is one of this thread.
Alone(t) ==
    \A u \in Threads \ {t} :
        /\ pc'[u] = pc[u] /\ cl'[u] = cl[u] /\ victim'[u] = victim[u] /\ span'[u] = span[u]
        /\ range'[u] = range[u] /\ rel'[u] = rel[u] /\ got'[u] = got[u]

\* The others are where they were if nobody touches the span they carry or
\* empties the list they are about to fetch from.
LEMMA OthersAtLabel ==
    ASSUME OInv, NEW t \in Threads, Alone(t), NEW u \in Threads \ {t},
           Carries(u) => sizeclass'[span[u]] = sizeclass[span[u]] /\ objects'[span[u]] = objects[span[u]],
           pc[u] = "refetch" /\ nonempty[cl[u]] # <<>> => nonempty'[cl[u]] # <<>>
    PROVE  AtLabel(u)'
<1>1. AtLabel(u)  BY DEF OInv
<1>2. Stealing(u)' <=> Stealing(u)  BY DEF Alone, Stealing
<1> QED  BY <1>1, <1>2 DEF Alone, AtLabel, Carries

\* A step of a thread that carries no span before or after.
LEMMA FlightsKept ==
    ASSUME NEW t \in Threads, Alone(t), ~ Carries(t), ~ Carries(t)'
    PROVE  /\ \A s \in Spans : (InFlight(s)' <=> InFlight(s)) /\ (Dying(s)' <=> Dying(s))
           /\ Separate => Separate'
           /\ \A u \in Threads : Carries(u)' <=> Carries(u)
<1>1. \A u \in Threads : u # t => (Carries(u)' <=> Carries(u)) /\ pc'[u] = pc[u] /\ span'[u] = span[u]
    BY DEF Alone, Carries
<1>2. \A s \in Spans, u \in Threads : span[u] = s /\ pc[u] \in {"attach", "delete"} => Carries(u)
    BY NullAssumption DEF Carries
<1>3. \A s \in Spans, u \in Threads : span'[u] = s /\ pc'[u] \in {"attach", "delete"} => Carries(u)'
    BY NullAssumption DEF Carries
<1>4. ASSUME NEW s \in Spans PROVE (InFlight(s)' <=> InFlight(s)) /\ (Dying(s)' <=> Dying(s))
    BY <1>1, <1>2, <1>3 DEF InFlight, Dying
<1>5. \A u \in Threads : Carries(u)' <=> Carries(u)  BY <1>1
<1> QED  BY <1>1, <1>4, <1>5 DEF Separate

\* What fits stays so when the sizes of the spans, the threads' classes and the
\* spans they carry do.
LEMMA FitsKept ==
    ASSUME NEW o \in Objects, NEW p, Fits(o, p),
           sizeclass'[SpanOf(o)] = sizeclass[SpanOf(o)],
           InFlight(SpanOf(o))' => InFlight(SpanOf(o)),
           \A u \in Threads : p \in {AtRange(u), AtGot(u)} => cl'[u] = cl[u],
           \A u \in Threads : p = AtRel(u) => ReleaseClass(u)' = ReleaseClass(u)
    PROVE  Fits(o, p)'
BY DEF Fits, Exists

\* An element of a list makes it a list with elements.
LEMMA NotEmpty == \A s : s = <<>> => \A x : x \notin ToSet(s)
BY EmptyList

\* A step that leaves the spans alone, of a thread that carries none.
LEMMA SpansSame ==
    ASSUME OInv, NEW t \in Threads, Alone(t),
           UNCHANGED <<sizeclass, objects, refcount, nonempty>>, ~ Carries(t), ~ Carries(t)'
    PROVE  /\ SpansKept'
           /\ \A u \in Threads \ {t} : AtLabel(u)'
           /\ \A s \in Spans : (InFlight(s)' <=> InFlight(s)) /\ (Dying(s)' <=> Dying(s))
<1>1. \A u \in Threads \ {t} : AtLabel(u)'  BY OthersAtLabel
<1>2. /\ \A s \in Spans : (InFlight(s)' <=> InFlight(s)) /\ (Dying(s)' <=> Dying(s))
      /\ Separate'
    BY FlightsKept DEF OInv, SpansKept
<1>3. Counted'  BY <1>2 DEF OInv, SpansKept, Counted
<1>4. \A c \in Classes : \A s \in ToSet(nonempty[c]) : s \in Spans
    BY ListFacts DEF OInv, Typed
<1>5. OnList'  BY <1>4, <1>2 DEF OInv, SpansKept, OnList
<1> QED  BY <1>1, <1>2, <1>3, <1>5 DEF SpansKept

\* The objects of M go to place q, the others stay and still fit.
LEMMA Moves ==
    ASSUME NEW loc, Located(loc), Classed(loc),
           NEW M, NEW q \in AllPlaces, q # Nowhere,
           sizeclass' = sizeclass,
           \A s \in Spans : (InFlight(s)' <=> InFlight(s)) /\ (Dying(s)' <=> Dying(s)),
           \A o \in Objects : o \in M => IsAt(o, q)' /\ Fits(o, q)',
           \A o \in Objects : o \notin M => IsAt(o, loc[o])',
           \A o \in Objects : o \notin M => \A u \in Threads :
               /\ loc[o] \in {AtRange(u), AtGot(u)} => cl'[u] = cl[u]
               /\ loc[o] = AtRel(u) => ReleaseClass(u)' = ReleaseClass(u)
    PROVE  Placed'
<1> DEFINE l == [o \in Objects |-> IF o \in M THEN q ELSE loc[o]]
<1>1. l \in [Objects -> AllPlaces]  BY DEF Located
<1>2. PICK loc2 \in [Objects -> AllPlaces] : \A o \in Objects : loc2[o] = IF o \in M THEN q ELSE loc[o]
    BY <1>1
<1>3. Located(loc2)'  BY <1>2 DEF Located
<1>4. ASSUME NEW o \in Objects
      PROVE  /\ Exists(o)' /\ ~ Dying(SpanOf(o))' => loc2[o] # Nowhere
             /\ loc2[o] # Nowhere => Fits(o, loc2[o])'
    <2>1. SpanOf(o) \in Spans  BY ObjectFacts
    <2>2. Exists(o)' <=> Exists(o)  BY DEF Exists
    <2>3. CASE o \in M  BY <2>3, <1>2
    <2>4. CASE o \notin M
        <3>1. loc2[o] = loc[o]  BY <2>4, <1>2
        <3>2. ASSUME loc[o] # Nowhere PROVE Fits(o, loc[o])'
            <4>1. Fits(o, loc[o])  BY <3>2 DEF Classed
            <4> QED  BY <4>1, <2>1, <2>4, FitsKept
        <3> QED  BY <3>1, <3>2, <2>1, <2>2 DEF Classed
    <2> QED  BY <2>3, <2>4
<1>5. Classed(loc2)'  BY <1>4 DEF Classed
<1> QED  BY <1>3, <1>5 DEF Placed

\* What is not in its span can be put anywhere with its class.
LEMMA FitsAnywhere ==
    ASSUME NEW o \in Objects, NEW p, Fits(o, p), \A s \in Spans : p # AtSpan(s),
           sizeclass' = sizeclass,
           \A s \in Spans : InFlight(s)' <=> InFlight(s)
    PROVE  /\ Fits(o, AtClient)'
           /\ \A c \in UsedClasses, i \in Nat \ {0} :
                sizeclass[SpanOf(o)] = c => Fits(o, AtSlot(c, i))'
           /\ \A t \in Threads :
                /\ sizeclass[SpanOf(o)] = cl'[t] => Fits(o, AtRange(t))' /\ Fits(o, AtGot(t))'
                /\ sizeclass[SpanOf(o)] = ReleaseClass(t)' => Fits(o, AtRel(t))'
<1>1. SpanOf(o) \in Spans  BY ObjectFacts
<1>2. Exists(o)' /\ ~ InFlight(SpanOf(o))'  BY <1>1 DEF Fits, Exists
<1> QED  BY <1>2, Distinct DEF Fits

\* A slot is taken off the cache of a class.
LEMMA PopFacts ==
    ASSUME Typed, NEW c \in UsedClasses, tc_slots[c] # <<>>, PopSlot(c)
    PROVE  /\ tc_slots' \in [Classes -> Seq(Seq(Objects))]
           /\ tc_slots'[0] = tc_slots[0]
           /\ used_slots(c) \in Nat \ {0}
           /\ Last(tc_slots[c]) = tc_slots[c][used_slots(c)]
           /\ Last(tc_slots[c]) \in Seq(Objects)
           /\ \A d \in UsedClasses, i \in Nat \ {0} :
                /\ i <= used_slots(d)' <=> i <= used_slots(d) /\ ~ (d = c /\ i = used_slots(c))
                /\ i <= used_slots(d)' => tc_slots'[d][i] = tc_slots[d][i]
<1>1. c \in Classes /\ c # 0 /\ 0 \in Classes  BY NumClassesAssumption DEF UsedClasses, Classes
<1>2. tc_slots[c] \in Seq(Seq(Objects))  BY <1>1 DEF Typed
<1>3. /\ Front(tc_slots[c]) \in Seq(Seq(Objects))
      /\ Len(tc_slots[c]) \in Nat \ {0}
      /\ Len(Front(tc_slots[c])) = Len(tc_slots[c]) - 1
      /\ \A i \in 1 .. Len(tc_slots[c]) - 1 : Front(tc_slots[c])[i] = tc_slots[c][i]
      /\ Last(tc_slots[c]) = tc_slots[c][Len(tc_slots[c])]
      /\ Last(tc_slots[c]) \in Seq(Objects)
    BY <1>2, FrontList
<1>4. /\ tc_slots'[c] = Front(tc_slots[c])
      /\ \A d \in Classes \ {c} : tc_slots'[d] = tc_slots[d]
      /\ tc_slots' \in [Classes -> Seq(Seq(Objects))]
    BY <1>1, <1>3 DEF PopSlot, Typed
<1>5. ASSUME NEW d \in UsedClasses, NEW i \in Nat \ {0}
      PROVE  /\ i <= used_slots(d)' <=> i <= used_slots(d) /\ ~ (d = c /\ i = used_slots(c))
             /\ i <= used_slots(d)' => tc_slots'[d][i] = tc_slots[d][i]
    <2>1. CASE d = c
        <3>1. used_slots(d) = Len(tc_slots[c]) /\ used_slots(d)' = Len(tc_slots[c]) - 1
            BY <2>1, <1>3, <1>4 DEF used_slots
        <3>2. i <= Len(tc_slots[c]) - 1 => i \in 1 .. Len(tc_slots[c]) - 1  BY <1>3
        <3> QED  BY <2>1, <3>1, <3>2, <1>3, <1>4
    <2>2. CASE d # c  BY <2>2, <1>4 DEF used_slots, UsedClasses
    <2> QED  BY <2>1, <2>2
<1> QED  BY <1>1, <1>3, <1>4, <1>5 DEF used_slots

\* A batch is put into the cache of a class.
LEMMA PushFacts ==
    ASSUME Typed, NEW c \in UsedClasses, NEW l \in Seq(Objects),
           tc_slots' = [tc_slots EXCEPT ![c] = Append(@, l)]
    PROVE  /\ tc_slots' \in [Classes -> Seq(Seq(Objects))]
           /\ tc_slots'[0] = tc_slots[0]
           /\ used_slots(c) \in Nat
           /\ tc_slots'[c][used_slots(c) + 1] = l
           /\ \A d \in UsedClasses, i \in Nat \ {0} :
                /\ i <= used_slots(d)' <=> i <= used_slots(d) \/ (d = c /\ i = used_slots(c) + 1)
                /\ i <= used_slots(d) => tc_slots'[d][i] = tc_slots[d][i]
<1>1. c \in Classes /\ c # 0 /\ 0 \in Classes  BY NumClassesAssumption DEF UsedClasses, Classes
<1>2. tc_slots[c] \in Seq(Seq(Objects))  BY <1>1 DEF Typed
<1> DEFINE n == Len(tc_slots[c])
<1>3. /\ Append(tc_slots[c], l) \in Seq(Seq(Objects))
      /\ n \in Nat
      /\ Len(Append(tc_slots[c], l)) = n + 1
      /\ \A i \in 1 .. n : Append(tc_slots[c], l)[i] = tc_slots[c][i]
      /\ Append(tc_slots[c], l)[n + 1] = l
    BY <1>2, AppendList, ListFacts
<1>4. /\ tc_slots'[c] = Append(tc_slots[c], l)
      /\ \A d \in Classes \ {c} : tc_slots'[d] = tc_slots[d]
      /\ tc_slots' \in [Classes -> Seq(Seq(Objects))]
    BY <1>1, <1>3 DEF Typed
<1>5. ASSUME NEW d \in UsedClasses, NEW i \in Nat \ {0}
      PROVE  /\ i <= used_slots(d)' <=> i <= used_slots(d) \/ (d = c /\ i = used_slots(c) + 1)
             /\ i <= used_slots(d) => tc_slots'[d][i] = tc_slots[d][i]
    <2>1. CASE d = c
        <3>1. used_slots(d) = n /\ used_slots(d)' = n + 1
            BY <2>1, <1>3, <1>4 DEF used_slots
        <3>2. i <= n => i \in 1 .. n  BY <1>3
        <3> HIDE DEF n
        <3> QED  BY <2>1, <3>1, <3>2, <1>3, <1>4
    <2>2. CASE d # c  BY <2>2, <1>4 DEF used_slots, UsedClasses
    <2> QED  BY <2>1, <2>2
<1> QED  BY <1>1, <1>3, <1>4, <1>5 DEF used_slots

\* A step that moves no object and no span.
LEMMA ControlOnly ==
    ASSUME OInv, NEW t \in Threads, Alone(t),
           UNCHANGED <<client, sizeclass, objects, refcount, nonempty, tc_slots, range, rel, got, span>>,
           ~ Carries(t), ~ Carries(t)', AtLabel(t)',
           range[t] # <<>> \/ got[t] # <<>> => cl'[t] = cl[t],
           rel[t] # <<>> => ReleaseClass(t)' = ReleaseClass(t)
    PROVE  OInv'
<1>1. Typed'  BY DEF OInv, Typed
<1>2. /\ \A u \in Threads : range[u] # <<>> \/ got[u] # <<>> => cl'[u] = cl[u]
      /\ \A u \in Threads : rel[u] # <<>> => ReleaseClass(u)' = ReleaseClass(u)
    BY DEF Alone, ReleaseClass
<1>3. Listed'  BY <1>2 DEF OInv, Listed, Batches, used_slots
<1>4. \A u \in Threads : AtLabel(u)'
    BY OthersAtLabel
<1>5. /\ \A s \in Spans : (InFlight(s)' <=> InFlight(s)) /\ (Dying(s)' <=> Dying(s))
      /\ Separate'
    BY FlightsKept DEF OInv, SpansKept
<1>6. SpansKept'
    <2>1. Counted'  BY <1>5 DEF OInv, SpansKept, Counted
    <2>2. \A c \in Classes : \A s \in ToSet(nonempty[c]) : s \in Spans
        BY ListFacts DEF OInv, Typed
    <2>3. OnList'  BY <2>2, <1>5 DEF OInv, SpansKept, OnList
    <2> QED  BY <2>1, <2>3, <1>5 DEF SpansKept
<1>7. PICK loc : Located(loc) /\ Classed(loc)  BY DEF OInv, Placed
<1>8. Located(loc)'  BY <1>7 DEF Located, IsAt, used_slots
<1>9. Classed(loc)'
    <2> SUFFICES ASSUME NEW o \in Objects
                 PROVE  /\ Exists(o)' /\ ~ Dying(SpanOf(o))' => loc[o] # Nowhere
                        /\ loc[o] # Nowhere => Fits(o, loc[o])'
        BY DEF Classed
    <2>1. SpanOf(o) \in Spans  BY ObjectFacts
    <2>2. Exists(o)' <=> Exists(o)  BY DEF Exists
    <2>3. ASSUME loc[o] # Nowhere PROVE Fits(o, loc[o])'
        <3>1. Fits(o, loc[o])  BY <2>3, <1>7 DEF Classed
        <3>2. \A u \in Threads : loc[o] \in {AtRange(u), AtGot(u)} => cl'[u] = cl[u]
            BY <1>2, <1>7, NotEmpty DEF Located, IsAt
        <3>3. \A u \in Threads : loc[o] = AtRel(u) => ReleaseClass(u)' = ReleaseClass(u)
            BY <1>2, <1>7, NotEmpty DEF Located, IsAt
        <3> QED  BY <3>1, <3>2, <3>3, <2>1, <1>5, FitsKept
    <2> QED  BY <2>1, <2>2, <2>3, <1>5, <1>7 DEF Classed
<1> QED  BY <1>1, <1>3, <1>4, <1>6, <1>8, <1>9 DEF OInv, Placed

-----------------------------------------------------------------------------
(* Steps that move objects between lists and leave the spans alone.          *)

\* What IInv says of a thread, as it is used here.
LEMMA ThreadFacts ==
    ASSUME IInv, NEW t \in Threads
    PROVE  /\ pc \in [Threads -> Labels] /\ cl \in [Threads -> Classes]
           /\ cl[t] \in Classes /\ victim[t] \in Classes \cup {NoClass} /\ force[t] \in BOOLEAN
           /\ victim \in [Threads -> Classes \cup {NoClass}]
           /\ pc[t] \in {"peek_size", "peek_used", "shrink", "revert"} => victim[t] \in Classes
           /\ pc[t] \in {"idle", "fetch", "refetch", "populate", "attach", "evict"} => victim[t] = NoClass
           /\ NoClass \notin Classes
BY NumClassesAssumption DEF IInv, Control, ControlOK, VictimOK, NoClass, Classes

\* At a label where the thread has nothing with it.
LEMMA AtIdle ==
    ASSUME OInv, NEW t \in Threads, pc[t] = "idle"
    PROVE  /\ range[t] = <<>> /\ rel[t] = <<>> /\ got[t] = <<>> /\ span[t] = NoSpan
           /\ ~ Carries(t)
<1>1. AtLabel(t)  BY DEF OInv
<1> QED  BY <1>1 DEF AtLabel, Stealing, Carries

LEMMA RemoveFromCacheObjects ==
    ASSUME IInv, OInv, NEW t \in Threads, NEW c \in UsedClasses, RemoveFromCache(t, c)
    PROVE  OInv'
<1>1. /\ pc[t] = "idle" /\ tc_slots[c] # <<>> /\ PopSlot(c)
      /\ client' = client \cup ToSet(Last(tc_slots[c]))
      /\ UNCHANGED <<nonempty, sizeclass, objects, refcount, pc, cl, range, rel, got, span, victim>>
    BY DEF RemoveFromCache, spans, locals
<1> DEFINE k == used_slots(c)
           M == ToSet(Last(tc_slots[c]))
<1>2. /\ tc_slots' \in [Classes -> Seq(Seq(Objects))] /\ tc_slots'[0] = tc_slots[0]
      /\ k \in Nat \ {0} /\ Last(tc_slots[c]) = tc_slots[c][k] /\ Last(tc_slots[c]) \in Seq(Objects)
      /\ \A d \in UsedClasses, i \in Nat \ {0} :
           /\ i <= used_slots(d)' <=> i <= used_slots(d) /\ ~ (d = c /\ i = k)
           /\ i <= used_slots(d)' => tc_slots'[d][i] = tc_slots[d][i]
    BY <1>1, PopFacts DEF OInv
<1>3. M \subseteq Objects  BY <1>2, ListFacts
<1>4. Typed'  BY <1>1, <1>2, <1>3 DEF OInv, Typed
<1> HIDE DEF k
<1>5. Listed'
    <2>1. ASSUME NEW d \in UsedClasses, NEW i \in 1 .. used_slots(d)'
          PROVE  Batches(d, tc_slots[d][i])' /\ i \in Nat \ {0}
        <3>1. i \in Nat \ {0} /\ i <= used_slots(d)'  OBVIOUS
        <3>2. i <= used_slots(d) /\ tc_slots'[d][i] = tc_slots[d][i]  BY <3>1, <1>2
        <3>3. used_slots(d) \in Nat
            BY ListFacts DEF OInv, Typed, used_slots, UsedClasses
        <3>4. i \in 1 .. used_slots(d)  BY <3>1, <3>2, <3>3
        <3> QED  BY <3>1, <3>2, <3>4 DEF OInv, Listed, Batches
    <2> QED  BY <2>1, <1>1, <1>2 DEF OInv, Listed, Batches
<1>6. Alone(t) /\ ~ Carries(t) /\ ~ Carries(t)'  BY <1>1, AtIdle DEF Alone, Carries
<1>7. /\ SpansKept'
      /\ \A u \in Threads \ {t} : AtLabel(u)'
      /\ \A s \in Spans : (InFlight(s)' <=> InFlight(s)) /\ (Dying(s)' <=> Dying(s))
    BY <1>1, <1>6, SpansSame
<1>8. AtLabel(t)'  BY <1>1 DEF OInv, AtLabel, Stealing
<1>9. PICK loc : Located(loc) /\ Classed(loc)  BY DEF OInv, Placed
<1>10. ASSUME NEW o \in Objects, o \in M PROVE IsAt(o, AtClient)' /\ Fits(o, AtClient)'
    <2>1. IsAt(o, loc[o])  BY <1>9 DEF Located
    <2>2. loc[o] = AtSlot(c, k)
        <3>1. o \in ToSet(tc_slots[c][k]) /\ k <= used_slots(c)  BY <1>2, <1>10 DEF k
        <3> QED  BY <2>1, <3>1, <1>2 DEF IsAt
    <2>3. IsAt(o, AtClient)'
        <3>1. IsAt(o, AtSlot(c, k))  BY <2>1, <2>2
        <3>2. ASSUME NEW d \in UsedClasses, NEW i \in Nat \ {0},
                     i <= used_slots(d)', o \in ToSet(tc_slots'[d][i])
              PROVE  FALSE
            <4>1. ~ (d = c /\ i = k) /\ i <= used_slots(d) /\ o \in ToSet(tc_slots[d][i])
                BY <3>2, <1>2
            <4>2. AtSlot(d, i) = AtSlot(c, k)  BY <4>1, <3>1 DEF IsAt
            <4>3. k \in Nat \ {0}  BY <1>2
            <4> QED  BY <4>1, <4>2, <4>3, Distinct
        <3> QED  BY <3>1, <3>2, <1>1, <1>10, Distinct DEF IsAt
    <2>4. Fits(o, loc[o])  BY <2>2, <1>9, Distinct DEF Classed
    <2> QED  BY <2>2, <2>3, <2>4, <1>1, <1>7, Distinct, FitsAnywhere
<1>11. ASSUME NEW o \in Objects, o \notin M PROVE IsAt(o, loc[o])'
    <2>1. IsAt(o, loc[o])  BY <1>9 DEF Located
    <2> QED  BY <2>1, <1>1, <1>2, <1>11 DEF IsAt
<1>12. \A u \in Threads : cl'[u] = cl[u] /\ ReleaseClass(u)' = ReleaseClass(u)
    BY <1>1 DEF ReleaseClass
<1> HIDE DEF M
<1>13. Placed'
    BY <1>1, <1>7, <1>9, <1>10, <1>11, <1>12, PlacesFacts, Distinct, Moves
<1> QED  BY <1>4, <1>5, <1>7, <1>8, <1>13 DEF OInv

\* The lists a thread cache may pass.
LEMMA RangesFacts ==
    ASSUME OInv, NEW c \in UsedClasses, NEW l \in Ranges(c)
    PROVE  /\ l \in Seq(Objects) /\ Batches(c, l)
           /\ ToSet(l) \subseteq client
           /\ \A o \in ToSet(l) : sizeclass[SpanOf(o)] = c
           /\ Cardinality(ToSet(l)) \in 1 .. Batch[c]
<1>1. Batch[c] \in Nat  BY SizeTablesAssumption DEF UsedClasses
<1>2. PICK n \in 1 .. Batch[c] : l \in [1 .. n -> {o \in client : sizeclass[SpanOf(o)] = c}]
    BY DEF Ranges
<1>3. \A x, y \in DOMAIN l : l[x] = l[y] => x = y  BY DEF Ranges
<1>4. n \in Nat /\ n # 0 /\ n <= Batch[c] /\ DOMAIN l = 1 .. n  BY <1>1, <1>2
<1>5. l \in [1 .. n -> Objects]  BY <1>2 DEF OInv, Typed
<1>6. l \in Seq(Objects)  BY <1>4, <1>5, SeqDef
<1>7. Len(l) = n  BY <1>4, <1>6, LenProperties
<1>8. l # <<>> /\ IsInjective(l)  BY <1>3, <1>4, <1>7, EmptyList DEF IsInjective
<1>9. Cardinality(ToSet(l)) = n  BY <1>6, <1>7, <1>8, ListFacts
<1>10. ToSet(l) \subseteq {o \in client : sizeclass[SpanOf(o)] = c}  BY <1>2, <1>4 DEF ToSet
<1> QED  BY <1>1, <1>4, <1>6, <1>7, <1>8, <1>9, <1>10 DEF Batches

LEMMA InsertIntoCacheObjects ==
    ASSUME IInv, OInv, NEW t \in Threads, NEW c \in UsedClasses, NEW l \in Ranges(c),
           InsertIntoCache(t, c, l)
    PROVE  OInv'
<1>1. /\ pc[t] = "idle" /\ tc_slots' = [tc_slots EXCEPT ![c] = Append(@, l)]
      /\ client' = client \ ToSet(l)
      /\ UNCHANGED <<nonempty, sizeclass, objects, refcount, pc, cl, range, rel, got, span, victim>>
    BY DEF InsertIntoCache, spans, locals
<1> DEFINE M == ToSet(l)
<1>2. /\ l \in Seq(Objects) /\ Batches(c, l) /\ M \subseteq client
      /\ \A o \in M : sizeclass[SpanOf(o)] = c
    BY RangesFacts
<1>0. used_slots(c) \in Nat  BY <1>1, <1>2, PushFacts DEF OInv
<1>5. PICK k \in Nat \ {0} : k = used_slots(c) + 1  BY <1>0
<1>3. /\ tc_slots' \in [Classes -> Seq(Seq(Objects))] /\ tc_slots'[0] = tc_slots[0]
      /\ used_slots(c) \in Nat /\ tc_slots'[c][k] = l
      /\ \A d \in UsedClasses, i \in Nat \ {0} :
           /\ i <= used_slots(d)' <=> i <= used_slots(d) \/ (d = c /\ i = k)
           /\ i <= used_slots(d) => tc_slots'[d][i] = tc_slots[d][i]
    <2>1. /\ tc_slots' \in [Classes -> Seq(Seq(Objects))] /\ tc_slots'[0] = tc_slots[0]
          /\ tc_slots'[c][used_slots(c) + 1] = l
          /\ \A d \in UsedClasses, i \in Nat \ {0} :
               /\ i <= used_slots(d)' <=> i <= used_slots(d) \/ (d = c /\ i = used_slots(c) + 1)
               /\ i <= used_slots(d) => tc_slots'[d][i] = tc_slots[d][i]
        BY <1>1, <1>2, PushFacts DEF OInv
    <2> QED  BY <2>1, <1>0, <1>5
<1>4. Typed'  BY <1>1, <1>3 DEF OInv, Typed
<1> HIDE DEF M
<1>6. Listed'
    <2>1. ASSUME NEW d \in UsedClasses, NEW i \in 1 .. used_slots(d)'
          PROVE  Batches(d, tc_slots'[d][i])
        <3>1. i \in Nat \ {0} /\ i <= used_slots(d)'  OBVIOUS
        <3>2. CASE d = c /\ i = k  BY <3>2, <1>2, <1>3
        <3>3. CASE ~ (d = c /\ i = k)
            <4>1. i <= used_slots(d) /\ tc_slots'[d][i] = tc_slots[d][i]  BY <3>1, <3>3, <1>3
            <4>2. used_slots(d) \in Nat
                BY ListFacts DEF OInv, Typed, used_slots, UsedClasses
            <4>3. i \in 1 .. used_slots(d)  BY <3>1, <4>1, <4>2
            <4> QED  BY <4>1, <4>3 DEF OInv, Listed
        <3> QED  BY <3>2, <3>3
    <2> QED  BY <2>1, <1>1, <1>3 DEF OInv, Listed, Batches
<1>7. Alone(t) /\ ~ Carries(t) /\ ~ Carries(t)'  BY <1>1, AtIdle DEF Alone, Carries
<1>8. /\ SpansKept'
      /\ \A u \in Threads \ {t} : AtLabel(u)'
      /\ \A s \in Spans : (InFlight(s)' <=> InFlight(s)) /\ (Dying(s)' <=> Dying(s))
    BY <1>1, <1>7, SpansSame
<1>9. AtLabel(t)'  BY <1>1 DEF OInv, AtLabel, Stealing
<1>10. PICK loc : Located(loc) /\ Classed(loc)  BY DEF OInv, Placed
<1>11. ASSUME NEW o \in Objects, o \in M PROVE IsAt(o, AtSlot(c, k))' /\ Fits(o, AtSlot(c, k))'
    <2>1. IsAt(o, AtClient) /\ loc[o] = AtClient  BY <1>2, <1>10, <1>11 DEF Located, IsAt
    <2>2. IsAt(o, AtSlot(c, k))'
        <3>1. ASSUME NEW d \in UsedClasses, NEW i \in Nat \ {0}
              PROVE  i <= used_slots(d)' /\ o \in ToSet(tc_slots'[d][i])
                        <=> AtSlot(c, k) = AtSlot(d, i)
            <4>1. ~ (i <= used_slots(d) /\ o \in ToSet(tc_slots[d][i]))
                BY <2>1, Distinct DEF IsAt
            <4>2. CASE d = c /\ i = k  BY <4>2, <1>3, <1>11, <1>5 DEF M
            <4>3. CASE ~ (d = c /\ i = k)  BY <4>1, <4>3, <1>3, Distinct
            <4> QED  BY <4>2, <4>3
        <3>2. o \notin client'  BY <1>1, <1>11 DEF M
        <3>3. \A s \in Spans : o \notin ToSet(objects'[s])  BY <2>1, <1>1, Distinct DEF IsAt
        <3>4. \A u \in Threads : /\ o \notin ToSet(range'[u]) /\ o \notin ToSet(rel'[u])
                                 /\ o \notin ToSet(got'[u])
            BY <2>1, <1>1, Distinct DEF IsAt
        <3> QED  BY <3>1, <3>2, <3>3, <3>4, Distinct DEF IsAt
    <2>3. Fits(o, loc[o]) /\ sizeclass[SpanOf(o)] = c  BY <2>1, <1>2, <1>10, <1>11, Distinct DEF Classed
    <2>4. Fits(o, AtClient) /\ \A s \in Spans : AtClient # AtSpan(s)  BY <2>1, <2>3, Distinct
    <2>5. Fits(o, AtSlot(c, k))'  BY <2>3, <2>4, <1>1, <1>5, <1>8, FitsAnywhere
    <2> QED  BY <2>2, <2>5
<1>12. ASSUME NEW o \in Objects, o \notin M PROVE IsAt(o, loc[o])'
    <2>1. IsAt(o, loc[o])  BY <1>10 DEF Located
    <2>2. ASSUME NEW d \in UsedClasses, NEW i \in Nat \ {0}
          PROVE  i <= used_slots(d)' /\ o \in ToSet(tc_slots'[d][i]) <=> loc[o] = AtSlot(d, i)
        <3>1. i <= used_slots(d) /\ o \in ToSet(tc_slots[d][i]) <=> loc[o] = AtSlot(d, i)
            BY <2>1 DEF IsAt
        <3>2. CASE d = c /\ i = k
            <4>1. ~ i <= used_slots(d)  BY <3>2, <1>3, <1>5
            <4> QED  BY <3>1, <3>2, <4>1, <1>3, <1>12 DEF M
        <3>3. CASE ~ (d = c /\ i = k)  BY <3>1, <3>3, <1>3
        <3> QED  BY <3>2, <3>3
    <2> QED  BY <2>1, <2>2, <1>1, <1>12 DEF IsAt, M
<1>13. \A u \in Threads : cl'[u] = cl[u] /\ ReleaseClass(u)' = ReleaseClass(u)
    BY <1>1 DEF ReleaseClass
<1>14. PICK q \in AllPlaces : q = AtSlot(c, k) /\ q # Nowhere  BY <1>5, PlacesFacts, Distinct
<1>15. \A o \in Objects : o \in M => IsAt(o, q)' /\ Fits(o, q)'  BY <1>11, <1>14
<1>16. Placed'
    BY <1>1, <1>8, <1>10, <1>12, <1>13, <1>14, <1>15, Moves
<1> QED  BY <1>4, <1>6, <1>8, <1>9, <1>16 DEF OInv

LEMMA InsertBeginObjects ==
    ASSUME IInv, OInv, NEW t \in Threads, NEW c \in UsedClasses, NEW l \in Ranges(c),
           InsertBegin(t, c, l)
    PROVE  OInv'
<1> DEFINE M == ToSet(l)
<1>1. /\ pc[t] = "idle" /\ cl' = [cl EXCEPT ![t] = c] /\ client' = client \ M
      /\ UNCHANGED <<nonempty, sizeclass, objects, refcount, tc_slots, got, span, victim>>
      /\ \/ /\ range' = [range EXCEPT ![t] = l] /\ rel' = rel /\ pc' = [pc EXCEPT ![t] = "evict"]
         \/ /\ rel' = [rel EXCEPT ![t] = l] /\ range' = range /\ pc' = [pc EXCEPT ![t] = "release"]
    BY DEF InsertBegin, GoTo, shared, spans
<1>2. /\ l \in Seq(Objects) /\ Batches(c, l) /\ M \subseteq client
      /\ \A o \in M : sizeclass[SpanOf(o)] = c
    BY RangesFacts
<1> HIDE DEF M
<1>3. /\ range[t] = <<>> /\ rel[t] = <<>> /\ got[t] = <<>> /\ span[t] = NoSpan /\ ~ Carries(t)
      /\ victim[t] = NoClass /\ c # 0 /\ c \in Classes
    BY <1>1, AtIdle, ThreadFacts DEF UsedClasses
<1>4. /\ cl'[t] = c /\ victim'[t] = NoClass /\ got'[t] = <<>> /\ span'[t] = NoSpan
      /\ \/ range'[t] = l /\ rel'[t] = <<>> /\ pc'[t] = "evict"
         \/ range'[t] = <<>> /\ rel'[t] = l /\ pc'[t] = "release"
    BY <1>1, <1>3, ThreadFacts DEF OInv, Typed
<1>5. Alone(t) /\ ~ Carries(t)'
    BY <1>1, <1>4, ThreadFacts DEF Alone, Carries, OInv, Typed
<1>6. Typed'  BY <1>1, <1>2 DEF OInv, Typed
<1>7. Listed'
    <2>1. \A u \in Threads \ {t} : range'[u] = range[u] /\ rel'[u] = rel[u] /\ got'[u] = got[u] /\ cl'[u] = cl[u]
        BY <1>5 DEF Alone
    <2>2. ASSUME NEW u \in Threads
          PROVE  (range'[u] # <<>> => Batches(cl'[u], range'[u])) /\ IsInjective(rel'[u]) /\ IsInjective(got'[u])
        <3>1. CASE u = t  BY <3>1, <1>2, <1>4, EmptyList DEF Batches
        <3>2. CASE u # t  BY <3>2, <2>1 DEF OInv, Listed
        <3> QED  BY <3>1, <3>2
    <2> QED  BY <2>2, <1>1 DEF OInv, Listed, Batches, used_slots
<1>8. /\ SpansKept'
      /\ \A u \in Threads \ {t} : AtLabel(u)'
      /\ \A s \in Spans : (InFlight(s)' <=> InFlight(s)) /\ (Dying(s)' <=> Dying(s))
    BY <1>1, <1>3, <1>5, SpansSame
<1>9. AtLabel(t)'
    <2>1. l # <<>> /\ Batch[c] \in Nat  BY <1>2, <1>3, SizeTablesAssumption DEF Batches
    <2> QED  BY <2>1, <1>3, <1>4, EmptyList DEF AtLabel, Stealing
<1>10. PICK loc : Located(loc) /\ Classed(loc)  BY DEF OInv, Placed
<1> DEFINE q == IF pc'[t] = "evict" THEN AtRange(t) ELSE AtRel(t)
<1>11. PICK p \in AllPlaces : p = q  BY PlacesFacts
<1>12. ASSUME NEW o \in Objects, o \in M PROVE IsAt(o, p)' /\ Fits(o, p)'
    <2>1. IsAt(o, AtClient) /\ loc[o] = AtClient  BY <1>2, <1>10, <1>12 DEF Located, IsAt
    <2>2. Fits(o, loc[o]) /\ sizeclass[SpanOf(o)] = c  BY <2>1, <1>2, <1>10, <1>12, Distinct DEF Classed
    <2>3. ReleaseClass(t)' = c  BY <1>4 DEF ReleaseClass
    <2>4. Fits(o, p)'
        BY <2>1, <2>2, <2>3, <1>1, <1>4, <1>8, <1>11, Distinct, FitsAnywhere
    <2>5. ASSUME NEW u \in Threads
          PROVE  /\ o \in ToSet(range'[u]) <=> p = AtRange(u)
                 /\ o \in ToSet(rel'[u]) <=> p = AtRel(u)
                 /\ o \in ToSet(got'[u]) <=> p = AtGot(u)
        <3>1. o \notin ToSet(range[u]) /\ o \notin ToSet(rel[u]) /\ o \notin ToSet(got[u])
            BY <2>1, Distinct DEF IsAt
        <3>2. CASE u = t  BY <3>1, <3>2, <1>3, <1>4, <1>11, <1>12, Distinct, EmptyList DEF M
        <3>3. CASE u # t  BY <3>1, <3>3, <1>5, <1>11, Distinct DEF Alone
        <3> QED  BY <3>2, <3>3
    <2>6. IsAt(o, p)'
        <3>1. o \notin client' /\ p # AtClient  BY <1>1, <1>11, <1>12, Distinct
        <3>2. \A s \in Spans : o \notin ToSet(objects'[s]) /\ p # AtSpan(s)
            BY <2>1, <1>1, <1>11, Distinct DEF IsAt
        <3>3. \A d \in UsedClasses, i \in Nat \ {0} :
                ~ (i <= used_slots(d)' /\ o \in ToSet(tc_slots'[d][i])) /\ p # AtSlot(d, i)
            BY <2>1, <1>1, <1>11, Distinct DEF IsAt, used_slots
        <3> QED  BY <3>1, <3>2, <3>3, <2>5 DEF IsAt
    <2> QED  BY <2>4, <2>6
<1>13. ASSUME NEW o \in Objects, o \notin M PROVE IsAt(o, loc[o])'
    <2>1. IsAt(o, loc[o])  BY <1>10 DEF Located
    <2>2. \A u \in Threads : /\ o \in ToSet(range'[u]) <=> o \in ToSet(range[u])
                             /\ o \in ToSet(rel'[u]) <=> o \in ToSet(rel[u])
        BY <1>3, <1>4, <1>5, <1>13, EmptyList DEF Alone, M
    <2> QED  BY <2>1, <2>2, <1>1, <1>13 DEF IsAt, used_slots
<1>14. ASSUME NEW o \in Objects, NEW u \in Threads
       PROVE  /\ loc[o] \in {AtRange(u), AtGot(u)} => cl'[u] = cl[u]
              /\ loc[o] = AtRel(u) => ReleaseClass(u)' = ReleaseClass(u)
    <2>1. IsAt(o, loc[o])  BY <1>10 DEF Located
    <2>2. CASE u = t  BY <2>1, <2>2, <1>3, EmptyList DEF IsAt
    <2>3. CASE u # t  BY <2>3, <1>5 DEF Alone, ReleaseClass
    <2> QED  BY <2>2, <2>3
<1>15. p # Nowhere  BY <1>11, Distinct
<1> HIDE DEF q
<1>16. Placed'
    BY <1>1, <1>8, <1>10, <1>11, <1>12, <1>13, <1>14, <1>15, Moves
<1> QED  BY <1>6, <1>7, <1>8, <1>9, <1>16 DEF OInv

\* The fetched objects go to the client.
LEMMA ReturnObjectsObjects ==
    ASSUME IInv, OInv, NEW t \in Threads, pc[t] \in {"fetch", "refetch"}, ReturnObjects(t, got[t]),
           UNCHANGED <<nonempty, sizeclass, objects, refcount, tc_slots, cl, range, rel, victim>>
    PROVE  OInv'
<1> DEFINE M == ToSet(got[t])
<1>1. /\ client' = client \cup M
      /\ got' = [got EXCEPT ![t] = <<>>]
      /\ span' = [span EXCEPT ![t] = NoSpan]
      /\ pc' = [pc EXCEPT ![t] = "idle"]
    BY DEF ReturnObjects, GoTo
<1>2. got[t] \in Seq(Objects) /\ M \subseteq Objects  BY ListFacts DEF OInv, Typed
<1> HIDE DEF M
<1>3. /\ got'[t] = <<>> /\ span'[t] = NoSpan /\ pc'[t] = "idle"
      /\ Alone(t) /\ ~ Carries(t) /\ ~ Carries(t)'
    BY <1>1, ThreadFacts DEF OInv, Typed, Alone, Carries
<1>4. Typed'
    <2>1. got' \in [Threads -> Seq(Objects)] /\ span' \in [Threads -> Spans \cup {NoSpan}]
        BY <1>1, EmptyList DEF OInv, Typed
    <2> QED  BY <2>1, <1>1, <1>2 DEF OInv, Typed
<1>5. Listed'
    <2>1. \A u \in Threads : IsInjective(got'[u])  BY <1>3, EmptyList DEF OInv, Listed, Alone
    <2> QED  BY <2>1 DEF OInv, Listed, Batches, used_slots
<1>6. /\ SpansKept'
      /\ \A u \in Threads \ {t} : AtLabel(u)'
      /\ \A s \in Spans : (InFlight(s)' <=> InFlight(s)) /\ (Dying(s)' <=> Dying(s))
    BY <1>3, SpansSame
<1>7. AtLabel(t)'
    <2>1. AtLabel(t)  BY DEF OInv
    <2>2. Batch[cl[t]] \in Nat  BY ThreadFacts, SizeTablesAssumption
    <2> QED  BY <2>1, <2>2, <1>3, EmptyList DEF AtLabel, Stealing
<1>8. PICK loc : Located(loc) /\ Classed(loc)  BY DEF OInv, Placed
<1>9. ASSUME NEW o \in Objects, o \in M PROVE IsAt(o, AtClient)' /\ Fits(o, AtClient)'
    <2>1. IsAt(o, AtGot(t)) /\ loc[o] = AtGot(t)  BY <1>8, <1>9 DEF Located, IsAt, M
    <2>2. \A u \in Threads : o \notin ToSet(got'[u])
        <3> SUFFICES ASSUME NEW u \in Threads PROVE o \notin ToSet(got'[u])  OBVIOUS
        <3>1. CASE u = t  BY <3>1, <1>3, EmptyList
        <3>2. CASE u # t
            <4>1. got'[u] = got[u]  BY <1>3, <3>2 DEF Alone
            <4>2. o \in ToSet(got[u]) <=> AtGot(t) = AtGot(u)  BY <2>1 DEF IsAt
            <4> QED  BY <3>2, <4>1, <4>2, Distinct
        <3> QED  BY <3>1, <3>2
    <2>3. IsAt(o, AtClient)'
        <3>1. o \in client'  BY <1>1, <1>9
        <3>2. \A s \in Spans : o \notin ToSet(objects'[s])  BY <2>1, Distinct DEF IsAt
        <3>3. \A d \in UsedClasses, i \in Nat \ {0} :
                ~ (i <= used_slots(d)' /\ o \in ToSet(tc_slots'[d][i]))
            BY <2>1, Distinct DEF IsAt, used_slots
        <3>4. \A u \in Threads : o \notin ToSet(range'[u]) /\ o \notin ToSet(rel'[u])
            BY <2>1, Distinct DEF IsAt
        <3> QED  BY <3>1, <3>2, <3>3, <3>4, <2>2, Distinct DEF IsAt
    <2>4. Fits(o, AtGot(t)) /\ \A s \in Spans : AtGot(t) # AtSpan(s)  BY <2>1, <1>8, Distinct DEF Classed
    <2> QED  BY <2>3, <2>4, <1>6, FitsAnywhere
<1>10. ASSUME NEW o \in Objects, o \notin M PROVE IsAt(o, loc[o])'
    <2>1. IsAt(o, loc[o])  BY <1>8 DEF Located
    <2>2. \A u \in Threads : o \in ToSet(got'[u]) <=> o \in ToSet(got[u])
        BY <1>3, <1>10, EmptyList DEF Alone, M
    <2> QED  BY <2>1, <2>2, <1>1, <1>10 DEF IsAt, used_slots
<1>11. \A u \in Threads : cl'[u] = cl[u] /\ ReleaseClass(u)' = ReleaseClass(u)
    BY DEF ReleaseClass
<1>12. Placed'
    BY <1>6, <1>8, <1>9, <1>10, <1>11, PlacesFacts, Distinct, Moves
<1> QED  BY <1>4, <1>5, <1>6, <1>7, <1>12 DEF OInv

LEMMA FetchNothingObjects ==
    ASSUME IInv, OInv, NEW t \in Threads, FetchNothing(t) PROVE OInv'
<1>1. /\ nonempty[cl[t]] = <<>>
      /\ UNCHANGED <<nonempty, sizeclass, objects, refcount, tc_slots, cl, range, rel, victim>>
    BY DEF FetchNothing, shared, spans
<1>2. CASE pc[t] \in {"fetch", "refetch"} /\ ReturnObjects(t, got[t])
    BY <1>1, <1>2, ReturnObjectsObjects
<1>3. CASE /\ pc[t] = "fetch" /\ got[t] = <<>> /\ pc' = [pc EXCEPT ![t] = "populate"]
           /\ UNCHANGED <<client, got, span>>
    <2>1. pc'[t] = "populate"  BY <1>3, ThreadFacts
    <2>2. Alone(t) /\ ~ Carries(t) /\ ~ Carries(t)'
        BY <1>1, <1>3, <2>1, ThreadFacts DEF Alone, Carries
    <2>3. AtLabel(t)'
        <3>1. AtLabel(t)  BY DEF OInv
        <3> QED  BY <3>1, <2>1, <1>1, <1>3 DEF AtLabel, Stealing
    <2>4. \A u \in Threads : cl'[u] = cl[u] /\ ReleaseClass(u)' = ReleaseClass(u)
        BY <1>1 DEF ReleaseClass
    <2> QED  BY <1>1, <1>3, <2>2, <2>3, <2>4, ControlOnly
<1> QED  BY <1>2, <1>3 DEF FetchNothing, GoTo

LEMMA RemoveBeginObjects ==
    ASSUME IInv, OInv, NEW t \in Threads, NEW c \in UsedClasses, RemoveBegin(t, c) PROVE OInv'
<1>1. /\ pc[t] = "idle" /\ cl' = [cl EXCEPT ![t] = c] /\ pc' = [pc EXCEPT ![t] = "fetch"]
      /\ UNCHANGED <<client, sizeclass, objects, refcount, nonempty, tc_slots, range, rel, got, span, victim>>
    BY DEF RemoveBegin, GoTo, shared, spans
<1>2. range[t] = <<>> /\ rel[t] = <<>> /\ got[t] = <<>> /\ span[t] = NoSpan /\ ~ Carries(t)
    BY <1>1, AtIdle
<1>3. /\ pc'[t] = "fetch" /\ cl'[t] = c /\ c # 0 /\ Batch[c] \in Nat /\ Alone(t) /\ ~ Carries(t)'
    BY <1>1, <1>2, ThreadFacts, SizeTablesAssumption DEF Alone, Carries, UsedClasses
<1>4. AtLabel(t)'
    BY <1>1, <1>2, <1>3, EmptyList DEF AtLabel, Stealing
<1> QED  BY <1>1, <1>2, <1>3, <1>4, ControlOnly

\* A range that finds no slot stays with its thread, or is to be released.
LEMMA EvictFailedObjects ==
    ASSUME IInv, OInv, NEW t \in Threads, pc[t] \in {"evict", "peek_size", "peek_used", "revert"},
           EvictFailed(t),
           UNCHANGED <<client, sizeclass, objects, refcount, nonempty, tc_slots, cl, got, span>>
    PROVE  OInv'
<1>1. /\ victim' = [victim EXCEPT ![t] = NoClass]
      /\ \/ pc' = [pc EXCEPT ![t] = "evict"] /\ UNCHANGED <<range, rel>>
         \/ /\ pc' = [pc EXCEPT ![t] = "release"]
            /\ rel' = [rel EXCEPT ![t] = range[t]]
            /\ range' = [range EXCEPT ![t] = <<>>]
    BY DEF EvictFailed, GoTo
<1>2. AtLabel(t)  BY DEF OInv
<1>3. /\ range[t] # <<>> /\ rel[t] = <<>> /\ got[t] = <<>> /\ cl[t] # 0 /\ span[t] = NoSpan
      /\ ~ Carries(t) /\ victim'[t] = NoClass
    BY <1>1, <1>2, ThreadFacts DEF AtLabel, Stealing, Carries
<1>4. /\ range[t] \in Seq(Objects) /\ Batches(cl[t], range[t])  BY <1>3 DEF OInv, Typed, Listed
<1>5. Alone(t) /\ ~ Carries(t)'
    BY <1>1, <1>3, ThreadFacts DEF Alone, Carries, OInv, Typed
<1>6. CASE pc' = [pc EXCEPT ![t] = "evict"] /\ UNCHANGED <<range, rel>>
    <2>1. pc'[t] = "evict"  BY <1>6, ThreadFacts
    <2>2. AtLabel(t)'  BY <2>1, <1>2, <1>3, <1>6 DEF AtLabel, Stealing
    <2> QED  BY <1>3, <1>5, <1>6, <2>2, ControlOnly
<1>7. CASE /\ pc' = [pc EXCEPT ![t] = "release"]
           /\ rel' = [rel EXCEPT ![t] = range[t]]
           /\ range' = [range EXCEPT ![t] = <<>>]
    <2>1. /\ pc'[t] = "release" /\ rel'[t] = range[t] /\ range'[t] = <<>>
          /\ range' \in [Threads -> Seq(Objects)] /\ rel' \in [Threads -> Seq(Objects)]
        BY <1>4, <1>7, ThreadFacts, EmptyList DEF OInv, Typed
    <2>2. Typed'  BY <2>1 DEF OInv, Typed
    <2>3. Listed'
        <3>1. ASSUME NEW u \in Threads
              PROVE  (range'[u] # <<>> => Batches(cl'[u], range'[u])) /\ IsInjective(rel'[u])
            <4>1. CASE u = t  BY <4>1, <2>1, <1>4 DEF Batches
            <4>2. CASE u # t  BY <4>2, <1>5 DEF OInv, Listed, Alone
            <4> QED  BY <4>1, <4>2
        <3> QED  BY <3>1 DEF OInv, Listed, Batches, used_slots
    <2>4. /\ SpansKept'
          /\ \A u \in Threads \ {t} : AtLabel(u)'
          /\ \A s \in Spans : (InFlight(s)' <=> InFlight(s)) /\ (Dying(s)' <=> Dying(s))
        BY <1>3, <1>5, SpansSame
    <2>5. AtLabel(t)'  BY <2>1, <1>2, <1>3 DEF AtLabel, Stealing
    <2>6. PICK loc : Located(loc) /\ Classed(loc)  BY DEF OInv, Placed
    <2>7. ReleaseClass(t)' = cl[t]  BY <1>3 DEF ReleaseClass
    <2> DEFINE M == ToSet(range[t])
    <2>8. ASSUME NEW o \in Objects, o \in M PROVE IsAt(o, AtRel(t))' /\ Fits(o, AtRel(t))'
        <3>1. IsAt(o, AtRange(t)) /\ loc[o] = AtRange(t)  BY <2>6, <2>8 DEF Located, IsAt
        <3>2. \A u \in Threads : /\ o \notin ToSet(range'[u])
                                 /\ o \in ToSet(rel'[u]) <=> u = t
                                 /\ o \notin ToSet(got'[u])
            <4>1. PICK p : p = AtRange(t)  OBVIOUS
            <4>2. \A u \in Threads : (p = AtRange(u) <=> u = t) /\ p # AtRel(u) /\ p # AtGot(u)
                BY <4>1, Distinct
            <4>3. \A u \in Threads : /\ o \in ToSet(range[u]) <=> u = t
                                     /\ o \notin ToSet(rel[u]) /\ o \notin ToSet(got[u])
                BY <4>1, <4>2, <3>1 DEF IsAt
            <4>4. o \notin ToSet(range'[t]) /\ o \in ToSet(rel'[t])  BY <2>1, <2>8, EmptyList
            <4> QED  BY <4>3, <4>4, <1>5 DEF Alone
        <3>3. IsAt(o, AtRel(t))'
            <4>1. PICK p, q : p = AtRange(t) /\ q = AtRel(t)  OBVIOUS
            <4>2. /\ p # AtClient /\ q # AtClient
                  /\ \A s \in Spans : p # AtSpan(s) /\ q # AtSpan(s)
                  /\ \A d \in UsedClasses, i \in Nat \ {0} : p # AtSlot(d, i) /\ q # AtSlot(d, i)
                  /\ \A u \in Threads : q # AtRange(u) /\ q # AtGot(u) /\ (q = AtRel(u) <=> u = t)
                BY <4>1, Distinct
            <4>3. IsAt(o, p)  BY <4>1, <3>1
            <4>4. o \notin client' /\ \A s \in Spans : o \notin ToSet(objects'[s])
                BY <4>2, <4>3 DEF IsAt
            <4>5. \A d \in UsedClasses, i \in Nat \ {0} :
                    ~ (i <= used_slots(d)' /\ o \in ToSet(tc_slots'[d][i]))
                BY <4>2, <4>3 DEF IsAt, used_slots
            <4>6. IsAt(o, q)'  BY <4>2, <4>4, <4>5, <3>2 DEF IsAt
            <4> QED  BY <4>1, <4>6
        <3>4. Fits(o, AtRange(t)) /\ \A s \in Spans : AtRange(t) # AtSpan(s)
            BY <3>1, <2>6, Distinct DEF Classed
        <3>5. sizeclass[SpanOf(o)] = cl[t]  BY <3>4 DEF Fits
        <3> QED  BY <3>3, <3>4, <3>5, <2>4, <2>7, FitsAnywhere
    <2>9. ASSUME NEW o \in Objects, o \notin M PROVE IsAt(o, loc[o])'
        <3>1. IsAt(o, loc[o])  BY <2>6 DEF Located
        <3>2. \A u \in Threads : /\ o \in ToSet(range'[u]) <=> o \in ToSet(range[u])
                                 /\ o \in ToSet(rel'[u]) <=> o \in ToSet(rel[u])
            BY <1>3, <1>5, <2>1, <2>9, EmptyList DEF Alone
        <3> QED  BY <3>1, <3>2 DEF IsAt, used_slots
    <2>10. ASSUME NEW o \in Objects, NEW u \in Threads, loc[o] = AtRel(u)
           PROVE  ReleaseClass(u)' = ReleaseClass(u)
        <3>1. o \in ToSet(rel[u])  BY <2>6, <2>10 DEF Located, IsAt
        <3>2. u # t  BY <3>1, <1>3, EmptyList
        <3> QED  BY <3>2, <1>5 DEF Alone, ReleaseClass
    <2>11. AtRel(t) \in AllPlaces /\ AtRel(t) # Nowhere  BY PlacesFacts, Distinct
    <2> HIDE DEF M
    <2>12. Placed'  BY <2>4, <2>6, <2>8, <2>9, <2>10, <2>11, Moves
    <2> QED  BY <2>2, <2>3, <2>4, <2>5, <2>12 DEF OInv
<1> QED  BY <1>1, <1>6, <1>7

\* A step between the labels of MakeCacheSpace that moves nothing.
LEMMA StillStealing ==
    ASSUME IInv, OInv, NEW t \in Threads,
           pc[t] \in {"evict", "peek_size", "peek_used", "shrink"},
           NEW label \in {"peek_size", "peek_used", "shrink", "revert"},
           pc' = [pc EXCEPT ![t] = label],
           \A u \in Threads \ {t} : victim'[u] = victim[u],
           UNCHANGED <<client, sizeclass, objects, refcount, nonempty, tc_slots, cl, range, rel, got, span>>
    PROVE  OInv'
<1>1. pc'[t] = label  BY ThreadFacts
<1>2. AtLabel(t)  BY DEF OInv
<1>3. Alone(t) /\ ~ Carries(t) /\ ~ Carries(t)'  BY <1>1, ThreadFacts DEF Alone, Carries
<1>4. rel[t] = <<>> /\ range[t] # <<>>  BY <1>2 DEF AtLabel, Stealing
<1>5. AtLabel(t)'  BY <1>1, <1>2, <1>4 DEF AtLabel, Stealing
<1> QED  BY <1>3, <1>4, <1>5, ControlOnly

LEMMA EvictObjects ==
    ASSUME IInv, OInv, NEW t \in Threads, Evict(t) PROVE OInv'
<1>1. /\ pc[t] = "evict"
      /\ UNCHANGED <<client, sizeclass, objects, refcount, nonempty, tc_slots, cl, got, span>>
    BY DEF Evict, shared, spans
<1>2. CASE EvictFailed(t)  BY <1>1, <1>2, EvictFailedObjects
<1>3. CASE \E v \in Classes : /\ victim' = [victim EXCEPT ![t] = v]
                              /\ pc' = [pc EXCEPT ![t] = "peek_size"]
                              /\ UNCHANGED <<range, rel>>
    <2>1. \A u \in Threads \ {t} : victim'[u] = victim[u]  BY <1>3, ThreadFacts
    <2> QED  BY <1>1, <1>3, <2>1, StillStealing
<1> QED  BY <1>2, <1>3 DEF Evict, GoTo

LEMMA PeekObjects ==
    ASSUME IInv, OInv, NEW t \in Threads, PeekSize(t) \/ PeekUsed(t) PROVE OInv'
<1>1. /\ pc[t] \in {"peek_size", "peek_used"}
      /\ UNCHANGED <<client, sizeclass, objects, refcount, nonempty, tc_slots, cl, got, span>>
    BY DEF PeekSize, PeekUsed, shared, spans
<1>2. CASE EvictFailed(t)  BY <1>1, <1>2, EvictFailedObjects
<1>3. CASE \E label \in {"peek_used", "shrink"} :
             pc' = [pc EXCEPT ![t] = label] /\ UNCHANGED <<range, rel, victim>>
    <2>1. \A u \in Threads \ {t} : victim'[u] = victim[u]  BY <1>3
    <2> QED  BY <1>1, <1>3, <2>1, StillStealing
<1> QED  BY <1>2, <1>3 DEF PeekSize, PeekUsed, GoTo

\* The batch of the victim's last slot is to be released.
LEMMA ShrinkTakesBatch ==
    ASSUME IInv, OInv, NEW t \in Threads, pc[t] = "shrink",
           tc_slots[victim[t]] # <<>>, PopSlot(victim[t]),
           rel' = [rel EXCEPT ![t] = Last(tc_slots[victim[t]])],
           pc' = [pc EXCEPT ![t] = "release"],
           UNCHANGED <<client, sizeclass, objects, refcount, nonempty, cl, range, got, span, victim>>
    PROVE  OInv'
<1> DEFINE c == victim[t]
           l == Last(tc_slots[c])
           M == ToSet(l)
<1>1. AtLabel(t)  BY DEF OInv
<1>2. /\ c \in UsedClasses /\ c # NoClass
      /\ rel[t] = <<>> /\ got[t] = <<>> /\ range[t] # <<>> /\ cl[t] # 0 /\ span[t] = NoSpan
    <2>1. tc_slots[0] = <<>>  BY DEF OInv, Listed
    <2> QED  BY <2>1, <1>1, ThreadFacts DEF UsedClasses, AtLabel, Stealing
<1>3. PICK k \in Nat \ {0} : k = used_slots(c)  BY <1>2, PopFacts DEF OInv
<1>4. /\ tc_slots' \in [Classes -> Seq(Seq(Objects))] /\ tc_slots'[0] = tc_slots[0]
      /\ l = tc_slots[c][k] /\ l \in Seq(Objects)
      /\ \A d \in UsedClasses, i \in Nat \ {0} :
           /\ i <= used_slots(d)' <=> i <= used_slots(d) /\ ~ (d = c /\ i = k)
           /\ i <= used_slots(d)' => tc_slots'[d][i] = tc_slots[d][i]
    <2>1. /\ tc_slots' \in [Classes -> Seq(Seq(Objects))] /\ tc_slots'[0] = tc_slots[0]
          /\ l = tc_slots[c][used_slots(c)] /\ l \in Seq(Objects)
          /\ \A d \in UsedClasses, i \in Nat \ {0} :
               /\ i <= used_slots(d)' <=> i <= used_slots(d) /\ ~ (d = c /\ i = used_slots(c))
               /\ i <= used_slots(d)' => tc_slots'[d][i] = tc_slots[d][i]
        BY <1>2, PopFacts DEF OInv
    <2> QED  BY <2>1, <1>3
<1>5. Batches(c, l)
    <2>1. k \in 1 .. used_slots(c)  BY <1>3
    <2> QED  BY <2>1, <1>2, <1>4 DEF OInv, Listed
<1>6. /\ rel' \in [Threads -> Seq(Objects)] /\ rel'[t] = l /\ pc'[t] = "release" /\ victim'[t] = c
      /\ Alone(t) /\ ~ Carries(t) /\ ~ Carries(t)'
    BY <1>4, ThreadFacts DEF OInv, Typed, Alone, Carries
<1>7. Typed'  BY <1>4, <1>6 DEF OInv, Typed
<1>8. Listed'
    <2>1. ASSUME NEW d \in UsedClasses, NEW i \in 1 .. used_slots(d)'
          PROVE  Batches(d, tc_slots'[d][i])
        <3>1. i \in Nat \ {0} /\ i <= used_slots(d)'  OBVIOUS
        <3>2. i <= used_slots(d) /\ tc_slots'[d][i] = tc_slots[d][i]  BY <3>1, <1>4
        <3>3. used_slots(d) \in Nat
            BY ListFacts DEF OInv, Typed, used_slots, UsedClasses
        <3>4. i \in 1 .. used_slots(d)  BY <3>1, <3>2, <3>3
        <3> QED  BY <3>2, <3>4 DEF OInv, Listed
    <2>2. \A u \in Threads : IsInjective(rel'[u])
        BY <1>5, <1>6 DEF OInv, Listed, Alone, Batches
    <2> QED  BY <2>1, <2>2, <1>4 DEF OInv, Listed, Batches
<1>9. /\ SpansKept'
      /\ \A u \in Threads \ {t} : AtLabel(u)'
      /\ \A s \in Spans : (InFlight(s)' <=> InFlight(s)) /\ (Dying(s)' <=> Dying(s))
    BY <1>6, SpansSame
<1>10. AtLabel(t)'  BY <1>1, <1>2, <1>5, <1>6 DEF AtLabel, Stealing, Batches
<1>11. PICK loc : Located(loc) /\ Classed(loc)  BY DEF OInv, Placed
<1>12. ReleaseClass(t)' = c  BY <1>2, <1>6 DEF ReleaseClass
<1> HIDE DEF c, l
<1>13. ASSUME NEW o \in Objects, o \in M PROVE IsAt(o, AtRel(t))' /\ Fits(o, AtRel(t))'
    <2>1. IsAt(o, loc[o])  BY <1>11 DEF Located
    <2>2. loc[o] = AtSlot(c, k) /\ IsAt(o, AtSlot(c, k))
        <3>1. o \in ToSet(tc_slots[c][k]) /\ k <= used_slots(c)  BY <1>3, <1>4, <1>13
        <3> QED  BY <2>1, <3>1, <1>2, <1>3 DEF IsAt
    <2>3. IsAt(o, AtRel(t))'
        <3>1. o \notin client' /\ \A s \in Spans : o \notin ToSet(objects'[s])
            BY <2>2, Distinct DEF IsAt
        <3>2. \A d \in UsedClasses, i \in Nat \ {0} :
                ~ (i <= used_slots(d)' /\ o \in ToSet(tc_slots'[d][i]))
            <4> SUFFICES ASSUME NEW d \in UsedClasses, NEW i \in Nat \ {0},
                                i <= used_slots(d)', o \in ToSet(tc_slots'[d][i])
                         PROVE  FALSE
                OBVIOUS
            <4>1. i <= used_slots(d) /\ o \in ToSet(tc_slots[d][i]) /\ ~ (d = c /\ i = k)  BY <1>4
            <4>2. AtSlot(c, k) = AtSlot(d, i)  BY <4>1, <2>2 DEF IsAt
            <4> QED  BY <4>1, <4>2, Distinct
        <3>3. \A u \in Threads : /\ o \notin ToSet(range'[u]) /\ o \notin ToSet(got'[u])
                                 /\ o \in ToSet(rel'[u]) <=> u = t
            BY <2>2, <1>6, <1>13, Distinct DEF IsAt, Alone
        <3> QED  BY <3>1, <3>2, <3>3, Distinct DEF IsAt
    <2>4. Fits(o, AtSlot(c, k)) /\ \A s \in Spans : AtSlot(c, k) # AtSpan(s)
        BY <2>2, <1>11, Distinct DEF Classed
    <2>5. sizeclass[SpanOf(o)] = c  BY <2>4, <1>2, <1>3 DEF Fits
    <2> QED  BY <2>3, <2>4, <2>5, <1>9, <1>12, FitsAnywhere
<1>14. ASSUME NEW o \in Objects, o \notin M PROVE IsAt(o, loc[o])'
    <2>1. IsAt(o, loc[o])  BY <1>11 DEF Located
    <2>2. \A u \in Threads : o \in ToSet(rel'[u]) <=> o \in ToSet(rel[u])
        BY <1>2, <1>6, <1>14, EmptyList DEF Alone
    <2>3. \A d \in UsedClasses, i \in Nat \ {0} :
            i <= used_slots(d)' /\ o \in ToSet(tc_slots'[d][i])
                <=> i <= used_slots(d) /\ o \in ToSet(tc_slots[d][i])
        BY <1>4, <1>14
    <2> QED  BY <2>1, <2>2, <2>3 DEF IsAt
<1>15. ASSUME NEW o \in Objects, NEW u \in Threads, loc[o] = AtRel(u)
       PROVE  ReleaseClass(u)' = ReleaseClass(u)
    BY DEF ReleaseClass
<1>16. AtRel(t) \in AllPlaces /\ AtRel(t) # Nowhere  BY PlacesFacts, Distinct
<1> HIDE DEF M
<1>17. Placed'  BY <1>9, <1>11, <1>13, <1>14, <1>15, <1>16, Moves
<1> QED  BY <1>7, <1>8, <1>9, <1>10, <1>17 DEF OInv

LEMMA ShrinkObjects ==
    ASSUME IInv, OInv, NEW t \in Threads, Shrink(t) PROVE OInv'
<1>1. /\ pc[t] = "shrink" /\ victim[t] \in Classes
      /\ UNCHANGED <<client, sizeclass, objects, refcount, nonempty, cl, range, got, span, victim>>
    BY ThreadFacts DEF Shrink, spans
<1>2. CASE pc' = [pc EXCEPT ![t] = "revert"] /\ UNCHANGED <<tc_slots, rel>>
    BY <1>1, <1>2, StillStealing
<1>3. CASE /\ ~ NothingToTake(victim[t], force[t])
           /\ used_slots(victim[t]) = cache_size[victim[t]]
           /\ PopSlot(victim[t])
           /\ rel' = [rel EXCEPT ![t] = Last(tc_slots[victim[t]])]
           /\ pc' = [pc EXCEPT ![t] = "release"]
    <2>1. tc_slots[victim[t]] # <<>>
        BY <1>3, EmptyList DEF NothingToTake, used_slots
    <2> QED  BY <1>1, <1>3, <2>1, ShrinkTakesBatch
<1> QED  BY <1>2, <1>3 DEF Shrink, GoTo

\* The range gets the slot that was taken from the victim.
LEMMA RevertStores ==
    ASSUME IInv, OInv, NEW t \in Threads, pc[t] = "revert",
           tc_slots' = [tc_slots EXCEPT ![cl[t]] = Append(@, range[t])],
           range' = [range EXCEPT ![t] = <<>>],
           victim' = [victim EXCEPT ![t] = NoClass],
           pc' = [pc EXCEPT ![t] = "idle"],
           UNCHANGED <<client, sizeclass, objects, refcount, nonempty, cl, rel, got, span>>
    PROVE  OInv'
<1> DEFINE l == range[t]
           M == ToSet(l)
<1>1. AtLabel(t)  BY DEF OInv
<1>2. PICK c \in UsedClasses :
      /\ c = cl[t] /\ rel[t] = <<>> /\ got[t] = <<>> /\ span[t] = NoSpan
      /\ l # <<>> /\ l \in Seq(Objects) /\ Batches(c, l)
    BY <1>1, ThreadFacts DEF UsedClasses, AtLabel, Stealing, OInv, Typed, Listed
<1>0. used_slots(c) \in Nat  BY <1>2, PushFacts DEF OInv
<1>3. PICK k \in Nat \ {0} : k = used_slots(c) + 1  BY <1>0
<1>4. /\ tc_slots' \in [Classes -> Seq(Seq(Objects))] /\ tc_slots'[0] = tc_slots[0]
      /\ tc_slots'[c][k] = l
      /\ \A d \in UsedClasses, i \in Nat \ {0} :
           /\ i <= used_slots(d)' <=> i <= used_slots(d) \/ (d = c /\ i = k)
           /\ i <= used_slots(d) => tc_slots'[d][i] = tc_slots[d][i]
    <2>1. /\ tc_slots' \in [Classes -> Seq(Seq(Objects))] /\ tc_slots'[0] = tc_slots[0]
          /\ tc_slots'[c][used_slots(c) + 1] = l
          /\ \A d \in UsedClasses, i \in Nat \ {0} :
               /\ i <= used_slots(d)' <=> i <= used_slots(d) \/ (d = c /\ i = used_slots(c) + 1)
               /\ i <= used_slots(d) => tc_slots'[d][i] = tc_slots[d][i]
        BY <1>2, PushFacts DEF OInv
    <2> QED  BY <2>1, <1>0, <1>3
<1>5. /\ range' \in [Threads -> Seq(Objects)] /\ range'[t] = <<>> /\ pc'[t] = "idle"
      /\ Alone(t) /\ ~ Carries(t) /\ ~ Carries(t)'
    BY EmptyList, ThreadFacts DEF OInv, Typed, Alone, Carries
<1>6. Typed'  BY <1>4, <1>5 DEF OInv, Typed
<1> HIDE DEF l, M
<1>7. Listed'
    <2>1. ASSUME NEW d \in UsedClasses, NEW i \in 1 .. used_slots(d)'
          PROVE  Batches(d, tc_slots'[d][i])
        <3>1. i \in Nat \ {0} /\ i <= used_slots(d)'  OBVIOUS
        <3>2. CASE d = c /\ i = k  BY <3>2, <1>2, <1>4
        <3>3. CASE ~ (d = c /\ i = k)
            <4>1. i <= used_slots(d) /\ tc_slots'[d][i] = tc_slots[d][i]  BY <3>1, <3>3, <1>4
            <4>2. used_slots(d) \in Nat
                BY ListFacts DEF OInv, Typed, used_slots, UsedClasses
            <4>3. i \in 1 .. used_slots(d)  BY <3>1, <4>1, <4>2
            <4> QED  BY <4>1, <4>3 DEF OInv, Listed
        <3> QED  BY <3>2, <3>3
    <2>2. \A u \in Threads : range'[u] # <<>> => range'[u] = range[u] /\ u # t
        BY <1>5 DEF Alone
    <2> QED  BY <2>1, <2>2, <1>4 DEF OInv, Listed, Batches
<1>8. /\ SpansKept'
      /\ \A u \in Threads \ {t} : AtLabel(u)'
      /\ \A s \in Spans : (InFlight(s)' <=> InFlight(s)) /\ (Dying(s)' <=> Dying(s))
    BY <1>5, SpansSame
<1>9. AtLabel(t)'  BY <1>1, <1>2, <1>5 DEF AtLabel, Stealing
<1>10. PICK loc : Located(loc) /\ Classed(loc)  BY DEF OInv, Placed
<1>11. ASSUME NEW o \in Objects, o \in M PROVE IsAt(o, AtSlot(c, k))' /\ Fits(o, AtSlot(c, k))'
    <2>1. IsAt(o, AtRange(t)) /\ loc[o] = AtRange(t)  BY <1>10, <1>11 DEF Located, IsAt, M, l
    <2>2. ASSUME NEW d \in UsedClasses, NEW i \in Nat \ {0}
          PROVE  i <= used_slots(d)' /\ o \in ToSet(tc_slots'[d][i])
                    <=> d = c /\ i = k
        <3>1. ~ (i <= used_slots(d) /\ o \in ToSet(tc_slots[d][i]))
            BY <2>1, Distinct DEF IsAt
        <3>2. CASE d = c /\ i = k  BY <3>2, <1>4, <1>11 DEF M
        <3>3. CASE ~ (d = c /\ i = k)  BY <3>1, <3>3, <1>4
        <3> QED  BY <3>2, <3>3
    <2>3. o \notin client' /\ \A s \in Spans : o \notin ToSet(objects'[s])
        BY <2>1, Distinct DEF IsAt
    <2>4. \A u \in Threads : /\ o \notin ToSet(range'[u]) /\ o \notin ToSet(rel'[u])
                             /\ o \notin ToSet(got'[u])
        <3>1. \A u \in Threads : u # t => o \notin ToSet(range[u])  BY <2>1, Distinct DEF IsAt
        <3>2. \A u \in Threads : o \notin ToSet(range'[u])  BY <3>1, <1>5, EmptyList DEF Alone
        <3> QED  BY <2>1, <3>2, Distinct DEF IsAt
    <2>5. PICK q : q = AtSlot(c, k)  OBVIOUS
    <2>6. \A d \in UsedClasses, i \in Nat \ {0} : q = AtSlot(d, i) <=> d = c /\ i = k
        BY <2>5, Distinct
    <2>7. q # AtClient /\ (\A s \in Spans : q # AtSpan(s))
          /\ \A u \in Threads : q # AtRange(u) /\ q # AtRel(u) /\ q # AtGot(u)
        BY <2>5, Distinct
    <2>8. IsAt(o, q)'  BY <2>2, <2>3, <2>4, <2>6, <2>7 DEF IsAt
    <2>9. Fits(o, AtRange(t)) /\ \A s \in Spans : AtRange(t) # AtSpan(s)
        BY <2>1, <1>10, Distinct DEF Classed
    <2>10. sizeclass[SpanOf(o)] = c  BY <2>9, <1>2 DEF Fits
    <2>11. Fits(o, AtSlot(c, k))'  BY <2>9, <2>10, <1>2, <1>3, <1>8, FitsAnywhere
    <2> QED  BY <2>5, <2>8, <2>11
<1>12. ASSUME NEW o \in Objects, o \notin M PROVE IsAt(o, loc[o])'
    <2>1. IsAt(o, loc[o])  BY <1>10 DEF Located
    <2>2. ASSUME NEW d \in UsedClasses, NEW i \in Nat \ {0}
          PROVE  i <= used_slots(d)' /\ o \in ToSet(tc_slots'[d][i])
                    <=> i <= used_slots(d) /\ o \in ToSet(tc_slots[d][i])
        <3>1. CASE d = c /\ i = k
            <4>1. ~ i <= used_slots(d)  BY <3>1, <1>0, <1>3
            <4> QED  BY <3>1, <4>1, <1>4, <1>12 DEF M
        <3>2. CASE ~ (d = c /\ i = k)  BY <3>2, <1>4
        <3> QED  BY <3>1, <3>2
    <2>3. \A u \in Threads : o \in ToSet(range'[u]) <=> o \in ToSet(range[u])
        BY <1>5, <1>12, EmptyList DEF Alone, M, l
    <2> QED  BY <2>1, <2>2, <2>3 DEF IsAt
<1>13. ASSUME NEW o \in Objects, NEW u \in Threads, loc[o] = AtRel(u)
       PROVE  ReleaseClass(u)' = ReleaseClass(u)
    <2>1. o \in ToSet(rel[u])  BY <1>10, <1>13 DEF Located, IsAt
    <2>2. u # t  BY <2>1, <1>2, EmptyList
    <2> QED  BY <2>2, <1>5 DEF Alone, ReleaseClass
<1>14. PICK q \in AllPlaces : q = AtSlot(c, k) /\ q # Nowhere  BY <1>2, <1>3, PlacesFacts, Distinct
<1>15. \A o \in Objects : o \in M => IsAt(o, q)' /\ Fits(o, q)'  BY <1>11, <1>14
<1>16. Placed'
    BY <1>8, <1>10, <1>12, <1>13, <1>14, <1>15, Moves
<1> QED  BY <1>6, <1>7, <1>8, <1>9, <1>16 DEF OInv

LEMMA RevertObjects ==
    ASSUME IInv, OInv, NEW t \in Threads, Revert(t) PROVE OInv'
<1>1. /\ pc[t] = "revert"
      /\ UNCHANGED <<client, sizeclass, objects, refcount, nonempty, cl, got, span>>
    BY DEF Revert, spans
<1>2. CASE grown[t]
    BY <1>1, <1>2, RevertStores DEF Revert, GoTo
<1>3. CASE ~ grown[t]
    <2>1. EvictFailed(t) /\ UNCHANGED tc_slots  BY <1>3 DEF Revert
    <2> QED  BY <1>1, <2>1, EvictFailedObjects
<1> QED  BY <1>2, <1>3

LEMMA RelockObjects ==
    ASSUME IInv, OInv, NEW t \in Threads, Relock(t) PROVE OInv'
<1>1. /\ pc[t] = "relock"
      /\ UNCHANGED <<client, sizeclass, objects, refcount, nonempty, tc_slots, cl, range, rel, got, span, victim>>
      /\ \/ rel[t] = <<>> /\ pc' = [pc EXCEPT ![t] = IF victim[t] = NoClass THEN "idle" ELSE "revert"]
         \/ rel[t] # <<>> /\ pc' = [pc EXCEPT ![t] = "release"]
    BY DEF Relock, ReleaseDone, GoTo, shared, spans, locals
<1>2. AtLabel(t)  BY DEF OInv
<1>3. /\ rel[t] = <<>> => pc'[t] = IF victim[t] = NoClass THEN "idle" ELSE "revert"
      /\ rel[t] # <<>> => pc'[t] = "release"
      /\ Alone(t)
    BY <1>1, ThreadFacts DEF Alone
<1>4. ~ Carries(t) /\ ~ Carries(t)'  BY <1>1, <1>3 DEF Carries
<1>5. AtLabel(t)'  BY <1>1, <1>2, <1>3 DEF AtLabel, Stealing
<1>6. cl'[t] = cl[t] /\ ReleaseClass(t)' = ReleaseClass(t)  BY <1>1 DEF ReleaseClass
<1> QED  BY <1>1, <1>3, <1>4, <1>5, <1>6, ControlOnly

-----------------------------------------------------------------------------
(* Steps that move an object into its span or out of it.                     *)

\* The thread that holds the lock of a class is alone there.
LEMMA AloneUnderLock ==
    ASSUME IInv, NEW t \in Threads, NEW c \in Classes, Holds(t, c),
           NEW u \in Threads \ {t}, pc[u] = "refetch"
    PROVE  cl[u] # c
<1>1. lock[c] = t  BY DEF IInv, Control, LocksOK
<1>2. cl[u] = c => lock[c] = u  BY DEF IInv, Control, LocksOK, Holds
<1> QED  BY <1>1, <1>2

\* An object out of a span on a list can be put anywhere with its class.
LEMMA FitsTaken ==
    ASSUME NEW o \in Objects, NEW s \in Spans, Fits(o, AtSpan(s)), ~ InFlight(s),
           sizeclass' = sizeclass,
           \A x \in Spans : InFlight(x)' <=> InFlight(x)
    PROVE  /\ SpanOf(o) = s
           /\ Fits(o, AtClient)'
           /\ \A t \in Threads : sizeclass[s] = cl'[t] => Fits(o, AtGot(t))'
<1>1. SpanOf(o) = s  BY DEF Fits
<1>2. Exists(o)' /\ ~ InFlight(s)'  BY <1>1 DEF Fits, Exists
<1> QED  BY <1>1, <1>2, Distinct DEF Fits

\* The free objects of one span change, and its place on the list with them.
LEMMA SpanChanges ==
    ASSUME OInv, NEW t \in Threads, Alone(t), ~ Carries(t), ~ Carries(t)',
           NEW s \in Spans, ~ InFlight(s), sizeclass' = sizeclass,
           \A x \in Spans \ {s} : objects'[x] = objects[x] /\ refcount'[x] = refcount[x],
           refcount'[s] + Len(objects'[s]) = refcount[s] + Len(objects[s]),
           nonempty' \in [Classes -> Seq(Spans)],
           \A c \in Classes : \A x \in ToSet(nonempty'[c]) : x # s => x \in ToSet(nonempty[c]),
           \A c \in Classes : s \in ToSet(nonempty'[c]) =>
                c # 0 /\ sizeclass[s] = c /\ objects'[s] # <<>>,
           \A u \in Threads \ {t} :
                pc[u] = "refetch" /\ nonempty[cl[u]] # <<>> => nonempty'[cl[u]] # <<>>
    PROVE  /\ SpansKept'
           /\ \A u \in Threads \ {t} : AtLabel(u)'
           /\ \A x \in Spans : (InFlight(x)' <=> InFlight(x)) /\ (Dying(x)' <=> Dying(x))
<1>1. \A u \in Threads \ {t} : AtLabel(u)'
    <2>1. \A u \in Threads : Carries(u) => span[u] \in Spans \ {s}
        BY DEF Carries, InFlight, OInv, Typed
    <2> QED  BY <2>1, OthersAtLabel
<1>2. /\ \A x \in Spans : (InFlight(x)' <=> InFlight(x)) /\ (Dying(x)' <=> Dying(x))
      /\ Separate'
    BY FlightsKept DEF OInv, SpansKept
<1>3. Counted'
    <2> SUFFICES ASSUME NEW x \in Spans, sizeclass'[x] # 0, ~ Dying(x)'
                 PROVE  refcount'[x] + Len(objects'[x]) = ObjectsPerSpan[sizeclass'[x]]
        BY DEF Counted
    <2>1. refcount[x] + Len(objects[x]) = ObjectsPerSpan[sizeclass[x]]
        BY <1>2 DEF OInv, SpansKept, Counted
    <2>2. CASE x = s  BY <2>1, <2>2
    <2>3. CASE x # s  BY <2>1, <2>3
    <2> QED  BY <2>2, <2>3
<1>4. OnList'
    <2> SUFFICES ASSUME NEW c \in Classes, NEW x \in ToSet(nonempty'[c])
                 PROVE  c # 0 /\ objects'[x] # <<>> /\ sizeclass'[x] = c /\ ~ InFlight(x)'
        BY DEF OnList
    <2>1. x \in Spans  BY ListFacts
    <2>2. CASE x = s  BY <2>2, <1>2
    <2>3. CASE x # s  BY <2>1, <2>3, <1>2 DEF OInv, SpansKept, OnList
    <2> QED  BY <2>2, <2>3
<1> QED  BY <1>1, <1>2, <1>3, <1>4 DEF SpansKept

\* The first free object of the first span leaves it.
LEMMA FetchFacts ==
    ASSUME IInv, OInv, NEW t \in Threads, pc[t] \in {"fetch", "refetch"}, FetchFromSpans(t),
           Alone(t), pc'[t] \in {"idle", "fetch"}, sizeclass' = sizeclass
    PROVE  \E s \in Spans, o \in Objects :
              /\ s = Head(nonempty[cl[t]]) /\ o = Head(objects[s])
              /\ ~ InFlight(s) /\ sizeclass[s] = cl[t] /\ cl[t] # 0
              /\ refcount' \in [Spans -> Int] /\ objects' \in [Spans -> Seq(Objects)]
              /\ nonempty' \in [Classes -> Seq(Spans)]
              /\ \A c \in Classes : IsInjective(nonempty'[c])
              /\ \A x \in Spans : IsInjective(objects'[x])
              /\ o \in ToSet(objects[s])
              /\ \A x \in Spans, y \in Objects :
                    y \in ToSet(objects'[x]) <=> y \in ToSet(objects[x]) /\ ~ (x = s /\ y = o)
              /\ SpansKept'
              /\ \A u \in Threads \ {t} : AtLabel(u)'
              /\ \A x \in Spans : (InFlight(x)' <=> InFlight(x)) /\ (Dying(x)' <=> Dying(x))
<1>1. PICK c \in Classes : c = cl[t]  BY ThreadFacts
<1>2. /\ nonempty[c] # <<>> /\ nonempty[c] \in Seq(Spans) /\ IsInjective(nonempty[c])
    BY <1>1 DEF FetchFromSpans, OInv, Typed, Listed
<1>3. PICK s \in Spans : s = Head(nonempty[c]) /\ s \in ToSet(nonempty[c])  BY <1>2, HeadTail
<1>4. /\ c # 0 /\ objects[s] # <<>> /\ sizeclass[s] = c /\ ~ InFlight(s)
      /\ objects[s] \in Seq(Objects) /\ IsInjective(objects[s]) /\ refcount[s] \in Int
    BY <1>3 DEF OInv, SpansKept, OnList, Typed, Listed
<1>5. PICK o \in Objects : o = Head(objects[s]) /\ o \in ToSet(objects[s])  BY <1>4, HeadTail
<1>6. PICK r \in Seq(Objects) : r = Tail(objects[s])  BY <1>4, HeadTail
<1>7. /\ Len(r) = Len(objects[s]) - 1 /\ ToSet(objects[s]) = {o} \cup ToSet(r)
      /\ IsInjective(r) /\ o \notin ToSet(r)
    BY <1>4, <1>5, <1>6, HeadTail
<1>8. PICK q \in Seq(Spans) : q = Tail(nonempty[c])  BY <1>2, HeadTail
<1>9. ToSet(nonempty[c]) = {s} \cup ToSet(q) /\ IsInjective(q) /\ s \notin ToSet(q)
    BY <1>2, <1>3, <1>8, HeadTail
<1>10. /\ refcount' = [refcount EXCEPT ![s] = refcount[s] + 1]
       /\ objects' = [objects EXCEPT ![s] = r]
       /\ nonempty' = IF r = <<>> THEN [nonempty EXCEPT ![c] = q] ELSE nonempty
    BY <1>1, <1>3, <1>6, <1>8 DEF FetchFromSpans
<1>11. /\ refcount' \in [Spans -> Int] /\ refcount'[s] = refcount[s] + 1
       /\ objects' \in [Spans -> Seq(Objects)] /\ objects'[s] = r
       /\ \A x \in Spans \ {s} : objects'[x] = objects[x] /\ refcount'[x] = refcount[x]
       /\ nonempty' \in [Classes -> Seq(Spans)]
    <2>1. PICK n \in Int : n = refcount[s] + 1  BY <1>4
    <2>2. refcount' = [refcount EXCEPT ![s] = n]  BY <1>10, <2>1
    <2>3. /\ refcount' \in [Spans -> Int] /\ refcount'[s] = n
          /\ \A x \in Spans \ {s} : refcount'[x] = refcount[x]
        BY <2>2 DEF OInv, Typed
    <2>4. /\ objects' \in [Spans -> Seq(Objects)] /\ objects'[s] = r
          /\ \A x \in Spans \ {s} : objects'[x] = objects[x]
        BY <1>10 DEF OInv, Typed
    <2>5. nonempty' \in [Classes -> Seq(Spans)]  BY <1>10 DEF OInv, Typed
    <2> QED  BY <2>1, <2>3, <2>4, <2>5
<1>12. /\ nonempty'[c] = IF r = <<>> THEN q ELSE nonempty[c]
       /\ \A d \in Classes \ {c} : nonempty'[d] = nonempty[d]
    BY <1>10 DEF OInv, Typed
<1>13. /\ \A d \in Classes : IsInjective(nonempty'[d])
       /\ \A x \in Spans : IsInjective(objects'[x])
    BY <1>2, <1>7, <1>9, <1>11, <1>12 DEF OInv, Listed
<1>14. \A x \in Spans, y \in Objects :
          y \in ToSet(objects'[x]) <=> y \in ToSet(objects[x]) /\ ~ (x = s /\ y = o)
    BY <1>7, <1>11
<1>15. refcount'[s] + Len(objects'[s]) = refcount[s] + Len(objects[s])
    <2>1. PICK n \in Nat : n = Len(objects[s])  BY <1>4, ListFacts
    <2>2. PICK m \in Int : m = refcount[s]  BY <1>4
    <2>3. refcount'[s] = m + 1 /\ Len(objects'[s]) = n - 1  BY <2>1, <2>2, <1>7, <1>11
    <2>4. (m + 1) + (n - 1) = m + n  OBVIOUS
    <2> QED  BY <2>1, <2>2, <2>3, <2>4
<1>16. \A d \in Classes : \A x \in ToSet(nonempty'[d]) : x # s => x \in ToSet(nonempty[d])
    BY <1>9, <1>12
<1>17. \A d \in Classes : s \in ToSet(nonempty'[d]) => d # 0 /\ sizeclass[s] = d /\ objects'[s] # <<>>
    <2> SUFFICES ASSUME NEW d \in Classes, s \in ToSet(nonempty'[d])
                 PROVE  d # 0 /\ sizeclass[s] = d /\ objects'[s] # <<>>
        OBVIOUS
    <2>1. CASE d = c  BY <2>1, <1>4, <1>9, <1>11, <1>12
    <2>2. CASE d # c
        <3>1. s \in ToSet(nonempty[d])  BY <2>2, <1>12
        <3>2. sizeclass[s] = d  BY <3>1 DEF OInv, SpansKept, OnList
        <3> QED  BY <3>2, <2>2, <1>4
    <2> QED  BY <2>1, <2>2
<1>18. ASSUME NEW u \in Threads \ {t}, pc[u] = "refetch", nonempty[cl[u]] # <<>>
       PROVE  nonempty'[cl[u]] # <<>>
    <2>1. Holds(t, c)  BY <1>1 DEF Holds
    <2>2. cl[u] \in Classes \ {c}  BY <2>1, <1>18, ThreadFacts, AloneUnderLock
    <2> QED  BY <2>2, <1>12, <1>18
<1>19. ~ Carries(t) /\ ~ Carries(t)'  BY DEF Carries
<1>20. /\ SpansKept'
       /\ \A u \in Threads \ {t} : AtLabel(u)'
       /\ \A x \in Spans : (InFlight(x)' <=> InFlight(x)) /\ (Dying(x)' <=> Dying(x))
    BY <1>4, <1>11, <1>15, <1>16, <1>17, <1>18, <1>19, SpanChanges
<1> QED  BY <1>1, <1>3, <1>4, <1>5, <1>11, <1>13, <1>14, <1>20

\* The object in hand and those already fetched go to the client, or the object
\* joins them.
LEMMA FetchObjectObjects ==
    ASSUME IInv, OInv, NEW t \in Threads, FetchObject(t) PROVE OInv'
<1>1. PICK c \in Classes : c = cl[t]  BY ThreadFacts
<1>2. /\ pc[t] \in {"fetch", "refetch"} /\ FetchFromSpans(t)
      /\ UNCHANGED <<sizeclass, tc_slots, cl, range, rel, victim>>
      /\ span' = [span EXCEPT ![t] = NoSpan]
    BY DEF FetchObject, ReturnObjects
<1>3. PICK l : l = Append(got[t], Head(objects[Head(nonempty[c])]))  OBVIOUS
<1>4. \/ /\ Len(l) = Batch[c] /\ client' = client \cup ToSet(l)
         /\ got' = [got EXCEPT ![t] = <<>>] /\ pc' = [pc EXCEPT ![t] = "idle"]
      \/ /\ Len(l) < Batch[c] /\ client' = client
         /\ got' = [got EXCEPT ![t] = l] /\ pc' = [pc EXCEPT ![t] = "fetch"]
    BY <1>1, <1>3 DEF FetchObject, ReturnObjects, GoTo
<1>5. Alone(t) /\ pc'[t] \in {"idle", "fetch"} /\ span'[t] = NoSpan /\ ~ Carries(t) /\ ~ Carries(t)'
    <2>1. pc'[t] \in {"idle", "fetch"} /\ \A u \in Threads \ {t} : pc'[u] = pc[u]
        BY <1>4, ThreadFacts
    <2>2. span'[t] = NoSpan /\ \A u \in Threads \ {t} : span'[u] = span[u]
        BY <1>2 DEF OInv, Typed
    <2>3. \A u \in Threads \ {t} : got'[u] = got[u]
        <3>1. PICK e : got' = [got EXCEPT ![t] = e]  BY <1>4
        <3> QED  BY <3>1 DEF OInv, Typed
    <2> QED  BY <2>1, <2>2, <2>3, <1>2 DEF Alone, Carries
<1>6. PICK s \in Spans, o0 \in Objects :
          /\ s = Head(nonempty[c]) /\ o0 = Head(objects[s])
          /\ ~ InFlight(s) /\ sizeclass[s] = c /\ c # 0
          /\ refcount' \in [Spans -> Int] /\ objects' \in [Spans -> Seq(Objects)]
          /\ nonempty' \in [Classes -> Seq(Spans)]
          /\ \A d \in Classes : IsInjective(nonempty'[d])
          /\ \A x \in Spans : IsInjective(objects'[x])
          /\ o0 \in ToSet(objects[s])
          /\ \A x \in Spans, y \in Objects :
                y \in ToSet(objects'[x]) <=> y \in ToSet(objects[x]) /\ ~ (x = s /\ y = o0)
          /\ SpansKept'
          /\ \A u \in Threads \ {t} : AtLabel(u)'
          /\ \A x \in Spans : (InFlight(x)' <=> InFlight(x)) /\ (Dying(x)' <=> Dying(x))
    BY <1>1, <1>2, <1>5, FetchFacts
<1>7. PICK loc : Located(loc) /\ Classed(loc)  BY DEF OInv, Placed
<1>8. IsAt(o0, AtSpan(s)) /\ loc[o0] = AtSpan(s) /\ Fits(o0, AtSpan(s))
    <2>1. IsAt(o0, loc[o0])  BY <1>7 DEF Located
    <2>2. loc[o0] = AtSpan(s)  BY <2>1, <1>6 DEF IsAt
    <2> QED  BY <2>1, <2>2, <1>7, Distinct DEF Classed
<1>9. PICK g \in Seq(Objects) : g = got[t] /\ IsInjective(g)  BY DEF OInv, Typed, Listed
<1>10. o0 \notin ToSet(g)  BY <1>8, <1>9, Distinct DEF IsAt
<1>11. /\ l \in Seq(Objects) /\ l # <<>> /\ IsInjective(l) /\ ToSet(l) = ToSet(g) \cup {o0}
    BY <1>3, <1>6, <1>9, <1>10, AppendList
<1>12. Typed'
    <2>1. ToSet(l) \subseteq Objects  BY <1>11, ListFacts
    <2>2. client' \subseteq Objects  BY <2>1, <1>4 DEF OInv, Typed
    <2>3. got' \in [Threads -> Seq(Objects)]
        <3>1. PICK e \in Seq(Objects) : got' = [got EXCEPT ![t] = e]  BY <1>4, <1>11, EmptyList
        <3> QED  BY <3>1 DEF OInv, Typed
    <2>4. span' \in [Threads -> Spans \cup {NoSpan}]  BY <1>2 DEF OInv, Typed
    <2> QED  BY <2>2, <2>3, <2>4, <1>2, <1>6 DEF OInv, Typed
<1>13. got'[t] \in {<<>>, l} /\ \A u \in Threads \ {t} : got'[u] = got[u]
    BY <1>4 DEF OInv, Typed
<1>14. Listed'
    <2>1. \A u \in Threads : IsInjective(got'[u])  BY <1>11, <1>13, EmptyList DEF OInv, Listed
    <2> QED  BY <2>1, <1>2, <1>6 DEF OInv, Listed, Batches, used_slots
<1>15. AtLabel(t)'
    <2>1. AtLabel(t)  BY DEF OInv
    <2>2. Batch[c] \in Nat  BY SizeTablesAssumption
    <2>3. Len(l) \in Nat  BY <1>11, ListFacts
    <2>4. \/ got'[t] = <<>> /\ pc'[t] = "idle"
          \/ got'[t] = l /\ pc'[t] = "fetch" /\ Len(l) < Batch[c]
        BY <1>4, ThreadFacts DEF OInv, Typed
    <2>5. range[t] = <<>> /\ rel[t] = <<>> /\ cl'[t] = c /\ c # 0 /\ range' = range /\ rel' = rel
        BY <2>1, <1>1, <1>2, <1>6 DEF AtLabel, Stealing
    <2> QED  BY <2>2, <2>3, <2>4, <2>5, <1>2, <1>5, EmptyList DEF AtLabel, Stealing
<1>16. \A u \in Threads : cl'[u] = cl[u] /\ ReleaseClass(u)' = ReleaseClass(u)
    BY <1>2 DEF ReleaseClass
<1>17. /\ Fits(o0, AtClient)' /\ Fits(o0, AtGot(t))'
    BY <1>1, <1>2, <1>6, <1>8, <1>16, FitsTaken
<1>18. ASSUME NEW o \in Objects, o \in ToSet(g)
       PROVE  IsAt(o, AtGot(t)) /\ loc[o] = AtGot(t) /\ Fits(o, AtClient)'
    <2>1. IsAt(o, AtGot(t)) /\ loc[o] = AtGot(t)  BY <1>7, <1>9, <1>18 DEF Located, IsAt
    <2>2. Fits(o, AtGot(t)) /\ \A x \in Spans : AtGot(t) # AtSpan(x)  BY <2>1, <1>7, Distinct DEF Classed
    <2> QED  BY <2>1, <2>2, <1>2, <1>6, FitsAnywhere
<1>19. CASE client' = client \cup ToSet(l) /\ got'[t] = <<>>
    <2>1. ASSUME NEW o \in Objects, o \in ToSet(l) PROVE IsAt(o, AtClient)' /\ Fits(o, AtClient)'
        <3>1. o = o0 \/ o \in ToSet(g)  BY <2>1, <1>11
        <3>2. PICK p : /\ IsAt(o, p) /\ p # AtClient
                       /\ \A x \in Spans : p = AtSpan(x) => x = s /\ o = o0
                       /\ \A d \in UsedClasses, i \in Nat \ {0} : p # AtSlot(d, i)
                       /\ \A u \in Threads : /\ p # AtRange(u) /\ p # AtRel(u)
                                             /\ p = AtGot(u) => u = t
            <4>1. CASE o = o0  BY <4>1, <1>8, Distinct
            <4>2. CASE o \in ToSet(g)  BY <4>2, <1>18, Distinct
            <4> QED  BY <3>1, <4>1, <4>2
        <3>3. o \in client'  BY <1>19, <2>1
        <3>4. \A x \in Spans : o \notin ToSet(objects'[x])
            BY <3>2, <1>6 DEF IsAt
        <3>5. \A d \in UsedClasses, i \in Nat \ {0} :
                ~ (i <= used_slots(d)' /\ o \in ToSet(tc_slots'[d][i]))
            BY <3>2, <1>2 DEF IsAt, used_slots
        <3>6. \A u \in Threads : o \notin ToSet(range'[u]) /\ o \notin ToSet(rel'[u])
            BY <3>2, <1>2 DEF IsAt
        <3>7. \A u \in Threads : o \notin ToSet(got'[u])
            BY <3>2, <1>13, <1>19, EmptyList DEF IsAt
        <3>8. IsAt(o, AtClient)'  BY <3>3, <3>4, <3>5, <3>6, <3>7, Distinct DEF IsAt
        <3> QED  BY <3>1, <3>8, <1>17, <1>18
    <2>2. ASSUME NEW o \in Objects, o \notin ToSet(l) PROVE IsAt(o, loc[o])'
        <3>1. IsAt(o, loc[o])  BY <1>7 DEF Located
        <3>2. \A u \in Threads : o \in ToSet(got'[u]) <=> o \in ToSet(got[u])
            BY <2>2, <1>9, <1>11, <1>13, <1>19, EmptyList
        <3>3. o \in client' <=> o \in client  BY <1>19, <2>2
        <3>4. \A x \in Spans : o \in ToSet(objects'[x]) <=> o \in ToSet(objects[x])
            BY <1>6, <1>11, <2>2
        <3> QED  BY <3>1, <3>2, <3>3, <3>4, <1>2 DEF IsAt, used_slots
    <2>3. Placed'  BY <2>1, <2>2, <1>2, <1>6, <1>7, <1>16, PlacesFacts, Distinct, Moves
    <2> QED  BY <2>3, <1>6, <1>12, <1>14, <1>15 DEF OInv
<1>20. CASE client' = client /\ got'[t] = l
    <2>1. ASSUME NEW o \in Objects, o \in {o0} PROVE IsAt(o, AtGot(t))' /\ Fits(o, AtGot(t))'
        <3>1. o = o0  BY <2>1
        <3>2. o \notin client'  BY <3>1, <1>8, <1>20, Distinct DEF IsAt
        <3>3. \A x \in Spans : o \notin ToSet(objects'[x])
            BY <3>1, <1>6, <1>8, Distinct DEF IsAt
        <3>4. \A d \in UsedClasses, i \in Nat \ {0} :
                ~ (i <= used_slots(d)' /\ o \in ToSet(tc_slots'[d][i]))
            BY <3>1, <1>8, <1>2, Distinct DEF IsAt, used_slots
        <3>5. \A u \in Threads : o \notin ToSet(range'[u]) /\ o \notin ToSet(rel'[u])
            BY <3>1, <1>8, <1>2, Distinct DEF IsAt
        <3>6. \A u \in Threads : o \in ToSet(got'[u]) <=> u = t
            BY <3>1, <1>8, <1>11, <1>13, <1>20, Distinct DEF IsAt
        <3>7. IsAt(o, AtGot(t))'  BY <3>2, <3>3, <3>4, <3>5, <3>6, Distinct DEF IsAt
        <3> QED  BY <3>1, <3>7, <1>17
    <2>2. ASSUME NEW o \in Objects, o \notin {o0} PROVE IsAt(o, loc[o])'
        <3>1. IsAt(o, loc[o])  BY <1>7 DEF Located
        <3>2. \A u \in Threads : o \in ToSet(got'[u]) <=> o \in ToSet(got[u])
            BY <2>2, <1>9, <1>11, <1>13, <1>20
        <3>4. \A x \in Spans : o \in ToSet(objects'[x]) <=> o \in ToSet(objects[x])
            BY <1>6, <2>2
        <3> QED  BY <3>1, <3>2, <3>4, <1>2, <1>20 DEF IsAt, used_slots
    <2>3. AtGot(t) \in AllPlaces /\ AtGot(t) # Nowhere  BY PlacesFacts, Distinct
    <2>4. Placed'  BY <2>1, <2>2, <2>3, <1>2, <1>6, <1>7, <1>16, Moves
    <2> QED  BY <2>4, <1>6, <1>12, <1>14, <1>15 DEF OInv
<1>21. \/ got'[t] = <<>> /\ client' = client \cup ToSet(l)
       \/ got'[t] = l /\ client' = client
    BY <1>4 DEF OInv, Typed
<1> QED  BY <1>19, <1>20, <1>21

\* Each object is in the place given for it.
LEMMA PlacedAt ==
    ASSUME NEW loc2 \in [Objects -> AllPlaces],
           \A o \in Objects : /\ IsAt(o, loc2[o])'
                              /\ Exists(o)' /\ ~ Dying(SpanOf(o))' => loc2[o] # Nowhere
                              /\ loc2[o] # Nowhere => Fits(o, loc2[o])'
    PROVE  Placed'
<1>1. Located(loc2)'  BY DEF Located
<1>2. Classed(loc2)'  BY DEF Classed
<1> QED  BY <1>1, <1>2 DEF Placed

\* A span a thread carries is in use.
LEMMA CarriedInUse ==
    ASSUME IInv, OInv, NEW u \in Threads, Carries(u)
    PROVE  span[u] \in Spans /\ sizeclass[span[u]] # 0 /\ InFlight(span[u])
<1>1. AtLabel(u)  BY DEF OInv
<1>2. span[u] \in Spans  BY DEF Carries, OInv, Typed
<1> QED  BY <1>1, <1>2 DEF Carries, AtLabel, InFlight

\* The objects of a span are those that exist.
LEMMA OfTheSpan ==
    ASSUME OInv, NEW loc, Located(loc), Classed(loc), NEW o \in Objects, NEW s \in Spans
    PROVE  /\ o \in ToSet(objects[s]) => SpanOf(o) = s /\ loc[o] = AtSpan(s)
           /\ loc[o] # Nowhere => Exists(o)
           /\ sizeclass[s] = 0 => o \notin ToSet(objects[s])
<1>1. loc[o] # Nowhere => Fits(o, loc[o])  BY DEF Classed
<1>2. o \in ToSet(objects[s]) => loc[o] = AtSpan(s)  BY DEF Located, IsAt
<1> QED  BY <1>1, <1>2, Distinct DEF Fits, Exists

LEMMA PopulateNewObjects ==
    ASSUME IInv, OInv, NEW t \in Threads, PopulateNew(t) PROVE OInv'
<1>1. /\ pc[t] = "populate" /\ pc' = [pc EXCEPT ![t] = "attach"]
      /\ UNCHANGED <<client, nonempty, tc_slots, cl, range, rel, got, victim>>
    BY DEF PopulateNew, GoTo, shared
<1>2. pc'[t] = "attach" /\ \A u \in Threads \ {t} : pc'[u] = pc[u]  BY <1>1, ThreadFacts
<1>3. AtLabel(t)  BY DEF OInv
<1>4. /\ range[t] = <<>> /\ rel[t] = <<>> /\ got[t] = <<>> /\ cl[t] # 0 /\ span[t] = NoSpan
      /\ ~ Carries(t)
    BY <1>1, <1>3, ThreadFacts DEF AtLabel, Stealing, Carries
<1>5. \A u \in Threads : cl'[u] = cl[u] /\ ReleaseClass(u)' = ReleaseClass(u)
    BY <1>1 DEF ReleaseClass
<1>6. CASE UNCHANGED <<spans, span>>
    <2>1. UNCHANGED <<sizeclass, objects, refcount, span>>  BY <1>6 DEF spans
    <2>2. Alone(t) /\ ~ Carries(t)'  BY <2>1, <1>1, <1>2, <1>4 DEF Alone, Carries
    <2>3. AtLabel(t)'  BY <2>1, <1>1, <1>2, <1>3, <1>4 DEF AtLabel, Stealing
    <2> QED  BY <2>1, <2>2, <2>3, <1>1, <1>4, <1>5, ControlOnly
<1>7. CASE \E s \in Spans :
             /\ sizeclass[s] = 0
             /\ sizeclass' = [sizeclass EXCEPT ![s] = cl[t]]
             /\ objects' = [objects EXCEPT ![s] = SpanObjects(s, cl[t])]
             /\ refcount' = [refcount EXCEPT ![s] = 0]
             /\ span' = [span EXCEPT ![t] = s]
    <2>1. PICK c \in UsedClasses : c = cl[t] /\ c \in Classes /\ c # 0
        BY <1>4, ThreadFacts DEF UsedClasses
    <2>2. PICK s \in Spans : /\ sizeclass[s] = 0
                             /\ sizeclass' = [sizeclass EXCEPT ![s] = c]
                             /\ objects' = [objects EXCEPT ![s] = SpanObjects(s, c)]
                             /\ refcount' = [refcount EXCEPT ![s] = 0]
                             /\ span' = [span EXCEPT ![t] = s]
        BY <1>7, <2>1
    <2>3. PICK q \in Seq(Objects) :
            /\ q = SpanObjects(s, c) /\ q # <<>> /\ IsInjective(q) /\ Len(q) = ObjectsPerSpan[c]
            /\ \A o \in Objects : o \in ToSet(q) <=> SpanOf(o) = s /\ o[2] <= ObjectsPerSpan[c]
        BY CutFacts
    <2>4. /\ sizeclass' \in [Spans -> Classes] /\ sizeclass'[s] = c
          /\ objects' \in [Spans -> Seq(Objects)] /\ objects'[s] = q
          /\ refcount' \in [Spans -> Int] /\ refcount'[s] = 0
          /\ \A x \in Spans \ {s} : /\ sizeclass'[x] = sizeclass[x] /\ objects'[x] = objects[x]
                                    /\ refcount'[x] = refcount[x]
        BY <2>1, <2>2, <2>3 DEF OInv, Typed
    <2>5. /\ span' \in [Threads -> Spans \cup {NoSpan}] /\ span'[t] = s
          /\ \A u \in Threads \ {t} : span'[u] = span[u]
        BY <2>2 DEF OInv, Typed
    <2>6. Typed'  BY <2>4, <2>5, <1>1 DEF OInv, Typed
    <2>7. Listed'
        <3>1. \A x \in Spans : IsInjective(objects'[x])  BY <2>3, <2>4 DEF OInv, Listed
        <3> QED  BY <3>1, <1>1 DEF OInv, Listed, Batches, used_slots
    <2>8. Alone(t)  BY <2>5, <1>1, <1>2 DEF Alone
    <2>9. \A u \in Threads : Carries(u) => span[u] \in Spans \ {s} /\ u # t
        BY <2>2, <1>4, CarriedInUse
    <2>10. \A u \in Threads \ {t} : AtLabel(u)'  BY <2>4, <2>8, <2>9, <1>1, OthersAtLabel
    <2>11. AtLabel(t)'
        BY <2>1, <2>3, <2>4, <2>5, <1>1, <1>2, <1>3, <1>4, NullAssumption DEF AtLabel, Stealing
    <2>12. \A x \in Spans : /\ InFlight(x)' <=> InFlight(x) \/ x = s
                            /\ Dying(x)' <=> Dying(x)
        BY <2>5, <1>1, <1>2 DEF InFlight, Dying
    <2>13. ~ InFlight(s)
        <3>1. \A u \in Threads : span[u] = s /\ pc[u] \in {"attach", "delete"} => Carries(u)
            BY NullAssumption DEF Carries
        <3> QED  BY <3>1, <2>9 DEF InFlight
    <2>14. Counted'
        <3> SUFFICES ASSUME NEW x \in Spans, sizeclass'[x] # 0, ~ Dying(x)'
                     PROVE  refcount'[x] + Len(objects'[x]) = ObjectsPerSpan[sizeclass'[x]]
            BY DEF Counted
        <3>1. CASE x = s
            <4>1. Len(q) \in Nat  BY <2>3, ListFacts
            <4> QED  BY <3>1, <4>1, <2>3, <2>4
        <3>2. CASE x # s  BY <3>2, <2>4, <2>12 DEF OInv, SpansKept, Counted
        <3> QED  BY <3>1, <3>2
    <2>15. OnList'
        <3> SUFFICES ASSUME NEW d \in Classes, NEW x \in ToSet(nonempty[d])
                     PROVE  d # 0 /\ objects'[x] # <<>> /\ sizeclass'[x] = d /\ ~ InFlight(x)'
            BY <1>1 DEF OnList
        <3>1. x \in Spans  BY ListFacts DEF OInv, Typed
        <3>2. d # 0 /\ objects[x] # <<>> /\ sizeclass[x] = d /\ ~ InFlight(x)
            BY DEF OInv, SpansKept, OnList
        <3>3. x # s  BY <3>2, <2>2
        <3> QED  BY <3>1, <3>2, <3>3, <2>4, <2>12
    <2>16. Separate'
        <3>1. \A u \in Threads \ {t} : Carries(u)' => Carries(u) /\ span'[u] = span[u]
            BY <2>5, <1>2 DEF Carries
        <3>2. \A u \in Threads \ {t} : Carries(u)' => span'[u] # s  BY <3>1, <2>9
        <3> QED  BY <3>1, <3>2, <2>5 DEF OInv, SpansKept, Separate
    <2>17. PICK loc : Located(loc) /\ Classed(loc)  BY DEF OInv, Placed
    <2> DEFINE l == [o \in Objects |-> IF o \in ToSet(q) THEN AtSpan(s) ELSE loc[o]]
    <2>18. l \in [Objects -> AllPlaces]  BY <2>17, PlacesFacts DEF Located
    <2>19. PICK loc2 \in [Objects -> AllPlaces] :
             \A o \in Objects : loc2[o] = IF o \in ToSet(q) THEN AtSpan(s) ELSE loc[o]
        BY <2>18
    <2>20. ASSUME NEW o \in Objects
           PROVE  /\ IsAt(o, loc2[o])'
                  /\ Exists(o)' /\ ~ Dying(SpanOf(o))' => loc2[o] # Nowhere
                  /\ loc2[o] # Nowhere => Fits(o, loc2[o])'
        <3>1. IsAt(o, loc[o])  BY <2>17 DEF Located
        <3>2. /\ loc[o] # Nowhere => Exists(o)
              /\ \A x \in Spans : o \in ToSet(objects[x]) => SpanOf(o) = x
              /\ o \notin ToSet(objects[s])
            BY <2>2, <2>17, OfTheSpan
        <3>3. SpanOf(o) \in Spans  BY ObjectFacts
        <3>4. CASE SpanOf(o) = s
            <4>1. loc[o] = Nowhere  BY <3>2, <3>4, <2>2 DEF Exists
            <4>2. Exists(o)' <=> o \in ToSet(q)  BY <3>4, <2>1, <2>3, <2>4 DEF Exists
            <4>3. CASE o \in ToSet(q)
                <5>1. loc2[o] = AtSpan(s)  BY <4>3, <2>19
                <5>2. \A x \in Spans : o \in ToSet(objects'[x]) <=> x = s
                    BY <4>3, <3>2, <3>4, <2>4
                <5>3. IsAt(o, AtSpan(s))'
                    <6>1. PICK p : p = AtSpan(s)  OBVIOUS
                    <6>2. /\ p # AtClient /\ \A x \in Spans : p = AtSpan(x) <=> x = s
                          /\ \A d \in UsedClasses, i \in Nat \ {0} : p # AtSlot(d, i)
                          /\ \A u \in Threads : p # AtRange(u) /\ p # AtRel(u) /\ p # AtGot(u)
                        BY <6>1, Distinct
                    <6>3. /\ o \notin client
                          /\ \A d \in UsedClasses, i \in Nat \ {0} :
                                ~ (i <= used_slots(d) /\ o \in ToSet(tc_slots[d][i]))
                          /\ \A u \in Threads : /\ o \notin ToSet(range[u]) /\ o \notin ToSet(rel[u])
                                                /\ o \notin ToSet(got[u])
                        BY <4>1, <3>1, Distinct DEF IsAt
                    <6>4. IsAt(o, p)'  BY <6>2, <6>3, <5>2, <1>1 DEF IsAt, used_slots
                    <6> QED  BY <6>1, <6>4
                <5>4. Fits(o, AtSpan(s))'  BY <4>2, <4>3, <3>4, Distinct DEF Fits
                <5> QED  BY <5>1, <5>3, <5>4, Distinct
            <4>4. CASE o \notin ToSet(q)
                <5>1. loc2[o] = loc[o]  BY <4>4, <2>19
                <5>2. \A x \in Spans : o \notin ToSet(objects'[x])
                    BY <4>4, <3>2, <3>4, <2>4
                <5>3. \A x \in Spans : o \notin ToSet(objects[x])
                    BY <4>1, <3>1, Distinct DEF IsAt
                <5>4. IsAt(o, loc[o])'
                    BY <5>2, <5>3, <3>1, <1>1 DEF IsAt, used_slots
                <5> QED  BY <5>1, <5>4, <4>1, <4>2, <4>4
            <4> QED  BY <4>3, <4>4
        <3>5. CASE SpanOf(o) # s
            <4>1. o \notin ToSet(q)  BY <3>5, <2>3
            <4>2. loc2[o] = loc[o]  BY <4>1, <2>19
            <4>3. \A x \in Spans : o \in ToSet(objects'[x]) <=> o \in ToSet(objects[x])
                BY <4>1, <3>2, <2>4
            <4>4. IsAt(o, loc[o])'  BY <4>3, <3>1, <1>1 DEF IsAt, used_slots
            <4>5. sizeclass'[SpanOf(o)] = sizeclass[SpanOf(o)]  BY <3>3, <3>5, <2>4
            <4>6. Exists(o)' <=> Exists(o)  BY <4>5 DEF Exists
            <4>7. loc[o] # Nowhere => Fits(o, loc[o])'
                <5>1. loc[o] # Nowhere => Fits(o, loc[o])  BY <2>17 DEF Classed
                <5> QED  BY <5>1, <4>5, <3>3, <3>5, <2>12, <1>5, FitsKept
            <4> QED  BY <4>2, <4>4, <4>6, <4>7, <3>3, <2>12, <2>17 DEF Classed
        <3> QED  BY <3>4, <3>5
    <2>21. Placed'  BY <2>20, PlacedAt
    <2> QED  BY <2>6, <2>7, <2>10, <2>11, <2>14, <2>15, <2>16, <2>21 DEF OInv, SpansKept
<1> QED  BY <1>6, <1>7 DEF PopulateNew

LEMMA PopulateAttachObjects ==
    ASSUME IInv, OInv, NEW t \in Threads, PopulateAttach(t) PROVE OInv'
<1>1. /\ pc[t] = "attach" /\ pc' = [pc EXCEPT ![t] = "refetch"]
      /\ UNCHANGED <<client, sizeclass, objects, refcount, tc_slots, cl, range, rel, got, span, victim>>
    BY DEF PopulateAttach, GoTo, AfterPopulate, spans, locals
<1>2. pc'[t] = "refetch" /\ Alone(t) /\ ~ Carries(t)'
    BY <1>1, ThreadFacts DEF Alone, Carries
<1>3. AtLabel(t)  BY DEF OInv
<1>4. \A u \in Threads : cl'[u] = cl[u] /\ ReleaseClass(u)' = ReleaseClass(u)
    BY <1>1 DEF ReleaseClass
<1>5. CASE span[t] = NoSpan
    <2>1. nonempty' = nonempty  BY <1>5 DEF PopulateAttach
    <2>2. ~ Carries(t)  BY <1>5 DEF Carries
    <2>3. AtLabel(t)'  BY <2>1, <1>1, <1>2, <1>3, <1>5 DEF AtLabel, Stealing
    <2> QED  BY <2>1, <2>2, <2>3, <1>1, <1>2, <1>4, ControlOnly
<1>6. CASE span[t] # NoSpan
    <2>1. PICK c \in Classes : c = cl[t] /\ c # 0  BY <1>1, <1>3, ThreadFacts DEF AtLabel
    <2>2. PICK s \in Spans : s = span[t] /\ sizeclass[s] = c /\ objects[s] # <<>>
        BY <1>1, <1>3, <1>6, <2>1 DEF AtLabel, OInv, Typed
    <2>3. Carries(t) /\ InFlight(s)  BY <1>1, <1>6, <2>2 DEF Carries, InFlight
    <2>4. nonempty[c] \in Seq(Spans) /\ IsInjective(nonempty[c]) /\ s \notin ToSet(nonempty[c])
        BY <2>3 DEF OInv, Typed, Listed, SpansKept, OnList
    <2>5. PICK q \in Seq(Spans) :
             q = <<s>> \o nonempty[c] /\ q # <<>> /\ ToSet(q) = {s} \cup ToSet(nonempty[c]) /\ IsInjective(q)
        BY <2>4, ConsList
    <2>6. /\ nonempty' \in [Classes -> Seq(Spans)] /\ nonempty'[c] = q
          /\ \A d \in Classes \ {c} : nonempty'[d] = nonempty[d]
        <3>1. nonempty' = [nonempty EXCEPT ![c] = q]
            BY <1>6, <2>1, <2>2, <2>5 DEF PopulateAttach, AttachSpan
        <3> QED  BY <3>1 DEF OInv, Typed
    <2>7. Typed'  BY <2>6, <1>1 DEF OInv, Typed
    <2>8. Listed'
        <3>1. \A d \in Classes : IsInjective(nonempty'[d])  BY <2>5, <2>6 DEF OInv, Listed
        <3> QED  BY <3>1, <1>1 DEF OInv, Listed, Batches, used_slots
    <2>9. \A u \in Threads \ {t} : AtLabel(u)'
        <3>1. \A u \in Threads : cl[u] \in Classes  BY ThreadFacts
        <3> QED  BY <3>1, <2>5, <2>6, <1>1, <1>2, OthersAtLabel
    <2>10. AtLabel(t)'  BY <2>1, <2>5, <2>6, <1>1, <1>2, <1>3 DEF AtLabel, Stealing
    <2>11. \A u \in Threads \ {t} : (Carries(u)' <=> Carries(u)) /\ span'[u] = span[u] /\ pc'[u] = pc[u]
        BY <1>2 DEF Alone, Carries
    <2>12. \A u \in Threads \ {t} : Carries(u) => span[u] # s
        BY <2>2, <2>3 DEF OInv, SpansKept, Separate
    <2>13. \A x \in Spans : /\ InFlight(x)' <=> InFlight(x) /\ x # s
                            /\ Dying(x)' <=> Dying(x)
        <3> SUFFICES ASSUME NEW x \in Spans
                     PROVE  /\ InFlight(x)' <=> InFlight(x) /\ x # s
                            /\ Dying(x)' <=> Dying(x)
            OBVIOUS
        <3>1. \A u \in Threads : span[u] = x /\ pc[u] \in {"attach", "delete"} => Carries(u)
            BY NullAssumption DEF Carries
        <3> QED  BY <3>1, <2>2, <2>11, <2>12, <1>1, <1>2 DEF InFlight, Dying
    <2>14. Counted'  BY <2>13, <1>1 DEF OInv, SpansKept, Counted
    <2>15. OnList'
        <3> SUFFICES ASSUME NEW d \in Classes, NEW x \in ToSet(nonempty'[d])
                     PROVE  d # 0 /\ objects[x] # <<>> /\ sizeclass[x] = d /\ ~ InFlight(x)'
            BY <1>1 DEF OnList
        <3>1. x \in Spans  BY <2>6, ListFacts
        <3>2. CASE x = s
            <4>1. d = c
                <5>1. s \in ToSet(nonempty[d]) => ~ InFlight(s)  BY DEF OInv, SpansKept, OnList
                <5> QED  BY <5>1, <3>2, <2>3, <2>6
            <4> QED  BY <4>1, <3>2, <2>1, <2>2, <2>13
        <3>3. CASE x # s
            <4>1. x \in ToSet(nonempty[d])  BY <3>3, <2>5, <2>6
            <4> QED  BY <4>1, <3>1, <2>13 DEF OInv, SpansKept, OnList
        <3> QED  BY <3>2, <3>3
    <2>16. Separate'  BY <2>11, <1>2 DEF OInv, SpansKept, Separate
    <2>17. PICK loc : Located(loc) /\ Classed(loc)  BY DEF OInv, Placed
    <2>18. ASSUME NEW o \in Objects
           PROVE  /\ IsAt(o, loc[o])'
                  /\ Exists(o)' /\ ~ Dying(SpanOf(o))' => loc[o] # Nowhere
                  /\ loc[o] # Nowhere => Fits(o, loc[o])'
        <3>1. SpanOf(o) \in Spans  BY ObjectFacts
        <3>2. IsAt(o, loc[o])'  BY <2>17, <1>1 DEF Located, IsAt, used_slots
        <3>3. Exists(o)' <=> Exists(o)  BY <1>1 DEF Exists
        <3>4. loc[o] # Nowhere => Fits(o, loc[o])'
            <4>1. loc[o] # Nowhere => Fits(o, loc[o])  BY <2>17 DEF Classed
            <4> QED  BY <4>1, <3>1, <2>13, <1>1, <1>4, FitsKept
        <3> QED  BY <3>1, <3>2, <3>3, <3>4, <2>13, <2>17 DEF Classed
    <2>19. Placed'  BY <2>17, <2>18, PlacedAt DEF Located
    <2> QED  BY <2>7, <2>8, <2>9, <2>10, <2>14, <2>15, <2>16, <2>19 DEF OInv, SpansKept
<1> QED  BY <1>5, <1>6

\* The object is nowhere but in the list of this thread.
ElsewhereNot(o, t) ==
    /\ o \notin client
    /\ \A x \in Spans : o \notin ToSet(objects[x])
    /\ \A d \in UsedClasses, i \in Nat \ {0} :
          ~ (i <= used_slots(d) /\ o \in ToSet(tc_slots[d][i]))
    /\ \A u \in Threads : /\ o \notin ToSet(range[u]) /\ o \notin ToSet(got[u])
                          /\ u # t => o \notin ToSet(rel[u])

\* The object a thread is about to release, and its span.
Releases(loc, t, c, o, s, r) ==
    /\ c = ReleaseClass(t) /\ c # 0
    /\ o = Head(rel[t]) /\ s = SpanOf(o) /\ r = Tail(rel[t])
    /\ ToSet(rel[t]) = {o} \cup ToSet(r) /\ IsInjective(r) /\ o \notin ToSet(r)
    /\ IsAt(o, AtRel(t)) /\ loc[o] = AtRel(t) /\ Fits(o, AtRel(t)) /\ Exists(o)
    /\ sizeclass[s] = c /\ ~ InFlight(s)
    /\ ElsewhereNot(o, t)
    /\ \A u \in Threads \ {t} : pc[u] = "refetch" => cl[u] \in Classes \ {c}

\* There is one.
LEMMA ReleaseFacts ==
    ASSUME IInv, OInv, NEW loc, Located(loc), Classed(loc), NEW t \in Threads, pc[t] = "release"
    PROVE  \E c \in Classes, o \in Objects, s \in Spans, r \in Seq(Objects) :
              Releases(loc, t, c, o, s, r)
<1>1. AtLabel(t)  BY DEF OInv
<1>2. PICK c \in Classes : c = ReleaseClass(t)  BY ThreadFacts DEF ReleaseClass
<1>3. /\ rel[t] # <<>> /\ rel[t] \in Seq(Objects) /\ IsInjective(rel[t])
    BY <1>1 DEF AtLabel, OInv, Typed, Listed
<1>4. PICK o \in Objects, r \in Seq(Objects) :
         /\ o = Head(rel[t]) /\ r = Tail(rel[t]) /\ o \in ToSet(rel[t])
         /\ ToSet(rel[t]) = {o} \cup ToSet(r) /\ IsInjective(r) /\ o \notin ToSet(r)
    BY <1>3, HeadTail
<1>5. PICK s \in Spans : s = SpanOf(o)  BY ObjectFacts
<1>6. IsAt(o, AtRel(t)) /\ loc[o] = AtRel(t)
    <2>1. IsAt(o, loc[o])  BY DEF Located
    <2>2. loc[o] = AtRel(t)  BY <2>1, <1>4 DEF IsAt
    <2> QED  BY <2>1, <2>2
<1>7. Fits(o, AtRel(t))  BY <1>6, Distinct DEF Classed
<1>8. Exists(o) /\ sizeclass[s] = c /\ ~ InFlight(s)  BY <1>2, <1>5, <1>7, Distinct DEF Fits
<1>9. c # 0  BY <1>5, <1>8 DEF Exists
<1>10. \A u \in Threads \ {t} : pc[u] = "refetch" => cl[u] \in Classes \ {c}
    <2>1. Holds(t, c)  BY <1>2 DEF Holds
    <2> QED  BY <2>1, AloneUnderLock, ThreadFacts
<1>11. ElsewhereNot(o, t)
    <2>1. PICK p : p = AtRel(t)  OBVIOUS
    <2>2. /\ p # AtClient /\ \A x \in Spans : p # AtSpan(x)
          /\ \A d \in UsedClasses, i \in Nat \ {0} : p # AtSlot(d, i)
          /\ \A u \in Threads : p # AtRange(u) /\ p # AtGot(u) /\ (u # t => p # AtRel(u))
        BY <2>1, Distinct
    <2>3. IsAt(o, p)  BY <2>1, <1>6
    <2> QED  BY <2>2, <2>3 DEF IsAt, ElsewhereNot
<1>12. Releases(loc, t, c, o, s, r)
    BY <1>2, <1>4, <1>5, <1>6, <1>7, <1>8, <1>9, <1>10, <1>11 DEF Releases
<1> QED  BY <1>12

LEMMA ReleaseObjectObjects ==
    ASSUME IInv, OInv, NEW t \in Threads, ReleaseObject(t) PROVE OInv'
<1>1. PICK loc : Located(loc) /\ Classed(loc)  BY DEF OInv, Placed
<1>2. pc[t] = "release"  BY DEF ReleaseObject
<1>0. PICK c \in Classes, o0 \in Objects, s \in Spans, r \in Seq(Objects) : Releases(loc, t, c, o0, s, r)
    BY <1>1, <1>2, ReleaseFacts
<1>3. /\ c = ReleaseClass(t) /\ c # 0
      /\ o0 = Head(rel[t]) /\ s = SpanOf(o0) /\ r = Tail(rel[t])
      /\ ToSet(rel[t]) = {o0} \cup ToSet(r) /\ IsInjective(r) /\ o0 \notin ToSet(r)
      /\ IsAt(o0, AtRel(t)) /\ loc[o0] = AtRel(t) /\ Fits(o0, AtRel(t)) /\ Exists(o0)
      /\ sizeclass[s] = c /\ ~ InFlight(s)
      /\ ElsewhereNot(o0, t)
      /\ \A u \in Threads \ {t} : pc[u] = "refetch" => cl[u] \in Classes \ {c}
    BY <1>0 DEF Releases
<1>4. /\ refcount' = [refcount EXCEPT ![s] = refcount[s] - 1]
      /\ objects' = [objects EXCEPT ![s] = <<o0>> \o objects[s]]
      /\ nonempty' = IF objects[s] = <<>> THEN [nonempty EXCEPT ![c] = <<s>> \o nonempty[c]] ELSE nonempty
      /\ rel' = [rel EXCEPT ![t] = r]
      /\ \/ r = <<>> /\ pc' = [pc EXCEPT ![t] = IF victim[t] = NoClass THEN "idle" ELSE "revert"]
         \/ r # <<>> /\ pc' = pc
      /\ UNCHANGED <<client, sizeclass, tc_slots, cl, range, got, span, victim>>
    BY <1>3 DEF ReleaseObject, MoveToNonempty, ReleaseDone, GoTo
<1>5. /\ objects[s] \in Seq(Objects) /\ IsInjective(objects[s]) /\ o0 \notin ToSet(objects[s])
      /\ refcount[s] \in Int
    BY <1>3 DEF OInv, Typed, Listed, ElsewhereNot
<1>6. PICK q \in Seq(Objects) :
         /\ q = <<o0>> \o objects[s] /\ q # <<>> /\ Len(q) = Len(objects[s]) + 1
         /\ ToSet(q) = {o0} \cup ToSet(objects[s]) /\ IsInjective(q)
    BY <1>5, ConsList
<1>7. /\ objects' \in [Spans -> Seq(Objects)] /\ objects'[s] = q
      /\ \A x \in Spans \ {s} : objects'[x] = objects[x]
    BY <1>4, <1>6 DEF OInv, Typed
<1>8. /\ refcount' \in [Spans -> Int] /\ refcount'[s] = refcount[s] - 1
      /\ \A x \in Spans \ {s} : refcount'[x] = refcount[x]
    <2>1. PICK n \in Int : n = refcount[s] - 1  BY <1>5
    <2>2. refcount' = [refcount EXCEPT ![s] = n]  BY <1>4, <2>1
    <2> QED  BY <2>1, <2>2 DEF OInv, Typed
<1>9. refcount'[s] + Len(objects'[s]) = refcount[s] + Len(objects[s])
    <2>1. PICK n \in Nat : n = Len(objects[s])  BY <1>5, ListFacts
    <2>2. PICK m \in Int : m = refcount[s]  BY <1>5
    <2>3. refcount'[s] = m - 1 /\ Len(objects'[s]) = n + 1  BY <2>1, <2>2, <1>6, <1>7, <1>8
    <2>4. (m - 1) + (n + 1) = m + n  OBVIOUS
    <2> QED  BY <2>1, <2>2, <2>3, <2>4
<1>10. /\ rel' \in [Threads -> Seq(Objects)] /\ rel'[t] = r
       /\ \A u \in Threads \ {t} : rel'[u] = rel[u]
    BY <1>4 DEF OInv, Typed
<1>11. /\ \A u \in Threads \ {t} : pc'[u] = pc[u]
       /\ pc'[t] = IF r # <<>> THEN "release" ELSE IF victim[t] = NoClass THEN "idle" ELSE "revert"
    BY <1>2, <1>4, ThreadFacts
<1>12. Alone(t) /\ ~ Carries(t) /\ ~ Carries(t)'
    BY <1>2, <1>4, <1>10, <1>11 DEF Alone, Carries
<1>13. /\ nonempty' \in [Classes -> Seq(Spans)]
       /\ \A d \in Classes : IsInjective(nonempty'[d])
       /\ \A d \in Classes : \A x \in ToSet(nonempty'[d]) : x # s => x \in ToSet(nonempty[d])
       /\ \A d \in Classes : s \in ToSet(nonempty'[d]) =>
                d # 0 /\ sizeclass[s] = d /\ objects'[s] # <<>>
       /\ \A d \in Classes \ {c} : nonempty'[d] = nonempty[d]
    <2>1. \A d \in Classes : s \in ToSet(nonempty[d]) => objects[s] # <<>> /\ d = c
        BY <1>3 DEF OInv, SpansKept, OnList
    <2>2. CASE objects[s] # <<>>
        <3>1. nonempty' = nonempty  BY <1>4, <2>2
        <3> QED  BY <3>1, <2>1, <1>3, <1>6, <1>7 DEF OInv, Typed, Listed
    <2>3. CASE objects[s] = <<>>
        <3>1. nonempty[c] \in Seq(Spans) /\ IsInjective(nonempty[c]) /\ s \notin ToSet(nonempty[c])
            BY <2>1, <2>3 DEF OInv, Typed, Listed
        <3>2. PICK k \in Seq(Spans) : /\ k = <<s>> \o nonempty[c] /\ IsInjective(k)
                                      /\ ToSet(k) = {s} \cup ToSet(nonempty[c])
            BY <3>1, ConsList
        <3>3. nonempty' = [nonempty EXCEPT ![c] = k]  BY <1>4, <2>3, <3>2
        <3>4. /\ nonempty' \in [Classes -> Seq(Spans)] /\ nonempty'[c] = k
              /\ \A d \in Classes \ {c} : nonempty'[d] = nonempty[d]
            BY <3>3 DEF OInv, Typed
        <3>5. \A d \in Classes : IsInjective(nonempty'[d])  BY <3>2, <3>4 DEF OInv, Listed
        <3>6. \A d \in Classes : \A x \in ToSet(nonempty'[d]) : x # s => x \in ToSet(nonempty[d])
            BY <3>2, <3>4
        <3>7. \A d \in Classes : s \in ToSet(nonempty'[d]) => d = c
            BY <2>1, <3>4
        <3> QED  BY <3>4, <3>5, <3>6, <3>7, <1>3, <1>6, <1>7
    <2> QED  BY <2>2, <2>3
<1>14. /\ SpansKept'
       /\ \A u \in Threads \ {t} : AtLabel(u)'
       /\ \A x \in Spans : (InFlight(x)' <=> InFlight(x)) /\ (Dying(x)' <=> Dying(x))
    <2>1. \A u \in Threads \ {t} :
             pc[u] = "refetch" /\ nonempty[cl[u]] # <<>> => nonempty'[cl[u]] # <<>>
        BY <1>3, <1>13
    <2>2. \A x \in Spans \ {s} : objects'[x] = objects[x] /\ refcount'[x] = refcount[x]
        BY <1>7, <1>8
    <2>3. sizeclass' = sizeclass /\ ~ InFlight(s)  BY <1>3, <1>4
    <2>4. /\ nonempty' \in [Classes -> Seq(Spans)]
          /\ \A d \in Classes : \A x \in ToSet(nonempty'[d]) : x # s => x \in ToSet(nonempty[d])
          /\ \A d \in Classes : s \in ToSet(nonempty'[d]) =>
                d # 0 /\ sizeclass[s] = d /\ objects'[s] # <<>>
        BY <1>13
    <2> QED  BY <2>1, <2>2, <2>3, <2>4, <1>9, <1>12, SpanChanges
<1>15. AtLabel(t)'
    <2>1. AtLabel(t)  BY DEF OInv
    <2> QED  BY <2>1, <1>2, <1>4, <1>10, <1>11 DEF AtLabel, Stealing
<1>16. Typed'  BY <1>4, <1>7, <1>8, <1>10, <1>13 DEF OInv, Typed
<1>17. Listed'
    <2>1. \A x \in Spans : IsInjective(objects'[x])  BY <1>6, <1>7 DEF OInv, Listed
    <2>2. \A u \in Threads : IsInjective(rel'[u])  BY <1>3, <1>10 DEF OInv, Listed
    <2> QED  BY <2>1, <2>2, <1>4, <1>13 DEF OInv, Listed, Batches, used_slots
<1>18. \A u \in Threads : cl'[u] = cl[u] /\ ReleaseClass(u)' = ReleaseClass(u)
    BY <1>4 DEF ReleaseClass
<1>19. \A x \in Spans, y \in Objects :
          y \in ToSet(objects'[x]) <=> y \in ToSet(objects[x]) \/ (x = s /\ y = o0)
    BY <1>6, <1>7
<1>20. ASSUME NEW o \in Objects, o \in {o0} PROVE IsAt(o, AtSpan(s))' /\ Fits(o, AtSpan(s))'
    <2>0. o = o0  BY <1>20
    <2>1. PICK p : p = AtSpan(s)  OBVIOUS
    <2>2. /\ p # AtClient /\ \A x \in Spans : p = AtSpan(x) <=> x = s
          /\ \A d \in UsedClasses, i \in Nat \ {0} : p # AtSlot(d, i)
          /\ \A u \in Threads : p # AtRange(u) /\ p # AtRel(u) /\ p # AtGot(u)
        BY <2>1, Distinct
    <2>3. /\ o \notin client
          /\ \A x \in Spans : o \notin ToSet(objects[x])
          /\ \A d \in UsedClasses, i \in Nat \ {0} :
                ~ (i <= used_slots(d) /\ o \in ToSet(tc_slots[d][i]))
          /\ \A u \in Threads : /\ o \notin ToSet(range[u]) /\ o \notin ToSet(got[u])
                                /\ u # t => o \notin ToSet(rel[u])
        BY <2>0, <1>3 DEF ElsewhereNot
    <2>4. \A u \in Threads : o \notin ToSet(rel'[u])  BY <2>0, <2>3, <1>3, <1>10
    <2>5. \A x \in Spans : o \in ToSet(objects'[x]) <=> x = s  BY <2>0, <2>3, <1>19
    <2>6. IsAt(o, p)'  BY <2>2, <2>3, <2>4, <2>5, <1>4 DEF IsAt, used_slots
    <2>7. Exists(o)'  BY <2>0, <1>3, <1>4 DEF Exists
    <2>8. Fits(o, p)'  BY <2>0, <2>1, <2>2, <2>7, <1>3 DEF Fits
    <2> QED  BY <2>1, <2>6, <2>8
<1>21. ASSUME NEW o \in Objects, o \notin {o0} PROVE IsAt(o, loc[o])'
    <2>1. IsAt(o, loc[o])  BY <1>1 DEF Located
    <2>2. \A u \in Threads : o \in ToSet(rel'[u]) <=> o \in ToSet(rel[u])
        BY <1>3, <1>10, <1>21
    <2>3. \A x \in Spans : o \in ToSet(objects'[x]) <=> o \in ToSet(objects[x])
        BY <1>19, <1>21
    <2> QED  BY <2>1, <2>2, <2>3, <1>4 DEF IsAt, used_slots
<1>22. PICK p \in AllPlaces : p = AtSpan(s) /\ p # Nowhere  BY PlacesFacts, Distinct
<1>23. Placed'
    <2>1. sizeclass' = sizeclass  BY <1>4
    <2>2. PICK M : M = {o0}  OBVIOUS
    <2>3. \A o \in Objects : o \in M => IsAt(o, p)' /\ Fits(o, p)'  BY <2>2, <1>20, <1>22
    <2>4. \A o \in Objects : o \notin M => IsAt(o, loc[o])'  BY <2>2, <1>21
    <2>5. \A x \in Spans : (InFlight(x)' <=> InFlight(x)) /\ (Dying(x)' <=> Dying(x))  BY <1>14
    <2>6. \A o \in Objects : o \notin M => \A u \in Threads :
               /\ loc[o] \in {AtRange(u), AtGot(u)} => cl'[u] = cl[u]
               /\ loc[o] = AtRel(u) => ReleaseClass(u)' = ReleaseClass(u)
        BY <1>18
    <2> QED  BY <2>1, <2>3, <2>4, <2>5, <2>6, <1>1, <1>22, Moves
<1> QED  BY <1>14, <1>15, <1>16, <1>17, <1>23 DEF OInv

LEMMA ReleaseLastObjectObjects ==
    ASSUME IInv, OInv, NEW t \in Threads, ReleaseLastObject(t) PROVE OInv'
<1>1. PICK loc : Located(loc) /\ Classed(loc)  BY DEF OInv, Placed
<1>2. pc[t] = "release"  BY DEF ReleaseLastObject
<1>0. PICK c \in Classes, o0 \in Objects, s \in Spans, r \in Seq(Objects) : Releases(loc, t, c, o0, s, r)
    BY <1>1, <1>2, ReleaseFacts
<1>3. /\ c = ReleaseClass(t) /\ c # 0
      /\ o0 = Head(rel[t]) /\ s = SpanOf(o0) /\ r = Tail(rel[t])
      /\ ToSet(rel[t]) = {o0} \cup ToSet(r) /\ IsInjective(r) /\ o0 \notin ToSet(r)
      /\ IsAt(o0, AtRel(t)) /\ loc[o0] = AtRel(t) /\ Fits(o0, AtRel(t)) /\ Exists(o0)
      /\ sizeclass[s] = c /\ ~ InFlight(s)
      /\ ElsewhereNot(o0, t)
      /\ \A u \in Threads \ {t} : pc[u] = "refetch" => cl[u] \in Classes \ {c}
    BY <1>0 DEF Releases
<1>4. /\ refcount[s] = 1 /\ refcount' = [refcount EXCEPT ![s] = 0]
      /\ nonempty' = [nonempty EXCEPT ![c] = DLL_Remove(nonempty[c], s)]
      /\ rel' = [rel EXCEPT ![t] = r]
      /\ span' = [span EXCEPT ![t] = s]
      /\ pc' = [pc EXCEPT ![t] = "delete"]
      /\ UNCHANGED <<client, sizeclass, objects, tc_slots, cl, range, got, victim>>
    BY <1>3 DEF ReleaseLastObject, LastObjectOut, GoTo
<1>5. /\ rel' \in [Threads -> Seq(Objects)] /\ rel'[t] = r
      /\ span' \in [Threads -> Spans \cup {NoSpan}] /\ span'[t] = s /\ s # NoSpan
      /\ pc'[t] = "delete"
      /\ \A u \in Threads \ {t} : rel'[u] = rel[u] /\ span'[u] = span[u] /\ pc'[u] = pc[u]
    BY <1>4, NullAssumption, ThreadFacts DEF OInv, Typed
<1>6. Alone(t) /\ ~ Carries(t)  BY <1>2, <1>4, <1>5 DEF Alone, Carries
<1>7. nonempty[c] \in Seq(Spans) /\ IsInjective(nonempty[c])  BY DEF OInv, Typed, Listed
<1>8. PICK q \in Seq(Spans) : /\ q = DLL_Remove(nonempty[c], s) /\ IsInjective(q)
                              /\ ToSet(q) = ToSet(nonempty[c]) \ {s}
    BY <1>7, RemoveFromList
<1>9. /\ nonempty' \in [Classes -> Seq(Spans)] /\ nonempty'[c] = q
      /\ \A d \in Classes \ {c} : nonempty'[d] = nonempty[d]
    <2>1. nonempty' = [nonempty EXCEPT ![c] = q]  BY <1>4, <1>8
    <2> QED  BY <2>1 DEF OInv, Typed
<1>10. refcount' \in [Spans -> Int] /\ \A x \in Spans \ {s} : refcount'[x] = refcount[x]
    BY <1>4 DEF OInv, Typed
<1>11. Typed'  BY <1>4, <1>5, <1>9, <1>10 DEF OInv, Typed
<1>12. Listed'
    <2>1. \A d \in Classes : IsInjective(nonempty'[d])  BY <1>8, <1>9 DEF OInv, Listed
    <2>2. \A u \in Threads : IsInjective(rel'[u])  BY <1>3, <1>5 DEF OInv, Listed
    <2> QED  BY <2>1, <2>2, <1>4 DEF OInv, Listed, Batches, used_slots
<1>13. \A u \in Threads \ {t} : AtLabel(u)'
    <2>1. \A u \in Threads \ {t} :
             pc[u] = "refetch" /\ nonempty[cl[u]] # <<>> => nonempty'[cl[u]] # <<>>
        BY <1>3, <1>9
    <2> QED  BY <2>1, <1>4, <1>6, OthersAtLabel
<1>14. AtLabel(t)'
    <2>1. AtLabel(t)  BY DEF OInv
    <2> QED  BY <2>1, <1>2, <1>3, <1>4, <1>5 DEF AtLabel, Stealing
<1>15. \A x \in Spans : /\ InFlight(x)' <=> InFlight(x) \/ x = s
                        /\ Dying(x)' <=> Dying(x) \/ x = s
    BY <1>2, <1>5 DEF InFlight, Dying
<1>16. Counted'  BY <1>4, <1>10, <1>15 DEF OInv, SpansKept, Counted
<1>17. OnList'
    <2> SUFFICES ASSUME NEW d \in Classes, NEW x \in ToSet(nonempty'[d])
                 PROVE  d # 0 /\ objects[x] # <<>> /\ sizeclass[x] = d /\ ~ InFlight(x)'
        BY <1>4 DEF OnList
    <2>1. x \in Spans  BY <1>9, ListFacts
    <2>2. x \in ToSet(nonempty[d]) /\ ~ (d = c /\ x = s)  BY <1>8, <1>9
    <2>3. d # 0 /\ objects[x] # <<>> /\ sizeclass[x] = d /\ ~ InFlight(x)
        BY <2>2 DEF OInv, SpansKept, OnList
    <2>4. x # s  BY <2>2, <2>3, <1>3
    <2> QED  BY <2>1, <2>3, <2>4, <1>15
<1>18. Separate'
    <2>1. \A u \in Threads \ {t} : (Carries(u)' <=> Carries(u)) /\ span'[u] = span[u]
        BY <1>5 DEF Carries
    <2>2. \A u \in Threads \ {t} : Carries(u) => span[u] # s
        BY <1>3 DEF Carries, InFlight
    <2> QED  BY <2>1, <2>2, <1>5 DEF OInv, SpansKept, Separate
<1>19. \A o \in Objects : SpanOf(o) = s /\ o # o0 /\ Exists(o) => o \in ToSet(objects[s])
    <2>1. PICK n \in Nat : n = ObjectsPerSpan[c]  BY SizeTablesAssumption
    <2>2. /\ objects[s] \in Seq(Objects) /\ IsInjective(objects[s]) /\ Len(objects[s]) \in Nat
        BY ListFacts DEF OInv, Typed, Listed
    <2>3. Len(objects[s]) = n - 1
        <3>1. refcount[s] + Len(objects[s]) = ObjectsPerSpan[c]
            BY <1>3 DEF OInv, SpansKept, Counted, Dying, InFlight
        <3>2. PICK m \in Nat : m = Len(objects[s])  BY <2>2
        <3>3. 1 + m = n  BY <3>1, <3>2, <1>4, <2>1
        <3> QED  BY <3>2, <3>3
    <2>4. ASSUME NEW o \in Objects, SpanOf(o) = s, Exists(o)
          PROVE  o[2] \in 1 .. n /\ o = <<s, o[2]>>
        <3>1. o[2] \in Nat \ {0} /\ o = <<SpanOf(o), o[2]>>  BY ObjectFacts
        <3>2. o[2] <= n  BY <2>1, <2>4, <1>3 DEF Exists
        <3> QED  BY <3>1, <3>2, <2>1, <2>4
    <2>5. \A x \in ToSet(objects[s]) : \E i \in 1 .. n : x = <<s, i>>
        <3> SUFFICES ASSUME NEW x \in ToSet(objects[s]) PROVE \E i \in 1 .. n : x = <<s, i>>
            OBVIOUS
        <3>1. x \in Objects  BY <2>2, ListFacts
        <3>2. SpanOf(x) = s /\ loc[x] = AtSpan(s)  BY <3>1, <1>1, OfTheSpan
        <3>3. Exists(x)  BY <3>1, <3>2, <1>1, OfTheSpan, Distinct
        <3> QED  BY <3>1, <3>2, <3>3, <2>4
    <2>6. PICK j \in 1 .. n : o0 = <<s, j>>  BY <1>3, <2>4
    <2>7. <<s, j>> \notin ToSet(objects[s])  BY <2>6, <1>3 DEF ElsewhereNot
    <2>8. \A i \in 1 .. n : i # j => <<s, i>> \in ToSet(objects[s])
        BY <2>2, <2>3, <2>5, <2>7, OnlyOneOut
    <2> SUFFICES ASSUME NEW o \in Objects, SpanOf(o) = s, o # o0, Exists(o)
                 PROVE  o \in ToSet(objects[s])
        OBVIOUS
    <2>9. PICK i \in 1 .. n : o = <<s, i>>  BY <2>4
    <2>10. i # j  BY <2>6, <2>9
    <2> QED  BY <2>8, <2>9, <2>10
<1> DEFINE l == [o \in Objects |-> IF o = o0 THEN Nowhere ELSE loc[o]]
<1>20. l \in [Objects -> AllPlaces]  BY <1>1, PlacesFacts DEF Located
<1>21. PICK loc2 \in [Objects -> AllPlaces] :
         \A o \in Objects : loc2[o] = IF o = o0 THEN Nowhere ELSE loc[o]
    BY <1>20
<1>22. ASSUME NEW o \in Objects
       PROVE  /\ IsAt(o, loc2[o])'
              /\ Exists(o)' /\ ~ Dying(SpanOf(o))' => loc2[o] # Nowhere
              /\ loc2[o] # Nowhere => Fits(o, loc2[o])'
    <2>1. SpanOf(o) \in Spans  BY ObjectFacts
    <2>2. CASE o = o0
        <3>1. loc2[o] = Nowhere /\ Dying(SpanOf(o))'  BY <2>2, <1>3, <1>15, <1>21
        <3>2. PICK p : p = Nowhere  OBVIOUS
        <3>3. /\ p # AtClient /\ \A x \in Spans : p # AtSpan(x)
              /\ \A d \in UsedClasses, i \in Nat \ {0} : p # AtSlot(d, i)
              /\ \A u \in Threads : p # AtRange(u) /\ p # AtRel(u) /\ p # AtGot(u)
            BY <3>2, Distinct
        <3>4. /\ o \notin client
              /\ \A x \in Spans : o \notin ToSet(objects[x])
              /\ \A d \in UsedClasses, i \in Nat \ {0} :
                    ~ (i <= used_slots(d) /\ o \in ToSet(tc_slots[d][i]))
              /\ \A u \in Threads : /\ o \notin ToSet(range[u]) /\ o \notin ToSet(got[u])
                                    /\ u # t => o \notin ToSet(rel[u])
            BY <2>2, <1>3 DEF ElsewhereNot
        <3>5. \A u \in Threads : o \notin ToSet(rel'[u])  BY <2>2, <3>4, <1>3, <1>5
        <3>6. IsAt(o, p)'  BY <3>3, <3>4, <3>5, <1>4 DEF IsAt, used_slots
        <3> QED  BY <3>1, <3>2, <3>6
    <2>3. CASE o # o0
        <3>1. loc2[o] = loc[o]  BY <2>3, <1>21
        <3>2. IsAt(o, loc[o])  BY <1>1 DEF Located
        <3>3. \A u \in Threads : o \in ToSet(rel'[u]) <=> o \in ToSet(rel[u])
            BY <2>3, <1>3, <1>5
        <3>4. IsAt(o, loc[o])'  BY <3>2, <3>3, <1>4 DEF IsAt, used_slots
        <3>5. Exists(o)' <=> Exists(o)  BY <1>4 DEF Exists
        <3>6. ASSUME loc[o] # Nowhere PROVE Fits(o, loc[o])'
            <4>1. Fits(o, loc[o])  BY <3>6, <1>1 DEF Classed
            <4>2. CASE SpanOf(o) = s
                <5>1. Exists(o)  BY <4>1 DEF Fits
                <5>2. o \in ToSet(objects[s])  BY <5>1, <4>2, <2>3, <1>19
                <5>3. loc[o] = AtSpan(s)  BY <5>2, <1>1, OfTheSpan
                <5> QED  BY <5>1, <5>3, <4>2, <3>5, Distinct DEF Fits
            <4>3. CASE SpanOf(o) # s
                <5>1. InFlight(SpanOf(o))' => InFlight(SpanOf(o))  BY <4>3, <2>1, <1>15
                <5>2. \A u \in Threads : cl'[u] = cl[u] /\ ReleaseClass(u)' = ReleaseClass(u)
                    BY <1>4 DEF ReleaseClass
                <5> QED  BY <5>1, <5>2, <4>1, <1>4, FitsKept
            <4> QED  BY <4>2, <4>3
        <3> QED  BY <3>1, <3>4, <3>5, <3>6, <2>1, <1>1, <1>15 DEF Classed
    <2> QED  BY <2>2, <2>3
<1>23. Placed'  BY <1>22, PlacedAt
<1> QED  BY <1>11, <1>12, <1>13, <1>14, <1>16, <1>17, <1>18, <1>23 DEF OInv, SpansKept

LEMMA DeleteSpanObjects ==
    ASSUME IInv, OInv, NEW t \in Threads, DeleteSpan(t) PROVE OInv'
<1>1. /\ pc[t] = "delete" /\ pc' = [pc EXCEPT ![t] = "relock"]
      /\ UNCHANGED <<client, refcount, nonempty, tc_slots, cl, range, rel, got, victim>>
    BY DEF DeleteSpan, GoTo, shared
<1>2. AtLabel(t)  BY DEF OInv
<1>3. Carries(t)  BY <1>1, <1>2 DEF AtLabel, Carries
<1>4. PICK s \in Spans : s = span[t] /\ InFlight(s)  BY <1>3, CarriedInUse
<1>5. /\ sizeclass' = [sizeclass EXCEPT ![s] = 0]
      /\ objects' = [objects EXCEPT ![s] = <<>>]
      /\ span' = [span EXCEPT ![t] = NoSpan]
    BY <1>4 DEF DeleteSpan
<1>6. /\ sizeclass' \in [Spans -> Classes] /\ sizeclass'[s] = 0
      /\ objects' \in [Spans -> Seq(Objects)] /\ objects'[s] = <<>>
      /\ \A x \in Spans \ {s} : sizeclass'[x] = sizeclass[x] /\ objects'[x] = objects[x]
    <2>1. 0 \in Classes  BY NumClassesAssumption DEF Classes
    <2> QED  BY <2>1, <1>5, EmptyList DEF OInv, Typed
<1>7. /\ span' \in [Threads -> Spans \cup {NoSpan}] /\ span'[t] = NoSpan /\ pc'[t] = "relock"
      /\ \A u \in Threads \ {t} : span'[u] = span[u] /\ pc'[u] = pc[u]
    BY <1>1, <1>5, ThreadFacts DEF OInv, Typed
<1>8. Alone(t)  BY <1>1, <1>7 DEF Alone
<1>9. Typed'  BY <1>1, <1>6, <1>7 DEF OInv, Typed
<1>10. Listed'
    <2>1. \A x \in Spans : IsInjective(objects'[x])  BY <1>6, EmptyList DEF OInv, Listed
    <2> QED  BY <2>1, <1>1 DEF OInv, Listed, Batches, used_slots
<1>11. \A u \in Threads \ {t} : Carries(u) => span[u] \in Spans \ {s}
    <2>1. \A u \in Threads \ {t} : Carries(u) => span[u] # s
        BY <1>3, <1>4 DEF OInv, SpansKept, Separate
    <2> QED  BY <2>1, CarriedInUse
<1>12. \A u \in Threads \ {t} : AtLabel(u)'  BY <1>1, <1>6, <1>8, <1>11, OthersAtLabel
<1>13. AtLabel(t)'  BY <1>1, <1>2, <1>7 DEF AtLabel, Stealing
<1>14. \A x \in Spans : /\ InFlight(x)' <=> InFlight(x) /\ x # s
                        /\ Dying(x)' <=> Dying(x) /\ x # s
    <2> SUFFICES ASSUME NEW x \in Spans
                 PROVE  /\ InFlight(x)' <=> InFlight(x) /\ x # s
                        /\ Dying(x)' <=> Dying(x) /\ x # s
        OBVIOUS
    <2>1. \A u \in Threads : span[u] = x /\ pc[u] \in {"attach", "delete"} => Carries(u)
        BY NullAssumption DEF Carries
    <2> QED  BY <2>1, <1>4, <1>7, <1>11 DEF InFlight, Dying
<1>15. Counted'  BY <1>1, <1>6, <1>14 DEF OInv, SpansKept, Counted
<1>16. OnList'
    <2> SUFFICES ASSUME NEW d \in Classes, NEW x \in ToSet(nonempty[d])
                 PROVE  d # 0 /\ objects'[x] # <<>> /\ sizeclass'[x] = d /\ ~ InFlight(x)'
        BY <1>1 DEF OnList
    <2>1. x \in Spans  BY ListFacts DEF OInv, Typed
    <2>2. d # 0 /\ objects[x] # <<>> /\ sizeclass[x] = d /\ ~ InFlight(x)
        BY DEF OInv, SpansKept, OnList
    <2> QED  BY <2>1, <2>2, <1>4, <1>6, <1>14
<1>17. Separate'
    <2>1. \A u \in Threads : Carries(u)' => Carries(u) /\ span'[u] = span[u]
        BY <1>7 DEF Carries
    <2> QED  BY <2>1 DEF OInv, SpansKept, Separate
<1>18. PICK loc : Located(loc) /\ Classed(loc)  BY DEF OInv, Placed
<1> DEFINE l == [o \in Objects |-> IF SpanOf(o) = s THEN Nowhere ELSE loc[o]]
<1>19. l \in [Objects -> AllPlaces]  BY <1>18, PlacesFacts DEF Located
<1>20. PICK loc2 \in [Objects -> AllPlaces] :
         \A o \in Objects : loc2[o] = IF SpanOf(o) = s THEN Nowhere ELSE loc[o]
    BY <1>19
<1>21. ASSUME NEW o \in Objects
       PROVE  /\ IsAt(o, loc2[o])'
              /\ Exists(o)' /\ ~ Dying(SpanOf(o))' => loc2[o] # Nowhere
              /\ loc2[o] # Nowhere => Fits(o, loc2[o])'
    <2>1. SpanOf(o) \in Spans  BY ObjectFacts
    <2>2. IsAt(o, loc[o])  BY <1>18 DEF Located
    <2>3. CASE SpanOf(o) = s
        <3>1. loc[o] # Nowhere => loc[o] = AtSpan(s)  BY <2>3, <1>4, <1>18 DEF Classed, Fits
        <3>2. PICK p : p = Nowhere  OBVIOUS
        <3>3. /\ p # AtClient /\ \A x \in Spans : p # AtSpan(x)
              /\ \A d \in UsedClasses, i \in Nat \ {0} : p # AtSlot(d, i)
              /\ \A u \in Threads : p # AtRange(u) /\ p # AtRel(u) /\ p # AtGot(u)
            BY <3>2, Distinct
        <3>4. /\ o \notin client
              /\ \A x \in Spans : x # s => o \notin ToSet(objects[x])
              /\ \A d \in UsedClasses, i \in Nat \ {0} :
                    ~ (i <= used_slots(d) /\ o \in ToSet(tc_slots[d][i]))
              /\ \A u \in Threads : /\ o \notin ToSet(range[u]) /\ o \notin ToSet(got[u])
                                    /\ o \notin ToSet(rel[u])
            <4>1. PICK k : k = loc[o]  OBVIOUS
            <4>2. /\ k # AtClient /\ \A x \in Spans : x # s => k # AtSpan(x)
                  /\ \A d \in UsedClasses, i \in Nat \ {0} : k # AtSlot(d, i)
                  /\ \A u \in Threads : k # AtRange(u) /\ k # AtRel(u) /\ k # AtGot(u)
                <5>1. CASE k = Nowhere  BY <5>1, Distinct
                <5>2. CASE k = AtSpan(s)  BY <5>2, Distinct
                <5> QED  BY <4>1, <3>1, <5>1, <5>2
            <4> QED  BY <4>1, <4>2, <2>2 DEF IsAt
        <3>5. \A x \in Spans : o \notin ToSet(objects'[x])  BY <3>4, <1>6, EmptyList
        <3>6. IsAt(o, p)'  BY <3>3, <3>4, <3>5, <1>1 DEF IsAt, used_slots
        <3>7. loc2[o] = Nowhere /\ ~ Exists(o)'  BY <2>3, <1>6, <1>20 DEF Exists
        <3> QED  BY <3>2, <3>6, <3>7
    <2>4. CASE SpanOf(o) # s
        <3>1. loc2[o] = loc[o]  BY <2>4, <1>20
        <3>2. \A x \in Spans : o \in ToSet(objects'[x]) <=> o \in ToSet(objects[x])
            <4>1. o \notin ToSet(objects[s])  BY <2>4, <1>18, OfTheSpan
            <4> QED  BY <4>1, <1>6, EmptyList
        <3>3. IsAt(o, loc[o])'  BY <2>2, <3>2, <1>1 DEF IsAt, used_slots
        <3>4. sizeclass'[SpanOf(o)] = sizeclass[SpanOf(o)]  BY <2>1, <2>4, <1>6
        <3>5. Exists(o)' <=> Exists(o)  BY <3>4 DEF Exists
        <3>6. loc[o] # Nowhere => Fits(o, loc[o])'
            <4>1. loc[o] # Nowhere => Fits(o, loc[o])  BY <1>18 DEF Classed
            <4>2. \A u \in Threads : cl'[u] = cl[u] /\ ReleaseClass(u)' = ReleaseClass(u)
                BY <1>1 DEF ReleaseClass
            <4> QED  BY <4>1, <4>2, <3>4, <2>1, <1>14, FitsKept
        <3> QED  BY <3>1, <3>3, <3>5, <3>6, <2>1, <2>4, <1>14, <1>18 DEF Classed
    <2> QED  BY <2>3, <2>4
<1>22. Placed'  BY <1>21, PlacedAt
<1> QED  BY <1>9, <1>10, <1>12, <1>13, <1>15, <1>16, <1>17, <1>22 DEF OInv, SpansKept

-----------------------------------------------------------------------------
(* The invariant holds in every reachable state.                             *)

LEMMA InitObjects == Init => OInv
<1> SUFFICES ASSUME Init PROVE OInv  OBVIOUS
<1>1. 0 \in Classes  BY NumClassesAssumption DEF Classes
<1>2. /\ \A c \in Classes : nonempty[c] = <<>> /\ tc_slots[c] = <<>> /\ used_slots(c) = 0
      /\ \A s \in Spans : sizeclass[s] = 0 /\ objects[s] = <<>> /\ refcount[s] = 0
      /\ \A t \in Threads : /\ pc[t] = "idle" /\ cl[t] = 0 /\ range[t] = <<>> /\ rel[t] = <<>>
                            /\ got[t] = <<>> /\ span[t] = NoSpan /\ victim[t] = NoClass
      /\ client = {}
    BY EmptyList DEF Init, used_slots
<1>3. Typed  BY <1>1, EmptyList DEF Init, Typed
<1>4. Listed
    <2>1. \A c \in UsedClasses : c \in Classes  BY DEF UsedClasses
    <2> QED  BY <1>1, <1>2, <2>1, EmptyList DEF Listed
<1>5. ASSUME NEW t \in Threads PROVE AtLabel(t)
    <2>1. Batch[0] \in Nat  BY <1>1, SizeTablesAssumption
    <2> QED  BY <1>2, <2>1, EmptyList DEF AtLabel, Stealing
<1>6. SpansKept  BY <1>2, EmptyList DEF SpansKept, Counted, OnList, Separate, Carries
<1>7. Placed
    <2>1. PICK loc \in [Objects -> AllPlaces] : \A o \in Objects : loc[o] = Nowhere
        <3>1. [o \in Objects |-> Nowhere] \in [Objects -> AllPlaces]  BY PlacesFacts
        <3> QED  BY <3>1
    <2>2. Located(loc)
        <3> SUFFICES ASSUME NEW o \in Objects PROVE IsAt(o, Nowhere)
            BY <2>1 DEF Located
        <3>1. PICK p : p = Nowhere  OBVIOUS
        <3>2. /\ p # AtClient /\ \A x \in Spans : p # AtSpan(x)
              /\ \A d \in UsedClasses, i \in Nat \ {0} : p # AtSlot(d, i)
              /\ \A u \in Threads : p # AtRange(u) /\ p # AtRel(u) /\ p # AtGot(u)
            BY <3>1, Distinct
        <3>3. \A d \in UsedClasses, i \in Nat \ {0} : ~ i <= used_slots(d)
            BY <1>2 DEF UsedClasses
        <3> QED  BY <3>1, <3>2, <3>3, <1>2, EmptyList DEF IsAt
    <2>3. Classed(loc)  BY <1>2, <2>1, ObjectFacts DEF Classed, Exists
    <2> QED  BY <2>2, <2>3 DEF Placed
<1> QED  BY <1>3, <1>4, <1>5, <1>6, <1>7 DEF OInv

LEMMA ObjectsStep == IInv /\ OInv /\ [Next]_vars => OInv'
<1> SUFFICES ASSUME IInv, OInv, [Next]_vars PROVE OInv'  OBVIOUS
<1>1. CASE UNCHANGED vars
    <2>1. UNCHANGED <<sizeclass, refcount, objects, nonempty, tc_slots, client, range, rel, got,
                      span, pc, cl, victim>>
        BY <1>1 DEF vars, shared, spans, locals
    <2>2. Typed' /\ Listed'
        BY <2>1 DEF OInv, Typed, Listed, Batches, used_slots
    <2>3. (\A t \in Threads : AtLabel(t)') /\ SpansKept'
        <3>1. \A t \in Threads : AtLabel(t)'  BY <2>1 DEF OInv, AtLabel, Stealing
        <3>2. SpansKept'
            BY <2>1 DEF OInv, SpansKept, Counted, OnList, Separate, Carries, InFlight, Dying
        <3> QED  BY <3>1, <3>2
    <2>4. PICK loc : Located(loc) /\ Classed(loc)  BY DEF OInv, Placed
    <2>5. Located(loc)'  BY <2>1, <2>4 DEF Located, IsAt, used_slots
    <2>6. Classed(loc)'  BY <2>1, <2>4 DEF Classed, Exists, Fits, ReleaseClass, InFlight, Dying
    <2> QED  BY <2>2, <2>3, <2>5, <2>6 DEF OInv, Placed
<1>2. ASSUME NEW t \in Threads, RemoveRange(t) PROVE OInv'
    BY <1>2, RemoveFromCacheObjects, RemoveBeginObjects, FetchObjectObjects, FetchNothingObjects,
       PopulateNewObjects, PopulateAttachObjects DEF RemoveRange
<1>3. ASSUME NEW t \in Threads, InsertRange(t) PROVE OInv'
    BY <1>3, InsertIntoCacheObjects, InsertBeginObjects, EvictObjects, PeekObjects, ShrinkObjects,
       RevertObjects, ReleaseObjectObjects, ReleaseLastObjectObjects, DeleteSpanObjects, RelockObjects
       DEF InsertRange
<1> QED  BY <1>1, <1>2, <1>3 DEF Next

\* Every object is in one place, the lists have no duplicates, and the spans'
\* counts are right, whatever the threads do (the strengthening of ObjectsOnce
\* that every action of RemoveRange and InsertRange preserves).
THEOREM ObjectsInvariance == Spec => []OInv
<1>1. Init => OInv  BY InitObjects
<1>2. IInv /\ OInv /\ [Next]_vars => OInv'  BY ObjectsStep
<1> QED  BY <1>1, <1>2, Invariance, PTL DEF Spec

-----------------------------------------------------------------------------
(* No object is lost or handed out twice.                                    *)

-----------------------------------------------------------------------------
(* No object is lost or handed out twice.                                    *)

\* The place of an object is the only one Places finds.
LEMMA OnePlace ==
    ASSUME IInv, SlotsWithinCache, NEW loc, Located(loc), NEW o \in Objects
    PROVE  Places(o) = {loc[o]} \ {Nowhere}
<1>1. PICK p \in AllPlaces : p = loc[o] /\ IsAt(o, p)  BY DEF Located
<1>2. \A x \in {<<"client", 0, 0>> : y \in {o} \cap client} : x = p
    BY <1>1 DEF IsAt, AtClient
<1>3. \A x \in {<<"span", s, 0>> : s \in {y \in Spans : o \in ToSet(objects[y])}} : x = p
    BY <1>1 DEF IsAt, AtSpan
<1>4. \A x \in {y \in {"slot"} \X UsedClasses \X (1 .. NumClasses) :
                  y[3] <= used_slots(y[2]) /\ o \in ToSet(tc_slots[y[2]][y[3]])} : x = p
    <2> SUFFICES ASSUME NEW c \in UsedClasses, NEW i \in 1 .. NumClasses,
                        i <= used_slots(c), o \in ToSet(tc_slots[c][i])
                 PROVE  <<"slot", c, i>> = p
        OBVIOUS
    <2>1. i \in Nat \ {0}  BY NumClassesAssumption
    <2> QED  BY <1>1, <2>1 DEF IsAt, AtSlot
<1>5. \A x \in {<<"range", t, 0>> : t \in {y \in Threads : o \in ToSet(range[y])}} : x = p
    BY <1>1 DEF IsAt, AtRange
<1>6. \A x \in {<<"rel", t, 0>> : t \in {y \in Threads : o \in ToSet(rel[y])}} : x = p
    BY <1>1 DEF IsAt, AtRel
<1>7. \A x \in {<<"got", t, 0>> : t \in {y \in Threads : o \in ToSet(got[y])}} : x = p
    BY <1>1 DEF IsAt, AtGot
<1>8. \A x \in Places(o) : x = p
    BY <1>2, <1>3, <1>4, <1>5, <1>6, <1>7 DEF Places
<1>9. \A x \in Places(o) : x # Nowhere
    BY DEF Places, Nowhere
<1>10. ASSUME p # Nowhere PROVE p \in Places(o)
    <2>1. CASE p = AtClient
        <3>1. o \in client  BY <2>1, <1>1 DEF IsAt
        <3> QED  BY <2>1, <3>1 DEF Places, AtClient
    <2>2. CASE \E s \in Spans : p = AtSpan(s)
        <3>1. PICK s \in Spans : p = AtSpan(s)  BY <2>2
        <3>2. o \in ToSet(objects[s])  BY <3>1, <1>1 DEF IsAt
        <3> QED  BY <3>1, <3>2 DEF Places, AtSpan
    <2>3. CASE \E c \in UsedClasses, i \in Nat \ {0} : p = AtSlot(c, i)
        <3>1. PICK c \in UsedClasses, i \in Nat \ {0} : p = AtSlot(c, i)  BY <2>3
        <3>2. i <= used_slots(c) /\ o \in ToSet(tc_slots[c][i])  BY <3>1, <1>1 DEF IsAt
        <3>3. c \in Classes  BY DEF UsedClasses
        <3>4. used_slots(c) \in Nat
            BY <3>3, LenOfSeq DEF IInv, Control, ControlOK, used_slots
        <3>5. cache_size[c] \in Nat  BY <3>3 DEF IInv, Control, ControlOK
        <3>6. used_slots(c) <= cache_size[c] /\ cache_size[c] <= NumClasses
            BY <3>3 DEF SlotsWithinCache, NumTransferEntries
        <3>7. i <= NumClasses
            <4>1. \A x, y, z, w \in Nat : x <= y /\ y <= z /\ z <= w => x <= w  OBVIOUS
            <4> QED  BY <4>1, <3>2, <3>4, <3>5, <3>6, NumClassesAssumption
        <3>8. i \in 1 .. NumClasses  BY <3>7, NumClassesAssumption
        <3>9. <<"slot", c, i>> \in {y \in {"slot"} \X UsedClasses \X (1 .. NumClasses) :
                  y[3] <= used_slots(y[2]) /\ o \in ToSet(tc_slots[y[2]][y[3]])}
            BY <3>2, <3>8
        <3> QED  BY <3>1, <3>9 DEF Places, AtSlot
    <2>4. CASE \E t \in Threads : p = AtRange(t)
        <3>1. PICK t \in Threads : p = AtRange(t)  BY <2>4
        <3>2. o \in ToSet(range[t])  BY <3>1, <1>1 DEF IsAt
        <3> QED  BY <3>1, <3>2 DEF Places, AtRange
    <2>5. CASE \E t \in Threads : p = AtRel(t)
        <3>1. PICK t \in Threads : p = AtRel(t)  BY <2>5
        <3>2. o \in ToSet(rel[t])  BY <3>1, <1>1 DEF IsAt
        <3> QED  BY <3>1, <3>2 DEF Places, AtRel
    <2>6. CASE \E t \in Threads : p = AtGot(t)
        <3>1. PICK t \in Threads : p = AtGot(t)  BY <2>6
        <3>2. o \in ToSet(got[t])  BY <3>1, <1>1 DEF IsAt
        <3> QED  BY <3>1, <3>2 DEF Places, AtGot
    <2> QED  BY <1>10, <2>1, <2>2, <2>3, <2>4, <2>5, <2>6 DEF AllPlaces
<1> QED  BY <1>1, <1>8, <1>9, <1>10

\* Each object of a span in use is in exactly one place (with the client, in its
\* span, in a slot of a transfer cache or in a list of one call in progress) and
\* no other object is anywhere: RemoveRange and InsertRange lose none and hand
\* none out twice.
THEOREM ObjectsOnceHolds == Spec => []ObjectsOnce
<1>1. IInv /\ OInv /\ SlotsWithinCache => ObjectsOnce
    <2> SUFFICES ASSUME IInv, OInv, SlotsWithinCache PROVE ObjectsOnce  OBVIOUS
    <2>1. PICK loc : Located(loc) /\ Classed(loc)  BY DEF OInv, Placed
    <2>2. ASSUME NEW o \in Objects
          PROVE  IF Exists(o)
                 THEN Dying(SpanOf(o)) \/ Cardinality(Places(o)) = 1
                 ELSE Places(o) = {}
        <3>1. Places(o) = {loc[o]} \ {Nowhere}  BY <2>1, OnePlace
        <3>2. loc[o] # Nowhere => Exists(o)  BY <2>1, <2>2 DEF Classed, Fits
        <3>3. Exists(o) /\ ~ Dying(SpanOf(o)) => loc[o] # Nowhere  BY <2>1 DEF Classed
        <3>4. CASE loc[o] = Nowhere  BY <3>1, <3>3, <3>4
        <3>5. CASE loc[o] # Nowhere
            <4>1. Places(o) = {loc[o]}  BY <3>1, <3>5
            <4>2. Cardinality(Places(o)) = 1  BY <4>1, FS_Singleton
            <4> QED  BY <4>2, <3>2, <3>5
        <3> QED  BY <3>4, <3>5
    <2>3. \A s \in Spans : IsInjective(objects[s])  BY DEF OInv, Listed
    <2>4. ASSUME NEW c \in Classes, NEW i \in 1 .. used_slots(c)
          PROVE  IsInjective(tc_slots[c][i])
        <3>1. CASE c = 0  BY <3>1, EmptyList DEF OInv, Listed, used_slots
        <3>2. CASE c # 0  BY <3>2 DEF OInv, Listed, Batches, UsedClasses
        <3> QED  BY <3>1, <3>2
    <2>5. \A t \in Threads : IsInjective(rel[t]) /\ IsInjective(got[t])  BY DEF OInv, Listed
    <2> QED  BY <2>2, <2>3, <2>4, <2>5 DEF ObjectsOnce, Exists
<1> QED  BY <1>1, Invariance, ObjectsInvariance, SlotsWithinCacheHolds, PTL

-----------------------------------------------------------------------------
(* RemoveRange comes back with nothing only if it got no span.               *)

\* A step changes the label of no thread but its own.
LEMMA OwnLabel ==
    ASSUME IInv, NEW u \in Threads, RemoveRange(u) \/ InsertRange(u), NEW t \in Threads \ {u}
    PROVE  pc'[t] = pc[t]
<1> SUFFICES \/ pc' = pc \/ \E label : pc' = [pc EXCEPT ![u] = label]
    BY ThreadFacts
<1>1. CASE RemoveRange(u)
    BY <1>1, Zenon DEF RemoveRange, RemoveFromCache, RemoveBegin, FetchObject, FetchNothing, PopulateNew,
               PopulateAttach, ReturnObjects, GoTo
<1>2. CASE \E c \in UsedClasses : \E l \in Ranges(c) : InsertIntoCache(u, c, l) \/ InsertBegin(u, c, l)
    BY <1>2, Zenon DEF InsertIntoCache, InsertBegin, GoTo
<1>3. CASE Evict(u) \/ PeekSize(u) \/ PeekUsed(u) \/ Shrink(u) \/ Revert(u)
    BY <1>3, Zenon DEF Evict, PeekSize, PeekUsed, Shrink, Revert, EvictFailed, GoTo
<1>4. CASE ReleaseObject(u) \/ ReleaseLastObject(u) \/ DeleteSpan(u) \/ Relock(u)
    BY <1>4, Zenon DEF ReleaseObject, ReleaseLastObject, DeleteSpan, Relock, ReleaseDone, GoTo
<1> QED  BY <1>1, <1>2, <1>3, <1>4 DEF InsertRange

\* From "refetch" only the fetching goes on.
LEMMA FromRefetch ==
    ASSUME NEW t \in Threads, pc[t] = "refetch", RemoveRange(t) \/ InsertRange(t)
    PROVE  FetchObject(t) \/ FetchNothing(t)
<1>1. CASE RemoveRange(t)
    BY <1>1 DEF RemoveRange, RemoveFromCache, RemoveBegin, PopulateNew, PopulateAttach
<1>2. CASE InsertRange(t)
    BY <1>2 DEF InsertRange, InsertIntoCache, InsertBegin, Evict, PeekSize, PeekUsed, Shrink, Revert,
                ReleaseObject, ReleaseLastObject, DeleteSpan, Relock
<1> QED  BY <1>1, <1>2

\* Nobody takes the new span's objects between Populate's attaching it, when it
\* has retaken the lock, and the fetch that follows: a call that got a span from
\* the page heap returns an object.
THEOREM EmptyOnlyOnFailureHolds == Spec => EmptyOnlyOnFailure
<1>1. ASSUME IInv, OInv, [Next]_vars, NEW t \in Threads,
             pc[t] = "refetch", pc'[t] = "idle", client' = client
      PROVE  span[t] = NoSpan
    <2>1. pc' # pc  BY <1>1
    <2>2. ~ UNCHANGED vars  BY <2>1 DEF vars
    <2>3. PICK u \in Threads : RemoveRange(u) \/ InsertRange(u)  BY <1>1, <2>2 DEF Next
    <2>4. u = t  BY <1>1, <2>3, OwnLabel
    <2>5. FetchObject(t) \/ FetchNothing(t)  BY <1>1, <2>3, <2>4, FromRefetch
    <2>6. AtLabel(t)  BY <1>1 DEF OInv
    <2>7. CASE FetchNothing(t)
        <3>1. nonempty[cl[t]] = <<>>  BY <2>7 DEF FetchNothing
        <3> QED  BY <1>1, <2>6, <3>1 DEF AtLabel
    <2>8. CASE FetchObject(t)
        <3>1. PICK c \in Classes : c = cl[t]  BY <1>1, ThreadFacts
        <3>2. /\ nonempty[c] # <<>> /\ nonempty[c] \in Seq(Spans)
            BY <1>1, <2>8, <3>1 DEF FetchObject, FetchFromSpans, OInv, Typed
        <3>3. PICK s \in Spans : s = Head(nonempty[c]) /\ s \in ToSet(nonempty[c])  BY <3>2, HeadTail
        <3>4. objects[s] # <<>> /\ objects[s] \in Seq(Objects)
            BY <1>1, <3>3 DEF OInv, SpansKept, OnList, Typed
        <3>5. PICK o \in Objects : o = Head(objects[s]) /\ o \in ToSet(objects[s])  BY <3>4, HeadTail
        <3>6. got[t] \in Seq(Objects)  BY <1>1 DEF OInv, Typed
        <3>7. o \in ToSet(Append(got[t], o))  BY <3>6, AppendList
        <3>8. client' = client \cup ToSet(Append(got[t], o))
            <4>1. ~ pc' = [pc EXCEPT ![t] = "fetch"]  BY <1>1, ThreadFacts
            <4> QED  BY <2>8, <3>1, <3>3, <3>5, <4>1 DEF FetchObject, ReturnObjects, GoTo
        <3>9. o \notin client
            <4>1. PICK loc : Located(loc)  BY <1>1 DEF OInv, Placed
            <4>2. IsAt(o, loc[o])  BY <4>1 DEF Located
            <4> QED  BY <3>5, <4>2, Distinct DEF IsAt
        <3> QED  BY <1>1, <3>7, <3>8, <3>9
    <2> QED  BY <2>5, <2>7, <2>8
<1>2. IInv /\ OInv /\ [Next]_vars =>
        [\A t \in Threads : pc[t] = "refetch" /\ pc'[t] = "idle" /\ client' = client => span[t] = NoSpan]_vars
    BY <1>1
<1> QED  BY <1>2, Invariance, ObjectsInvariance, PTL DEF Spec, EmptyOnlyOnFailure

-----------------------------------------------------------------------------
(* The books of the central lists agree with the objects.                    *)

\* The free objects of the class's spans.
FreeOf(c) == UNION {ToSet(objects[s]) : s \in ToSet(nonempty[c])}

\* The spans of empty_ have no free object, and no thread has them with it.
Emptied ==
    \A c \in Classes : \A s \in empty[c] :
        c # 0 /\ objects[s] = <<>> /\ sizeclass[s] = c /\ ~ InFlight(s)

\* A span in use that no thread has with it is on a list of its class.
Tracked == \A s \in Spans : sizeclass[s] # 0 /\ ~ InFlight(s) => Attached(s, sizeclass[s])

CounterRight ==
    \A c \in Classes : IsFiniteSet(FreeOf(c)) /\ counter[c] = Cardinality(FreeOf(c))

\* Populate's span has all its objects, and once it is attached it stays first
\* until the thread that attached it has fetched from it.
NewSpan(t) ==
    span[t] # NoSpan =>
        /\ pc[t] = "attach" => refcount[span[t]] = 0
        /\ pc[t] = "refetch" => nonempty[cl[t]] # <<>> /\ span[t] = Head(nonempty[cl[t]])

SInv ==
    /\ empty \in [Classes -> SUBSET Spans]
    /\ counter \in [Classes -> Int]
    /\ Emptied
    /\ Tracked
    /\ CounterRight
    /\ \A t \in Threads : NewSpan(t)
    /\ NoIdleSpan

\* The free objects of a span are objects of its class: there are no more of
\* them than the span was cut into, and fewer when one is out.
LEMMA FreeBound ==
    ASSUME OInv, NEW loc, Located(loc), Classed(loc), NEW s \in Spans, sizeclass[s] # 0
    PROVE  /\ ObjectsPerSpan[sizeclass[s]] \in Nat
           /\ Len(objects[s]) \in Nat
           /\ Len(objects[s]) <= ObjectsPerSpan[sizeclass[s]]
           /\ \A o \in Objects : SpanOf(o) = s /\ Exists(o) /\ o \notin ToSet(objects[s]) =>
                Len(objects[s]) < ObjectsPerSpan[sizeclass[s]]
<1> DEFINE n == ObjectsPerSpan[sizeclass[s]]
           f == [i \in 1 .. n |-> <<s, i>>]
           X == {<<s, i>> : i \in 1 .. n}
<1>1. n \in Nat  BY SizeTablesAssumption DEF OInv, Typed
<1>2. objects[s] \in Seq(Objects) /\ IsInjective(objects[s])  BY DEF OInv, Typed, Listed
<1> HIDE DEF n
<1>3. IsFiniteSet(1 .. n) /\ Cardinality(1 .. n) = n  BY <1>1, FS_Interval
<1>4. f \in Surjection(1 .. n, X) /\ f \in Injection(1 .. n, X)
    BY DEF Surjection, Injection, IsInjective
<1>5. IsFiniteSet(X) /\ Cardinality(X) = n  BY <1>3, <1>4, FS_Surjection
<1>6. \A o \in Objects : SpanOf(o) = s /\ Exists(o) => o \in X
    <2> SUFFICES ASSUME NEW o \in Objects, SpanOf(o) = s, Exists(o) PROVE o \in X  OBVIOUS
    <2>1. o[2] \in Nat \ {0} /\ o = <<s, o[2]>>  BY ObjectFacts
    <2>2. o[2] <= n  BY DEF Exists, n
    <2> QED  BY <1>1, <2>1, <2>2
<1>7. \A o \in ToSet(objects[s]) : o \in Objects /\ SpanOf(o) = s /\ Exists(o)
    <2> SUFFICES ASSUME NEW o \in ToSet(objects[s])
                 PROVE  o \in Objects /\ SpanOf(o) = s /\ Exists(o)
        OBVIOUS
    <2>1. o \in Objects  BY <1>2, ListFacts
    <2>2. SpanOf(o) = s /\ loc[o] = AtSpan(s)  BY <2>1, OfTheSpan
    <2>3. Exists(o)  BY <2>1, <2>2, OfTheSpan, Distinct
    <2> QED  BY <2>1, <2>2, <2>3
<1>8. /\ IsFiniteSet(ToSet(objects[s])) /\ Cardinality(ToSet(objects[s])) = Len(objects[s])
      /\ Len(objects[s]) \in Nat
    BY <1>2, ListFacts
<1>9. ToSet(objects[s]) \in SUBSET X  BY <1>6, <1>7
<1>10. Len(objects[s]) <= n  BY <1>5, <1>8, <1>9, FS_Subset
<1>11. ASSUME NEW o \in Objects, SpanOf(o) = s, Exists(o), o \notin ToSet(objects[s])
       PROVE  Len(objects[s]) < n
    <2>1. o \in X  BY <1>6, <1>11
    <2>2. Len(objects[s]) # n  BY <2>1, <1>5, <1>8, <1>9, <1>11, FS_Subset
    <2> QED  BY <2>2, <1>1, <1>8, <1>10
<1> QED  BY <1>1, <1>8, <1>10, <1>11 DEF n

\* One span changes: the free objects of a class lose those it had and gain
\* those it has.
LEMMA FreeChange ==
    ASSUME OInv, NEW s \in Spans, NEW d \in Classes, nonempty'[d] \in Seq(Spans),
           \A x \in Spans \ {s} :
                /\ objects'[x] = objects[x]
                /\ x \in ToSet(nonempty'[d]) <=> x \in ToSet(nonempty[d])
    PROVE  /\ s \notin ToSet(nonempty'[d]) => FreeOf(d)' = FreeOf(d) \ ToSet(objects[s])
           /\ s \in ToSet(nonempty'[d]) =>
                FreeOf(d)' = (FreeOf(d) \ ToSet(objects[s])) \cup ToSet(objects'[s])
           /\ s \notin ToSet(nonempty[d]) => FreeOf(d) \cap ToSet(objects[s]) = {}
           /\ s \in ToSet(nonempty[d]) => ToSet(objects[s]) \subseteq FreeOf(d)
<1>1. PICK loc : Located(loc) /\ Classed(loc)  BY DEF OInv, Placed
<1>2. nonempty[d] \in Seq(Spans)  BY DEF OInv, Typed
<1>3. ToSet(nonempty[d]) \subseteq Spans /\ ToSet(nonempty'[d]) \subseteq Spans  BY <1>2, ListFacts
<1>4. \A x \in Spans \ {s} : ToSet(objects[x]) \cap ToSet(objects[s]) = {}
    <2> SUFFICES ASSUME NEW x \in Spans \ {s}, NEW o \in ToSet(objects[x]), o \in ToSet(objects[s])
                 PROVE  FALSE
        OBVIOUS
    <2>1. objects[x] \in Seq(Objects)  BY DEF OInv, Typed
    <2>2. o \in Objects  BY <2>1, ListFacts
    <2>3. SpanOf(o) = x /\ SpanOf(o) = s  BY <1>1, <2>2, OfTheSpan
    <2> QED  BY <2>3
<1>5. FreeOf(d)' = UNION {ToSet(objects'[x]) : x \in ToSet(nonempty'[d])}  BY DEF FreeOf, ToSet
<1>6. FreeOf(d) = UNION {ToSet(objects[x]) : x \in ToSet(nonempty[d])}  BY DEF FreeOf
<1>7. \A o : o \in FreeOf(d)' <=> \E x \in ToSet(nonempty'[d]) : o \in ToSet(objects'[x])
    BY <1>5
<1>8. \A o : o \in FreeOf(d) <=> \E x \in ToSet(nonempty[d]) : o \in ToSet(objects[x])
    BY <1>6
<1>9. \A o : o \in FreeOf(d) \ ToSet(objects[s]) <=>
             \E x \in ToSet(nonempty'[d]) \ {s} : o \in ToSet(objects'[x])
    <2>1. \A x \in Spans \ {s} : ToSet(objects'[x]) = ToSet(objects[x])  OBVIOUS
    <2> QED  BY <1>3, <1>4, <1>8, <2>1
<1>10. ASSUME s \notin ToSet(nonempty'[d]) PROVE FreeOf(d)' = FreeOf(d) \ ToSet(objects[s])
    BY <1>7, <1>9, <1>10
<1>11. ASSUME s \in ToSet(nonempty'[d])
       PROVE  FreeOf(d)' = (FreeOf(d) \ ToSet(objects[s])) \cup ToSet(objects'[s])
    BY <1>7, <1>9, <1>11
<1>12. ASSUME s \notin ToSet(nonempty[d]) PROVE FreeOf(d) \cap ToSet(objects[s]) = {}
    BY <1>3, <1>4, <1>8, <1>12
<1>13. ASSUME s \in ToSet(nonempty[d]) PROVE ToSet(objects[s]) \subseteq FreeOf(d)
    BY <1>8, <1>13
<1> QED  BY <1>10, <1>11, <1>12, <1>13

\* The free objects of a class do not change with a span of another.
LEMMA FreeSame ==
    ASSUME OInv, NEW s \in Spans, NEW d \in Classes, nonempty'[d] \in Seq(Spans),
           \A x \in Spans \ {s} :
                /\ objects'[x] = objects[x]
                /\ x \in ToSet(nonempty'[d]) <=> x \in ToSet(nonempty[d]),
           s \notin ToSet(nonempty[d]), s \notin ToSet(nonempty'[d])
    PROVE  FreeOf(d)' = FreeOf(d)
<1>1. /\ FreeOf(d)' = FreeOf(d) \ ToSet(objects[s])
      /\ FreeOf(d) \cap ToSet(objects[s]) = {}
    BY FreeChange
<1> QED  BY <1>1

\* counter_ of one class changes with its free objects, and no other.
LEMMA CounterMoves ==
    ASSUME SInv, NEW c \in Classes, NEW F, FreeOf(c)' = F,
           IsFiniteSet(F), counter'[c] = Cardinality(F),
           \A d \in Classes \ {c} : counter'[d] = counter[d] /\ FreeOf(d)' = FreeOf(d)
    PROVE  CounterRight'
<1>1. ASSUME NEW d \in Classes PROVE IsFiniteSet(FreeOf(d)') /\ counter'[d] = Cardinality(FreeOf(d)')
    <2>1. CASE d = c  BY <2>1
    <2>2. CASE d # c
        <3>1. IsFiniteSet(FreeOf(d)) /\ counter[d] = Cardinality(FreeOf(d))
            BY DEF SInv, CounterRight
        <3>2. FreeOf(d)' = FreeOf(d) /\ counter'[d] = counter[d]  BY <2>2
        <3>3. PICK G : G = FreeOf(d)  OBVIOUS
        <3> QED  BY <3>1, <3>2, <3>3
    <2> QED  BY <2>1, <2>2
<1> QED  BY <1>1 DEF CounterRight

\* One span changes, and what the lists hold of the others does not: the spans
\* that are empty, on a list or idle are right if that one is.
LEMMA OneSpanMoves ==
    ASSUME OInv, SInv, NEW t \in Threads, Alone(t), NEW s \in Spans,
           nonempty' \in [Classes -> Seq(Spans)],
           empty' \in [Classes -> SUBSET Spans],
           \A x \in Spans \ {s} :
                /\ objects'[x] = objects[x] /\ refcount'[x] = refcount[x] /\ sizeclass'[x] = sizeclass[x]
                /\ InFlight(x)' <=> InFlight(x)
                /\ \A d \in Classes : /\ x \in empty'[d] <=> x \in empty[d]
                                      /\ x \in ToSet(nonempty'[d]) <=> x \in ToSet(nonempty[d]),
           pc[t] = "refetch" => span[t] \in {s, NoSpan},
           \A d \in Classes : s \in empty'[d] =>
                d # 0 /\ objects'[s] = <<>> /\ sizeclass'[s] = d /\ ~ InFlight(s)',
           sizeclass'[s] # 0 /\ ~ InFlight(s)' => Attached(s, sizeclass[s])',
           \A d \in Classes : Attached(s, d)' /\ refcount'[s] = 0 =>
                \E u \in Threads : pc'[u] = "refetch" /\ span'[u] = s
    PROVE  Emptied' /\ Tracked' /\ NoIdleSpan'
<1>1. \A x \in Spans \ {s}, d \in Classes : Attached(x, d)' <=> Attached(x, d)
    BY DEF Attached, ToSet
<1>2. Emptied'
    <2> SUFFICES ASSUME NEW d \in Classes, NEW x \in empty'[d]
                 PROVE  d # 0 /\ objects'[x] = <<>> /\ sizeclass'[x] = d /\ ~ InFlight(x)'
        BY DEF Emptied
    <2>1. x \in Spans  OBVIOUS
    <2>2. CASE x = s  BY <2>2
    <2>3. CASE x # s  BY <2>1, <2>3 DEF SInv, Emptied
    <2> QED  BY <2>2, <2>3
<1>3. Tracked'
    <2> SUFFICES ASSUME NEW x \in Spans, sizeclass'[x] # 0, ~ InFlight(x)'
                 PROVE  Attached(x, sizeclass[x])'
        BY DEF Tracked
    <2>1. CASE x = s  BY <2>1
    <2>2. CASE x # s
        <3>1. sizeclass[x] \in Classes /\ sizeclass'[x] = sizeclass[x]  BY <2>2 DEF OInv, Typed
        <3>2. Attached(x, sizeclass[x])  BY <2>2, <3>1 DEF SInv, Tracked
        <3> QED  BY <2>2, <3>1, <3>2 DEF Attached, ToSet
    <2> QED  BY <2>1, <2>2
<1>4. NoIdleSpan'
    <2> SUFFICES ASSUME NEW d \in Classes, NEW x \in Spans, Attached(x, d)', refcount'[x] = 0
                 PROVE  \E u \in Threads : pc'[u] = "refetch" /\ span'[u] = x
        BY DEF NoIdleSpan
    <2>1. CASE x = s  BY <2>1
    <2>2. CASE x # s
        <3>1. PICK u \in Threads : pc[u] = "refetch" /\ span[u] = x
            BY <1>1, <2>2 DEF SInv, NoIdleSpan
        <3>2. u # t  BY <2>2, <3>1, NullAssumption
        <3> QED  BY <3>1, <3>2 DEF Alone
    <2> QED  BY <2>1, <2>2
<1> QED  BY <1>2, <1>3, <1>4

\* A thread's new span is as it was if nobody touches it or the list it is on.
LEMMA OthersNewSpan ==
    ASSUME SInv, NEW t \in Threads, Alone(t), NEW u \in Threads \ {t},
           pc[u] = "attach" /\ span[u] # NoSpan => refcount'[span[u]] = refcount[span[u]],
           pc[u] = "refetch" => nonempty'[cl[u]] = nonempty[cl[u]]
    PROVE  NewSpan(u)'
BY DEF Alone, SInv, NewSpan

\* A step that touches no span and no list.
LEMMA BooksKept ==
    ASSUME OInv, SInv, NEW t \in Threads, Alone(t),
           UNCHANGED <<nonempty, empty, counter, sizeclass, objects, refcount>>,
           ~ Carries(t), ~ Carries(t)',
           pc[t] = "refetch" => span[t] = NoSpan,
           pc'[t] = "refetch" => span'[t] = NoSpan
    PROVE  SInv'
<1>1. \A x \in Spans : InFlight(x)' <=> InFlight(x)  BY FlightsKept
<1>2. Emptied'
    <2>1. \A d \in Classes : \A x \in empty[d] : x \in Spans  BY DEF SInv
    <2> QED  BY <1>1, <2>1 DEF SInv, Emptied
<1>3. Tracked'  BY <1>1 DEF SInv, Tracked, Attached, ToSet
<1>4. CounterRight'  BY DEF SInv, CounterRight, FreeOf, ToSet
<1>5. ASSUME NEW u \in Threads PROVE NewSpan(u)'
    <2>1. CASE u = t  BY <2>1 DEF NewSpan, Carries
    <2>2. CASE u # t  BY <2>2, OthersNewSpan
    <2> QED  BY <2>1, <2>2
<1>6. NoIdleSpan'
    <2> SUFFICES ASSUME NEW d \in Classes, NEW x \in Spans, Attached(x, d)', refcount'[x] = 0
                 PROVE  \E u \in Threads : pc'[u] = "refetch" /\ span'[u] = x
        BY DEF NoIdleSpan
    <2>1. Attached(x, d)  BY DEF Attached, ToSet
    <2>2. PICK u \in Threads : pc[u] = "refetch" /\ span[u] = x  BY <2>1 DEF SInv, NoIdleSpan
    <2>3. u # t  BY <2>2, NullAssumption
    <2> QED  BY <2>2, <2>3 DEF Alone
<1> QED  BY <1>2, <1>3, <1>4, <1>5, <1>6 DEF SInv

\* A function changes at t at most.
OnlyAt(f, g, t) == g = f \/ \E x : g = [f EXCEPT ![t] = x]

LEMMA OnlyAtAlone ==
    ASSUME IInv, OInv, NEW t \in Threads,
           OnlyAt(pc, pc', t), OnlyAt(cl, cl', t), OnlyAt(victim, victim', t), OnlyAt(span, span', t),
           OnlyAt(range, range', t), OnlyAt(rel, rel', t), OnlyAt(got, got', t)
    PROVE  Alone(t)
<1>1. \A f, g : DOMAIN f = Threads /\ OnlyAt(f, g, t) => \A u \in Threads \ {t} : g[u] = f[u]
    BY DEF OnlyAt
<1>2. /\ DOMAIN pc = Threads /\ DOMAIN cl = Threads /\ DOMAIN victim = Threads
      /\ DOMAIN span = Threads /\ DOMAIN range = Threads /\ DOMAIN rel = Threads
      /\ DOMAIN got = Threads
    BY ThreadFacts DEF OInv, Typed
<1> QED  BY <1>1, <1>2 DEF Alone

\* The steps that move objects between lists of objects and take or drop locks.
LEMMA QuietBooks ==
    ASSUME IInv, OInv, SInv, NEW t \in Threads,
           \/ \E c \in UsedClasses : RemoveFromCache(t, c) \/ RemoveBegin(t, c)
           \/ \E c \in UsedClasses : \E l \in Ranges(c) : InsertIntoCache(t, c, l) \/ InsertBegin(t, c, l)
           \/ FetchNothing(t) \/ Evict(t) \/ PeekSize(t) \/ PeekUsed(t)
           \/ Shrink(t) \/ Revert(t) \/ Relock(t)
    PROVE  SInv'
<1> DEFINE Local ==
             /\ OnlyAt(cl, cl', t) /\ OnlyAt(victim, victim', t) /\ OnlyAt(range, range', t)
             /\ OnlyAt(rel, rel', t) /\ OnlyAt(got, got', t)
           Same == UNCHANGED <<nonempty, empty, counter, sizeclass, objects, refcount>>
           Quiet == {"idle", "fetch", "populate", "evict", "peek_size", "peek_used", "shrink",
                     "revert", "release", "relock"}
           Moved == pc' = pc \/ \E l \in Quiet : pc' = [pc EXCEPT ![t] = l]
           Dropped == span' = span \/ span' = [span EXCEPT ![t] = NoSpan]
<1> DEFINE Begins == \E c \in UsedClasses : RemoveBegin(t, c) \/ \E l \in Ranges(c) : InsertBegin(t, c, l)
           Caches == \E c \in UsedClasses : RemoveFromCache(t, c) \/ \E l \in Ranges(c) : InsertIntoCache(t, c, l)
<1>0. Begins \/ Caches \/ FetchNothing(t) \/ Evict(t) \/ PeekSize(t) \/ PeekUsed(t)
        \/ Shrink(t) \/ Revert(t) \/ Relock(t)
    OBVIOUS
<1>1. Same
    <2>1. CASE Begins  BY <2>1 DEF RemoveBegin, InsertBegin, Acquire, GoTo, shared, spans, locals
    <2>2. CASE Caches  BY <2>2 DEF RemoveFromCache, InsertIntoCache, shared, spans, locals
    <2>3. CASE FetchNothing(t)  BY <2>3 DEF FetchNothing, ReturnObjects, GoTo, shared, spans, locals
    <2>4. CASE Evict(t)  BY <2>4 DEF Evict, EvictFailed, GoTo, shared, spans, locals
    <2>5. CASE PeekSize(t) \/ PeekUsed(t)  BY <2>5 DEF PeekSize, PeekUsed, EvictFailed, GoTo, shared, spans, locals
    <2>6. CASE Shrink(t)  BY <2>6 DEF Shrink, GoTo, shared, spans, locals
    <2>7. CASE Revert(t)  BY <2>7 DEF Revert, EvictFailed, GoTo, shared, spans, locals
    <2>8. CASE Relock(t)  BY <2>8 DEF Relock, ReleaseDone, GoTo, shared, spans, locals
    <2> QED  BY <1>0, <2>1, <2>2, <2>3, <2>4, <2>5, <2>6, <2>7, <2>8
<1>2. pc[t] \in Quiet \/ (pc[t] = "refetch" /\ nonempty[cl[t]] = <<>>)
    <2>1. CASE Begins  BY <2>1, Zenon DEF RemoveBegin, InsertBegin
    <2>2. CASE Caches  BY <2>2, Zenon DEF RemoveFromCache, InsertIntoCache
    <2>3. CASE FetchNothing(t)  BY <2>3, Zenon DEF FetchNothing
    <2>4. CASE Evict(t)  BY <2>4, Zenon DEF Evict
    <2>5. CASE PeekSize(t) \/ PeekUsed(t)  BY <2>5, Zenon DEF PeekSize, PeekUsed
    <2>6. CASE Shrink(t)  BY <2>6, Zenon DEF Shrink
    <2>7. CASE Revert(t)  BY <2>7, Zenon DEF Revert
    <2>8. CASE Relock(t)  BY <2>8, Zenon DEF Relock
    <2> QED  BY <1>0, <2>1, <2>2, <2>3, <2>4, <2>5, <2>6, <2>7, <2>8
<1>3. Moved
    <2>1. CASE Begins  BY <2>1 DEF RemoveBegin, InsertBegin, Acquire, GoTo, shared, spans, locals
    <2>2. CASE Caches  BY <2>2 DEF RemoveFromCache, InsertIntoCache, shared, spans, locals
    <2>3. CASE FetchNothing(t)  BY <2>3 DEF FetchNothing, ReturnObjects, GoTo, shared, spans, locals
    <2>4. CASE Evict(t)  BY <2>4 DEF Evict, EvictFailed, GoTo, shared, spans, locals
    <2>5. CASE PeekSize(t) \/ PeekUsed(t)  BY <2>5 DEF PeekSize, PeekUsed, EvictFailed, GoTo, shared, spans, locals
    <2>6. CASE Shrink(t)  BY <2>6 DEF Shrink, GoTo, shared, spans, locals
    <2>7. CASE Revert(t)  BY <2>7 DEF Revert, EvictFailed, GoTo, shared, spans, locals
    <2>8. CASE Relock(t)  BY <2>8 DEF Relock, ReleaseDone, GoTo, shared, spans, locals
    <2> QED  BY <1>0, <2>1, <2>2, <2>3, <2>4, <2>5, <2>6, <2>7, <2>8
<1>4. Dropped
    <2>1. CASE Begins  BY <2>1 DEF RemoveBegin, InsertBegin, Acquire, GoTo, shared, spans, locals
    <2>2. CASE Caches  BY <2>2 DEF RemoveFromCache, InsertIntoCache, shared, spans, locals
    <2>3. CASE FetchNothing(t)  BY <2>3 DEF FetchNothing, ReturnObjects, GoTo, shared, spans, locals
    <2>4. CASE Evict(t)  BY <2>4 DEF Evict, EvictFailed, GoTo, shared, spans, locals
    <2>5. CASE PeekSize(t) \/ PeekUsed(t)  BY <2>5 DEF PeekSize, PeekUsed, EvictFailed, GoTo, shared, spans, locals
    <2>6. CASE Shrink(t)  BY <2>6 DEF Shrink, GoTo, shared, spans, locals
    <2>7. CASE Revert(t)  BY <2>7 DEF Revert, EvictFailed, GoTo, shared, spans, locals
    <2>8. CASE Relock(t)  BY <2>8 DEF Relock, ReleaseDone, GoTo, shared, spans, locals
    <2> QED  BY <1>0, <2>1, <2>2, <2>3, <2>4, <2>5, <2>6, <2>7, <2>8
<1>5. Local
    <2>1. CASE Begins  BY <2>1 DEF RemoveBegin, InsertBegin, Acquire, GoTo, OnlyAt, shared, spans, locals
    <2>2. CASE Caches  BY <2>2 DEF RemoveFromCache, InsertIntoCache, OnlyAt, shared, spans, locals
    <2>3. CASE FetchNothing(t)  BY <2>3 DEF FetchNothing, ReturnObjects, GoTo, OnlyAt, shared, spans, locals
    <2>4. CASE Evict(t)  BY <2>4 DEF Evict, EvictFailed, GoTo, OnlyAt, shared, spans, locals
    <2>5. CASE PeekSize(t) \/ PeekUsed(t)  BY <2>5 DEF PeekSize, PeekUsed, EvictFailed, GoTo, OnlyAt, shared, spans, locals
    <2>6. CASE Shrink(t)  BY <2>6 DEF Shrink, GoTo, OnlyAt, shared, spans, locals
    <2>7. CASE Revert(t)  BY <2>7 DEF Revert, EvictFailed, GoTo, OnlyAt, shared, spans, locals
    <2>8. CASE Relock(t)  BY <2>8 DEF Relock, ReleaseDone, GoTo, OnlyAt, shared, spans, locals
    <2> QED  BY <1>0, <2>1, <2>2, <2>3, <2>4, <2>5, <2>6, <2>7, <2>8
<1>6. /\ Local /\ Same /\ Moved /\ Dropped
      /\ pc[t] \in Quiet \/ (pc[t] = "refetch" /\ nonempty[cl[t]] = <<>>)
    BY <1>1, <1>2, <1>3, <1>4, <1>5
<1>7. Alone(t)
    <2>1. OnlyAt(pc, pc', t) /\ OnlyAt(span, span', t)  BY <1>6 DEF OnlyAt
    <2> QED  BY <1>6, <2>1, OnlyAtAlone
<1>8. pc[t] = "refetch" => span[t] = NoSpan
    <2>1. AtLabel(t)  BY DEF OInv
    <2> QED  BY <1>6, <2>1 DEF AtLabel
<1>9. pc'[t] = pc[t] \/ pc'[t] \in Quiet  BY <1>6, ThreadFacts
<1>10. span'[t] = span[t] \/ span'[t] = NoSpan  BY <1>6 DEF OInv, Typed
<1>11. ~ Carries(t) /\ ~ Carries(t)'  BY <1>6, <1>9 DEF Carries
<1>12. pc'[t] = "refetch" => span'[t] = NoSpan  BY <1>6, <1>8, <1>9, <1>10
<1> QED  BY <1>6, <1>7, <1>8, <1>11, <1>12, BooksKept

\* The first free object of the first span leaves: the span is not idle any
\* more, and moves to empty_ if that was its last.
LEMMA FetchBooks ==
    ASSUME IInv, OInv, SInv, NEW t \in Threads, FetchObject(t) PROVE SInv'
<1>1. PICK c \in Classes : c = cl[t]  BY ThreadFacts
<1>2. PICK loc : Located(loc) /\ Classed(loc)  BY DEF OInv, Placed
<1>3. /\ pc[t] \in {"fetch", "refetch"} /\ FetchFromSpans(t)
      /\ UNCHANGED <<sizeclass, cl, range, rel, victim>>
      /\ span' = [span EXCEPT ![t] = NoSpan]
      /\ pc' = [pc EXCEPT ![t] = "idle"] \/ pc' = [pc EXCEPT ![t] = "fetch"]
      /\ OnlyAt(got, got', t)
    BY DEF FetchObject, ReturnObjects, GoTo, OnlyAt
<1>4. Alone(t)  BY <1>3, OnlyAtAlone DEF OnlyAt
<1>5. pc'[t] \in {"idle", "fetch"} /\ span'[t] = NoSpan /\ ~ Carries(t) /\ ~ Carries(t)'
    BY <1>3, ThreadFacts DEF OInv, Typed, Carries
<1>6. \A x \in Spans : InFlight(x)' <=> InFlight(x)  BY <1>4, <1>5, FlightsKept
<1>7. nonempty[c] # <<>> /\ nonempty[c] \in Seq(Spans) /\ IsInjective(nonempty[c])
    BY <1>1, <1>3 DEF FetchFromSpans, OInv, Typed, Listed
<1>8. PICK s \in Spans, q \in Seq(Spans) :
         /\ s = Head(nonempty[c]) /\ q = Tail(nonempty[c]) /\ s \in ToSet(nonempty[c])
         /\ ToSet(nonempty[c]) = {s} \cup ToSet(q) /\ s \notin ToSet(q)
    BY <1>7, HeadTail
<1>9. /\ c # 0 /\ objects[s] # <<>> /\ sizeclass[s] = c /\ ~ InFlight(s)
      /\ objects[s] \in Seq(Objects) /\ IsInjective(objects[s]) /\ refcount[s] \in Int
    BY <1>8 DEF OInv, SpansKept, OnList, Typed, Listed
<1>10. PICK o \in Objects, r \in Seq(Objects) :
         /\ o \in ToSet(objects[s]) /\ r = Tail(objects[s])
         /\ ToSet(objects[s]) = {o} \cup ToSet(r) /\ o \notin ToSet(r)
    BY <1>9, HeadTail
<1>11. /\ refcount' = [refcount EXCEPT ![s] = refcount[s] + 1]
       /\ objects' = [objects EXCEPT ![s] = r]
       /\ nonempty' = IF r = <<>> THEN [nonempty EXCEPT ![c] = q] ELSE nonempty
       /\ empty' = IF r = <<>> THEN [empty EXCEPT ![c] = empty[c] \cup {s}] ELSE empty
       /\ counter' = [counter EXCEPT ![c] = counter[c] - 1]
    BY <1>1, <1>3, <1>8, <1>10 DEF FetchFromSpans
<1>12. /\ nonempty' \in [Classes -> Seq(Spans)]
       /\ nonempty'[c] = IF r = <<>> THEN q ELSE nonempty[c]
       /\ \A d \in Classes \ {c} : nonempty'[d] = nonempty[d]
    BY <1>11 DEF OInv, Typed
<1>13. /\ empty' \in [Classes -> SUBSET Spans]
       /\ empty'[c] = IF r = <<>> THEN empty[c] \cup {s} ELSE empty[c]
       /\ \A d \in Classes \ {c} : empty'[d] = empty[d]
    <2>1. PICK e \in SUBSET Spans : e = empty[c] \cup {s}  BY DEF SInv
    <2>2. empty' = IF r = <<>> THEN [empty EXCEPT ![c] = e] ELSE empty  BY <1>11, <2>1
    <2> QED  BY <2>1, <2>2 DEF SInv
<1>14. /\ counter' \in [Classes -> Int] /\ counter'[c] = counter[c] - 1
       /\ \A d \in Classes \ {c} : counter'[d] = counter[d]
    <2>1. PICK n \in Int : n = counter[c] - 1  BY DEF SInv
    <2>2. counter' = [counter EXCEPT ![c] = n]  BY <1>11, <2>1
    <2> QED  BY <2>1, <2>2 DEF SInv
<1>15. /\ refcount'[s] = refcount[s] + 1 /\ objects'[s] = r
       /\ \A x \in Spans \ {s} : objects'[x] = objects[x] /\ refcount'[x] = refcount[x]
    BY <1>11 DEF OInv, Typed
<1>16. \A d \in Classes \ {c} : s \notin ToSet(nonempty[d]) /\ s \notin empty[d]
    BY <1>9 DEF OInv, SpansKept, OnList, SInv, Emptied
<1>17. s \notin empty[c]  BY <1>9 DEF SInv, Emptied
<1>18. refcount'[s] # 0
    <2>1. ~ Dying(s)  BY <1>9 DEF Dying, InFlight
    <2>2. refcount[s] + Len(objects[s]) = ObjectsPerSpan[c]
        BY <2>1, <1>9 DEF OInv, SpansKept, Counted
    <2>3. /\ ObjectsPerSpan[c] \in Nat /\ Len(objects[s]) \in Nat
          /\ Len(objects[s]) <= ObjectsPerSpan[c]
        BY <1>2, <1>9, FreeBound
    <2>4. \A a \in Int, m, n \in Nat : a + m = n /\ m <= n => a + 1 # 0  OBVIOUS
    <2> QED  BY <2>2, <2>3, <2>4, <1>9, <1>15
<1>19. Emptied' /\ Tracked' /\ NoIdleSpan'
    <2>1. \A x \in Spans \ {s} :
             /\ objects'[x] = objects[x] /\ refcount'[x] = refcount[x] /\ sizeclass'[x] = sizeclass[x]
             /\ InFlight(x)' <=> InFlight(x)
             /\ \A d \in Classes : /\ x \in empty'[d] <=> x \in empty[d]
                                   /\ x \in ToSet(nonempty'[d]) <=> x \in ToSet(nonempty[d])
        BY <1>3, <1>6, <1>8, <1>12, <1>13, <1>15
    <2>2. pc[t] = "refetch" => span[t] \in {s, NoSpan}  BY <1>1, <1>8 DEF SInv, NewSpan
    <2>3. \A d \in Classes : s \in empty'[d] =>
             d # 0 /\ objects'[s] = <<>> /\ sizeclass'[s] = d /\ ~ InFlight(s)'
        BY <1>3, <1>6, <1>9, <1>13, <1>15, <1>16, <1>17
    <2>4. Attached(s, sizeclass[s])'
        <3>1. s \in empty'[c] \cup ToSet(nonempty'[c])  BY <1>8, <1>12, <1>13
        <3> QED  BY <3>1, <1>3, <1>9 DEF Attached, ToSet
    <2> QED  BY <2>1, <2>2, <2>3, <2>4, <1>4, <1>12, <1>13, <1>18, OneSpanMoves
<1>20. CounterRight'
    <2>1. \A d \in Classes, x \in Spans \ {s} :
             /\ objects'[x] = objects[x]
             /\ x \in ToSet(nonempty'[d]) <=> x \in ToSet(nonempty[d])
        BY <1>8, <1>12, <1>15
    <2>2. FreeOf(c)' = FreeOf(c) \ {o}
        <3>1. /\ s \notin ToSet(nonempty'[c]) => FreeOf(c)' = FreeOf(c) \ ToSet(objects[s])
              /\ s \in ToSet(nonempty'[c]) =>
                   FreeOf(c)' = (FreeOf(c) \ ToSet(objects[s])) \cup ToSet(objects'[s])
              /\ ToSet(objects[s]) \subseteq FreeOf(c)
            BY <2>1, <1>8, <1>12, FreeChange
        <3>2. CASE r = <<>>
            <4>1. ToSet(r) = {}  BY <3>2, EmptyList
            <4> QED  BY <3>1, <3>2, <4>1, <1>8, <1>10, <1>12
        <3>3. CASE r # <<>>
            <4>1. objects'[s] = r /\ s \in ToSet(nonempty'[c])  BY <3>3, <1>8, <1>12, <1>15
            <4>2. FreeOf(c)' = (FreeOf(c) \ ToSet(objects[s])) \cup ToSet(r)  BY <3>1, <4>1
            <4> QED  BY <3>1, <4>2, <1>10
        <3> QED  BY <3>2, <3>3
    <2>3. o \in FreeOf(c)  BY <1>8, <1>10 DEF FreeOf
    <2>4. PICK F : F = FreeOf(c)  OBVIOUS
    <2>5. IsFiniteSet(F) /\ counter[c] = Cardinality(F)  BY <2>4 DEF SInv, CounterRight
    <2>6. /\ FreeOf(c)' = F \ {o} /\ IsFiniteSet(F \ {o})
          /\ counter'[c] = Cardinality(F \ {o})
        <3>1. o \in F  BY <2>3, <2>4
        <3>2. IsFiniteSet(F \ {o}) /\ Cardinality(F \ {o}) = Cardinality(F) - 1
            BY <2>5, <3>1, FS_RemoveElement
        <3>3. FreeOf(c)' = F \ {o}  BY <2>2, <2>4
        <3> QED  BY <3>2, <3>3, <2>5, <1>14
    <2>7. ASSUME NEW d \in Classes \ {c} PROVE FreeOf(d)' = FreeOf(d)
        <3>1. s \notin ToSet(nonempty[d]) /\ s \notin ToSet(nonempty'[d])  BY <1>12, <1>16
        <3> QED  BY <2>1, <3>1, <1>12, FreeSame
    <2> QED  BY <2>6, <2>7, <1>14, CounterMoves
<1>21. ASSUME NEW u \in Threads PROVE NewSpan(u)'
    <2>1. CASE u = t  BY <2>1, <1>5 DEF NewSpan
    <2>2. CASE u # t
        <3>1. pc[u] = "attach" /\ span[u] # NoSpan => refcount'[span[u]] = refcount[span[u]]
            <4> SUFFICES ASSUME pc[u] = "attach", span[u] # NoSpan
                         PROVE  refcount'[span[u]] = refcount[span[u]]
                OBVIOUS
            <4>1. span[u] \in Spans /\ InFlight(span[u])  BY CarriedInUse DEF Carries
            <4> QED  BY <4>1, <1>9, <1>15
        <3>2. pc[u] = "refetch" => nonempty'[cl[u]] = nonempty[cl[u]]
            <4>1. Holds(t, c)  BY <1>1, <1>3 DEF Holds
            <4>2. pc[u] = "refetch" => cl[u] \in Classes \ {c}
                BY <2>2, <4>1, ThreadFacts, AloneUnderLock
            <4> QED  BY <4>2, <1>12
        <3> QED  BY <2>2, <3>1, <3>2, <1>4, OthersNewSpan
    <2> QED  BY <2>1, <2>2
<1> QED  BY <1>13, <1>14, <1>19, <1>20, <1>21 DEF SInv

\* An object comes back to a span that others are still out of: the span has a
\* free object now, and is on nonempty_ if it was not.
LEMMA ReleaseBooks ==
    ASSUME IInv, OInv, SInv, NEW t \in Threads, ReleaseObject(t) PROVE SInv'
<1>1. PICK loc : Located(loc) /\ Classed(loc)  BY DEF OInv, Placed
<1>2. pc[t] = "release"  BY DEF ReleaseObject
<1>3. PICK c \in Classes, o \in Objects, s \in Spans, r \in Seq(Objects) : Releases(loc, t, c, o, s, r)
    BY <1>1, <1>2, ReleaseFacts
<1>4. /\ c = ReleaseClass(t) /\ c # 0 /\ o = Head(rel[t]) /\ s = SpanOf(o) /\ Exists(o)
      /\ sizeclass[s] = c /\ ~ InFlight(s) /\ o \notin ToSet(objects[s])
      /\ \A u \in Threads \ {t} : pc[u] = "refetch" => cl[u] \in Classes \ {c}
    BY <1>3 DEF Releases, ElsewhereNot
<1>5. /\ refcount[s] # 1
      /\ refcount' = [refcount EXCEPT ![s] = refcount[s] - 1]
      /\ objects' = [objects EXCEPT ![s] = <<o>> \o objects[s]]
      /\ counter' = [counter EXCEPT ![c] = counter[c] + 1]
      /\ IF objects[s] = <<>>
         THEN /\ empty' = [empty EXCEPT ![c] = empty[c] \ {s}]
              /\ nonempty' = [nonempty EXCEPT ![c] = <<s>> \o nonempty[c]]
         ELSE UNCHANGED <<empty, nonempty>>
      /\ UNCHANGED <<sizeclass, cl, range, got, span, victim>>
    BY <1>4 DEF ReleaseObject, LastObjectOut, MoveToNonempty
<1>6. /\ OnlyAt(rel, rel', t)
      /\ pc' = pc \/ pc' = [pc EXCEPT ![t] = "idle"] \/ pc' = [pc EXCEPT ![t] = "revert"]
    BY DEF ReleaseObject, ReleaseDone, GoTo, OnlyAt
<1>7. Alone(t)  BY <1>5, <1>6, OnlyAtAlone DEF OnlyAt
<1>8. pc'[t] \in {"release", "idle", "revert"} /\ ~ Carries(t) /\ ~ Carries(t)'
    BY <1>2, <1>6, ThreadFacts DEF Carries
<1>9. \A x \in Spans : InFlight(x)' <=> InFlight(x)  BY <1>7, <1>8, FlightsKept
<1>10. span[t] = NoSpan /\ span'[t] = NoSpan
    <2>1. AtLabel(t)  BY DEF OInv
    <2> QED  BY <2>1, <1>2, <1>5 DEF AtLabel
<1>11. objects[s] \in Seq(Objects) /\ refcount[s] \in Int /\ nonempty[c] \in Seq(Spans)
    BY DEF OInv, Typed
<1>12. PICK q \in Seq(Objects) :
         q = <<o>> \o objects[s] /\ q # <<>> /\ ToSet(q) = {o} \cup ToSet(objects[s])
    BY <1>11, ConsList
<1>13. PICK l \in Seq(Spans) : l = <<s>> \o nonempty[c] /\ ToSet(l) = {s} \cup ToSet(nonempty[c])
    BY <1>11, ConsList
<1>14. s \in empty[c] \cup ToSet(nonempty[c])  BY <1>4 DEF SInv, Tracked, Attached
<1>15. objects[s] # <<>> => s \in ToSet(nonempty[c])  BY <1>14 DEF SInv, Emptied
<1>16. objects[s] = <<>> => s \notin ToSet(nonempty[c])  BY DEF OInv, SpansKept, OnList
<1>17. \A d \in Classes \ {c} : s \notin ToSet(nonempty[d]) /\ s \notin empty[d]
    BY <1>4 DEF OInv, SpansKept, OnList, SInv, Emptied
<1>18. /\ nonempty' \in [Classes -> Seq(Spans)]
       /\ nonempty'[c] = IF objects[s] = <<>> THEN l ELSE nonempty[c]
       /\ \A d \in Classes \ {c} : nonempty'[d] = nonempty[d]
    <2>1. nonempty' = IF objects[s] = <<>> THEN [nonempty EXCEPT ![c] = l] ELSE nonempty
        BY <1>5, <1>13
    <2> QED  BY <2>1 DEF OInv, Typed
<1>19. /\ empty' \in [Classes -> SUBSET Spans]
       /\ empty'[c] = empty[c] \ {s}
       /\ \A d \in Classes \ {c} : empty'[d] = empty[d]
    <2>1. PICK e \in SUBSET Spans : e = empty[c] \ {s}  BY DEF SInv
    <2>2. objects[s] # <<>> => e = empty[c]  BY <2>1 DEF SInv, Emptied
    <2>3. empty' = IF objects[s] = <<>> THEN [empty EXCEPT ![c] = e] ELSE empty  BY <1>5, <2>1
    <2> QED  BY <2>1, <2>2, <2>3 DEF SInv
<1>20. /\ counter' \in [Classes -> Int] /\ counter'[c] = counter[c] + 1
       /\ \A d \in Classes \ {c} : counter'[d] = counter[d]
    <2>1. PICK n \in Int : n = counter[c] + 1  BY DEF SInv
    <2>2. counter' = [counter EXCEPT ![c] = n]  BY <1>5, <2>1
    <2> QED  BY <2>1, <2>2 DEF SInv
<1>21. /\ refcount'[s] = refcount[s] - 1 /\ objects'[s] = q
       /\ \A x \in Spans \ {s} : objects'[x] = objects[x] /\ refcount'[x] = refcount[x]
    BY <1>5, <1>12 DEF OInv, Typed
<1>22. refcount'[s] # 0  BY <1>5, <1>11, <1>21
<1>23. s \in ToSet(nonempty'[c])  BY <1>13, <1>15, <1>18
<1>24. \A x \in Spans \ {s}, d \in Classes :
          /\ objects'[x] = objects[x] /\ refcount'[x] = refcount[x] /\ sizeclass'[x] = sizeclass[x]
          /\ InFlight(x)' <=> InFlight(x)
          /\ x \in empty'[d] <=> x \in empty[d]
          /\ x \in ToSet(nonempty'[d]) <=> x \in ToSet(nonempty[d])
    BY <1>5, <1>9, <1>13, <1>18, <1>19, <1>21
<1>25. Emptied' /\ Tracked' /\ NoIdleSpan'
    <2>1. \A x \in Spans \ {s} :
             /\ objects'[x] = objects[x] /\ refcount'[x] = refcount[x] /\ sizeclass'[x] = sizeclass[x]
             /\ InFlight(x)' <=> InFlight(x)
             /\ \A d \in Classes : /\ x \in empty'[d] <=> x \in empty[d]
                                   /\ x \in ToSet(nonempty'[d]) <=> x \in ToSet(nonempty[d])
        BY <1>4, <1>24
    <2>2. \A d \in Classes : s \notin empty'[d]  BY <1>17, <1>19
    <2>3. Attached(s, sizeclass[s])'
        <3>1. s \in empty'[c] \cup ToSet(nonempty'[c])  BY <1>23
        <3> QED  BY <3>1, <1>4, <1>5 DEF Attached, ToSet
    <2> QED  BY <2>1, <2>2, <2>3, <1>2, <1>7, <1>18, <1>19, <1>22, OneSpanMoves
<1>26. CounterRight'
    <2>1. PICK F : F = FreeOf(c)  OBVIOUS
    <2>2. IsFiniteSet(F) /\ counter[c] = Cardinality(F)  BY <2>1 DEF SInv, CounterRight
    <2>3. \A d \in Classes, x \in Spans \ {s} :
             /\ objects'[x] = objects[x]
             /\ x \in ToSet(nonempty'[d]) <=> x \in ToSet(nonempty[d])
        BY <1>24
    <2>4. FreeOf(c)' = F \cup {o}
        <3>1. /\ FreeOf(c)' = (FreeOf(c) \ ToSet(objects[s])) \cup ToSet(objects'[s])
              /\ s \notin ToSet(nonempty[c]) => FreeOf(c) \cap ToSet(objects[s]) = {}
              /\ s \in ToSet(nonempty[c]) => ToSet(objects[s]) \subseteq FreeOf(c)
            BY <2>3, <1>18, <1>23, FreeChange
        <3>2. FreeOf(c)' = (F \ ToSet(objects[s])) \cup ToSet(q)  BY <3>1, <2>1, <1>21
        <3>3. objects[s] = <<>> => ToSet(objects[s]) = {}  BY EmptyList
        <3>4. ToSet(objects[s]) \subseteq F  BY <3>1, <3>3, <2>1, <1>15
        <3> QED  BY <3>2, <3>4, <1>12
    <2>5. o \notin F
        <3>1. ASSUME NEW x \in ToSet(nonempty[c]), o \in ToSet(objects[x]) PROVE FALSE
            <4>1. x \in Spans  BY <1>11, ListFacts
            <4>2. SpanOf(o) = x  BY <1>1, <3>1, <4>1, OfTheSpan
            <4> QED  BY <3>1, <4>2, <1>4
        <3> QED  BY <3>1, <2>1 DEF FreeOf
    <2>6. IsFiniteSet(F \cup {o}) /\ counter'[c] = Cardinality(F \cup {o})
        <3>1. IsFiniteSet(F \cup {o}) /\ Cardinality(F \cup {o}) = Cardinality(F) + 1
            BY <2>2, <2>5, FS_AddElement
        <3> QED  BY <3>1, <2>2, <1>20
    <2>7. ASSUME NEW d \in Classes \ {c} PROVE FreeOf(d)' = FreeOf(d)
        <3>1. s \notin ToSet(nonempty[d]) /\ s \notin ToSet(nonempty'[d])  BY <1>17, <1>18
        <3> QED  BY <2>3, <3>1, <1>18, FreeSame
    <2> QED  BY <2>4, <2>6, <2>7, <1>20, CounterMoves
<1>27. ASSUME NEW u \in Threads PROVE NewSpan(u)'
    <2>1. CASE u = t  BY <2>1, <1>10 DEF NewSpan
    <2>2. CASE u # t
        <3>1. pc[u] = "attach" /\ span[u] # NoSpan => refcount'[span[u]] = refcount[span[u]]
            <4> SUFFICES ASSUME pc[u] = "attach", span[u] # NoSpan
                         PROVE  refcount'[span[u]] = refcount[span[u]]
                OBVIOUS
            <4>1. span[u] \in Spans /\ InFlight(span[u])  BY CarriedInUse DEF Carries
            <4> QED  BY <4>1, <1>4, <1>21
        <3>2. pc[u] = "refetch" => nonempty'[cl[u]] = nonempty[cl[u]]  BY <2>2, <1>4, <1>18
        <3> QED  BY <2>2, <3>1, <3>2, <1>7, OthersNewSpan
    <2> QED  BY <2>1, <2>2
<1> QED  BY <1>19, <1>20, <1>25, <1>26, <1>27 DEF SInv

\* The last object that was out comes back: the span leaves its list, and its
\* free objects leave counter_ with the one just counted.
LEMMA ReleaseLastBooks ==
    ASSUME IInv, OInv, SInv, NEW t \in Threads, ReleaseLastObject(t) PROVE SInv'
<1>1. PICK loc : Located(loc) /\ Classed(loc)  BY DEF OInv, Placed
<1>2. pc[t] = "release"  BY DEF ReleaseLastObject
<1>3. PICK c \in Classes, o \in Objects, s \in Spans, r \in Seq(Objects) : Releases(loc, t, c, o, s, r)
    BY <1>1, <1>2, ReleaseFacts
<1>4. /\ c = ReleaseClass(t) /\ c # 0 /\ o = Head(rel[t]) /\ s = SpanOf(o)
      /\ sizeclass[s] = c /\ ~ InFlight(s)
      /\ \A u \in Threads \ {t} : pc[u] = "refetch" => cl[u] \in Classes \ {c}
    BY <1>3 DEF Releases
<1>5. /\ refcount[s] = 1
      /\ refcount' = [refcount EXCEPT ![s] = 0]
      /\ counter' = [counter EXCEPT ![c] = counter[c] + 1 - ObjectsPerSpan[c]]
      /\ nonempty' = [nonempty EXCEPT ![c] = DLL_Remove(nonempty[c], s)]
      /\ empty' = [empty EXCEPT ![c] = empty[c] \ {s}]
      /\ span' = [span EXCEPT ![t] = s]
      /\ pc' = [pc EXCEPT ![t] = "delete"]
      /\ UNCHANGED <<sizeclass, objects, cl, range, got, victim>>
    BY <1>4 DEF ReleaseLastObject, LastObjectOut, GoTo
<1>6. OnlyAt(rel, rel', t)  BY DEF ReleaseLastObject, OnlyAt
<1>7. Alone(t)  BY <1>5, <1>6, OnlyAtAlone DEF OnlyAt
<1>8. pc'[t] = "delete" /\ span'[t] = s  BY <1>5, ThreadFacts DEF OInv, Typed
<1>9. \A x \in Spans : InFlight(x)' <=> InFlight(x) \/ x = s
    BY <1>2, <1>7, <1>8 DEF Alone, InFlight
<1>10. nonempty[c] \in Seq(Spans) /\ IsInjective(nonempty[c])  BY DEF OInv, Typed, Listed
<1>11. PICK l \in Seq(Spans) : l = DLL_Remove(nonempty[c], s) /\ ToSet(l) = ToSet(nonempty[c]) \ {s}
    BY <1>10, RemoveFromList
<1>12. \A d \in Classes \ {c} : s \notin ToSet(nonempty[d]) /\ s \notin empty[d]
    BY <1>4 DEF OInv, SpansKept, OnList, SInv, Emptied
<1>13. /\ nonempty' \in [Classes -> Seq(Spans)] /\ nonempty'[c] = l
       /\ \A d \in Classes \ {c} : nonempty'[d] = nonempty[d]
    <2>1. nonempty' = [nonempty EXCEPT ![c] = l]  BY <1>5, <1>11
    <2> QED  BY <2>1 DEF OInv, Typed
<1>14. /\ empty' \in [Classes -> SUBSET Spans] /\ empty'[c] = empty[c] \ {s}
       /\ \A d \in Classes \ {c} : empty'[d] = empty[d]
    <2>1. PICK e \in SUBSET Spans : e = empty[c] \ {s}  BY DEF SInv
    <2>2. empty' = [empty EXCEPT ![c] = e]  BY <1>5, <2>1
    <2> QED  BY <2>1, <2>2 DEF SInv
<1>15. PICK m \in Nat : m = Len(objects[s]) /\ ObjectsPerSpan[c] = m + 1
    <2>1. ~ Dying(s)  BY <1>4 DEF Dying, InFlight
    <2>2. refcount[s] + Len(objects[s]) = ObjectsPerSpan[c]
        BY <2>1, <1>4 DEF OInv, SpansKept, Counted
    <2>3. Len(objects[s]) \in Nat  BY <1>1, <1>4, FreeBound
    <2>4. \A n \in Nat : 1 + n = n + 1  OBVIOUS
    <2> QED  BY <2>2, <2>3, <2>4, <1>5
<1>16. /\ counter' \in [Classes -> Int] /\ counter'[c] = counter[c] - m
       /\ \A d \in Classes \ {c} : counter'[d] = counter[d]
    <2>1. PICK n \in Int : n = counter[c] - m  BY DEF SInv
    <2>2. counter[c] + 1 - ObjectsPerSpan[c] = n
        <3>1. counter[c] \in Int  BY DEF SInv
        <3>2. \A a \in Int : a + 1 - (m + 1) = a - m  OBVIOUS
        <3> QED  BY <3>1, <3>2, <2>1, <1>15
    <2>3. counter' = [counter EXCEPT ![c] = n]  BY <1>5, <2>2
    <2> QED  BY <2>1, <2>3 DEF SInv
<1>17. \A x \in Spans \ {s}, d \in Classes :
          /\ objects'[x] = objects[x] /\ refcount'[x] = refcount[x] /\ sizeclass'[x] = sizeclass[x]
          /\ InFlight(x)' <=> InFlight(x)
          /\ x \in empty'[d] <=> x \in empty[d]
          /\ x \in ToSet(nonempty'[d]) <=> x \in ToSet(nonempty[d])
    BY <1>5, <1>9, <1>11, <1>13, <1>14 DEF OInv, Typed
<1>18. \A d \in Classes : s \notin empty'[d] /\ s \notin ToSet(nonempty'[d])
    BY <1>11, <1>12, <1>13, <1>14
<1>19. Emptied' /\ Tracked' /\ NoIdleSpan'
    <2>1. \A x \in Spans \ {s} :
             /\ objects'[x] = objects[x] /\ refcount'[x] = refcount[x] /\ sizeclass'[x] = sizeclass[x]
             /\ InFlight(x)' <=> InFlight(x)
             /\ \A d \in Classes : /\ x \in empty'[d] <=> x \in empty[d]
                                   /\ x \in ToSet(nonempty'[d]) <=> x \in ToSet(nonempty[d])
        BY <1>4, <1>17
    <2>2. \A d \in Classes : ~ Attached(s, d)'  BY <1>18 DEF Attached, ToSet
    <2> QED  BY <2>1, <2>2, <1>2, <1>7, <1>9, <1>13, <1>14, <1>18, OneSpanMoves
<1>20. CounterRight'
    <2>1. PICK F : F = FreeOf(c)  OBVIOUS
    <2>2. IsFiniteSet(F) /\ counter[c] = Cardinality(F)  BY <2>1 DEF SInv, CounterRight
    <2>3. \A d \in Classes, x \in Spans \ {s} :
             /\ objects'[x] = objects[x]
             /\ x \in ToSet(nonempty'[d]) <=> x \in ToSet(nonempty[d])
        BY <1>17
    <2>4. PICK Q : Q = ToSet(objects[s])  OBVIOUS
    <2>5. IsFiniteSet(Q) /\ Cardinality(Q) = m
        <3>1. objects[s] \in Seq(Objects) /\ IsInjective(objects[s])  BY DEF OInv, Typed, Listed
        <3> QED  BY <3>1, <2>4, <1>15, ListFacts
    <2>6. FreeOf(c)' = F \ Q /\ Q \subseteq F
        <3>1. /\ FreeOf(c)' = FreeOf(c) \ ToSet(objects[s])
              /\ s \in ToSet(nonempty[c]) => ToSet(objects[s]) \subseteq FreeOf(c)
            BY <2>3, <1>13, <1>18, FreeChange
        <3>2. s \in empty[c] \cup ToSet(nonempty[c])  BY <1>4 DEF SInv, Tracked, Attached
        <3>3. s \in empty[c] => ToSet(objects[s]) = {}  BY EmptyList DEF SInv, Emptied
        <3> QED  BY <3>1, <3>2, <3>3, <2>1, <2>4
    <2>7. IsFiniteSet(F \ Q) /\ counter'[c] = Cardinality(F \ Q)
        <3>1. F \cap Q = Q  BY <2>6
        <3>2. IsFiniteSet(F \ Q) /\ Cardinality(F \ Q) = Cardinality(F) - Cardinality(F \cap Q)
            BY <2>2, FS_Difference
        <3> QED  BY <3>1, <3>2, <2>2, <2>5, <1>16
    <2>8. ASSUME NEW d \in Classes \ {c} PROVE FreeOf(d)' = FreeOf(d)
        <3>1. s \notin ToSet(nonempty[d]) /\ s \notin ToSet(nonempty'[d])  BY <1>12, <1>18
        <3> QED  BY <2>3, <3>1, <1>13, FreeSame
    <2> QED  BY <2>6, <2>7, <2>8, <1>16, CounterMoves
<1>21. ASSUME NEW u \in Threads PROVE NewSpan(u)'
    <2>1. CASE u = t  BY <2>1, <1>8 DEF NewSpan
    <2>2. CASE u # t
        <3>1. pc[u] = "attach" /\ span[u] # NoSpan => refcount'[span[u]] = refcount[span[u]]
            <4> SUFFICES ASSUME pc[u] = "attach", span[u] # NoSpan
                         PROVE  refcount'[span[u]] = refcount[span[u]]
                OBVIOUS
            <4>1. span[u] \in Spans /\ InFlight(span[u])  BY CarriedInUse DEF Carries
            <4>2. span[u] \in Spans \ {s}  BY <4>1, <1>4
            <4> QED  BY <4>2, <1>5 DEF OInv, Typed
        <3>2. pc[u] = "refetch" => nonempty'[cl[u]] = nonempty[cl[u]]  BY <2>2, <1>4, <1>13
        <3> QED  BY <2>2, <3>1, <3>2, <1>7, OthersNewSpan
    <2> QED  BY <2>1, <2>2
<1> QED  BY <1>14, <1>16, <1>19, <1>20, <1>21 DEF SInv

\* The page heap's span is cut up; it is on no list, and new to its class.
LEMMA PopulateNewBooks ==
    ASSUME IInv, OInv, SInv, NEW t \in Threads, PopulateNew(t) PROVE SInv'
<1>1. /\ pc[t] = "populate" /\ pc' = [pc EXCEPT ![t] = "attach"]
      /\ UNCHANGED <<nonempty, empty, counter, cl, range, rel, got, victim>>
    BY DEF PopulateNew, GoTo, shared
<1>2. pc'[t] = "attach" /\ \A u \in Threads \ {t} : pc'[u] = pc[u]  BY <1>1, ThreadFacts
<1>3. span[t] = NoSpan /\ ~ Carries(t) /\ cl[t] # 0
    <2>1. AtLabel(t)  BY DEF OInv
    <2> QED  BY <2>1, <1>1 DEF AtLabel, Carries
<1>4. CASE UNCHANGED <<spans, span>>
    <2>1. UNCHANGED <<sizeclass, objects, refcount, span>>  BY <1>4 DEF spans
    <2>2. Alone(t) /\ ~ Carries(t)'  BY <2>1, <1>1, <1>2, <1>3 DEF Alone, Carries
    <2> QED  BY <2>1, <2>2, <1>1, <1>2, <1>3, BooksKept
<1>5. CASE \E s \in Spans :
             /\ sizeclass[s] = 0
             /\ sizeclass' = [sizeclass EXCEPT ![s] = cl[t]]
             /\ objects' = [objects EXCEPT ![s] = SpanObjects(s, cl[t])]
             /\ refcount' = [refcount EXCEPT ![s] = 0]
             /\ span' = [span EXCEPT ![t] = s]
    <2>1. PICK s \in Spans :
             /\ sizeclass[s] = 0
             /\ sizeclass' = [sizeclass EXCEPT ![s] = cl[t]]
             /\ objects' = [objects EXCEPT ![s] = SpanObjects(s, cl[t])]
             /\ refcount' = [refcount EXCEPT ![s] = 0]
             /\ span' = [span EXCEPT ![t] = s]
        BY <1>5
    <2>2. /\ refcount'[s] = 0 /\ span'[t] = s
          /\ \A u \in Threads \ {t} : span'[u] = span[u]
          /\ \A x \in Spans \ {s} : /\ sizeclass'[x] = sizeclass[x] /\ objects'[x] = objects[x]
                                    /\ refcount'[x] = refcount[x]
        BY <2>1 DEF OInv, Typed
    <2>3. Alone(t)  BY <1>1, <1>2, <2>2 DEF Alone
    <2>4. \A x \in Spans : InFlight(x)' <=> InFlight(x) \/ x = s
        BY <1>1, <1>2, <2>2 DEF InFlight
    <2>5. \A d \in Classes : s \notin empty[d] /\ s \notin ToSet(nonempty[d])
        BY <2>1 DEF OInv, SpansKept, OnList, SInv, Emptied
    <2>6. /\ nonempty' \in [Classes -> Seq(Spans)]
          /\ empty' \in [Classes -> SUBSET Spans] /\ counter' \in [Classes -> Int]
        BY <1>1 DEF OInv, Typed, SInv
    <2>7. Emptied' /\ Tracked' /\ NoIdleSpan'
        <3>1. \A d \in Classes : ~ Attached(s, d)'  BY <1>1, <2>5 DEF Attached, ToSet
        <3>2. \A x \in Spans \ {s} :
                 /\ objects'[x] = objects[x] /\ refcount'[x] = refcount[x] /\ sizeclass'[x] = sizeclass[x]
                 /\ InFlight(x)' <=> InFlight(x)
                 /\ \A d \in Classes : /\ x \in empty'[d] <=> x \in empty[d]
                                       /\ x \in ToSet(nonempty'[d]) <=> x \in ToSet(nonempty[d])
            BY <1>1, <2>2, <2>4
        <3>3. \A d \in Classes : s \notin empty'[d]  BY <1>1, <2>5
        <3> QED  BY <3>1, <3>2, <3>3, <1>1, <2>3, <2>4, <2>6, OneSpanMoves
    <2>8. CounterRight'
        <3>1. ASSUME NEW d \in Classes PROVE FreeOf(d)' = FreeOf(d)
            BY <1>1, <2>2, <2>5, <2>6, FreeSame
        <3>2. ASSUME NEW d \in Classes
              PROVE  IsFiniteSet(FreeOf(d)') /\ counter'[d] = Cardinality(FreeOf(d)')
            <4>1. PICK F : F = FreeOf(d)  OBVIOUS
            <4> QED  BY <3>1, <4>1, <1>1 DEF SInv, CounterRight
        <3> QED  BY <3>2 DEF CounterRight
    <2>9. ASSUME NEW u \in Threads PROVE NewSpan(u)'
        <3>1. CASE u = t  BY <3>1, <1>2, <2>2 DEF NewSpan
        <3>2. CASE u # t
            <4>1. pc[u] = "attach" /\ span[u] # NoSpan => refcount'[span[u]] = refcount[span[u]]
                <5> SUFFICES ASSUME pc[u] = "attach", span[u] # NoSpan
                             PROVE  refcount'[span[u]] = refcount[span[u]]
                    OBVIOUS
                <5>1. span[u] \in Spans /\ sizeclass[span[u]] # 0  BY CarriedInUse DEF Carries
                <5> QED  BY <5>1, <2>1, <2>2
            <4>2. pc[u] = "refetch" => nonempty'[cl[u]] = nonempty[cl[u]]  BY <1>1
            <4> QED  BY <3>2, <4>1, <4>2, <2>3, OthersNewSpan
        <3> QED  BY <3>1, <3>2
    <2> QED  BY <2>6, <2>7, <2>8, <2>9 DEF SInv
<1> QED  BY <1>4, <1>5 DEF PopulateNew

\* The new span goes to the front of the list with all its objects, idle, and
\* its thread is the one that fetches next.
LEMMA PopulateAttachBooks ==
    ASSUME IInv, OInv, SInv, NEW t \in Threads, PopulateAttach(t) PROVE SInv'
<1>1. PICK c \in Classes : c = cl[t]  BY ThreadFacts
<1>2. /\ pc[t] = "attach" /\ lock[c] = NoThread /\ pc' = [pc EXCEPT ![t] = "refetch"]
      /\ UNCHANGED <<sizeclass, objects, refcount, cl, range, rel, got, span, victim>>
    BY <1>1 DEF PopulateAttach, Acquire, GoTo, AfterPopulate, spans, locals
<1>3. pc'[t] = "refetch" /\ ~ Carries(t)'  BY <1>2, ThreadFacts DEF Carries
<1>4. Alone(t)  BY <1>2, OnlyAtAlone DEF OnlyAt
<1>5. CASE span[t] = NoSpan
    <2>1. UNCHANGED <<nonempty, empty, counter>>  BY <1>5 DEF PopulateAttach
    <2>2. ~ Carries(t)  BY <1>5 DEF Carries
    <2> QED  BY <2>1, <2>2, <1>2, <1>3, <1>4, <1>5, BooksKept
<1>6. CASE span[t] # NoSpan
    <2>1. Carries(t)  BY <1>2, <1>6 DEF Carries
    <2>2. PICK s \in Spans : s = span[t] /\ sizeclass[s] = c /\ c # 0 /\ objects[s] # <<>>
        <3>1. AtLabel(t)  BY DEF OInv
        <3> QED  BY <3>1, <1>1, <1>2, <1>6, <2>1, CarriedInUse DEF AtLabel
    <2>3. \A u \in Threads : Carries(u) /\ span[u] = s => u = t
        BY <2>1, <2>2 DEF OInv, SpansKept, Separate
    <2>4. InFlight(s) /\ ~ Dying(s) /\ ~ InFlight(s)'
        <3>1. InFlight(s)  BY <1>2, <2>2 DEF InFlight
        <3>2. ~ Dying(s)  BY <1>2, <2>3, NullAssumption DEF Dying, Carries
        <3>3. ~ InFlight(s)'
            <4> SUFFICES ASSUME NEW u \in Threads, span'[u] = s, pc'[u] \in {"attach", "delete"}
                         PROVE  FALSE
                BY DEF InFlight
            <4>1. u # t  BY <1>3
            <4>2. Carries(u) /\ span[u] = s  BY <4>1, <1>4, NullAssumption DEF Alone, Carries
            <4> QED  BY <4>1, <4>2, <2>3
        <3> QED  BY <3>1, <3>2, <3>3
    <2>5. \A x \in Spans \ {s} : InFlight(x)' <=> InFlight(x)
        BY <1>2, <1>3, <1>4, <2>2 DEF Alone, InFlight
    <2>6. \A d \in Classes : s \notin empty[d] /\ s \notin ToSet(nonempty[d])
        BY <2>4 DEF OInv, SpansKept, OnList, SInv, Emptied
    <2>7. refcount[s] = 0  BY <1>2, <1>6, <2>2 DEF SInv, NewSpan
    <2>8. Len(objects[s]) = ObjectsPerSpan[c] /\ ObjectsPerSpan[c] \in Nat
        <3>1. refcount[s] + Len(objects[s]) = ObjectsPerSpan[c]
            BY <2>2, <2>4 DEF OInv, SpansKept, Counted
        <3>2. objects[s] \in Seq(Objects)  BY DEF OInv, Typed
        <3>3. Len(objects[s]) \in Nat  BY <3>2, ListFacts
        <3>4. ObjectsPerSpan[c] \in Nat  BY SizeTablesAssumption
        <3> QED  BY <3>1, <3>3, <3>4, <2>7
    <2>9. nonempty[c] \in Seq(Spans)  BY DEF OInv, Typed
    <2>10. PICK l \in Seq(Spans) : /\ l = <<s>> \o nonempty[c] /\ l # <<>>
                                   /\ ToSet(l) = {s} \cup ToSet(nonempty[c])
        BY <2>9, ConsList
    <2>11. Head(l) = s  BY <2>9, <2>10
    <2>12. /\ nonempty' = [nonempty EXCEPT ![c] = l]
           /\ counter' = [counter EXCEPT ![c] = counter[c] + ObjectsPerSpan[c]]
           /\ empty' = empty
        BY <1>1, <1>6, <2>2, <2>10 DEF PopulateAttach, AttachSpan
    <2>13. /\ nonempty' \in [Classes -> Seq(Spans)] /\ nonempty'[c] = l
           /\ \A d \in Classes \ {c} : nonempty'[d] = nonempty[d]
        BY <2>12 DEF OInv, Typed
    <2>14. empty' \in [Classes -> SUBSET Spans]  BY <2>12 DEF SInv
    <2>15. /\ counter' \in [Classes -> Int] /\ counter'[c] = counter[c] + ObjectsPerSpan[c]
           /\ \A d \in Classes \ {c} : counter'[d] = counter[d]
        <3>1. PICK n \in Int : n = counter[c] + ObjectsPerSpan[c]  BY <2>8 DEF SInv
        <3>2. counter' = [counter EXCEPT ![c] = n]  BY <2>12, <3>1
        <3> QED  BY <3>1, <3>2 DEF SInv
    <2>16. Emptied' /\ Tracked' /\ NoIdleSpan'
        <3>1. \A x \in Spans \ {s} :
                 /\ objects'[x] = objects[x] /\ refcount'[x] = refcount[x] /\ sizeclass'[x] = sizeclass[x]
                 /\ InFlight(x)' <=> InFlight(x)
                 /\ \A d \in Classes : /\ x \in empty'[d] <=> x \in empty[d]
                                       /\ x \in ToSet(nonempty'[d]) <=> x \in ToSet(nonempty[d])
            BY <1>2, <2>5, <2>10, <2>12, <2>13
        <3>2. \A d \in Classes : s \notin empty'[d]  BY <2>6, <2>12
        <3>3. Attached(s, sizeclass[s])'
            <4>1. s \in ToSet(nonempty'[c])  BY <2>10, <2>13
            <4> QED  BY <4>1, <1>2, <2>2 DEF Attached, ToSet
        <3>4. pc'[t] = "refetch" /\ span'[t] = s  BY <1>2, <1>3, <2>2
        <3> QED  BY <3>1, <3>2, <3>3, <3>4, <1>2, <1>4, <2>13, <2>14, OneSpanMoves
    <2>17. CounterRight'
        <3>1. PICK F : F = FreeOf(c)  OBVIOUS
        <3>2. IsFiniteSet(F) /\ counter[c] = Cardinality(F)  BY <3>1 DEF SInv, CounterRight
        <3>3. PICK Q : Q = ToSet(objects[s])  OBVIOUS
        <3>4. IsFiniteSet(Q) /\ Cardinality(Q) = ObjectsPerSpan[c]
            <4>1. objects[s] \in Seq(Objects) /\ IsInjective(objects[s])  BY DEF OInv, Typed, Listed
            <4> QED  BY <4>1, <3>3, <2>8, ListFacts
        <3>5. \A d \in Classes, x \in Spans \ {s} :
                 /\ objects'[x] = objects[x]
                 /\ x \in ToSet(nonempty'[d]) <=> x \in ToSet(nonempty[d])
            BY <1>2, <2>10, <2>13
        <3>6. FreeOf(c)' = F \cup Q /\ F \cap Q = {}
            <4>1. s \in ToSet(nonempty'[c])  BY <2>10, <2>13
            <4>2. /\ FreeOf(c)' = (FreeOf(c) \ ToSet(objects[s])) \cup ToSet(objects'[s])
                  /\ FreeOf(c) \cap ToSet(objects[s]) = {}
                BY <3>5, <4>1, <2>6, <2>13, FreeChange
            <4>3. ToSet(objects'[s]) = Q  BY <1>2, <3>3
            <4> QED  BY <4>2, <4>3, <3>1, <3>3
        <3>7. IsFiniteSet(F \cup Q) /\ counter'[c] = Cardinality(F \cup Q)
            <4>1. /\ IsFiniteSet(F \cup Q)
                  /\ Cardinality(F \cup Q) = Cardinality(F) + Cardinality(Q) - Cardinality(F \cap Q)
                BY <3>2, <3>4, FS_Union
            <4>2. Cardinality(F \cap Q) = 0  BY <3>6, FS_EmptySet
            <4>3. Cardinality(F) \in Nat /\ Cardinality(Q) \in Nat  BY <3>2, <3>4, FS_CardinalityType
            <4> QED  BY <4>1, <4>2, <4>3, <3>2, <3>4, <2>15
        <3>8. ASSUME NEW d \in Classes \ {c} PROVE FreeOf(d)' = FreeOf(d)
            <4>1. s \notin ToSet(nonempty[d]) /\ s \notin ToSet(nonempty'[d])  BY <2>6, <2>13
            <4> QED  BY <3>5, <4>1, <2>13, FreeSame
        <3> QED  BY <3>6, <3>7, <3>8, <2>15, CounterMoves
    <2>18. ASSUME NEW u \in Threads PROVE NewSpan(u)'
        <3>1. CASE u = t
            <4>1. nonempty'[cl'[t]] = l /\ span'[t] = s  BY <1>1, <1>2, <2>2, <2>13
            <4> QED  BY <3>1, <4>1, <1>3, <2>10, <2>11 DEF NewSpan
        <3>2. CASE u # t
            <4>1. pc[u] = "refetch" => nonempty'[cl[u]] = nonempty[cl[u]]
                <5>1. pc[u] = "refetch" => lock[cl[u]] = u
                    BY ThreadFacts DEF IInv, Control, LocksOK, Holds
                <5>2. pc[u] = "refetch" => cl[u] \in Classes \ {c}
                    BY <5>1, <1>2, ThreadFacts, NullAssumption
                <5> QED  BY <5>2, <2>13
            <4> QED  BY <3>2, <4>1, <1>2, <1>4, OthersNewSpan
        <3> QED  BY <3>1, <3>2
    <2> QED  BY <2>14, <2>15, <2>16, <2>17, <2>18 DEF SInv
<1> QED  BY <1>5, <1>6

\* The span goes back to the page heap; it was on no list.
LEMMA DeleteSpanBooks ==
    ASSUME IInv, OInv, SInv, NEW t \in Threads, DeleteSpan(t) PROVE SInv'
<1>1. /\ pc[t] = "delete" /\ pc' = [pc EXCEPT ![t] = "relock"]
      /\ UNCHANGED <<refcount, nonempty, empty, counter, cl, range, rel, got, victim>>
    BY DEF DeleteSpan, GoTo, shared
<1>2. Carries(t)
    <2>1. AtLabel(t)  BY DEF OInv
    <2> QED  BY <2>1, <1>1 DEF AtLabel, Carries
<1>3. PICK s \in Spans : s = span[t] /\ InFlight(s)  BY <1>2, CarriedInUse
<1>4. /\ sizeclass' = [sizeclass EXCEPT ![s] = 0]
      /\ objects' = [objects EXCEPT ![s] = <<>>]
      /\ span' = [span EXCEPT ![t] = NoSpan]
    BY <1>3 DEF DeleteSpan
<1>5. /\ sizeclass'[s] = 0
      /\ \A x \in Spans \ {s} : sizeclass'[x] = sizeclass[x] /\ objects'[x] = objects[x]
    BY <1>4 DEF OInv, Typed
<1>6. pc'[t] = "relock" /\ span'[t] = NoSpan  BY <1>1, <1>4, ThreadFacts DEF OInv, Typed
<1>7. Alone(t)  BY <1>1, <1>4, OnlyAtAlone DEF OnlyAt
<1>8. \A x \in Spans \ {s} : InFlight(x)' <=> InFlight(x)
    BY <1>3, <1>6, <1>7 DEF Alone, InFlight
<1>9. \A d \in Classes : s \notin empty[d] /\ s \notin ToSet(nonempty[d])
    BY <1>3 DEF OInv, SpansKept, OnList, SInv, Emptied
<1>10. /\ nonempty' \in [Classes -> Seq(Spans)]
       /\ empty' \in [Classes -> SUBSET Spans] /\ counter' \in [Classes -> Int]
    BY <1>1 DEF OInv, Typed, SInv
<1>11. Emptied' /\ Tracked' /\ NoIdleSpan'
    <2>1. \A d \in Classes : ~ Attached(s, d)'  BY <1>1, <1>9 DEF Attached, ToSet
    <2>2. \A x \in Spans \ {s} :
             /\ objects'[x] = objects[x] /\ refcount'[x] = refcount[x] /\ sizeclass'[x] = sizeclass[x]
             /\ InFlight(x)' <=> InFlight(x)
             /\ \A d \in Classes : /\ x \in empty'[d] <=> x \in empty[d]
                                   /\ x \in ToSet(nonempty'[d]) <=> x \in ToSet(nonempty[d])
        BY <1>1, <1>5, <1>8
    <2>3. \A d \in Classes : s \notin empty'[d]  BY <1>1, <1>9
    <2> QED  BY <2>1, <2>2, <2>3, <1>1, <1>5, <1>7, <1>10, OneSpanMoves
<1>12. CounterRight'
    <2>1. ASSUME NEW d \in Classes PROVE FreeOf(d)' = FreeOf(d)
        BY <1>1, <1>5, <1>9, <1>10, FreeSame
    <2>2. ASSUME NEW d \in Classes
          PROVE  IsFiniteSet(FreeOf(d)') /\ counter'[d] = Cardinality(FreeOf(d)')
        <3>1. PICK F : F = FreeOf(d)  OBVIOUS
        <3> QED  BY <2>1, <3>1, <1>1 DEF SInv, CounterRight
    <2> QED  BY <2>2 DEF CounterRight
<1>13. ASSUME NEW u \in Threads PROVE NewSpan(u)'
    <2>1. CASE u = t  BY <2>1, <1>6 DEF NewSpan
    <2>2. CASE u # t  BY <2>2, <1>1, <1>7, OthersNewSpan
    <2> QED  BY <2>1, <2>2
<1> QED  BY <1>10, <1>11, <1>12, <1>13 DEF SInv

LEMMA InitBooks == Init => SInv
<1> SUFFICES ASSUME Init PROVE SInv  OBVIOUS
<1>1. /\ \A c \in Classes : nonempty[c] = <<>> /\ empty[c] = {} /\ counter[c] = 0
      /\ \A s \in Spans : sizeclass[s] = 0
      /\ \A t \in Threads : span[t] = NoSpan
    BY DEF Init
<1>2. empty \in [Classes -> SUBSET Spans] /\ counter \in [Classes -> Int]  BY DEF Init
<1>3. \A c \in Classes : ToSet(nonempty[c]) = {}  BY <1>1, EmptyList
<1>4. \A c \in Classes : FreeOf(c) = {}  BY <1>3 DEF FreeOf
<1>5. CounterRight  BY <1>1, <1>4, FS_EmptySet DEF CounterRight
<1>6. NoIdleSpan  BY <1>1, <1>3 DEF NoIdleSpan, Attached
<1> QED  BY <1>1, <1>2, <1>5, <1>6 DEF SInv, Emptied, Tracked, NewSpan

LEMMA BooksStep == IInv /\ OInv /\ SInv /\ [Next]_vars => SInv'
<1> SUFFICES ASSUME IInv, OInv, SInv, [Next]_vars PROVE SInv'  OBVIOUS
<1>1. CASE UNCHANGED vars
    <2>1. UNCHANGED <<nonempty, empty, counter, sizeclass, objects, refcount, span, pc, cl>>
        BY <1>1 DEF vars, shared, spans, locals
    <2>2. Emptied' /\ Tracked' /\ NoIdleSpan'
        BY <2>1 DEF SInv, Emptied, Tracked, NoIdleSpan, Attached, InFlight, ToSet
    <2>3. CounterRight'  BY <2>1 DEF SInv, CounterRight, FreeOf, ToSet
    <2>4. \A t \in Threads : NewSpan(t)'  BY <2>1 DEF SInv, NewSpan
    <2> QED  BY <2>1, <2>2, <2>3, <2>4 DEF SInv
<1>2. ASSUME NEW t \in Threads, RemoveRange(t) PROVE SInv'
    BY <1>2, QuietBooks, FetchBooks, PopulateNewBooks, PopulateAttachBooks DEF RemoveRange
<1>3. ASSUME NEW t \in Threads, InsertRange(t) PROVE SInv'
    BY <1>3, QuietBooks, ReleaseBooks, ReleaseLastBooks, DeleteSpanBooks DEF InsertRange
<1> QED  BY <1>1, <1>2, <1>3 DEF Next

\* refcount, counter_ and the lists of a class agree with the objects at every
\* moment at which FetchFromSpans, Populate or ReleaseToSpans may drop a lock,
\* and no span all of whose objects are back stays with its class unless a
\* thread is about to fetch from it.
THEOREM SpansRightHolds == Spec => []SpansRight
<1>1. Init => SInv  BY InitBooks
<1>2. IInv /\ OInv /\ SInv /\ [Next]_vars => SInv'  BY BooksStep
<1>3. IInv /\ OInv /\ SInv => SpansRight
    <2> SUFFICES ASSUME IInv, OInv, SInv PROVE SpansRight  OBVIOUS
    <2>1. ASSUME NEW c \in Classes
          PROVE  /\ IsInjective(nonempty[c])
                 /\ \A s \in ToSet(nonempty[c]) : objects[s] # <<>> /\ sizeclass[s] = c
                 /\ \A s \in empty[c] : objects[s] = <<>> /\ sizeclass[s] = c
                 /\ counter[c] = Cardinality(UNION {ToSet(objects[s]) : s \in ToSet(nonempty[c])})
        BY DEF OInv, Listed, SpansKept, OnList, SInv, Emptied, CounterRight, FreeOf
    <2>2. ASSUME NEW s \in Spans, sizeclass[s] # 0
          PROVE  /\ Attached(s, sizeclass[s]) # InFlight(s)
                 /\ ~ Dying(s) => refcount[s] = ObjectsPerSpan[sizeclass[s]] - Len(objects[s])
        <3>1. sizeclass[s] \in Classes  BY DEF OInv, Typed
        <3>2. ~ InFlight(s) => Attached(s, sizeclass[s])  BY <2>2 DEF SInv, Tracked
        <3>3. Attached(s, sizeclass[s]) => ~ InFlight(s)
            BY <3>1 DEF Attached, OInv, SpansKept, OnList, SInv, Emptied
        <3>4. Attached(s, sizeclass[s]) \in BOOLEAN /\ InFlight(s) \in BOOLEAN
            BY DEF Attached, InFlight
        <3>5. Attached(s, sizeclass[s]) # InFlight(s)  BY <3>2, <3>3, <3>4
        <3>6. PICK loc : Located(loc) /\ Classed(loc)  BY DEF OInv, Placed
        <3>7. ObjectsPerSpan[sizeclass[s]] \in Nat /\ Len(objects[s]) \in Nat
            BY <2>2, <3>6, FreeBound
        <3>8. refcount[s] \in Int  BY DEF OInv, Typed
        <3>9. ~ Dying(s) => refcount[s] + Len(objects[s]) = ObjectsPerSpan[sizeclass[s]]
            BY <2>2 DEF OInv, SpansKept, Counted
        <3>10. \A a, b \in Int, n \in Int : a + b = n => a = n - b  OBVIOUS
        <3>11. ~ Dying(s) => refcount[s] = ObjectsPerSpan[sizeclass[s]] - Len(objects[s])
            BY <3>7, <3>8, <3>9, <3>10
        <3> QED  BY <3>5, <3>11
    <2>3. SpanAccounting  BY <2>1, <2>2 DEF SpanAccounting
    <2> QED  BY <2>3 DEF SInv, SpansRight
<1> QED  BY <1>1, <1>2, <1>3, Invariance, ObjectsInvariance, PTL DEF Spec

-----------------------------------------------------------------------------
(* The central lists are a pool.                                             *)

LEMMA PoolCardinality == \A S : Pool!Cardinality(S) = Cardinality(S)
BY DEF Pool!Cardinality, Cardinality

\* A set of objects of one class, none of them with the client, goes to it.
LEMMA TakeStep ==
    ASSUME NEW c \in UsedClasses, NEW M, M \subseteq Objects, client' = client \cup M,
           M \cap client = {},
           \A o \in Objects : o \in M => Exists(o) /\ sizeclass[SpanOf(o)] = c,
           Cardinality(M) \in 1 .. Batch[c],
           sizeclass' = sizeclass
    PROVE  Pool!Next
<1>1. c \in Classes /\ c # 0  BY DEF UsedClasses
<1>2. client' \ client = M  OBVIOUS
<1>3. M \subseteq {o \in Objects : [x \in Objects |->
            IF x[2] <= ObjectsPerSpan[sizeclass[SpanOf(x)]] THEN sizeclass[SpanOf(x)] ELSE 0][o] = c}
    BY DEF Exists
<1>4. UNCHANGED [x \in Objects |->
            IF x[2] <= ObjectsPerSpan[sizeclass[SpanOf(x)]] THEN sizeclass[SpanOf(x)] ELSE 0]
    OBVIOUS
<1>5. Cardinality(client' \ client) \in 1 .. Batch[c] /\ client \subseteq client'  BY <1>2
<1>6. Pool!Take(c)
    BY <1>1, <1>2, <1>3, <1>4, <1>5, PoolCardinality DEF Pool!Take
<1> QED  BY <1>1, <1>6 DEF Pool!Next

\* And the other way.
LEMMA GiveStep ==
    ASSUME NEW c \in UsedClasses, NEW M, M \subseteq client, client \subseteq Objects,
           client' = client \ M,
           \A o \in Objects : o \in M => Exists(o) /\ sizeclass[SpanOf(o)] = c,
           Cardinality(M) \in 1 .. Batch[c],
           sizeclass' = sizeclass
    PROVE  Pool!Next
<1>1. c \in Classes /\ c # 0  BY DEF UsedClasses
<1>2. client \ client' = M  OBVIOUS
<1>3. client' \subseteq client /\ Cardinality(client \ client') \in 1 .. Batch[c]  BY <1>2
<1>4. M \subseteq {o \in Objects : [x \in Objects |->
            IF x[2] <= ObjectsPerSpan[sizeclass[SpanOf(x)]] THEN sizeclass[SpanOf(x)] ELSE 0][o] = c}
    BY DEF Exists
<1>5. UNCHANGED [x \in Objects |->
            IF x[2] <= ObjectsPerSpan[sizeclass[SpanOf(x)]] THEN sizeclass[SpanOf(x)] ELSE 0]
    OBVIOUS
<1>6. Pool!Give(c)
    BY <1>1, <1>2, <1>3, <1>4, <1>5, PoolCardinality DEF Pool!Give
<1> QED  BY <1>1, <1>6 DEF Pool!Next

\* A span with no object at the client changes its class.
LEMMA RecutStep ==
    ASSUME OInv, NEW s \in Spans, client' = client,
           \A o \in client : SpanOf(o) # s,
           \A x \in Spans \ {s} : sizeclass'[x] = sizeclass[x],
           sizeclass' \in [Spans -> Classes]
    PROVE  Pool!Next
<1>1. \A o \in Objects : SpanOf(o) \in Spans  BY ObjectFacts
<1>2. client \subseteq Objects  BY DEF OInv, Typed
<1>3. 0 \in Classes  BY NumClassesAssumption DEF Classes
<1>4. ASSUME NEW o \in client PROVE sizeclass'[SpanOf(o)] = sizeclass[SpanOf(o)]
    BY <1>1, <1>2
<1>5. \A o \in Objects : sizeclass'[SpanOf(o)] \in Classes  BY <1>1
<1>6. Pool!Recut
    BY <1>2, <1>3, <1>4, <1>5 DEF Pool!Recut
<1> QED  BY <1>6 DEF Pool!Next

\* What the client has exists and its span is not on its way anywhere.
LEMMA AtClientFacts ==
    ASSUME OInv, NEW o \in client
    PROVE  o \in Objects /\ SpanOf(o) \in Spans /\ Exists(o) /\ ~ InFlight(SpanOf(o))
<1>1. PICK loc : Located(loc) /\ Classed(loc)  BY DEF OInv, Placed
<1>2. o \in Objects  BY DEF OInv, Typed
<1>3. SpanOf(o) \in Spans  BY <1>2, ObjectFacts
<1>4. loc[o] = AtClient  BY <1>1, <1>2 DEF Located, IsAt
<1>5. Fits(o, AtClient)  BY <1>1, <1>2, <1>4, Distinct DEF Classed
<1> QED  BY <1>2, <1>3, <1>5, Distinct DEF Fits

LEMMA RemoveFromCachePool ==
    ASSUME IInv, OInv, NEW t \in Threads, NEW c \in UsedClasses, RemoveFromCache(t, c)
    PROVE  Pool!Next
<1>1. /\ tc_slots[c] # <<>> /\ PopSlot(c) /\ sizeclass' = sizeclass
      /\ client' = client \cup ToSet(Last(tc_slots[c]))
    BY DEF RemoveFromCache, spans
<1>2. PICK k \in Nat \ {0}, l \in Seq(Objects) :
         k = used_slots(c) /\ l = Last(tc_slots[c]) /\ l = tc_slots[c][k]
    BY <1>1, PopFacts DEF OInv
<1>3. Batches(c, l)
    <2>1. k \in 1 .. used_slots(c)  BY <1>2
    <2> QED  BY <2>1, <1>2 DEF OInv, Listed
<1>4. ToSet(l) \subseteq Objects /\ Cardinality(ToSet(l)) \in 1 .. Batch[c]
    <2>1. PICK n \in Nat : n = Len(l)  BY ListFacts
    <2>2. Cardinality(ToSet(l)) = n /\ n # 0 /\ n <= Batch[c]
        BY <1>3, <2>1, ListFacts DEF Batches
    <2>3. Batch[c] \in Nat  BY SizeTablesAssumption DEF UsedClasses
    <2> QED  BY <2>2, <2>3, ListFacts
<1>5. PICK loc : Located(loc) /\ Classed(loc)  BY DEF OInv, Placed
<1>6. ASSUME NEW o \in Objects, o \in ToSet(l)
      PROVE  o \notin client /\ Exists(o) /\ sizeclass[SpanOf(o)] = c
    <2>1. IsAt(o, loc[o])  BY <1>5 DEF Located
    <2>2. k <= used_slots(c) /\ o \in ToSet(tc_slots[c][k])  BY <1>2, <1>6
    <2>3. loc[o] = AtSlot(c, k)  BY <2>1, <2>2 DEF IsAt
    <2>4. Fits(o, AtSlot(c, k))  BY <2>3, <1>5, Distinct DEF Classed
    <2>5. sizeclass[SpanOf(o)] = c /\ Exists(o)  BY <2>4 DEF Fits
    <2> QED  BY <2>1, <2>3, <2>5, Distinct DEF IsAt
<1>7. ToSet(l) \cap client = {}  BY <1>4, <1>6
<1> QED  BY <1>1, <1>2, <1>4, <1>6, <1>7, TakeStep

LEMMA InsertPool ==
    ASSUME IInv, OInv, NEW t \in Threads, NEW c \in UsedClasses, NEW l \in Ranges(c),
           InsertIntoCache(t, c, l) \/ InsertBegin(t, c, l)
    PROVE  Pool!Next
<1>1. client' = client \ ToSet(l) /\ sizeclass' = sizeclass
    BY DEF InsertIntoCache, InsertBegin, spans
<1>2. /\ ToSet(l) \subseteq client /\ Cardinality(ToSet(l)) \in 1 .. Batch[c]
      /\ \A o \in ToSet(l) : sizeclass[SpanOf(o)] = c
    BY RangesFacts
<1>3. client \subseteq Objects  BY DEF OInv, Typed
<1>4. \A o \in Objects : o \in ToSet(l) => Exists(o) /\ sizeclass[SpanOf(o)] = c
    BY <1>2, AtClientFacts
<1> QED  BY <1>1, <1>2, <1>3, <1>4, GiveStep

\* Nothing, or the objects fetched.
LEMMA FetchPool ==
    ASSUME IInv, OInv, NEW t \in Threads, FetchObject(t) \/ FetchNothing(t)
    PROVE  Pool!Next \/ (client' = client /\ sizeclass' = sizeclass)
<1>1. PICK c \in Classes : c = cl[t]  BY ThreadFacts
<1>2. AtLabel(t) /\ sizeclass' = sizeclass
    BY DEF OInv, FetchObject, FetchNothing, spans
<1>3. CASE client' = client  BY <1>2, <1>3
<1>4. CASE client' # client
    <2>1. pc[t] \in {"fetch", "refetch"}
        BY <1>4 DEF FetchObject, FetchNothing
    <2>2. c \in UsedClasses  BY <1>1, <1>2, <2>1 DEF AtLabel, UsedClasses
    <2>3. PICK loc : Located(loc) /\ Classed(loc)  BY DEF OInv, Placed
    <2>4. got[t] \in Seq(Objects) /\ IsInjective(got[t])  BY DEF OInv, Typed, Listed
    <2>5. ASSUME NEW o \in Objects, o \in ToSet(got[t])
          PROVE  o \notin client /\ Exists(o) /\ sizeclass[SpanOf(o)] = c /\ loc[o] = AtGot(t)
        <3>1. IsAt(o, loc[o])  BY <2>3 DEF Located
        <3>2. loc[o] = AtGot(t)  BY <3>1, <2>5 DEF IsAt
        <3>3. Fits(o, AtGot(t))  BY <3>2, <2>3, Distinct DEF Classed
        <3> QED  BY <3>1, <3>2, <3>3, <1>1, Distinct DEF IsAt, Fits
    <2>6. Batch[c] \in Nat  BY SizeTablesAssumption
    <2>7. CASE FetchNothing(t)
        <3>1. client' = client \cup ToSet(got[t])
            BY <1>4, <2>7 DEF FetchNothing, ReturnObjects
        <3>2. PICK n \in Nat : n = Len(got[t])  BY <2>4, ListFacts
        <3>3. n <= Batch[c]  BY <3>2, <1>1, <1>2 DEF AtLabel
        <3>4. n # 0  BY <3>1, <3>2, <1>4, <2>4, ListFacts, EmptyList
        <3>5. Cardinality(ToSet(got[t])) \in 1 .. Batch[c]
            <4>1. Cardinality(ToSet(got[t])) = n  BY <2>4, <3>2, ListFacts
            <4> QED  BY <4>1, <3>3, <3>4, <2>6
        <3>6. ToSet(got[t]) \subseteq Objects  BY <2>4, ListFacts
        <3>7. ToSet(got[t]) \cap client = {}  BY <2>5, <3>6
        <3>8. PICK M : M = ToSet(got[t])  OBVIOUS
        <3>9. Pool!Next
            BY <1>2, <2>2, <2>5, <3>1, <3>5, <3>6, <3>7, <3>8, TakeStep
        <3> QED  BY <3>9
    <2>8. CASE FetchObject(t)
        <3>1. /\ nonempty[c] # <<>> /\ nonempty[c] \in Seq(Spans)
            BY <2>8, <1>1 DEF FetchObject, FetchFromSpans, OInv, Typed
        <3>2. PICK s \in Spans : s = Head(nonempty[c]) /\ s \in ToSet(nonempty[c])  BY <3>1, HeadTail
        <3>3. objects[s] # <<>> /\ objects[s] \in Seq(Objects) /\ sizeclass[s] = c
            BY <3>2 DEF OInv, SpansKept, OnList, Typed
        <3>4. PICK o0 \in Objects : o0 = Head(objects[s]) /\ o0 \in ToSet(objects[s])  BY <3>3, HeadTail
        <3>5. o0 \notin client /\ Exists(o0) /\ sizeclass[SpanOf(o0)] = c /\ o0 \notin ToSet(got[t])
            <4>1. IsAt(o0, loc[o0])  BY <2>3 DEF Located
            <4>2. SpanOf(o0) = s /\ loc[o0] = AtSpan(s) /\ Exists(o0)
                BY <2>3, <3>4, OfTheSpan, Distinct
            <4>3. o0 \notin client  BY <4>1, <4>2, Distinct DEF IsAt
            <4>4. o0 \notin ToSet(got[t])  BY <4>2, <2>5, Distinct
            <4> QED  BY <4>2, <4>3, <4>4, <3>3
        <3>6. PICK l \in Seq(Objects) : /\ l = Append(got[t], o0) /\ IsInjective(l)
                                        /\ ToSet(l) = ToSet(got[t]) \cup {o0}
            <4>1. PICK g \in Seq(Objects) : g = got[t] /\ IsInjective(g)  BY <2>4
            <4>2. o0 \in Objects /\ o0 \notin ToSet(g)  BY <3>4, <3>5, <4>1
            <4>3. PICK l : l = Append(g, o0)  OBVIOUS
            <4>4. l \in Seq(Objects) /\ IsInjective(l) /\ ToSet(l) = ToSet(g) \cup {o0}
                BY <4>1, <4>2, <4>3, AppendList
            <4> QED  BY <4>1, <4>3, <4>4
        <3>7. client' = client \cup ToSet(l) /\ Len(l) = Batch[c]
            BY <1>1, <1>4, <2>8, <3>2, <3>4, <3>6 DEF FetchObject, ReturnObjects
        <3>8. PICK M : M = ToSet(l)  OBVIOUS
        <3>9. Cardinality(M) \in 1 .. Batch[c]
            <4>1. Cardinality(M) = Batch[c]  BY <3>6, <3>7, <3>8, ListFacts
            <4>2. Batch[c] > 0  BY <2>2, SizeTablesAssumption
            <4> QED  BY <4>1, <4>2, <2>6
        <3>10. M \subseteq Objects  BY <3>6, <3>8, ListFacts
        <3>11. \A o \in Objects : o \in M => o \notin client /\ Exists(o) /\ sizeclass[SpanOf(o)] = c
            BY <2>5, <3>5, <3>6, <3>8
        <3>12. M \cap client = {} /\ client' = client \cup M  BY <3>7, <3>8, <3>10, <3>11
        <3>13. Pool!Next  BY <1>2, <2>2, <3>9, <3>10, <3>11, <3>12, TakeStep
        <3> QED  BY <3>13
    <2> QED  BY <2>7, <2>8
<1> QED  BY <1>3, <1>4

LEMMA PopulateNewPool ==
    ASSUME IInv, OInv, NEW t \in Threads, PopulateNew(t)
    PROVE  Pool!Next \/ (client' = client /\ sizeclass' = sizeclass)
<1>1. client' = client  BY DEF PopulateNew
<1>2. CASE sizeclass' = sizeclass  BY <1>1, <1>2
<1>3. CASE sizeclass' # sizeclass
    <2>1. PICK s \in Spans : sizeclass[s] = 0 /\ sizeclass' = [sizeclass EXCEPT ![s] = cl[t]]
        BY <1>3 DEF PopulateNew, spans
    <2>2. /\ sizeclass' \in [Spans -> Classes]
          /\ \A x \in Spans \ {s} : sizeclass'[x] = sizeclass[x]
        BY <2>1, ThreadFacts DEF OInv, Typed
    <2>3. \A o \in client : SpanOf(o) # s  BY <2>1, AtClientFacts DEF Exists
    <2> QED  BY <1>1, <2>2, <2>3, RecutStep
<1> QED  BY <1>2, <1>3

LEMMA DeleteSpanPool ==
    ASSUME IInv, OInv, NEW t \in Threads, DeleteSpan(t)
    PROVE  Pool!Next
<1>1. AtLabel(t) /\ pc[t] = "delete" /\ client' = client  BY DEF OInv, DeleteSpan
<1>2. Carries(t)  BY <1>1 DEF AtLabel, Carries
<1>3. PICK s \in Spans : s = span[t] /\ InFlight(s)  BY <1>2, CarriedInUse
<1>4. sizeclass' = [sizeclass EXCEPT ![s] = 0]  BY <1>3 DEF DeleteSpan
<1>5. /\ sizeclass' \in [Spans -> Classes]
      /\ \A x \in Spans \ {s} : sizeclass'[x] = sizeclass[x]
    <2>1. 0 \in Classes  BY NumClassesAssumption DEF Classes
    <2> QED  BY <2>1, <1>4 DEF OInv, Typed
<1>6. \A o \in client : SpanOf(o) # s  BY <1>3, AtClientFacts
<1> QED  BY <1>1, <1>5, <1>6, RecutStep

LEMMA PoolStep ==
    ASSUME IInv, OInv, [Next]_vars
    PROVE  Pool!Next \/ (client' = client /\ sizeclass' = sizeclass)
<1>1. CASE UNCHANGED vars  BY <1>1 DEF vars, spans
<1>2. ASSUME NEW t \in Threads, RemoveRange(t)
      PROVE  Pool!Next \/ (client' = client /\ sizeclass' = sizeclass)
    <2>1. CASE \E c \in UsedClasses : RemoveFromCache(t, c)  BY <2>1, RemoveFromCachePool
    <2>2. CASE FetchObject(t) \/ FetchNothing(t)  BY <2>2, FetchPool
    <2>3. CASE PopulateNew(t)  BY <2>3, PopulateNewPool
    <2>4. CASE (\E c \in UsedClasses : RemoveBegin(t, c)) \/ PopulateAttach(t)
        BY <2>4 DEF RemoveBegin, PopulateAttach, spans
    <2> QED  BY <1>2, <2>1, <2>2, <2>3, <2>4 DEF RemoveRange
<1>3. ASSUME NEW t \in Threads, InsertRange(t)
      PROVE  Pool!Next \/ (client' = client /\ sizeclass' = sizeclass)
    <2>1. CASE \E c \in UsedClasses : \E l \in Ranges(c) : InsertIntoCache(t, c, l) \/ InsertBegin(t, c, l)
        BY <2>1, InsertPool
    <2>2. CASE DeleteSpan(t)  BY <2>2, DeleteSpanPool
    <2>3. CASE Evict(t) \/ PeekSize(t) \/ PeekUsed(t) \/ Shrink(t) \/ Revert(t)
        BY <2>3 DEF Evict, PeekSize, PeekUsed, Shrink, Revert, spans
    <2>4. CASE ReleaseObject(t) \/ ReleaseLastObject(t) \/ Relock(t)
        BY <2>4 DEF ReleaseObject, ReleaseLastObject, Relock, spans
    <2> QED  BY <1>3, <2>1, <2>2, <2>3, <2>4 DEF InsertRange
<1> QED  BY <1>1, <1>2, <1>3 DEF Next

\* To the thread caches the central lists are a pool: what RemoveRange returns is
\* of the class asked for, new to the client and at most a batch, what
\* InsertRange is given leaves the client, and a span is cut or deleted only
\* while the client has none of its objects.
THEOREM ImplementsPoolHolds == Spec => ImplementsPool
<1>1. Init => Pool!Init
    <2> SUFFICES ASSUME Init PROVE Pool!Init  OBVIOUS
    <2>1. client = {} /\ \A s \in Spans : sizeclass[s] = 0  BY DEF Init
    <2>2. \A o \in Objects : sizeclass[SpanOf(o)] = 0  BY <2>1, ObjectFacts
    <2> QED  BY <2>1, <2>2 DEF Pool!Init
<1>2. IInv /\ OInv /\ [Next]_vars => [Pool!Next]_<<client, [o \in Objects |->
            IF o[2] <= ObjectsPerSpan[sizeclass[SpanOf(o)]] THEN sizeclass[SpanOf(o)] ELSE 0]>>
    BY PoolStep
<1> QED  BY <1>1, <1>2, Invariance, ObjectsInvariance, PTL DEF Spec, ImplementsPool, Pool!Spec

=============================================================================
