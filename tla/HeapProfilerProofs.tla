--------------------------- MODULE HeapProfilerProofs ---------------------------
(***************************************************************************)
(* The heap profiler, for any number of threads, objects and nested dumps: *)
(* its switches and hooks, who is in a dump, and that its profile is exact. *)
(*                                                                         *)
(* heap_lock stays held between two steps in one place only, the first     *)
(* allocation of EarlyStartLocked, and the thread that is there is in no   *)
(* other procedure of the profiler (IInv).  Everything else is about what  *)
(* the threads have on their stacks: a procedure is known by its level,    *)
(* counted from below, which does not change while others are called above *)
(* it.  One level, of one thread, is in a dump when dumping_ is set        *)
(* (OneDumper).  An object is in the hand of one hook at most, or of       *)
(* GetHeapProfile, or of both while the list is allocated (OwnersRight),   *)
(* so that nobody frees an object between its allocation and its record.   *)
(***************************************************************************)
EXTENDS HeapProfiler, SequenceTheorems, FiniteSetTheorems, TLAPS

Labels == {"record_alloc", "record_free", "dump", "write", "written", "profile", "collect"}
Procedures == [at : Labels, ptr : Ptrs \cup {None}, nb : Int]
First == Frame("first", None, 0)

Shapes ==
    /\ heap_lock \in Threads \cup {NoThread}
    /\ {is_on, need_for_leaks, filename_prefix} \subseteq BOOLEAN
    /\ num_buckets \in Nat
    /\ stack \in [Threads -> Seq(Procedures) \cup {<<First>>}]

\* Who holds the lock is in EarlyStartLocked, and nowhere else.
Holder == \A t \in Threads : heap_lock = t <=> stack[t] = <<First>>

\* What EarlyStartLocked has found and done when it allocates.
Starting ==
    ~ LockFree => is_on /\ new_hook /\ ~ filename_prefix /\ ~ need_for_leaks

IInv == Shapes /\ Holder /\ Starting /\ OnWhenNeeded

-----------------------------------------------------------------------------
(* Stacks of procedures                                                      *)

\* A stack of the profiler's other procedures is not that of EarlyStartLocked.
LEMMA NotFirst == \A s \in Seq(Procedures) : s # <<First>>
<1>. SUFFICES ASSUME <<First>> \in Seq(Procedures) PROVE FALSE
  OBVIOUS
<1>1. <<First>>[1] \in Procedures
  <2>1. 1 \in 1 .. Len(<<First>>)
    OBVIOUS
  <2>. QED BY <2>1, ElementOfSeq
<1>. QED BY <1>1 DEF First, Frame, Procedures, Labels

\* Pushing procedures on a stack gives a stack, for one of them and for two.
LEMMA Pushed ==
    ASSUME NEW s \in Seq(Procedures), NEW f \in Procedures
    PROVE  <<f>> \o s \in Seq(Procedures)
<1>1. <<f>> \in Seq(Procedures)
  OBVIOUS
<1>. QED BY <1>1, ConcatProperties

\* The procedures that are called, by their labels.
LEMMA FrameType ==
    ASSUME NEW l \in Labels, NEW p \in Ptrs \cup {None}, NEW n \in Int
    PROVE  Frame(l, p, n) \in Procedures
BY DEF Frame, Procedures

\* A thread that is in none of them, or not in EarlyStartLocked, has a stack
\* of the other procedures, and what is below the top of it is one as well.
LEMMA StackOf ==
    ASSUME Shapes, NEW t \in Threads, At(t) # "first"
    PROVE  /\ stack[t] \in Seq(Procedures)
           /\ At(t) # "run" => Tail(stack[t]) \in Seq(Procedures)
<1>1. stack[t] \in Seq(Procedures)
  <2>1. CASE stack[t] = <<First>>
    <3>1. stack[t] # <<>> /\ Head(stack[t]) = First
      BY <2>1
    <3>2. At(t) = "first"
      BY <3>1 DEF At, First, Frame
    <3>. QED BY <3>2
  <2>. QED BY <2>1 DEF Shapes
<1>2. ASSUME At(t) # "run" PROVE Tail(stack[t]) \in Seq(Procedures)
  <2>1. stack[t] # <<>>
    BY <1>2 DEF At
  <2>. QED BY <1>1, <2>1, HeadTailProperties
<1>. QED BY <1>1, <1>2

\* A step of the profiler's other procedures leaves the lock with its holder.
LEMMA StackStep ==
    ASSUME Shapes, Holder, NEW t \in Threads, stack[t] \in Seq(Procedures),
           NEW s \in Seq(Procedures), stack' = [stack EXCEPT ![t] = s],
           heap_lock' = heap_lock
    PROVE  /\ stack' \in [Threads -> Seq(Procedures) \cup {<<First>>}]
           /\ Holder'
<1>1. s # <<First>> /\ stack[t] # <<First>>
  BY NotFirst
<1>2. stack' \in [Threads -> Seq(Procedures) \cup {<<First>>}]
  BY DEF Shapes
<1>3. Holder'
  <2>. SUFFICES ASSUME NEW u \in Threads PROVE heap_lock' = u <=> stack'[u] = <<First>>
    BY DEF Holder
  <2>1. CASE u = t
    BY <2>1, <1>1 DEF Holder, Shapes
  <2>2. CASE u # t
    BY <2>2 DEF Holder, Shapes
  <2>. QED BY <2>1, <2>2
<1>. QED BY <1>2, <1>3

\* A step that changes no switch and no hook leaves what is said of them.
LEMMA SwitchesStay ==
    ASSUME Starting, OnWhenNeeded, heap_lock' = heap_lock, switches' = switches,
           new_hook' = new_hook, delete_hook' = delete_hook
    PROVE  Starting' /\ OnWhenNeeded'
BY DEF Starting, OnWhenNeeded, LockFree, switches

\* Both together: a step inside the profiler's other procedures.
LEMMA InnerStep ==
    ASSUME IInv, NEW t \in Threads, At(t) # "first",
           NEW s \in Seq(Procedures), stack' = [stack EXCEPT ![t] = s],
           heap_lock' = heap_lock, switches' = switches,
           new_hook' = new_hook, delete_hook' = delete_hook, num_buckets' \in Nat
    PROVE  IInv'
<1>1. stack[t] \in Seq(Procedures)
  BY StackOf DEF IInv
<1>2. stack' \in [Threads -> Seq(Procedures) \cup {<<First>>}] /\ Holder'
  BY <1>1, StackStep DEF IInv
<1>3. Starting' /\ OnWhenNeeded'
  BY SwitchesStay DEF IInv
<1>4. Shapes'
  BY <1>2 DEF IInv, Shapes, switches
<1>. QED BY <1>2, <1>3, <1>4 DEF IInv

-----------------------------------------------------------------------------
(* The steps                                                                 *)

LEMMA InitIInv == Init => IInv
<1>. SUFFICES ASSUME Init PROVE IInv
  OBVIOUS
<1>1. <<>> \in Seq(Procedures) /\ <<>> # <<First>>
  BY NotFirst
<1>2. Shapes
  BY <1>1 DEF Init, Shapes, Empty
<1>3. Holder
  BY <1>1, HeapProfilerAssumption DEF Init, Holder
<1>4. Starting /\ OnWhenNeeded
  BY DEF Init, Starting, OnWhenNeeded, LockFree
<1>. QED BY <1>2, <1>3, <1>4 DEF IInv

\* An allocation goes on with the stack it is given, below the hook's call.
LEMMA AllocatedStep ==
    ASSUME IInv, NEW t \in Threads, At(t) # "first", NEW p \in Ptrs, NEW n,
           NEW rest \in Seq(Procedures), Allocated(t, p, n, rest),
           UNCHANGED <<heap_lock, switches, new_hook, delete_hook, num_buckets>>
    PROVE  IInv'
<1>1. <<Frame("record_alloc", p, 0)>> \o rest \in Seq(Procedures)
  BY FrameType, Pushed DEF Labels
<1>2. stack' = [stack EXCEPT ![t] =
          IF new_hook THEN <<Frame("record_alloc", p, 0)>> \o rest ELSE rest]
  BY Zenon DEF Allocated
<1>3. PICK s \in Seq(Procedures) : stack' = [stack EXCEPT ![t] = s]
  BY <1>1, <1>2
<1>4. num_buckets' \in Nat
  BY DEF IInv, Shapes
<1>. QED BY <1>3, <1>4, InnerStep

\* So does a call of free.
LEMMA FreedStep ==
    ASSUME IInv, NEW t \in Threads, At(t) # "first", NEW p \in Ptrs \cup {None},
           NEW rest \in Seq(Procedures), Freed(t, p, rest),
           UNCHANGED <<heap_lock, switches, new_hook, delete_hook, num_buckets>>
    PROVE  IInv'
<1>1. <<Frame("record_free", p, 0)>> \o rest \in Seq(Procedures)
  BY FrameType, Pushed DEF Labels
<1>2. PICK s \in Seq(Procedures) : stack' = [stack EXCEPT ![t] = s]
  BY <1>1 DEF Freed
<1>3. num_buckets' \in Nat
  BY DEF IInv, Shapes
<1>. QED BY <1>2, <1>3, InnerStep

\* A call, a jump and a return of a procedure other than EarlyStartLocked.
LEMMA CallStep ==
    ASSUME IInv, NEW t \in Threads, At(t) # "first", NEW f \in Procedures,
           \/ Call(t, f)
           \/ At(t) # "run" /\ Jump(t, f)
           \/ At(t) # "run" /\ Return(t),
           UNCHANGED <<heap_lock, switches, new_hook, delete_hook>>,
           num_buckets' \in Nat
    PROVE  IInv'
<1>1. stack[t] \in Seq(Procedures) /\ (At(t) # "run" => Tail(stack[t]) \in Seq(Procedures))
  BY StackOf DEF IInv
<1>2. CASE Call(t, f)
  <2>1. stack' = [stack EXCEPT ![t] = <<f>> \o stack[t]]
    BY <1>2 DEF Call
  <2>. QED BY <1>1, <2>1, Pushed, InnerStep
<1>3. CASE At(t) # "run" /\ Jump(t, f)
  <2>1. stack' = [stack EXCEPT ![t] = <<f>> \o Tail(stack[t])]
    BY <1>3 DEF Jump
  <2>. QED BY <1>1, <1>3, <2>1, Pushed, InnerStep
<1>4. CASE At(t) # "run" /\ Return(t)
  <2>1. stack' = [stack EXCEPT ![t] = Tail(stack[t])]
    BY <1>4 DEF Return
  <2>. QED BY <1>1, <1>4, <2>1, InnerStep
<1>. QED BY <1>2, <1>3, <1>4

\* A dump begins, or there is no file to write it to.
LEMMA StartsDumpStep ==
    ASSUME IInv, NEW t \in Threads, At(t) \notin {"first", "run"}, StartsDump(t),
           UNCHANGED <<heap_lock, switches, new_hook, delete_hook>>,
           num_buckets' \in Nat
    PROVE  IInv'
<1>1. Frame("write", None, 0) \in Procedures
  BY FrameType DEF Labels
<1>2. Jump(t, Frame("write", None, 0)) \/ Return(t)
  BY DEF StartsDump
<1>. QED BY <1>1, <1>2, CallStep

\* A step that leaves the stacks, and the lock free, may change the switches.
LEMMA SwitchStep ==
    ASSUME IInv, LockFree, heap_lock' = heap_lock, stack' = stack, num_buckets' = num_buckets,
           {is_on', need_for_leaks', filename_prefix'} \subseteq BOOLEAN, OnWhenNeeded'
    PROVE  IInv'
<1>1. Shapes' /\ Holder'
  BY DEF IInv, Shapes, Holder
<1>2. Starting'
  BY DEF Starting, LockFree
<1>. QED BY <1>1, <1>2 DEF IInv

\* The last user of the profile is gone.
LEMMA TurnOffStep ==
    ASSUME IInv, TurnOff
    PROVE  /\ is_on' = FALSE /\ new_hook' = FALSE /\ delete_hook' = FALSE
           /\ num_buckets' = num_buckets
BY DEF TurnOff

-----------------------------------------------------------------------------
(* One lemma for each group of actions                                       *)

\* malloc and free, by the application or by library code inside a dump.
LEMMA MallocFreeStep ==
    ASSUME IInv, NEW t \in Threads, Malloc(t) \/ Free(t)
    PROVE  IInv'
<1>1. At(t) # "first" /\ stack[t] \in Seq(Procedures)
  <2>1. Outside(t)
    BY Zenon DEF Malloc, Free
  <2>2. At(t) # "first"
    BY <2>1 DEF Outside
  <2>. QED BY <2>2, StackOf DEF IInv
<1>2. CASE Malloc(t)
  <2>1. PICK p \in Ptrs, n \in Sizes : Allocated(t, p, n, stack[t])
    BY <1>2, Zenon DEF Malloc
  <2>2. UNCHANGED <<heap_lock, switches, new_hook, delete_hook, num_buckets>>
    BY <1>2 DEF Malloc, profile
  <2>. QED BY <1>1, <2>1, <2>2, AllocatedStep
<1>3. CASE Free(t)
  <2>1. PICK p \in Ptrs : Freed(t, p, stack[t])
    BY <1>3 DEF Free
  <2>2. UNCHANGED <<heap_lock, switches, new_hook, delete_hook, num_buckets>>
    BY <1>3 DEF Free, profile, hooks
  <2>. QED BY <1>1, <2>1, <2>2, FreedStep
<1>. QED BY <1>2, <1>3

\* The hooks of malloc and free.
LEMMA RecordStep ==
    ASSUME IInv, NEW t \in Threads, RecordAlloc(t) \/ RecordFree(t)
    PROVE  IInv'
<1>1. CASE RecordAlloc(t)
  <2>1. At(t) = "record_alloc" /\ UNCHANGED <<heap_lock, switches, hooks>>
    BY <1>1, Zenon DEF RecordAlloc
  <2>2. Return(t) \/ StartsDump(t)
    BY <1>1, Zenon DEF RecordAlloc
  <2>3. num_buckets' \in Nat
    <3>1. \/ num_buckets' = num_buckets
          \/ \E s \in Stacks : num_buckets' = num_buckets + (IF s \in DOMAIN table THEN 0 ELSE 1)
      BY <1>1, Zenon DEF RecordAlloc, profile
    <3>. QED BY <3>1 DEF IInv, Shapes
  <2>4. Frame("write", None, 0) \in Procedures
    BY FrameType DEF Labels
  <2>5. UNCHANGED <<heap_lock, switches, new_hook, delete_hook>> /\ At(t) \notin {"first", "run"}
    BY <2>1 DEF hooks
  <2>. QED BY <2>2, <2>3, <2>4, <2>5, CallStep, StartsDumpStep
<1>2. CASE RecordFree(t)
  <2>1. /\ At(t) = "record_free" /\ Return(t)
        /\ UNCHANGED <<heap_lock, switches, new_hook, delete_hook, num_buckets>>
    BY <1>2, Zenon DEF RecordFree, hooks
  <2>2. Frame("write", None, 0) \in Procedures /\ num_buckets' \in Nat
    BY <2>1, FrameType DEF Labels, IInv, Shapes
  <2>. QED BY <2>1, <2>2, CallStep
<1>. QED BY <1>1, <1>2

\* What a dump and GetHeapProfile do, with the lock dropped in between.
LEMMA DumpStep ==
    ASSUME IInv, NEW t \in Threads,
           \/ HeapProfilerDump(t) \/ DumpLocked(t) \/ OpenFile(t) \/ CloseFile(t)
           \/ GetHeapProfile(t) \/ NewList(t) \/ Collect(t)
    PROVE  IInv'
<1>1. /\ Frame("dump", None, 0) \in Procedures
      /\ Frame("profile", None, 0) \in Procedures
      /\ Frame("written", None, 0) \in Procedures
  BY FrameType DEF Labels
<1>2. num_buckets \in Nat
  BY DEF IInv, Shapes
<1>3. At(t) # "first" /\ UNCHANGED <<heap_lock, switches, new_hook, delete_hook, num_buckets>>
  BY Zenon DEF HeapProfilerDump, DumpLocked, OpenFile, CloseFile, GetHeapProfile, NewList, Collect,
     hooks, profile
<1>4. stack[t] \in Seq(Procedures) /\ (At(t) # "run" => Tail(stack[t]) \in Seq(Procedures))
  BY <1>3, StackOf DEF IInv
<1>5. CASE HeapProfilerDump(t)
  BY <1>1, <1>2, <1>3, <1>5, CallStep DEF HeapProfilerDump
<1>6. CASE DumpLocked(t)
  <2>1. At(t) \notin {"first", "run"}
    BY <1>6 DEF DumpLocked
  <2>2. Return(t) \/ StartsDump(t) \/ stack' = stack
    BY <1>6 DEF DumpLocked
  <2>3. CASE stack' = stack
    <3>1. stack' = [stack EXCEPT ![t] = stack[t]]
      BY <2>3 DEF IInv, Shapes
    <3>. QED BY <1>2, <1>3, <1>4, <3>1, InnerStep
  <2>. QED BY <1>1, <1>2, <1>3, <2>1, <2>2, <2>3, CallStep, StartsDumpStep
<1>7. CASE OpenFile(t)
  <2>. DEFINE below == <<Frame("written", None, 0)>> \o Tail(stack[t])
  <2>1. below \in Seq(Procedures) /\ <<Frame("profile", None, 0)>> \o below \in Seq(Procedures)
    <3>1. Tail(stack[t]) \in Seq(Procedures)
      BY <1>4, <1>7 DEF OpenFile
    <3>2. below \in Seq(Procedures)
      BY <1>1, <3>1, Pushed
    <3>. HIDE DEF below
    <3>. QED BY <1>1, <3>2, Pushed
  <2>2. PICK opened \in BOOLEAN : stack' = [stack EXCEPT ![t] =
           (IF opened THEN <<Frame("profile", None, 0)>> ELSE <<>>)
           \o <<Frame("written", None, 0)>> \o Tail(@)]
    BY <1>7 DEF OpenFile
  <2>3. CASE opened
    <3>1. stack' = [stack EXCEPT ![t] = <<Frame("profile", None, 0)>> \o below]
      <4>1. /\ <<Frame("profile", None, 0)>> \in Seq(Procedures)
            /\ <<Frame("written", None, 0)>> \in Seq(Procedures)
            /\ Tail(stack[t]) \in Seq(Procedures)
        BY <1>1, <1>4, <1>7 DEF OpenFile
      <4>2. (<<Frame("profile", None, 0)>> \o <<Frame("written", None, 0)>>) \o Tail(stack[t])
              = <<Frame("profile", None, 0)>> \o below
        BY <4>1, ConcatAssociative
      <4>. QED BY <2>2, <2>3, <4>2
    <3>. HIDE DEF below
    <3>. QED BY <1>2, <1>3, <2>1, <3>1, InnerStep
  <2>4. CASE ~ opened
    <3>1. stack' = [stack EXCEPT ![t] = below]
      <4>1. <<>> \o <<Frame("written", None, 0)>> = <<Frame("written", None, 0)>>
        BY <1>1, ConcatEmptySeq
      <4>. QED BY <2>2, <2>4, <4>1
    <3>. HIDE DEF below
    <3>. QED BY <1>2, <1>3, <2>1, <3>1, InnerStep
  <2>. QED BY <2>3, <2>4
<1>8. CASE CloseFile(t)
  BY <1>1, <1>2, <1>3, <1>8, CallStep DEF CloseFile
<1>9. CASE GetHeapProfile(t)
  BY <1>1, <1>2, <1>3, <1>9, CallStep DEF GetHeapProfile
<1>10. CASE NewList(t)
  <2>1. Tail(stack[t]) \in Seq(Procedures)
    BY <1>4, <1>10, Zenon DEF NewList
  <2>2. PICK p \in Ptrs, n \in Sizes :
          Allocated(t, p, n, <<Frame("collect", p, num_buckets + Slack)>> \o Tail(stack[t]))
    BY <1>10, Zenon DEF NewList
  <2>3. Frame("collect", p, num_buckets + Slack) \in Procedures
    <3>1. num_buckets + Slack \in Int
      BY <1>2, HeapProfilerAssumption
    <3>. QED BY <3>1, FrameType DEF Labels
  <2>4. <<Frame("collect", p, num_buckets + Slack)>> \o Tail(stack[t]) \in Seq(Procedures)
    BY <2>1, <2>3, Pushed
  <2>. QED BY <1>3, <2>2, <2>4, AllocatedStep
<1>11. CASE Collect(t)
  <2>1. At(t) = "collect" /\ Tail(stack[t]) \in Seq(Procedures)
    BY <1>4, <1>11 DEF Collect
  <2>2. Head(stack[t]) \in Procedures
    <3>1. stack[t] # <<>>
      BY <2>1 DEF At
    <3>. QED BY <1>4, <3>1, HeadTailProperties
  <2>3. PICK again \in BOOLEAN : Freed(t, Head(stack[t]).ptr,
          (IF again THEN <<Frame("profile", None, 0)>> ELSE <<>>) \o Tail(stack[t]))
    BY <1>11 DEF Collect
  <2>4. (IF again THEN <<Frame("profile", None, 0)>> ELSE <<>>) \o Tail(stack[t]) \in Seq(Procedures)
    BY <1>1, <2>1, Pushed, ConcatEmptySeq
  <2>5. Head(stack[t]).ptr \in Ptrs \cup {None}
    BY <2>2 DEF Procedures
  <2>. QED BY <1>3, <2>3, <2>4, <2>5, FreedStep
<1>. QED BY <1>5, <1>6, <1>7, <1>8, <1>9, <1>10, <1>11

\* The start of the profiler, or of its dumps when it is already on; its own
\* allocation is made with the lock held, and then everything is set.
LEMMA StartStep ==
    ASSUME IInv, NEW t \in Threads, HeapProfilerStart(t) \/ FirstAllocation(t)
    PROVE  IInv'
<1>. USE DEF switches, hooks, profile
<1>1. CASE HeapProfilerStart(t)
  <2>1. LockFree /\ At(t) = "run" /\ ~ filename_prefix
    BY <1>1 DEF HeapProfilerStart
  <2>2. CASE is_on
    <3>1. /\ UNCHANGED <<heap_lock, stack, num_buckets, is_on, need_for_leaks, new_hook, delete_hook>>
          /\ filename_prefix' = TRUE
      BY <1>1, <2>2 DEF HeapProfilerStart
    <3>2. OnWhenNeeded'
      BY <2>1, <2>2, <3>1 DEF IInv, OnWhenNeeded, LockFree
    <3>. QED BY <2>1, <3>1, <3>2, SwitchStep DEF IInv, Shapes
  <2>3. CASE ~ is_on
    <3>1. /\ heap_lock' = t /\ is_on' = TRUE /\ new_hook' = TRUE /\ num_buckets' = 0
          /\ Call(t, First)
          /\ UNCHANGED <<filename_prefix, need_for_leaks>>
      BY <1>1, <2>3 DEF HeapProfilerStart, First
    <3>2. ~ need_for_leaks
      BY <2>1, <2>3 DEF IInv, OnWhenNeeded
    <3>3. stack[t] = <<>>
      <4>1. stack[t] \in Seq(Procedures)
        BY <2>1, StackOf DEF IInv
      <4>. SUFFICES ASSUME stack[t] # <<>> PROVE FALSE
        OBVIOUS
      <4>2. Head(stack[t]) \in Procedures
        BY <4>1, HeadTailProperties
      <4>. QED BY <2>1, <4>2 DEF At, Procedures, Labels
    <3>4. stack' = [stack EXCEPT ![t] = <<First>>]
      BY <3>1, <3>3 DEF Call
    <3>5. Shapes'
      BY <3>1, <3>4 DEF IInv, Shapes
    <3>6. Holder'
      <4>. SUFFICES ASSUME NEW u \in Threads PROVE heap_lock' = u <=> stack'[u] = <<First>>
        BY DEF Holder
      <4>1. CASE u = t
        BY <3>1, <3>4, <4>1 DEF IInv, Shapes
      <4>2. CASE u # t
        BY <2>1, <3>1, <3>4, <4>2, HeapProfilerAssumption DEF IInv, Shapes, Holder, LockFree
      <4>. QED BY <4>1, <4>2
    <3>7. Starting' /\ OnWhenNeeded'
      BY <2>1, <3>1, <3>2, HeapProfilerAssumption DEF Starting, OnWhenNeeded, LockFree
    <3>. QED BY <3>5, <3>6, <3>7 DEF IInv
  <2>. QED BY <2>2, <2>3
<1>2. CASE FirstAllocation(t)
  <2>1. /\ At(t) = "first" /\ Return(t) /\ heap_lock' = NoThread
        /\ delete_hook' = TRUE /\ filename_prefix' = TRUE
        /\ UNCHANGED <<is_on, need_for_leaks, new_hook, num_buckets>>
    BY <1>2 DEF FirstAllocation
  <2>2. stack[t] = <<First>>
    <3>. SUFFICES ASSUME stack[t] \in Seq(Procedures) PROVE FALSE
      BY DEF IInv, Shapes
    <3>1. stack[t] # <<>>
      BY <2>1 DEF At
    <3>2. Head(stack[t]) \in Procedures
      BY <3>1, HeadTailProperties
    <3>. QED BY <2>1, <3>1, <3>2 DEF At, Procedures, Labels
  <2>3. heap_lock = t
    BY <2>2 DEF IInv, Holder
  <2>4. stack' = [stack EXCEPT ![t] = <<>>]
    BY <2>1, <2>2 DEF Return
  <2>5. Shapes'
    BY <2>1, <2>4 DEF IInv, Shapes
  <2>6. Holder'
    <3>. SUFFICES ASSUME NEW u \in Threads PROVE stack'[u] # <<First>>
      BY <2>1, HeapProfilerAssumption DEF Holder
    <3>1. CASE u = t
      BY <2>4, <3>1 DEF IInv, Shapes
    <3>2. CASE u # t
      BY <2>3, <2>4, <3>2 DEF IInv, Shapes, Holder
    <3>. QED BY <3>1, <3>2
  <2>7. is_on /\ new_hook
    BY <2>3, HeapProfilerAssumption DEF IInv, Starting, LockFree
  <2>8. Starting' /\ OnWhenNeeded'
    BY <2>1, <2>7 DEF Starting, OnWhenNeeded, LockFree
  <2>. QED BY <2>5, <2>6, <2>8 DEF IInv
<1>. QED BY <1>1, <1>2

\* The end of a use of the profiler, which turns it off if it was the last.
LEMMA StopStep ==
    ASSUME IInv, NEW t \in Threads,
           HeapProfilerStop(t) \/ StopForLeaks(t) \/ DumpProfileLocked(t)
    PROVE  IInv'
<1>. USE DEF switches, hooks, profile
<1>1. LockFree /\ UNCHANGED <<heap_lock, stack>>
  BY DEF HeapProfilerStop, StopForLeaks, DumpProfileLocked
<1>2. CASE HeapProfilerStop(t)
  <2>1. /\ is_on /\ filename_prefix' = FALSE /\ need_for_leaks' = need_for_leaks
        /\ IF need_for_leaks
           THEN UNCHANGED <<is_on, new_hook, delete_hook, num_buckets>> ELSE TurnOff
    BY <1>2 DEF HeapProfilerStop
  <2>2. /\ OnWhenNeeded' /\ num_buckets' = num_buckets
        /\ {is_on', need_for_leaks', filename_prefix'} \subseteq BOOLEAN
    BY <1>1, <2>1, TurnOffStep DEF IInv, Shapes, OnWhenNeeded, LockFree
  <2>. QED BY <1>1, <2>2, SwitchStep
<1>3. CASE StopForLeaks(t)
  <2>1. /\ need_for_leaks' = FALSE /\ filename_prefix' = filename_prefix
        /\ IF is_on /\ ~ filename_prefix
           THEN TurnOff ELSE UNCHANGED <<is_on, new_hook, delete_hook, num_buckets>>
    BY <1>3 DEF StopForLeaks
  <2>2. /\ OnWhenNeeded' /\ num_buckets' = num_buckets
        /\ {is_on', need_for_leaks', filename_prefix'} \subseteq BOOLEAN
    BY <1>1, <2>1, TurnOffStep DEF IInv, Shapes, OnWhenNeeded, LockFree
  <2>. QED BY <1>1, <2>2, SwitchStep
<1>4. CASE DumpProfileLocked(t)
  <2>1. UNCHANGED <<is_on, need_for_leaks, filename_prefix, new_hook, delete_hook, num_buckets>>
    BY <1>4 DEF DumpProfileLocked
  <2>2. OnWhenNeeded' /\ {is_on', need_for_leaks', filename_prefix'} \subseteq BOOLEAN
    BY <1>1, <2>1 DEF IInv, Shapes, OnWhenNeeded, LockFree
  <2>. QED BY <1>1, <2>1, <2>2, SwitchStep
<1>. QED BY <1>2, <1>3, <1>4

-----------------------------------------------------------------------------
(* Where labels are on a stack: a procedure's level is counted from below,   *)
(* so that it stays as it is while others are called and return above it.    *)

Levels(s, A) == {<<Len(s) - i, s[i].ptr>> : i \in {j \in 1 .. Len(s) : s[j].at \in A}}
One(f, k, A) == IF f.at \in A THEN {<<k, f.ptr>>} ELSE {}
Labelled(st, A) == [t \in Threads |-> Levels(st[t], A)]
AnyProcedure == Procedures \cup {First}

LEMMA LevelsEmpty == \A A : Levels(<<>>, A) = {}
BY EmptySeq DEF Levels

\* The levels are those below the top.
LEMMA LevelsBelow ==
    ASSUME NEW S, NEW s \in Seq(S), NEW A, NEW x \in Levels(s, A)
    PROVE  x[1] \in Nat /\ x[1] < Len(s)
<1>1. Len(s) \in Nat
  BY LenProperties
<1>2. PICK i \in 1 .. Len(s) : x = <<Len(s) - i, s[i].ptr>>
  BY DEF Levels
<1>3. x[1] = Len(s) - i /\ i \in Nat /\ 1 <= i /\ i <= Len(s)
  BY <1>1, <1>2
<1>. QED BY <1>1, <1>3

\* One more procedure adds its level, if it is at one of the labels.
LEMMA LevelsPush ==
    ASSUME NEW S, NEW s \in Seq(S), NEW f, NEW A
    PROVE  Levels(<<f>> \o s, A) = Levels(s, A) \cup One(f, Len(s), A)
<1>. DEFINE T == S \cup {f}
           n == Len(s)
           s2 == <<f>> \o s
<1>1. s \in Seq(T) /\ <<f>> \in Seq(T) /\ n \in Nat /\ Len(<<f>>) = 1 /\ <<f>>[1] = f
  BY SeqMonotonic, LenProperties
<1>2. /\ Len(s2) = n + 1
      /\ \A i \in 1 .. n + 1 : s2[i] = IF i = 1 THEN f ELSE s[i - 1]
  <2>1. /\ Len(s2) = 1 + n
        /\ \A i \in 1 .. 1 + n : s2[i] = IF i <= 1 THEN <<f>>[i] ELSE s[i - 1]
    BY <1>1, ConcatProperties
  <2>. QED BY <1>1, <2>1
<1>. HIDE DEF s2, n, T
<1>3. ASSUME NEW x \in Levels(s2, A) PROVE x \in Levels(s, A) \cup One(f, n, A)
  <2>1. PICK i \in 1 .. Len(s2) : s2[i].at \in A /\ x = <<Len(s2) - i, s2[i].ptr>>
    BY DEF Levels
  <2>2. i \in Nat /\ 1 <= i /\ i <= n + 1
    BY <1>1, <1>2, <2>1
  <2>3. CASE i = 1
    <3>1. f.at \in A /\ x = <<n, f.ptr>>
      BY <1>1, <1>2, <2>1, <2>2, <2>3
    <3>. QED BY <3>1 DEF One
  <2>4. CASE i # 1
    <3>. DEFINE j == i - 1
    <3>1. j \in 1 .. n /\ s2[i] = s[j] /\ Len(s2) - i = n - j
      BY <1>1, <1>2, <2>2, <2>4
    <3>2. s[j].at \in A /\ x = <<n - j, s[j].ptr>>
      BY <2>1, <3>1
    <3>. QED BY <3>1, <3>2 DEF Levels, n
  <2>. QED BY <2>3, <2>4
<1>4. ASSUME NEW x \in Levels(s, A) PROVE x \in Levels(s2, A)
  <2>1. PICK j \in 1 .. n : s[j].at \in A /\ x = <<n - j, s[j].ptr>>
    BY DEF Levels, n
  <2>. DEFINE i == j + 1
  <2>2. i \in 1 .. Len(s2) /\ s2[i] = s[j] /\ Len(s2) - i = n - j
    BY <1>1, <1>2, <2>1
  <2>. QED BY <2>1, <2>2 DEF Levels
<1>5. ASSUME NEW x \in One(f, n, A) PROVE x \in Levels(s2, A)
  <2>1. f.at \in A /\ x = <<n, f.ptr>>
    BY <1>5 DEF One
  <2>2. 1 \in 1 .. Len(s2) /\ s2[1] = f /\ Len(s2) - 1 = n
    BY <1>1, <1>2
  <2>. QED BY <2>1, <2>2 DEF Levels
<1>. QED BY <1>3, <1>4, <1>5 DEF s2, n

\* A thread in a procedure has it on top of its stack.
LEMMA TopFacts ==
    ASSUME Shapes, NEW t \in Threads
    PROVE  /\ stack[t] \in Seq(AnyProcedure)
           /\ At(t) # "run" =>
                /\ Head(stack[t]).at = At(t) /\ Head(stack[t]) \in AnyProcedure
                /\ Tail(stack[t]) \in Seq(AnyProcedure)
                /\ \A A : Levels(stack[t], A) =
                            Levels(Tail(stack[t]), A)
                            \cup One(Head(stack[t]), Len(Tail(stack[t])), A)
<1>1. stack[t] \in Seq(AnyProcedure)
  <2>1. CASE stack[t] = <<First>>
    <3>1. <<First>> \in Seq({First})
      OBVIOUS
    <3>. QED BY <2>1, <3>1, SeqMonotonic DEF AnyProcedure
  <2>2. CASE stack[t] \in Seq(Procedures)
    BY <2>2, SeqMonotonic DEF AnyProcedure
  <2>. QED BY <2>1, <2>2 DEF Shapes
<1>2. ASSUME At(t) # "run"
      PROVE  /\ Head(stack[t]).at = At(t) /\ Head(stack[t]) \in AnyProcedure
             /\ Tail(stack[t]) \in Seq(AnyProcedure)
             /\ stack[t] = <<Head(stack[t])>> \o Tail(stack[t])
  <2>1. stack[t] # <<>> /\ Head(stack[t]).at = At(t)
    BY <1>2 DEF At
  <2>2. /\ Head(stack[t]) \in AnyProcedure /\ Tail(stack[t]) \in Seq(AnyProcedure)
        /\ stack[t] = <<Head(stack[t])>> \o Tail(stack[t])
    BY <1>1, <2>1, HeadTailProperties
  <2>. QED BY <2>1, <2>2
<1>3. ASSUME At(t) # "run", NEW A
      PROVE  Levels(stack[t], A) =
               Levels(Tail(stack[t]), A) \cup One(Head(stack[t]), Len(Tail(stack[t])), A)
  BY <1>2, <1>3, LevelsPush
<1>. QED BY <1>1, <1>2, <1>3

\* A thread's step changes what is on its own stack.
Becomes(t, s) == stack' = [stack EXCEPT ![t] = s]
With(D, t, X) == [u \in Threads |-> IF u = t THEN X ELSE D[u]]

LEMMA LabelledStep ==
    ASSUME Shapes, NEW t \in Threads, NEW s, Becomes(t, s), NEW A
    PROVE  Labelled(stack', A) = With(Labelled(stack, A), t, Levels(s, A))
<1>. DEFINE st == stack'
<1>1. \A u \in Threads : st[u] = IF u = t THEN s ELSE stack[u]
  BY DEF Shapes, Becomes
<1>. HIDE DEF st
<1>2. Labelled(st, A) = With(Labelled(stack, A), t, Levels(s, A))
  BY <1>1 DEF Labelled, With
<1>. QED BY <1>2 DEF st

-----------------------------------------------------------------------------
(* One dump at a time                                                        *)

DumpLabels == {"write", "written"}
Dumping == Labelled(stack, DumpLabels)

\* The property in terms of levels.
OneLevel(D, on) ==
    /\ on <=> \E t \in Threads : D[t] # {}
    /\ \A t, u \in Threads : \A x \in D[t], y \in D[u] : t = u /\ x = y

LEMMA OneDumperLevels ==
    ASSUME NEW st, \A t \in Threads : st[t] \in Seq(AnyProcedure), NEW on
    PROVE  OneLevel(Labelled(st, DumpLabels), on) <=>
             /\ on <=> \E t \in Threads : Dumps(st[t]) # {}
             /\ \A t, u \in Threads : \A i \in Dumps(st[t]), j \in Dumps(st[u]) : t = u /\ i = j
<1>. DEFINE level(t, i) == <<Len(st[t]) - i, st[t][i].ptr>>
            D == Labelled(st, DumpLabels)
            dumps(t) == Dumps(st[t])
<1>1. ASSUME NEW t \in Threads PROVE Len(st[t]) \in Nat
  BY LenProperties
<1>2. ASSUME NEW t \in Threads PROVE D[t] = {level(t, i) : i \in dumps(t)}
  <2>1. D[t] = Levels(st[t], DumpLabels)
    BY DEF Labelled
  <2>2. Levels(st[t], DumpLabels) = {level(t, i) : i \in dumps(t)}
    BY Zenon DEF Levels, Dumps, DumpLabels
  <2>. QED BY <2>1, <2>2
<1>3. ASSUME NEW t \in Threads, NEW i \in dumps(t), NEW j \in dumps(t), level(t, i) = level(t, j)
      PROVE  i = j
  <2>1. i \in Nat /\ j \in Nat
    BY DEF Dumps
  <2>2. Len(st[t]) - i = Len(st[t]) - j
    BY <1>3
  <2>. QED BY <1>1, <2>1, <2>2
<1>. HIDE DEF level, D, dumps
<1>4. ASSUME NEW t \in Threads PROVE D[t] # {} <=> dumps(t) # {}
  BY <1>2
<1>5. ASSUME \A t, u \in Threads : \A i \in dumps(t), j \in dumps(u) : t = u /\ i = j,
             NEW t \in Threads, NEW u \in Threads, NEW x \in D[t], NEW y \in D[u]
      PROVE  t = u /\ x = y
  <2>1. PICK i \in dumps(t) : x = level(t, i)
    BY <1>2
  <2>2. PICK j \in dumps(u) : y = level(u, j)
    BY <1>2
  <2>. QED BY <1>5, <2>1, <2>2
<1>6. ASSUME \A t, u \in Threads : \A x \in D[t], y \in D[u] : t = u /\ x = y,
             NEW t \in Threads, NEW u \in Threads, NEW i \in dumps(t), NEW j \in dumps(u)
      PROVE  t = u /\ i = j
  <2>1. level(t, i) \in D[t] /\ level(u, j) \in D[u]
    BY <1>2
  <2>2. t = u /\ level(t, i) = level(u, j)
    BY <1>6, <2>1
  <2>. QED BY <1>3, <2>2
<1>7. OneLevel(D, on) <=>
        /\ on <=> \E t \in Threads : dumps(t) # {}
        /\ \A t, u \in Threads : \A i \in dumps(t), j \in dumps(u) : t = u /\ i = j
  BY <1>4, <1>5, <1>6 DEF OneLevel
<1>. QED BY <1>7 DEF D, dumps

\* For the stacks of a state, and of the next one.
LEMMA OneDumperIs ==
    ASSUME Shapes PROVE OneDumper <=> OneLevel(Dumping, dumping)
<1>1. \A t \in Threads : stack[t] \in Seq(AnyProcedure)
  BY TopFacts
<1>2. OneLevel(Dumping, dumping) <=>
        /\ dumping <=> \E t \in Threads : Dumps(stack[t]) # {}
        /\ \A t, u \in Threads : \A i \in Dumps(stack[t]), j \in Dumps(stack[u]) : t = u /\ i = j
  BY <1>1, OneDumperLevels, Zenon DEF Dumping
<1>. QED BY <1>2, Zenon DEF OneDumper

LEMMA OneDumperNext ==
    ASSUME Shapes, Shapes', NEW t \in Threads, NEW s, Becomes(t, s),
           OneLevel(With(Dumping, t, Levels(s, DumpLabels)), dumping')
    PROVE  OneDumper'
<1>. DEFINE st == stack'
            on == dumping'
<1>1. OneLevel(Labelled(st, DumpLabels), on)
  BY LabelledStep DEF Dumping
<1>2. \A u \in Threads : st[u] \in Seq(AnyProcedure)
  <2>1. ASSUME NEW u \in Threads, st[u] \in Seq(Procedures) PROVE st[u] \in Seq(AnyProcedure)
    BY <2>1, SeqMonotonic DEF AnyProcedure
  <2>2. <<First>> \in Seq(AnyProcedure)
    BY DEF AnyProcedure
  <2>. QED BY <2>1, <2>2 DEF Shapes
<1>. HIDE DEF st, on
<1>3. /\ on <=> \E u \in Threads : Dumps(st[u]) # {}
      /\ \A u, v \in Threads : \A i \in Dumps(st[u]), j \in Dumps(st[v]) : u = v /\ i = j
  BY <1>1, <1>2, OneDumperLevels
<1>4. /\ dumping' <=> \E u \in Threads : Dumps(stack'[u]) # {}
      /\ \A u, v \in Threads : \A i \in Dumps(stack'[u]), j \in Dumps(stack'[v]) : u = v /\ i = j
  BY <1>3 DEF st, on
<1>. QED BY <1>4 DEF OneDumper, Dumps

\* A step outside the dump.
LEMMA DumpStays ==
    ASSUME NEW D, NEW on, OneLevel(D, on), NEW t \in Threads
    PROVE  OneLevel(With(D, t, D[t]), on)
BY DEF OneLevel, With

\* A thread begins a dump when nobody is in one, ...
LEMMA DumpBegins ==
    ASSUME NEW D, OneLevel(D, FALSE), NEW t \in Threads, NEW x, NEW X, X \subseteq D[t]
    PROVE  OneLevel(With(D, t, X \cup {x}), TRUE)
<1>1. \A u \in Threads : D[u] = {}
  BY DEF OneLevel
<1>2. \A u \in Threads : With(D, t, X \cup {x})[u] = IF u = t THEN {x} ELSE {}
  BY <1>1 DEF With
<1>. QED BY <1>2 DEF OneLevel

\* ... goes on with it at the same place, ...
LEMMA DumpGoesOn ==
    ASSUME NEW D, NEW on, OneLevel(D, on), NEW t \in Threads, NEW x, NEW y, NEW X,
           D[t] = X \cup {x}, x \notin X
    PROVE  OneLevel(With(D, t, X \cup {y}), on)
<1>1. X = {} /\ on
  BY DEF OneLevel
<1>2. \A u \in Threads \ {t} : D[u] = {}
  BY DEF OneLevel
<1>3. \A u \in Threads : With(D, t, X \cup {y})[u] = IF u = t THEN {y} ELSE {}
  BY <1>1, <1>2 DEF With
<1>. QED BY <1>1, <1>3 DEF OneLevel

\* ... and when it is at its end nobody is in one.
LEMMA DumpEnds ==
    ASSUME NEW D, NEW on, OneLevel(D, on), NEW t \in Threads, NEW x, NEW X,
           D[t] = X \cup {x}, x \notin X
    PROVE  OneLevel(With(D, t, X), FALSE)
<1>1. X = {}
  BY DEF OneLevel
<1>2. \A u \in Threads \ {t} : D[u] = {}
  BY DEF OneLevel
<1>3. \A u \in Threads : With(D, t, X)[u] = {}
  BY <1>1, <1>2 DEF With
<1>. QED BY <1>3 DEF OneLevel

-----------------------------------------------------------------------------
(* What the steps make of a stack                                            *)

Below(t) == Tail(stack[t])
Push(f, s) == <<f>> \o s
PushIf(on, f, s) == IF on THEN Push(f, s) ELSE s

\* A procedure has one level if it is at one of the labels, or else none.
LEMMA OneIn == ASSUME NEW f, NEW k, NEW A, f.at \in A PROVE One(f, k, A) = {<<k, f.ptr>>}
BY DEF One
LEMMA OneOut == ASSUME NEW f, NEW k, NEW A, f.at \notin A PROVE One(f, k, A) = {}
BY DEF One

LEMMA FrameFields ==
    ASSUME NEW l, NEW p, NEW n
    PROVE  Frame(l, p, n).at = l /\ Frame(l, p, n).ptr = p
BY DEF Frame

\* A procedure that is called, or perhaps called, is above the others.
LEMMA PushSeq ==
    ASSUME NEW s \in Seq(AnyProcedure), NEW f \in AnyProcedure, NEW on
    PROVE  /\ Push(f, s) \in Seq(AnyProcedure) /\ Len(Push(f, s)) = Len(s) + 1
           /\ PushIf(on, f, s) \in Seq(AnyProcedure)
           /\ Len(s) \in Nat
<1>1. <<f>> \in Seq(AnyProcedure) /\ Len(<<f>>) = 1 /\ Len(s) \in Nat
  BY LenProperties
<1>2. Push(f, s) \in Seq(AnyProcedure) /\ Len(Push(f, s)) = Len(s) + 1
  BY <1>1, ConcatProperties DEF Push
<1>. QED BY <1>1, <1>2 DEF PushIf

LEMMA PushIn ==
    ASSUME NEW s \in Seq(AnyProcedure), NEW f, NEW A, f.at \in A
    PROVE  Levels(Push(f, s), A) = Levels(s, A) \cup {<<Len(s), f.ptr>>}
BY LevelsPush, OneIn DEF Push

LEMMA PushOut ==
    ASSUME NEW s \in Seq(AnyProcedure), NEW f, NEW on, NEW A, f.at \notin A
    PROVE  /\ Levels(Push(f, s), A) = Levels(s, A)
           /\ Levels(PushIf(on, f, s), A) = Levels(s, A)
<1>1. Levels(Push(f, s), A) = Levels(s, A) \cup One(f, Len(s), A)
  BY LevelsPush DEF Push
<1>2. Levels(Push(f, s), A) = Levels(s, A)
  BY <1>1, OneOut
<1>. QED BY <1>2 DEF PushIf

\* The procedure a thread is in is on top, and its level is no other's.
LEMMA BelowSeq ==
    ASSUME Shapes, NEW t \in Threads
    PROVE  /\ stack[t] \in Seq(AnyProcedure) /\ Len(stack[t]) \in Nat
           /\ At(t) # "run" =>
                /\ Below(t) \in Seq(AnyProcedure) /\ Len(Below(t)) \in Nat
                /\ Head(stack[t]) \in AnyProcedure /\ Head(stack[t]).at = At(t)
BY TopFacts, LenProperties DEF Below

LEMMA BelowIn ==
    ASSUME Shapes, NEW t \in Threads, At(t) # "run", NEW A, At(t) \in A
    PROVE  /\ Levels(stack[t], A) = Levels(Below(t), A) \cup {<<Len(Below(t)), Head(stack[t]).ptr>>}
           /\ \A p : <<Len(Below(t)), p>> \notin Levels(Below(t), A)
<1>1. /\ Levels(stack[t], A) = Levels(Below(t), A) \cup One(Head(stack[t]), Len(Below(t)), A)
      /\ Head(stack[t]).at = At(t)
      /\ Below(t) \in Seq(AnyProcedure)
  BY TopFacts DEF Below
<1>2. ASSUME NEW p, <<Len(Below(t)), p>> \in Levels(Below(t), A) PROVE FALSE
  <2>1. <<Len(Below(t)), p>>[1] < Len(Below(t)) /\ Len(Below(t)) \in Nat
    BY <1>1, <1>2, LevelsBelow, LenProperties
  <2>. QED BY <2>1
<1>. QED BY <1>1, <1>2, OneIn

LEMMA BelowOut ==
    ASSUME Shapes, NEW t \in Threads, At(t) # "run", NEW A, At(t) \notin A
    PROVE  Levels(stack[t], A) = Levels(Below(t), A)
<1>1. /\ Levels(stack[t], A) = Levels(Below(t), A) \cup One(Head(stack[t]), Len(Below(t)), A)
      /\ Head(stack[t]).at = At(t)
  BY TopFacts DEF Below
<1>. QED BY <1>1, OneOut

\* malloc and free go on with what they are given, below their hook.
LEMMA AllocatedStack ==
    ASSUME NEW t \in Threads, NEW p, NEW n, NEW rest, Allocated(t, p, n, rest)
    PROVE  Becomes(t, PushIf(new_hook, Frame("record_alloc", p, 0), rest))
BY Zenon DEF Allocated, Becomes, PushIf, Push

LEMMA FreedStack ==
    ASSUME NEW t \in Threads, NEW p, NEW rest, Freed(t, p, rest)
    PROVE  Becomes(t, PushIf(delete_hook, Frame("record_free", p, 0), rest))
BY Zenon DEF Freed, Becomes, PushIf, Push

\* The list of GetHeapProfile, which it takes and gives back, ...
LEMMA NewListStack ==
    ASSUME Shapes, NEW t \in Threads, NewList(t)
    PROVE  /\ At(t) = "profile"
           /\ \E p \in Ptrs \ DOMAIN live, n \in Sizes :
                Allocated(t, p, n, Push(Frame("collect", p, num_buckets + Slack), Below(t)))
BY Zenon DEF NewList, Push, Below

LEMMA CollectStack ==
    ASSUME Shapes, NEW t \in Threads, Collect(t)
    PROVE  /\ At(t) = "collect"
           /\ \E again \in BOOLEAN :
                Freed(t, Head(stack[t]).ptr, PushIf(again, Frame("profile", None, 0), Below(t)))
<1>1. At(t) = "collect"
  BY DEF Collect
<1>2. <<>> \o Below(t) = Below(t)
  BY <1>1, BelowSeq, ConcatEmptySeq
<1>3. PICK again \in BOOLEAN : Freed(t, Head(stack[t]).ptr,
        (IF again THEN <<Frame("profile", None, 0)>> ELSE <<>>) \o Below(t))
  BY DEF Collect, Below
<1>4. (IF again THEN <<Frame("profile", None, 0)>> ELSE <<>>) \o Below(t)
        = PushIf(again, Frame("profile", None, 0), Below(t))
  BY <1>2 DEF PushIf, Push
<1>5. Freed(t, Head(stack[t]).ptr, PushIf(again, Frame("profile", None, 0), Below(t)))
  BY <1>3, <1>4
<1>. QED BY <1>1, <1>5

\* ... and the file of a dump.
LEMMA OpenFileStack ==
    ASSUME Shapes, NEW t \in Threads, OpenFile(t)
    PROVE  /\ At(t) = "write"
           /\ \E opened \in BOOLEAN :
                Becomes(t, PushIf(opened, Frame("profile", None, 0),
                                  Push(Frame("written", None, 0), Below(t))))
<1>1. At(t) = "write"
  BY DEF OpenFile
<1>. DEFINE p == <<Frame("profile", None, 0)>>
            w == <<Frame("written", None, 0)>>
<1>2. PICK opened \in BOOLEAN :
        stack' = [stack EXCEPT ![t] = (IF opened THEN p ELSE <<>>) \o w \o Tail(@)]
  BY DEF OpenFile
<1>3. stack' = [stack EXCEPT ![t] = ((IF opened THEN p ELSE <<>>) \o w) \o Below(t)]
  BY <1>2 DEF Below
<1>4. Below(t) \in Seq(AnyProcedure) /\ p \in Seq(AnyProcedure) /\ w \in Seq(AnyProcedure)
  BY <1>1, BelowSeq, FrameType DEF AnyProcedure, Labels
<1>. HIDE DEF p, w
<1>5. (p \o w) \o Below(t) = p \o (w \o Below(t)) /\ <<>> \o w = w
  BY <1>4, ConcatAssociative, ConcatEmptySeq
<1>6. ((IF opened THEN p ELSE <<>>) \o w) \o Below(t)
        = IF opened THEN p \o (w \o Below(t)) ELSE w \o Below(t)
  BY <1>5
<1>7. stack' = [stack EXCEPT ![t] = IF opened THEN p \o (w \o Below(t)) ELSE w \o Below(t)]
  BY <1>3, <1>6
<1>. QED BY <1>1, <1>7, Zenon DEF Becomes, PushIf, Push, p, w

\* The frames that the profiler pushes are its procedures.
LEMMA FramesAny ==
    ASSUME IInv, NEW p \in Ptrs \cup {None}, NEW l \in Labels
    PROVE  /\ Frame(l, p, 0) \in AnyProcedure
           /\ Frame(l, p, num_buckets + Slack) \in AnyProcedure
<1>1. num_buckets + Slack \in Int
  BY HeapProfilerAssumption DEF IInv, Shapes
<1>. QED BY <1>1, FrameType DEF AnyProcedure

-----------------------------------------------------------------------------
(* The steps of a dump                                                        *)

\* A step in which no dump begins or ends.
LEMMA QuietDump ==
    ASSUME Shapes, Shapes', OneDumper, NEW t \in Threads, NEW s, Becomes(t, s),
           Levels(s, DumpLabels) = Levels(stack[t], DumpLabels), dumping' = dumping
    PROVE  OneDumper'
<1>1. OneLevel(Dumping, dumping)
  BY OneDumperIs
<1>2. Dumping[t] = Levels(s, DumpLabels)
  BY DEF Dumping, Labelled
<1>3. OneLevel(With(Dumping, t, Levels(s, DumpLabels)), dumping')
  BY <1>1, <1>2, DumpStays
<1>. QED BY <1>3, OneDumperNext

\* What is done to the stack by the actions that neither begin nor end a dump.
LEMMA QuietActions ==
    ASSUME IInv, IInv', OneDumper, NEW t \in Threads,
           \/ Malloc(t) \/ Free(t) \/ NewList(t) \/ Collect(t) \/ RecordFree(t)
           \/ HeapProfilerDump(t) \/ GetHeapProfile(t)
    PROVE  OneDumper'
<1>1. Shapes /\ Shapes' /\ stack[t] \in Seq(AnyProcedure)
  BY BelowSeq DEF IInv
<1>2. dumping' = dumping
  BY Zenon DEF Malloc, Free, NewList, Collect, RecordFree, HeapProfilerDump, GetHeapProfile
<1>3. \A l \in {"record_alloc", "record_free", "collect", "profile", "dump"} : l \notin DumpLabels
  BY DEF DumpLabels
<1>4. CASE Malloc(t)
  <2>1. PICK p \in Ptrs, n \in Sizes : Allocated(t, p, n, stack[t])
    BY <1>4, Zenon DEF Malloc
  <2>. DEFINE f == Frame("record_alloc", p, 0)
  <2>2. Becomes(t, PushIf(new_hook, f, stack[t]))
    BY <2>1, AllocatedStack
  <2>3. f.at \notin DumpLabels
    BY <1>3, FrameFields
  <2>. HIDE DEF f
  <2>. QED BY <1>1, <1>2, <2>2, <2>3, PushOut, QuietDump
<1>5. CASE Free(t)
  <2>1. PICK p \in Ptrs : Freed(t, p, stack[t])
    BY <1>5 DEF Free
  <2>. DEFINE f == Frame("record_free", p, 0)
  <2>2. Becomes(t, PushIf(delete_hook, f, stack[t]))
    BY <2>1, FreedStack
  <2>3. f.at \notin DumpLabels
    BY <1>3, FrameFields
  <2>. HIDE DEF f
  <2>. QED BY <1>1, <1>2, <2>2, <2>3, PushOut, QuietDump
<1>6. CASE NewList(t)
  <2>1. At(t) = "profile"
    BY <1>1, <1>6, NewListStack
  <2>2. PICK p \in Ptrs, n \in Sizes :
          Allocated(t, p, n, Push(Frame("collect", p, num_buckets + Slack), Below(t)))
    BY <1>1, <1>6, NewListStack
  <2>. DEFINE f == Frame("record_alloc", p, 0)
              g == Frame("collect", p, num_buckets + Slack)
              rest == Push(g, Below(t))
  <2>3. Becomes(t, PushIf(new_hook, f, rest))
    BY <2>2, AllocatedStack
  <2>4. f.at \notin DumpLabels /\ g.at \notin DumpLabels
    BY <1>3, FrameFields
  <2>5. g \in AnyProcedure
    BY FramesAny DEF Labels
  <2>. HIDE DEF f, g
  <2>. Below(t) \in Seq(AnyProcedure)
    BY <1>1, <2>1, BelowSeq
  <2>6. rest \in Seq(AnyProcedure) /\ Levels(rest, DumpLabels) = Levels(Below(t), DumpLabels)
    BY <2>4, <2>5, PushSeq, PushOut
  <2>7. Levels(Below(t), DumpLabels) = Levels(stack[t], DumpLabels)
    BY <1>1, <1>3, <2>1, BelowOut
  <2>. HIDE DEF rest
  <2>8. Levels(PushIf(new_hook, f, rest), DumpLabels) = Levels(stack[t], DumpLabels)
    BY <2>4, <2>6, <2>7, PushOut
  <2>. QED BY <1>1, <1>2, <2>3, <2>8, QuietDump
<1>7. CASE Collect(t)
  <2>1. At(t) = "collect"
    BY <1>1, <1>7, CollectStack
  <2>2. PICK again \in BOOLEAN :
          Freed(t, Head(stack[t]).ptr, PushIf(again, Frame("profile", None, 0), Below(t)))
    BY <1>1, <1>7, CollectStack
  <2>. DEFINE f == Frame("record_free", Head(stack[t]).ptr, 0)
              g == Frame("profile", None, 0)
              rest == PushIf(again, g, Below(t))
  <2>3. Becomes(t, PushIf(delete_hook, f, rest))
    BY <2>2, FreedStack
  <2>4. f.at \notin DumpLabels /\ g.at \notin DumpLabels
    BY <1>3, FrameFields
  <2>5. g \in AnyProcedure
    BY FramesAny DEF Labels
  <2>. HIDE DEF f, g
  <2>. Below(t) \in Seq(AnyProcedure)
    BY <1>1, <2>1, BelowSeq
  <2>6. rest \in Seq(AnyProcedure) /\ Levels(rest, DumpLabels) = Levels(Below(t), DumpLabels)
    BY <2>4, <2>5, PushSeq, PushOut
  <2>7. Levels(Below(t), DumpLabels) = Levels(stack[t], DumpLabels)
    BY <1>1, <1>3, <2>1, BelowOut
  <2>. HIDE DEF rest
  <2>8. Levels(PushIf(delete_hook, f, rest), DumpLabels) = Levels(stack[t], DumpLabels)
    BY <2>4, <2>6, <2>7, PushOut
  <2>. QED BY <1>1, <1>2, <2>3, <2>8, QuietDump
<1>8. CASE RecordFree(t)
  <2>1. At(t) = "record_free" /\ Return(t)
    BY <1>8, Zenon DEF RecordFree
  <2>2. Becomes(t, Below(t))
    BY <2>1 DEF Return, Becomes, Below
  <2>3. Levels(Below(t), DumpLabels) = Levels(stack[t], DumpLabels)
    BY <1>1, <1>3, <2>1, BelowOut
  <2>. QED BY <1>1, <1>2, <2>2, <2>3, QuietDump
<1>9. CASE HeapProfilerDump(t) \/ GetHeapProfile(t)
  <2>1. PICK l \in {"dump", "profile"} : Call(t, Frame(l, None, 0))
    BY <1>9 DEF HeapProfilerDump, GetHeapProfile
  <2>. DEFINE f == Frame(l, None, 0)
  <2>2. Becomes(t, Push(f, stack[t]))
    BY <2>1, Zenon DEF Call, Becomes, Push
  <2>3. f.at \notin DumpLabels
    BY <1>3, FrameFields
  <2>. HIDE DEF f
  <2>. QED BY <1>1, <1>2, <2>2, <2>3, PushOut, QuietDump
<1>. QED BY <1>4, <1>5, <1>6, <1>7, <1>8, <1>9

\* A dump that is due, from the hook or from HeapProfilerDump.
LEMMA DumpDueStep ==
    ASSUME IInv, IInv', OneDumper, NEW t \in Threads, At(t) \in {"record_alloc", "dump"},
           \/ Return(t) /\ dumping' = dumping
           \/ ~ dumping /\ StartsDump(t)
    PROVE  OneDumper'
<1>1. Shapes /\ Shapes' /\ At(t) # "run"
  BY DEF IInv
<1>2. At(t) \notin DumpLabels /\ "write" \in DumpLabels
  BY DEF DumpLabels
<1>3. Below(t) \in Seq(AnyProcedure) /\ Levels(stack[t], DumpLabels) = Levels(Below(t), DumpLabels)
  BY <1>1, <1>2, BelowSeq, BelowOut
<1>4. CASE Return(t) /\ dumping' = dumping
  <2>1. Becomes(t, Below(t))
    BY <1>4 DEF Return, Becomes, Below
  <2>. QED BY <1>1, <1>3, <1>4, <2>1, QuietDump
<1>5. CASE ~ dumping /\ dumping' = TRUE /\ Jump(t, Frame("write", None, 0))
  <2>. DEFINE f == Frame("write", None, 0)
              x == <<Len(Below(t)), f.ptr>>
              X == Levels(Below(t), DumpLabels)
              D == Dumping
  <2>1. Becomes(t, Push(f, Below(t)))
    BY <1>5, Zenon DEF Jump, Becomes, Push, Below
  <2>2. f.at \in DumpLabels
    BY <1>2, FrameFields
  <2>. HIDE DEF f
  <2>3. Levels(Push(f, Below(t)), DumpLabels) = X \cup {x}
    BY <1>3, <2>2, PushIn
  <2>4. OneLevel(D, dumping)
    BY <1>1, OneDumperIs
  <2>5. OneLevel(D, FALSE)
    BY <1>5, <2>4 DEF OneLevel
  <2>6. X \subseteq D[t]
    BY <1>3 DEF Dumping, Labelled
  <2>. HIDE DEF x, X, D
  <2>7. OneLevel(With(D, t, X \cup {x}), TRUE)
    BY <2>5, <2>6, DumpBegins
  <2>8. OneLevel(With(Dumping, t, Levels(Push(f, Below(t)), DumpLabels)), dumping')
    BY <1>5, <2>3, <2>7 DEF D
  <2>. QED BY <1>1, <2>1, <2>8, OneDumperNext
<1>. QED BY <1>4, <1>5 DEF StartsDump

\* The file is opened and closed.
LEMMA FileStep ==
    ASSUME IInv, IInv', OneDumper, NEW t \in Threads, OpenFile(t) \/ CloseFile(t)
    PROVE  OneDumper'
<1>1. Shapes /\ Shapes'
  BY DEF IInv
<1>2. At(t) \in DumpLabels /\ At(t) # "run" /\ "profile" \notin DumpLabels /\ "written" \in DumpLabels
  BY DEF DumpLabels, OpenFile, CloseFile
<1>. DEFINE x == <<Len(Below(t)), Head(stack[t]).ptr>>
            X == Levels(Below(t), DumpLabels)
            D == Dumping
<1>3. /\ Below(t) \in Seq(AnyProcedure)
      /\ Levels(stack[t], DumpLabels) = X \cup {x} /\ x \notin X
  BY <1>1, <1>2, BelowSeq, BelowIn
<1>4. OneLevel(D, dumping) /\ D[t] = X \cup {x}
  BY <1>1, <1>3, OneDumperIs DEF Dumping, Labelled
<1>. HIDE DEF x, X, D
<1>5. CASE OpenFile(t)
  <2>1. dumping' = dumping
    BY <1>5, Zenon DEF OpenFile
  <2>. DEFINE f == Frame("profile", None, 0)
              g == Frame("written", None, 0)
              below == Push(g, Below(t))
              y == <<Len(Below(t)), g.ptr>>
  <2>2. PICK opened \in BOOLEAN : Becomes(t, PushIf(opened, f, below))
    BY <1>1, <1>5, OpenFileStack
  <2>3. f.at \notin DumpLabels /\ g.at \in DumpLabels /\ g \in AnyProcedure
    BY <1>2, FrameFields, FramesAny DEF Labels
  <2>. HIDE DEF f, g
  <2>4. below \in Seq(AnyProcedure) /\ Levels(below, DumpLabels) = X \cup {y}
    BY <1>3, <2>3, PushSeq, PushIn DEF X
  <2>. HIDE DEF below, y
  <2>5. Levels(PushIf(opened, f, below), DumpLabels) = X \cup {y}
    BY <2>3, <2>4, PushOut
  <2>6. OneLevel(With(D, t, X \cup {y}), dumping)
    BY <1>3, <1>4, DumpGoesOn
  <2>7. OneLevel(With(Dumping, t, Levels(PushIf(opened, f, below), DumpLabels)), dumping')
    BY <2>1, <2>5, <2>6 DEF D
  <2>. QED BY <1>1, <2>2, <2>7, OneDumperNext
<1>6. CASE CloseFile(t)
  <2>1. dumping' = FALSE /\ Becomes(t, Below(t))
    BY <1>6 DEF CloseFile, Return, Becomes, Below
  <2>2. OneLevel(With(D, t, X), FALSE)
    BY <1>3, <1>4, DumpEnds
  <2>3. OneLevel(With(Dumping, t, Levels(Below(t), DumpLabels)), dumping')
    BY <2>1, <2>2 DEF D, X
  <2>. QED BY <1>1, <2>1, <2>3, OneDumperNext
<1>. QED BY <1>5, <1>6

\* The first allocation is no dump; the other actions leave the stacks.
LEMMA StartQuiet ==
    ASSUME IInv, IInv', OneDumper, NEW t \in Threads, HeapProfilerStart(t) \/ FirstAllocation(t)
    PROVE  OneDumper'
<1>1. Shapes /\ Shapes' /\ stack[t] \in Seq(AnyProcedure)
  BY BelowSeq DEF IInv
<1>2. "first" \notin DumpLabels
  BY DEF DumpLabels
<1>3. dumping' = dumping
  BY Zenon DEF HeapProfilerStart, FirstAllocation
<1>4. CASE FirstAllocation(t)
  <2>1. At(t) = "first" /\ Becomes(t, Below(t))
    BY <1>4 DEF FirstAllocation, Return, Becomes, Below
  <2>2. Levels(Below(t), DumpLabels) = Levels(stack[t], DumpLabels)
    BY <1>1, <1>2, <2>1, BelowOut
  <2>. QED BY <1>1, <1>3, <2>1, <2>2, QuietDump
<1>5. CASE HeapProfilerStart(t)
  <2>1. stack' = stack \/ Call(t, Frame("first", None, 0))
    BY <1>5, Zenon DEF HeapProfilerStart
  <2>2. CASE stack' = stack
    <3>1. Becomes(t, stack[t])
      BY <1>1, <2>2 DEF Shapes, Becomes
    <3>. QED BY <1>1, <1>3, <3>1, QuietDump
  <2>3. CASE Call(t, Frame("first", None, 0))
    <3>. DEFINE f == Frame("first", None, 0)
    <3>1. Becomes(t, Push(f, stack[t]))
      BY <2>3, Zenon DEF Call, Becomes, Push
    <3>2. f.at \notin DumpLabels
      BY <1>2, FrameFields
    <3>. HIDE DEF f
    <3>. QED BY <1>1, <1>3, <3>1, <3>2, PushOut, QuietDump
  <2>. QED BY <2>1, <2>2, <2>3
<1>. QED BY <1>4, <1>5

LEMMA OneDumperStep == IInv /\ IInv' /\ OneDumper /\ [Next]_vars => OneDumper'
<1>. SUFFICES ASSUME IInv, IInv', OneDumper, [Next]_vars PROVE OneDumper'
  OBVIOUS
<1>1. ASSUME UNCHANGED <<stack, dumping>> PROVE OneDumper'
  BY <1>1 DEF OneDumper, Dumps
<1>2. CASE UNCHANGED vars
  BY <1>1, <1>2 DEF vars
<1>3. ASSUME NEW t \in Threads, RecordAlloc(t) PROVE OneDumper'
  <2>1. At(t) = "record_alloc"
    BY <1>3, Zenon DEF RecordAlloc
  <2>2. (Return(t) /\ dumping' = dumping) \/ (~ dumping /\ StartsDump(t))
    BY <1>3, Zenon DEF RecordAlloc, DumpDue
  <2>. QED BY <2>1, <2>2, DumpDueStep
<1>4. ASSUME NEW t \in Threads, DumpLocked(t) PROVE OneDumper'
  <2>1. At(t) = "dump"
    BY <1>4, Zenon DEF DumpLocked
  <2>2. \/ Return(t) /\ dumping' = dumping
        \/ ~ dumping /\ StartsDump(t)
        \/ stack' = stack /\ dumping' = dumping
    BY <1>4, Zenon DEF DumpLocked
  <2>. QED BY <1>1, <2>1, <2>2, DumpDueStep
<1>5. ASSUME NEW t \in Threads, HeapProfilerStop(t) \/ StopForLeaks(t) \/ DumpProfileLocked(t)
      PROVE  OneDumper'
  <2>1. UNCHANGED <<stack, dumping>>
    BY <1>5, Zenon DEF HeapProfilerStop, StopForLeaks, DumpProfileLocked
  <2>. QED BY <1>1, <2>1
<1>6. CASE Next
  <2>1. PICK t \in Threads :
          \/ Malloc(t) \/ Free(t) \/ RecordAlloc(t) \/ RecordFree(t)
          \/ HeapProfilerDump(t) \/ DumpLocked(t) \/ OpenFile(t) \/ CloseFile(t)
          \/ GetHeapProfile(t) \/ NewList(t) \/ Collect(t)
          \/ HeapProfilerStart(t) \/ FirstAllocation(t)
          \/ HeapProfilerStop(t) \/ StopForLeaks(t) \/ DumpProfileLocked(t)
    BY <1>6, Zenon DEF Next
  <2>. QED BY <2>1, <1>3, <1>4, <1>5, QuietActions, FileStep, StartQuiet
<1>. QED BY <1>2, <1>6

LEMMA InitOneDumper == Init => OneDumper
<1>. SUFFICES ASSUME Init PROVE OneDumper
  OBVIOUS
<1>1. \A t \in Threads : Dumps(stack[t]) = {}
  BY EmptySeq DEF Init, Dumps
<1>. QED BY <1>1 DEF Init, OneDumper

-----------------------------------------------------------------------------
(* Whose an object is that a hook or GetHeapProfile has in hand: H is where  *)
(* the hooks are, N those of new objects, C the lists; L is what is          *)
(* allocated and A what is recorded.                                         *)

Above(x, y) == y[1] < x[1]

OwnersRight(H, N, C, L, A) ==
    \A t \in Threads :
      /\ N[t] \subseteq H[t]
      /\ \A x \in H[t] \cup C[t] : x[2] \in L
      /\ \A x \in N[t] : x[2] \notin A
      /\ \A u \in Threads :
           /\ \A x \in H[t], y \in H[u] : x[2] = y[2] => t = u /\ x = y
           /\ \A x \in C[t], y \in C[u] : x[2] = y[2] => t = u /\ x = y
           /\ \A x \in H[t], y \in C[u] : x[2] = y[2] => t = u /\ x \in N[t] /\ Above(x, y)

\* Nobody has p in hand.
Idle(H, C, p) == \A t \in Threads : \A x \in H[t] \cup C[t] : x[2] # p

\* A hook is called: for an object that was idle, or for a new list.
LEMMA HookCalled ==
    ASSUME NEW H, NEW N, NEW C, NEW L, NEW A, OwnersRight(H, N, C, L, A),
           NEW t \in Threads, NEW x, x[2] \in L,
           \A u \in Threads : \A y \in H[u] : y[2] # x[2],
           NEW fresh \in BOOLEAN, fresh => x[2] \notin A,
           \A u \in Threads : \A y \in C[u] : y[2] = x[2] => u = t /\ fresh /\ Above(x, y)
    PROVE  OwnersRight(With(H, t, H[t] \cup {x}),
                       IF fresh THEN With(N, t, N[t] \cup {x}) ELSE N, C, L, A)
<1>. DEFINE H2 == With(H, t, H[t] \cup {x})
            N2 == IF fresh THEN With(N, t, N[t] \cup {x}) ELSE N
<1>1. /\ \A u \in Threads : H2[u] = H[u] \cup IF u = t THEN {x} ELSE {}
      /\ \A u \in Threads : N[u] \subseteq N2[u] /\ \A y \in N2[u] : y \in N[u] \/ (u = t /\ y = x /\ fresh)
      /\ fresh => x \in N2[t]
  BY DEF With
<1>. HIDE DEF H2, N2
<1>2. OwnersRight(H2, N2, C, L, A)
  BY <1>1 DEF OwnersRight
<1>. QED BY <1>2 DEF H2, N2

\* A list is taken for an object that was idle, and given back.
LEMMA ListTaken ==
    ASSUME NEW H, NEW N, NEW C, NEW L, NEW A, OwnersRight(H, N, C, L, A),
           NEW t \in Threads, NEW x, x[2] \in L, Idle(H, C, x[2])
    PROVE  OwnersRight(H, N, With(C, t, C[t] \cup {x}), L, A)
<1>. DEFINE C2 == With(C, t, C[t] \cup {x})
<1>1. \A u \in Threads : C2[u] = C[u] \cup IF u = t THEN {x} ELSE {}
  BY DEF With
<1>. HIDE DEF C2
<1>2. OwnersRight(H, N, C2, L, A)
  BY <1>1 DEF OwnersRight, Idle
<1>. QED BY <1>2 DEF C2

LEMMA ListGiven ==
    ASSUME NEW H, NEW N, NEW C, NEW L, NEW A, OwnersRight(H, N, C, L, A),
           NEW t \in Threads, NEW x, NEW X, C[t] = X \cup {x}, x \notin X,
           \A y \in H[t] : ~ Above(y, x)
    PROVE  /\ OwnersRight(H, N, With(C, t, X), L, A)
           /\ Idle(H, With(C, t, X), x[2])
           /\ x[2] \in L
<1>. DEFINE C2 == With(C, t, X)
<1>1. \A u \in Threads : C2[u] = IF u = t THEN X ELSE C[u]
  BY DEF With
<1>. HIDE DEF C2
<1>2. \A u \in Threads : C2[u] \subseteq C[u] /\ \A y \in C2[u] : y[2] # x[2]
  BY <1>1 DEF OwnersRight
<1>3. OwnersRight(H, N, C2, L, A) /\ Idle(H, C2, x[2]) /\ x[2] \in L
  BY <1>2 DEF OwnersRight, Idle
<1>. QED BY <1>3 DEF C2

\* The hook has returned: nobody else is at a hook for the object, ...
LEMMA HookReturns ==
    ASSUME NEW H, NEW N, NEW C, NEW L, NEW A, OwnersRight(H, N, C, L, A),
           NEW t \in Threads, NEW x, NEW X, NEW Y, H[t] = X \cup {x}, x \notin X,
           Y = N[t] \ {x}
    PROVE  /\ OwnersRight(With(H, t, X), With(N, t, Y), C, L, A)
           /\ \A u \in Threads : \A y \in With(H, t, X)[u] : y[2] # x[2]
           /\ x \notin N[t] => Idle(With(H, t, X), C, x[2])
           /\ x[2] \in L
<1>. DEFINE H2 == With(H, t, X)
            N2 == With(N, t, Y)
<1>1. /\ \A u \in Threads : H2[u] = IF u = t THEN X ELSE H[u]
      /\ \A u \in Threads : N2[u] = IF u = t THEN Y ELSE N[u]
  BY DEF With
<1>. HIDE DEF H2, N2
<1>2. \A u \in Threads : H2[u] \subseteq H[u] /\ \A y \in H2[u] : y[2] # x[2]
  BY <1>1 DEF OwnersRight
<1>3. \A u \in Threads : N2[u] \subseteq N[u]
  BY <1>1
<1>4. \A u \in Threads : N2[u] \subseteq H2[u] /\ \A y \in H2[u] : y \in N[u] => y \in N2[u]
  BY <1>1, <1>2 DEF OwnersRight
<1>5. OwnersRight(H2, N2, C, L, A)
  BY <1>2, <1>3, <1>4 DEF OwnersRight
<1>6. x \notin N[t] => Idle(H2, C, x[2])
  BY <1>2 DEF OwnersRight, Idle
<1>7. x[2] \in L
  BY DEF OwnersRight
<1>. QED BY <1>2, <1>5, <1>6, <1>7 DEF H2, N2

\* ... it is recorded, or freed; other objects come, and records go.
LEMMA OwnersRecord ==
    ASSUME NEW H, NEW N, NEW C, NEW L, NEW A, OwnersRight(H, N, C, L, A), NEW p,
           \A u \in Threads : \A y \in H[u] : y[2] # p
    PROVE  OwnersRight(H, N, C, L, A \cup {p})
BY DEF OwnersRight

LEMMA OwnersFree ==
    ASSUME NEW H, NEW N, NEW C, NEW L, NEW A, OwnersRight(H, N, C, L, A), NEW p,
           Idle(H, C, p), NEW A2, A2 \subseteq A
    PROVE  OwnersRight(H, N, C, L \ {p}, A2)
BY DEF OwnersRight, Idle

LEMMA OwnersMore ==
    ASSUME NEW H, NEW N, NEW C, NEW L, NEW A, OwnersRight(H, N, C, L, A), NEW p, p \notin L,
           NEW A2, A2 \subseteq A
    PROVE  OwnersRight(H, N, C, L \cup {p}, A2) /\ Idle(H, C, p)
BY DEF OwnersRight, Idle

-----------------------------------------------------------------------------
(* The buckets of a profile, their total and what is recorded of objects.    *)

BytesIn(a, S) == UNION {{p} \X (1 .. a[p].bytes) : p \in S}
In(a, s) == {p \in DOMAIN a : a[p].bucket = s}
Bucket == [allocs : Int, frees : Int, alloc_size : Int, free_size : Int]

Agrees(b, a, S) ==
    /\ b.allocs - b.frees = Cardinality(S)
    /\ b.alloc_size - b.free_size = Cardinality(BytesIn(a, S))

\* What is left of a map.
LEMMA Restricted ==
    ASSUME NEW f, NEW S
    PROVE  DOMAIN Restrict(f, S) = S /\ \A x \in S : Restrict(f, S)[x] = f[x]
BY DEF Restrict

\* The bytes of one more object.
LEMMA BytesAdd ==
    ASSUME NEW a, NEW a2, NEW S, IsFiniteSet(BytesIn(a, S)), NEW p, p \notin S,
           NEW n \in Nat, a2[p].bytes = n, \A q \in S : a2[q].bytes = a[q].bytes
    PROVE  /\ IsFiniteSet(BytesIn(a2, S \cup {p}))
           /\ Cardinality(BytesIn(a2, S \cup {p})) = Cardinality(BytesIn(a, S)) + n
<1>. DEFINE B == BytesIn(a, S)
            P == {p} \X (1 .. n)
<1>1. BytesIn(a2, S \cup {p}) = B \cup P
  <2>1. ASSUME NEW x \in BytesIn(a2, S \cup {p}) PROVE x \in B \cup P
    <3>1. PICK q \in S \cup {p} : x \in {q} \X (1 .. a2[q].bytes)
      BY DEF BytesIn
    <3>. QED BY <3>1 DEF BytesIn
  <2>2. ASSUME NEW x \in B PROVE x \in BytesIn(a2, S \cup {p})
    <3>1. PICK q \in S : x \in {q} \X (1 .. a[q].bytes)
      BY DEF BytesIn
    <3>. QED BY <3>1 DEF BytesIn
  <2>3. ASSUME NEW x \in P PROVE x \in BytesIn(a2, S \cup {p})
    BY DEF BytesIn
  <2>. QED BY <2>1, <2>2, <2>3
<1>2. B \cap P = {}
  BY DEF BytesIn
<1>3. IsFiniteSet(1 .. n) /\ Cardinality(1 .. n) = n
  <2>1. 1 \in Int /\ n \in Int
    OBVIOUS
  <2>. QED BY <2>1, FS_Interval
<1>4. IsFiniteSet(P) /\ Cardinality(P) = n
  <2>1. IsFiniteSet({p}) /\ Cardinality({p}) = 1
    BY FS_Singleton
  <2>2. IsFiniteSet(P) /\ Cardinality(P) = Cardinality({p}) * Cardinality(1 .. n)
    BY <1>3, <2>1, FS_Product
  <2>. QED BY <1>3, <2>1, <2>2
<1>. HIDE DEF B, P
<1>5. IsFiniteSet(B)
  BY DEF B
<1>6. IsFiniteSet(B \cup P) /\ Cardinality(B \cup P) = Cardinality(B) + n
  <2>1. Cardinality({}) = 0 /\ Cardinality(B) \in Nat
    BY <1>5, FS_EmptySet, FS_CardinalityType
  <2>. QED BY <1>2, <1>4, <1>5, <2>1, FS_Union
<1>. QED BY <1>1, <1>6 DEF B

\* Those of fewer objects, or of objects of which nothing else is recorded.
LEMMA BytesFewer ==
    ASSUME NEW a, NEW S, NEW T \in SUBSET S, IsFiniteSet(BytesIn(a, S))
    PROVE  IsFiniteSet(BytesIn(a, T))
<1>1. BytesIn(a, T) \in SUBSET BytesIn(a, S)
  BY DEF BytesIn
<1>. QED BY <1>1, FS_Subset

LEMMA BytesSame ==
    ASSUME NEW a, NEW a2, NEW S, \A q \in S : a2[q].bytes = a[q].bytes
    PROVE  BytesIn(a2, S) = BytesIn(a, S)
BY DEF BytesIn

\* One object more, or one less, is a bucket with two figures larger.
LEMMA CountedFields ==
    ASSUME NEW b \in Bucket, NEW n \in Nat
    PROVE  /\ Counted(b, n) = [allocs |-> b.allocs + 1, frees |-> b.frees,
                               alloc_size |-> b.alloc_size + n, free_size |-> b.free_size]
           /\ Uncounted(b, n) = [allocs |-> b.allocs, frees |-> b.frees + 1,
                                 alloc_size |-> b.alloc_size, free_size |-> b.free_size + n]
<1>1. PICK x \in Int, y \in Int, z \in Int, w \in Int :
        b = [allocs |-> x, frees |-> y, alloc_size |-> z, free_size |-> w]
  BY DEF Bucket
<1>. DEFINE r == [allocs |-> x, frees |-> y, alloc_size |-> z, free_size |-> w]
            r1 == [r EXCEPT !.allocs = x + 1]
            r2 == [r EXCEPT !.frees = y + 1]
<1>2. /\ r.allocs = x /\ r.frees = y /\ r.alloc_size = z /\ r.free_size = w
      /\ r1 = [allocs |-> x + 1, frees |-> y, alloc_size |-> z, free_size |-> w]
      /\ r2 = [allocs |-> x, frees |-> y + 1, alloc_size |-> z, free_size |-> w]
  OBVIOUS
<1>3. Counted(r, n) = [r1 EXCEPT !.alloc_size = z + n]
  BY <1>2 DEF Counted
<1>4. Uncounted(r, n) = [r2 EXCEPT !.free_size = w + n]
  BY <1>2 DEF Uncounted
<1>. HIDE DEF r, r1, r2
<1>5. Counted(r, n) = [allocs |-> x + 1, frees |-> y, alloc_size |-> z + n, free_size |-> w]
  BY <1>2, <1>3
<1>6. Uncounted(r, n) = [allocs |-> x, frees |-> y + 1, alloc_size |-> z, free_size |-> w + n]
  BY <1>2, <1>4
<1>. QED BY <1>1, <1>2, <1>5, <1>6 DEF r

\* A bucket counts one more object, or one less.
LEMMA CountedAgrees ==
    ASSUME NEW b \in Bucket, NEW a, NEW a2, NEW S, Agrees(b, a, S),
           IsFiniteSet(S), IsFiniteSet(BytesIn(a, S)),
           NEW p, p \notin S, NEW n \in Nat, a2[p].bytes = n, \A q \in S : a2[q].bytes = a[q].bytes
    PROVE  Counted(b, n) \in Bucket /\ Agrees(Counted(b, n), a2, S \cup {p})
<1>1. Cardinality(S \cup {p}) = Cardinality(S) + 1 /\ Cardinality(S) \in Nat
  BY FS_AddElement, FS_CardinalityType
<1>2. /\ Cardinality(BytesIn(a2, S \cup {p})) = Cardinality(BytesIn(a, S)) + n
      /\ Cardinality(BytesIn(a, S)) \in Nat
  BY BytesAdd, FS_CardinalityType
<1>. DEFINE c == Counted(b, n)
<1>3. /\ c \in Bucket
      /\ c.allocs = b.allocs + 1 /\ c.frees = b.frees
      /\ c.alloc_size = b.alloc_size + n /\ c.free_size = b.free_size
  BY CountedFields DEF Bucket
<1>. HIDE DEF c
<1>4. c.allocs - c.frees = Cardinality(S \cup {p})
  BY <1>1, <1>3 DEF Agrees, Bucket
<1>5. c.alloc_size - c.free_size = Cardinality(BytesIn(a2, S \cup {p}))
  BY <1>2, <1>3 DEF Agrees, Bucket
<1>. QED BY <1>3, <1>4, <1>5 DEF Agrees, c

LEMMA UncountedAgrees ==
    ASSUME NEW b \in Bucket, NEW a, NEW a2, NEW S, Agrees(b, a, S),
           IsFiniteSet(S), IsFiniteSet(BytesIn(a, S)),
           NEW p \in S, a[p].bytes \in Nat, \A q \in S \ {p} : a2[q].bytes = a[q].bytes
    PROVE  /\ Uncounted(b, a[p].bytes) \in Bucket
           /\ Agrees(Uncounted(b, a[p].bytes), a2, S \ {p})
<1>. DEFINE T == S \ {p}
            n == a[p].bytes
<1>1. S = T \cup {p} /\ p \notin T /\ T \in SUBSET S
  OBVIOUS
<1>2. BytesIn(a2, T) = BytesIn(a, T) /\ IsFiniteSet(BytesIn(a, T)) /\ IsFiniteSet(T)
  BY <1>1, BytesSame, BytesFewer, FS_Subset
<1>. HIDE DEF T
<1>3. Cardinality(S) = Cardinality(T) + 1 /\ Cardinality(T) \in Nat
  BY <1>1, <1>2, FS_AddElement, FS_CardinalityType
<1>4. /\ Cardinality(BytesIn(a, S)) = Cardinality(BytesIn(a, T)) + n
      /\ Cardinality(BytesIn(a, T)) \in Nat
  BY <1>1, <1>2, BytesAdd, FS_CardinalityType
<1>. DEFINE c == Uncounted(b, n)
<1>. HIDE DEF n
<1>5. n \in Nat
  BY DEF n
<1>6. /\ c \in Bucket
      /\ c.allocs = b.allocs /\ c.frees = b.frees + 1
      /\ c.alloc_size = b.alloc_size /\ c.free_size = b.free_size + n
  BY <1>5, CountedFields DEF Bucket
<1>. HIDE DEF c
<1>7. c.allocs - c.frees = Cardinality(T)
  BY <1>3, <1>6 DEF Agrees, Bucket
<1>8. c.alloc_size - c.free_size = Cardinality(BytesIn(a2, T))
  BY <1>2, <1>4, <1>5, <1>6 DEF Agrees, Bucket
<1>. QED BY <1>6, <1>7, <1>8 DEF Agrees, c, n, T

\* Nothing else was recorded of the objects a bucket counts.
LEMMA SameAgrees ==
    ASSUME NEW b, NEW a, NEW a2, NEW S, Agrees(b, a, S), \A q \in S : a2[q].bytes = a[q].bytes
    PROVE  Agrees(b, a2, S)
BY BytesSame DEF Agrees

\* The profile as a whole: buckets tab, their total tot, and the map a of what
\* is recorded, when the profiler is on.
BooksRight(tab, tot, a, on) ==
    /\ IsFiniteSet(DOMAIN a) /\ IsFiniteSet(BytesIn(a, DOMAIN a))
    /\ \A p \in DOMAIN a : a[p].bytes \in Nat /\ a[p].bucket \in DOMAIN tab
    /\ \A s \in DOMAIN tab : tab[s] \in Bucket /\ Agrees(tab[s], a, In(a, s))
    /\ tot \in Bucket
    /\ on => Agrees(tot, a, DOMAIN a)

\* What a bucket or the total counts is finite.
LEMMA BooksFinite ==
    ASSUME NEW a, IsFiniteSet(DOMAIN a), IsFiniteSet(BytesIn(a, DOMAIN a)), NEW s
    PROVE  IsFiniteSet(In(a, s)) /\ IsFiniteSet(BytesIn(a, In(a, s)))
<1>1. In(a, s) \in SUBSET DOMAIN a
  BY DEF In
<1>. QED BY <1>1, FS_Subset, BytesFewer

LEMMA BooksEmpty ==
    ASSUME NEW tot \in Bucket, NEW on, on => tot = NoBucket
    PROVE  BooksRight(Empty, tot, Empty, on)
<1>1. DOMAIN Empty = {}
  BY DEF Empty
<1>2. BytesIn(Empty, {}) = {}
  BY DEF BytesIn
<1>3. Agrees(NoBucket, Empty, {})
  BY <1>2, FS_EmptySet DEF Agrees, NoBucket
<1>. QED BY <1>1, <1>2, <1>3, FS_EmptySet DEF BooksRight

\* RecordAlloc enters an object that is not in the map.
LEMMA BooksRecord ==
    ASSUME NEW tab, NEW tot, NEW a, BooksRight(tab, tot, a, TRUE),
           NEW p, p \notin DOMAIN a, NEW s, NEW n \in Nat
    PROVE  BooksRight(Put(tab, s, Counted(IF s \in DOMAIN tab THEN tab[s] ELSE NoBucket, n)),
                      Counted(tot, n), Put(a, p, [bucket |-> s, bytes |-> n]), TRUE)
<1>. DEFINE b == IF s \in DOMAIN tab THEN tab[s] ELSE NoBucket
            c == Counted(b, n)
            v == [bucket |-> s, bytes |-> n]
            tab2 == Put(tab, s, c)
            tot2 == Counted(tot, n)
            a2 == Put(a, p, v)
<1>0. v.bucket = s /\ v.bytes = n
  OBVIOUS
<1>. HIDE DEF b, c, v
<1>1. /\ DOMAIN tab2 = DOMAIN tab \cup {s} /\ tab2[s] = c
      /\ \A r \in DOMAIN tab \ {s} : tab2[r] = tab[r]
  BY DEF Put
<1>2. /\ DOMAIN a2 = DOMAIN a \cup {p} /\ a2[p].bytes = n /\ a2[p].bucket = s
      /\ \A q \in DOMAIN a : a2[q] = a[q]
  <2>1. /\ DOMAIN a2 = DOMAIN a \cup {p} /\ a2[p] = v
        /\ \A q \in DOMAIN a \ {p} : a2[q] = a[q]
    BY DEF Put
  <2>. HIDE DEF a2
  <2>. QED BY <1>0, <2>1
<1>3. b \in Bucket /\ Agrees(b, a, In(a, s))
  <2>1. CASE s \in DOMAIN tab
    BY <2>1 DEF BooksRight, b
  <2>2. CASE s \notin DOMAIN tab
    <3>1. In(a, s) = {} /\ BytesIn(a, {}) = {}
      BY <2>2 DEF BooksRight, In, BytesIn
    <3>2. NoBucket \in Bucket
      BY DEF NoBucket, Bucket
    <3>. QED BY <2>2, <3>1, <3>2, FS_EmptySet DEF Agrees, NoBucket, b
  <2>. QED BY <2>1, <2>2
<1>. HIDE DEF tab2, tot2, a2
<1>4. IsFiniteSet(DOMAIN a) /\ IsFiniteSet(BytesIn(a, DOMAIN a))
  BY DEF BooksRight
<1>5. IsFiniteSet(DOMAIN a2) /\ IsFiniteSet(BytesIn(a2, DOMAIN a2))
  BY <1>2, <1>4, FS_AddElement, BytesAdd
<1>6. \A q \in DOMAIN a2 : a2[q].bytes \in Nat /\ a2[q].bucket \in DOMAIN tab2
  BY <1>1, <1>2 DEF BooksRight
<1>7. tot2 \in Bucket /\ Agrees(tot2, a2, DOMAIN a2)
  BY <1>2, <1>4, CountedAgrees DEF BooksRight, tot2
<1>8. ASSUME NEW r \in DOMAIN tab2 PROVE tab2[r] \in Bucket /\ Agrees(tab2[r], a2, In(a2, r))
  <2>1. CASE r = s
    <3>1. In(a2, s) = In(a, s) \cup {p} /\ p \notin In(a, s) /\ \A q \in In(a, s) : a2[q] = a[q]
      BY <1>2 DEF In
    <3>2. Counted(b, n) \in Bucket /\ Agrees(Counted(b, n), a2, In(a, s) \cup {p})
      BY <1>2, <1>3, <1>4, <3>1, BooksFinite, CountedAgrees
    <3>. QED BY <1>1, <2>1, <3>1, <3>2 DEF c
  <2>2. CASE r # s
    <3>1. In(a2, r) = In(a, r) /\ \A q \in In(a, r) : a2[q] = a[q]
      BY <1>2, <2>2 DEF In
    <3>2. tab2[r] = tab[r] /\ r \in DOMAIN tab
      BY <1>1, <2>2
    <3>3. tab[r] \in Bucket /\ Agrees(tab[r], a, In(a, r))
      BY <3>2 DEF BooksRight
    <3>. QED BY <3>1, <3>2, <3>3, SameAgrees
  <2>. QED BY <2>1, <2>2
<1>9. BooksRight(tab2, tot2, a2, TRUE)
  BY <1>5, <1>6, <1>7, <1>8 DEF BooksRight
<1>. QED BY <1>9 DEF b, c, v, tab2, tot2, a2

\* RecordFree takes one out of the map.
LEMMA BooksForget ==
    ASSUME NEW tab, NEW tot, NEW a, BooksRight(tab, tot, a, TRUE), NEW p \in DOMAIN a,
           NEW tab2, DOMAIN tab2 = DOMAIN tab,
           tab2[a[p].bucket] = Uncounted(tab[a[p].bucket], a[p].bytes),
           \A r \in DOMAIN tab \ {a[p].bucket} : tab2[r] = tab[r]
    PROVE  BooksRight(tab2, Uncounted(tot, a[p].bytes), Restrict(a, DOMAIN a \ {p}), TRUE)
<1>. DEFINE s == a[p].bucket
            n == a[p].bytes
            tot2 == Uncounted(tot, n)
            a2 == Restrict(a, DOMAIN a \ {p})
<1>1. DOMAIN a2 = DOMAIN a \ {p} /\ \A q \in DOMAIN a \ {p} : a2[q] = a[q]
  BY Restricted
<1>2. s \in DOMAIN tab /\ n \in Nat
  BY DEF BooksRight
<1>. HIDE DEF a2
<1>3. IsFiniteSet(DOMAIN a) /\ IsFiniteSet(BytesIn(a, DOMAIN a))
  BY DEF BooksRight
<1>4. IsFiniteSet(DOMAIN a2) /\ IsFiniteSet(BytesIn(a2, DOMAIN a2))
  <2>1. DOMAIN a2 \in SUBSET DOMAIN a /\ BytesIn(a2, DOMAIN a2) = BytesIn(a, DOMAIN a2)
    BY <1>1, BytesSame
  <2>. QED BY <1>3, <2>1, FS_Subset, BytesFewer
<1>5. \A q \in DOMAIN a2 : a2[q].bytes \in Nat /\ a2[q].bucket \in DOMAIN tab2
  BY <1>1 DEF BooksRight
<1>6. tot2 \in Bucket /\ Agrees(tot2, a2, DOMAIN a2)
  <2>. DEFINE S == DOMAIN a
  <2>1. tot \in Bucket /\ Agrees(tot, a, S) /\ IsFiniteSet(S) /\ IsFiniteSet(BytesIn(a, S))
    BY <1>3 DEF BooksRight
  <2>2. p \in S /\ DOMAIN a2 = S \ {p} /\ \A q \in S \ {p} : a2[q].bytes = a[q].bytes
    BY <1>1
  <2>. HIDE DEF S
  <2>3. tot2 \in Bucket /\ Agrees(tot2, a2, S \ {p})
    BY <1>2, <2>1, <2>2, UncountedAgrees
  <2>. QED BY <2>2, <2>3
<1>7. ASSUME NEW r \in DOMAIN tab2 PROVE tab2[r] \in Bucket /\ Agrees(tab2[r], a2, In(a2, r))
  <2>1. tab[r] \in Bucket /\ Agrees(tab[r], a, In(a, r))
    BY DEF BooksRight
  <2>2. CASE r = s
    <3>1. In(a2, s) = In(a, s) \ {p} /\ p \in In(a, s) /\ \A q \in In(a, s) \ {p} : a2[q] = a[q]
      BY <1>1 DEF In
    <3>2. Uncounted(tab[s], n) \in Bucket /\ Agrees(Uncounted(tab[s], n), a2, In(a, s) \ {p})
      BY <1>2, <1>3, <2>1, <2>2, <3>1, BooksFinite, UncountedAgrees
    <3>. QED BY <2>2, <3>1, <3>2
  <2>3. CASE r # s
    <3>1. In(a2, r) = In(a, r) /\ \A q \in In(a, r) : a2[q] = a[q]
      BY <1>1, <2>3 DEF In
    <3>2. tab2[r] = tab[r]
      BY <2>3
    <3>. QED BY <2>1, <3>1, <3>2, SameAgrees
  <2>. QED BY <2>2, <2>3
<1>8. BooksRight(tab2, tot2, a2, TRUE)
  BY <1>4, <1>5, <1>6, <1>7 DEF BooksRight
<1>. QED BY <1>8 DEF a2

-----------------------------------------------------------------------------
(* What the threads have in hand, and what is recorded, in a state           *)

HookLabels == {"record_alloc", "record_free"}
NewLabels == {"record_alloc"}
ListLabels == {"collect"}
OwnerLabels == {HookLabels, NewLabels, ListLabels}

Hooked == Labelled(stack, HookLabels)
New    == Labelled(stack, NewLabels)
Lists  == Labelled(stack, ListLabels)

HandsRight == OwnersRight(Hooked, New, Lists, DOMAIN live, DOMAIN allocation)

LiveRight ==
    /\ \A p \in DOMAIN live : live[p] \in Sizes
    /\ \A p \in DOMAIN allocation : p \in DOMAIN live /\ live[p] = allocation[p].bytes
    /\ DOMAIN allocation # {} => is_on /\ LockFree

ProfileInv == HandsRight /\ LiveRight /\ BooksRight(table, total, allocation, is_on)

\* Its books are those the property is about.
LEMMA ProfileInvExact == ProfileInv => ProfileExact
<1>. SUFFICES ASSUME ProfileInv, is_on PROVE ProfileExact
  BY DEF ProfileExact
<1>1. \A s : Bytes(Recorded(s)) = BytesIn(allocation, In(allocation, s)) /\ Recorded(s) = In(allocation, s)
  BY DEF Bytes, BytesIn, Recorded, In
<1>2. Bytes(DOMAIN allocation) = BytesIn(allocation, DOMAIN allocation)
  BY DEF Bytes, BytesIn
<1>3. \A s \in DOMAIN table : InuseIs(table[s], Recorded(s))
  BY <1>1 DEF ProfileInv, BooksRight, Agrees, InuseIs, Inuse
<1>4. InuseIs(total, DOMAIN allocation)
  BY <1>2 DEF ProfileInv, BooksRight, Agrees, InuseIs, Inuse
<1>. QED BY <1>3, <1>4 DEF ProfileInv, LiveRight, ProfileExact

\* What a thread has in hand, from its stack, before and after a step.
LEMMA HandsOf ==
    ASSUME NEW t \in Threads
    PROVE  /\ Hooked[t] = Levels(stack[t], HookLabels)
           /\ New[t] = Levels(stack[t], NewLabels)
           /\ Lists[t] = Levels(stack[t], ListLabels)
BY DEF Hooked, New, Lists, Labelled

LEMMA HandsNext ==
    ASSUME Shapes, NEW t \in Threads, NEW s, Becomes(t, s),
           OwnersRight(With(Hooked, t, Levels(s, HookLabels)), With(New, t, Levels(s, NewLabels)),
                       With(Lists, t, Levels(s, ListLabels)), DOMAIN live', DOMAIN allocation')
    PROVE  HandsRight'
<1>1. /\ Hooked' = With(Hooked, t, Levels(s, HookLabels))
      /\ New' = With(New, t, Levels(s, NewLabels))
      /\ Lists' = With(Lists, t, Levels(s, ListLabels))
  <2>1. \A A : Labelled(stack', A) = With(Labelled(stack, A), t, Levels(s, A))
    BY LabelledStep
  <2>2. /\ Labelled(stack', HookLabels) = With(Labelled(stack, HookLabels), t, Levels(s, HookLabels))
        /\ Labelled(stack', NewLabels) = With(Labelled(stack, NewLabels), t, Levels(s, NewLabels))
        /\ Labelled(stack', ListLabels) = With(Labelled(stack, ListLabels), t, Levels(s, ListLabels))
    BY <2>1
  <2>. QED BY <2>2 DEF Hooked, New, Lists, Labelled, HookLabels, NewLabels, ListLabels
<1>. QED BY <1>1 DEF HandsRight, OwnersRight

LEMMA WithSame ==
    ASSUME NEW t \in Threads
    PROVE  /\ With(Hooked, t, Hooked[t]) = Hooked
           /\ With(New, t, New[t]) = New
           /\ With(Lists, t, Lists[t]) = Lists
BY DEF With, Hooked, New, Lists, Labelled

\* A step that leaves what a thread has in hand, and records no more.
LEMMA HandsStay ==
    ASSUME Shapes, HandsRight, NEW t \in Threads, NEW s, Becomes(t, s),
           \A A \in OwnerLabels : Levels(s, A) = Levels(stack[t], A),
           DOMAIN live' = DOMAIN live, DOMAIN allocation' \subseteq DOMAIN allocation
    PROVE  HandsRight'
<1>1. /\ With(Hooked, t, Levels(s, HookLabels)) = Hooked
      /\ With(New, t, Levels(s, NewLabels)) = New
      /\ With(Lists, t, Levels(s, ListLabels)) = Lists
  BY HandsOf, WithSame DEF OwnerLabels
<1>2. OwnersRight(Hooked, New, Lists, DOMAIN live', DOMAIN allocation')
  BY DEF HandsRight, OwnersRight
<1>3. OwnersRight(With(Hooked, t, Levels(s, HookLabels)), With(New, t, Levels(s, NewLabels)),
                  With(Lists, t, Levels(s, ListLabels)), DOMAIN live', DOMAIN allocation')
  BY <1>1, <1>2
<1>. QED BY <1>3, HandsNext

\* malloc goes on with a stack on which, at most, a list of the new object is.
LEMMA HandsAllocated ==
    ASSUME Shapes, LiveRight, NEW t \in Threads, NEW p, NEW n, NEW rest \in Seq(AnyProcedure),
           p \notin DOMAIN live, Allocated(t, p, n, rest), allocation' = allocation,
           Levels(rest, HookLabels) = Hooked[t], Levels(rest, NewLabels) = New[t],
           NEW C, C = With(Lists, t, Levels(rest, ListLabels)),
           OwnersRight(Hooked, New, C, DOMAIN live \cup {p}, DOMAIN allocation),
           \A u \in Threads : \A x \in Hooked[u] : x[2] # p,
           \A u \in Threads : \A y \in C[u] : y[2] = p => u = t /\ y[1] < Len(rest)
    PROVE  HandsRight'
<1>. DEFINE f == Frame("record_alloc", p, 0)
            x == <<Len(rest), p>>
            L == DOMAIN live \cup {p}
            s == PushIf(new_hook, f, rest)
<1>1. DOMAIN live' = L
  <2>1. live' = Put(live, p, n)
    BY Zenon DEF Allocated
  <2>. QED BY <2>1 DEF Put
<1>2. Becomes(t, s)
  BY AllocatedStack
<1>3. f.at = "record_alloc" /\ f.ptr = p /\ x[1] = Len(rest) /\ x[2] = p
  BY FrameFields
<1>. HIDE DEF f, L
<1>4. CASE new_hook
  <2>1. s = Push(f, rest)
    BY <1>4 DEF PushIf
  <2>2. /\ Levels(s, HookLabels) = Hooked[t] \cup {x}
        /\ Levels(s, NewLabels) = New[t] \cup {x}
        /\ Levels(s, ListLabels) = Levels(rest, ListLabels)
    <3>1. f.at \in HookLabels /\ f.at \in NewLabels /\ f.at \notin ListLabels
      BY <1>3 DEF HookLabels, NewLabels, ListLabels
    <3>. QED BY <1>3, <2>1, <3>1, PushIn, PushOut
  <2>. HIDE DEF x, s
  <2>3. OwnersRight(With(Hooked, t, Hooked[t] \cup {x}), With(New, t, New[t] \cup {x}), C,
                    L, DOMAIN allocation)
    <3>1. x[2] \in L /\ x[2] \notin DOMAIN allocation
      BY <1>3 DEF LiveRight, L
    <3>2. \A u \in Threads : \A y \in Hooked[u] : y[2] # x[2]
      BY <1>3
    <3>3. \A u \in Threads : \A y \in C[u] : y[2] = x[2] => u = t /\ TRUE /\ Above(x, y)
      BY <1>3 DEF Above
    <3>4. OwnersRight(Hooked, New, C, L, DOMAIN allocation)
      BY DEF L
    <3>. QED BY <3>1, <3>2, <3>3, <3>4, HookCalled
  <2>. QED BY <1>1, <1>2, <2>2, <2>3, HandsNext
<1>5. CASE ~ new_hook
  <2>1. s = rest
    BY <1>5 DEF PushIf
  <2>2. OwnersRight(With(Hooked, t, Levels(s, HookLabels)), With(New, t, Levels(s, NewLabels)),
                    With(Lists, t, Levels(s, ListLabels)), DOMAIN live', DOMAIN allocation')
    BY <1>1, <2>1, WithSame DEF L
  <2>. HIDE DEF s
  <2>. QED BY <1>2, <2>2, HandsNext
<1>. QED BY <1>4, <1>5

\* free goes on with a stack on which nobody has the object in hand.
LEMMA HandsFreed ==
    ASSUME Shapes, NEW t \in Threads, NEW p, NEW rest \in Seq(AnyProcedure),
           p \in DOMAIN live, Freed(t, p, rest), allocation' = allocation,
           Levels(rest, HookLabels) = Hooked[t], Levels(rest, NewLabels) = New[t],
           NEW C, C = With(Lists, t, Levels(rest, ListLabels)),
           OwnersRight(Hooked, New, C, DOMAIN live, DOMAIN allocation),
           Idle(Hooked, C, p)
    PROVE  HandsRight'
<1>. DEFINE f == Frame("record_free", p, 0)
            x == <<Len(rest), p>>
            s == PushIf(delete_hook, f, rest)
<1>1. Becomes(t, s)
  BY FreedStack
<1>2. f.at = "record_free" /\ f.ptr = p /\ x[2] = p
  BY FrameFields
<1>. HIDE DEF f
<1>3. CASE delete_hook
  <2>1. s = Push(f, rest) /\ DOMAIN live' = DOMAIN live
    BY <1>3 DEF PushIf, Freed
  <2>2. /\ Levels(s, HookLabels) = Hooked[t] \cup {x}
        /\ Levels(s, NewLabels) = New[t]
        /\ Levels(s, ListLabels) = Levels(rest, ListLabels)
    <3>1. f.at \in HookLabels /\ f.at \notin NewLabels /\ f.at \notin ListLabels
      BY <1>2 DEF HookLabels, NewLabels, ListLabels
    <3>. QED BY <1>2, <2>1, <3>1, PushIn, PushOut
  <2>. HIDE DEF x, s
  <2>3. OwnersRight(With(Hooked, t, Hooked[t] \cup {x}), New, C, DOMAIN live, DOMAIN allocation)
    <3>1. \A u \in Threads : \A y \in Hooked[u] \cup C[u] : y[2] # x[2]
      BY <1>2 DEF Idle
    <3>2. OwnersRight(With(Hooked, t, Hooked[t] \cup {x}),
                      IF FALSE THEN With(New, t, New[t] \cup {x}) ELSE New, C,
                      DOMAIN live, DOMAIN allocation)
      BY <1>2, <3>1, HookCalled
    <3>. QED BY <3>2
  <2>. QED BY <1>1, <2>1, <2>2, <2>3, WithSame, HandsNext
<1>4. CASE ~ delete_hook
  <2>1. s = rest /\ DOMAIN live' = DOMAIN live \ {p}
    BY <1>4 DEF PushIf, Freed, Restrict
  <2>2. OwnersRight(Hooked, New, C, DOMAIN live \ {p}, DOMAIN allocation)
    BY OwnersFree
  <2>3. OwnersRight(With(Hooked, t, Levels(s, HookLabels)), With(New, t, Levels(s, NewLabels)),
                    With(Lists, t, Levels(s, ListLabels)), DOMAIN live', DOMAIN allocation')
    BY <2>1, <2>2, WithSame
  <2>. HIDE DEF s
  <2>. QED BY <1>1, <2>3, HandsNext
<1>. QED BY <1>3, <1>4

-----------------------------------------------------------------------------
(* The profile is exact: one lemma for each group of actions                 *)

\* The lock and the switch stay, and what is recorded.
LEMMA BooksStay ==
    ASSUME ProfileInv, UNCHANGED <<heap_lock, is_on, table, total, allocation>>,
           \A p \in DOMAIN live' : live'[p] \in Sizes,
           \A p \in DOMAIN allocation : p \in DOMAIN live' /\ live'[p] = live[p]
    PROVE  LiveRight' /\ BooksRight(table, total, allocation, is_on)'
<1>1. LiveRight'
  BY DEF ProfileInv, LiveRight, LockFree
<1>2. BooksRight(table, total, allocation, is_on)'
  BY DEF ProfileInv
<1>. QED BY <1>1, <1>2

\* malloc, and GetHeapProfile's list.
LEMMA AllocatedExact ==
    ASSUME IInv, ProfileInv, NEW t \in Threads, Malloc(t) \/ NewList(t)
    PROVE  ProfileInv'
<1>1. Shapes /\ stack[t] \in Seq(AnyProcedure) /\ Len(stack[t]) \in Nat /\ HandsRight /\ LiveRight
  BY BelowSeq DEF IInv, ProfileInv
<1>2. UNCHANGED <<heap_lock, is_on, table, total, allocation>>
  BY Zenon DEF Malloc, NewList, profile, switches
<1>3. ASSUME NEW p \in Ptrs \ DOMAIN live, NEW n \in Sizes, NEW rest, Allocated(t, p, n, rest)
      PROVE  LiveRight' /\ BooksRight(table, total, allocation, is_on)'
  <2>1. live' = Put(live, p, n)
    BY <1>3, Zenon DEF Allocated
  <2>2. \A q \in DOMAIN live' : live'[q] \in Sizes
    BY <1>1, <2>1 DEF Put, LiveRight
  <2>3. \A q \in DOMAIN allocation : q \in DOMAIN live' /\ live'[q] = live[q]
    BY <1>1, <1>3, <2>1 DEF Put, LiveRight
  <2>. QED BY <1>2, <2>2, <2>3, BooksStay
<1>4. ASSUME NEW p \in Ptrs \ DOMAIN live
      PROVE  /\ OwnersRight(Hooked, New, Lists, DOMAIN live \cup {p}, DOMAIN allocation)
             /\ Idle(Hooked, Lists, p)
  BY <1>1, OwnersMore DEF HandsRight
<1>5. CASE Malloc(t)
  <2>1. PICK p \in Ptrs \ DOMAIN live, n \in Sizes : Allocated(t, p, n, stack[t])
    BY <1>5, Zenon DEF Malloc
  <2>2. Lists = With(Lists, t, Levels(stack[t], ListLabels))
    BY HandsOf, WithSame
  <2>3. /\ \A u \in Threads : \A x \in Hooked[u] : x[2] # p
        /\ \A u \in Threads : \A y \in Lists[u] : y[2] = p => u = t /\ y[1] < Len(stack[t])
    BY <1>4 DEF Idle
  <2>4. HandsRight'
    <3>. DEFINE C == Lists
    <3>1. /\ Levels(stack[t], HookLabels) = Hooked[t] /\ Levels(stack[t], NewLabels) = New[t]
          /\ C = With(Lists, t, Levels(stack[t], ListLabels))
          /\ OwnersRight(Hooked, New, C, DOMAIN live \cup {p}, DOMAIN allocation)
          /\ \A u \in Threads : \A y \in C[u] : y[2] = p => u = t /\ y[1] < Len(stack[t])
      BY <1>4, <2>2, <2>3, HandsOf
    <3>. HIDE DEF C
    <3>. QED BY <1>1, <1>2, <2>1, <2>3, <3>1, HandsAllocated
  <2>. QED BY <1>3, <2>1, <2>4 DEF ProfileInv
<1>6. CASE NewList(t)
  <2>1. At(t) = "profile" /\ At(t) # "run"
    BY <1>1, <1>6, NewListStack
  <2>2. PICK p \in Ptrs \ DOMAIN live, n \in Sizes :
          Allocated(t, p, n, Push(Frame("collect", p, num_buckets + Slack), Below(t)))
    BY <1>1, <1>6, NewListStack
  <2>. DEFINE g == Frame("collect", p, num_buckets + Slack)
              rest == Push(g, Below(t))
              y == <<Len(Below(t)), p>>
              C == With(Lists, t, Lists[t] \cup {y})
  <2>3. g.at = "collect" /\ g.ptr = p /\ g \in AnyProcedure
    BY FrameFields, FramesAny DEF Labels
  <2>4. Below(t) \in Seq(AnyProcedure) /\ Len(Below(t)) \in Nat
    BY <1>1, <2>1, BelowSeq
  <2>. HIDE DEF g
  <2>5. rest \in Seq(AnyProcedure) /\ Len(rest) = Len(Below(t)) + 1
    BY <2>3, <2>4, PushSeq
  <2>6. \A A \in OwnerLabels : At(t) \notin A /\ ("collect" \in A <=> A = ListLabels)
    BY <2>1 DEF OwnerLabels, HookLabels, NewLabels, ListLabels
  <2>7. \A A \in OwnerLabels : Levels(stack[t], A) = Levels(Below(t), A)
    BY <1>1, <2>1, <2>6, BelowOut
  <2>8. ASSUME NEW A \in OwnerLabels, A # ListLabels PROVE Levels(rest, A) = Levels(Below(t), A)
    <3>1. g.at \notin A
      BY <2>3, <2>6, <2>8
    <3>. QED BY <2>4, <3>1, PushOut
  <2>9. Levels(rest, ListLabels) = Levels(Below(t), ListLabels) \cup {y}
    BY <2>3, <2>4, PushIn DEF ListLabels
  <2>10. {HookLabels, NewLabels, ListLabels} \subseteq OwnerLabels
         /\ HookLabels # ListLabels /\ NewLabels # ListLabels
    BY DEF OwnerLabels, HookLabels, NewLabels, ListLabels
  <2>11. /\ Levels(rest, HookLabels) = Hooked[t] /\ Levels(rest, NewLabels) = New[t]
         /\ C = With(Lists, t, Levels(rest, ListLabels))
    BY <2>7, <2>8, <2>9, <2>10, HandsOf
  <2>. DEFINE L == DOMAIN live \cup {p}
  <2>12. OwnersRight(Hooked, New, C, L, DOMAIN allocation)
    <3>1. y[2] = p /\ p \in L /\ Idle(Hooked, Lists, p)
      BY <1>4
    <3>2. OwnersRight(Hooked, New, Lists, L, DOMAIN allocation)
      BY <1>4
    <3>. HIDE DEF y, L
    <3>. QED BY <3>1, <3>2, ListTaken
  <2>13. /\ \A u \in Threads : \A x \in Hooked[u] : x[2] # p
         /\ \A u \in Threads : \A z \in C[u] : z[2] = p => u = t /\ z[1] < Len(rest)
    <3>1. y[1] < Len(rest)
      BY <2>4, <2>5
    <3>2. \A u \in Threads : \A z \in C[u] : z \in Lists[u] \/ (u = t /\ z = y)
      BY DEF With
    <3>. QED BY <1>4, <3>1, <3>2 DEF Idle
  <2>. HIDE DEF rest, C, y
  <2>14. HandsRight'
    BY <1>1, <1>2, <2>2, <2>5, <2>11, <2>12, <2>13, HandsAllocated DEF rest, g
  <2>. QED BY <1>3, <2>2, <2>14 DEF ProfileInv
<1>. QED BY <1>5, <1>6

\* free, and the list that is given back: an object that is not recorded, or
\* is freed by the hook later.
LEMMA FreedExact ==
    ASSUME IInv, ProfileInv, NEW t \in Threads, Free(t) \/ Collect(t)
    PROVE  ProfileInv'
<1>1. Shapes /\ stack[t] \in Seq(AnyProcedure) /\ Len(stack[t]) \in Nat /\ HandsRight /\ LiveRight
  BY BelowSeq DEF IInv, ProfileInv
<1>2. UNCHANGED <<heap_lock, is_on, table, total, allocation>>
  BY Zenon DEF Free, Collect, profile, switches
<1>3. ASSUME NEW p, NEW rest, Freed(t, p, rest)
      PROVE  LiveRight' /\ BooksRight(table, total, allocation, is_on)'
  <2>1. CASE delete_hook
    <3>1. live' = live
      BY <1>3, <2>1 DEF Freed
    <3>. QED BY <1>1, <1>2, <3>1, BooksStay DEF LiveRight
  <2>2. CASE ~ delete_hook
    <3>1. live' = Restrict(live, DOMAIN live \ {p})
      BY <1>3, <2>2 DEF Freed
    <3>2. DOMAIN allocation = {}
      BY <1>1, <2>2 DEF IInv, OnWhenNeeded, LiveRight
    <3>3. \A q \in DOMAIN live' : live'[q] \in Sizes
      BY <1>1, <3>1 DEF Restrict, LiveRight
    <3>. QED BY <1>2, <3>2, <3>3, BooksStay
  <2>. QED BY <2>1, <2>2
<1>4. CASE Free(t)
  <2>1. PICK p \in Ptrs \ {f.ptr : f \in Frames} : p \in DOMAIN live /\ Freed(t, p, stack[t])
    BY <1>4 DEF Free
  <2>2. Idle(Hooked, Lists, p)
    <3>1. ASSUME NEW u \in Threads, NEW A, NEW x \in Levels(stack[u], A) PROVE x[2] # p
      <4>1. PICK i \in 1 .. Len(stack[u]) : x = <<Len(stack[u]) - i, stack[u][i].ptr>>
        BY DEF Levels
      <4>2. stack[u][i] \in ToSet(stack[u])
        BY DEF ToSet
      <4>3. stack[u][i] \in Frames
        BY <4>2 DEF Frames
      <4>. QED BY <2>1, <4>1, <4>3
    <3>. QED BY <3>1, HandsOf DEF Idle
  <2>3. Lists = With(Lists, t, Levels(stack[t], ListLabels))
    BY HandsOf, WithSame
  <2>4. HandsRight'
    BY <1>1, <1>2, <2>1, <2>2, <2>3, HandsOf, HandsFreed DEF HandsRight
  <2>. QED BY <1>3, <2>1, <2>4 DEF ProfileInv
<1>5. CASE Collect(t)
  <2>1. At(t) = "collect" /\ At(t) # "run"
    BY <1>1, <1>5, CollectStack
  <2>2. PICK again \in BOOLEAN :
          Freed(t, Head(stack[t]).ptr, PushIf(again, Frame("profile", None, 0), Below(t)))
    BY <1>1, <1>5, CollectStack
  <2>. DEFINE g == Frame("profile", None, 0)
              rest == PushIf(again, g, Below(t))
              p == Head(stack[t]).ptr
              y == <<Len(Below(t)), p>>
              X == Levels(Below(t), ListLabels)
              C == With(Lists, t, X)
  <2>3. g.at = "profile" /\ g \in AnyProcedure
    BY FrameFields, FramesAny DEF Labels
  <2>4. Below(t) \in Seq(AnyProcedure) /\ Len(Below(t)) \in Nat
    BY <1>1, <2>1, BelowSeq
  <2>5. Freed(t, p, rest)
    BY <2>2
  <2>. HIDE DEF g
  <2>6. \A A \in OwnerLabels : "profile" \notin A /\ ("collect" \in A <=> A = ListLabels)
    BY DEF OwnerLabels, HookLabels, NewLabels, ListLabels
  <2>7. rest \in Seq(AnyProcedure) /\ \A A \in OwnerLabels : Levels(rest, A) = Levels(Below(t), A)
    BY <2>3, <2>4, <2>6, PushSeq, PushOut
  <2>8. \A A \in OwnerLabels : A # ListLabels => Levels(stack[t], A) = Levels(Below(t), A)
    BY <1>1, <2>1, <2>6, BelowOut
  <2>9. Lists[t] = X \cup {y} /\ y \notin X
    BY <1>1, <2>1, BelowIn, HandsOf DEF ListLabels
  <2>10. {HookLabels, NewLabels, ListLabels} \subseteq OwnerLabels
         /\ HookLabels # ListLabels /\ NewLabels # ListLabels
    BY DEF OwnerLabels, HookLabels, NewLabels, ListLabels
  <2>11. /\ Levels(rest, HookLabels) = Hooked[t] /\ Levels(rest, NewLabels) = New[t]
         /\ C = With(Lists, t, Levels(rest, ListLabels))
    BY <2>7, <2>8, <2>10, HandsOf
  <2>12. \A x \in Hooked[t] : ~ Above(x, y)
    <3>. SUFFICES ASSUME NEW x \in Hooked[t] PROVE ~ Above(x, y)
      OBVIOUS
    <3>1. x \in Levels(Below(t), HookLabels)
      BY <2>8, <2>10, HandsOf
    <3>2. x[1] \in Nat /\ x[1] < Len(Below(t))
      BY <2>4, <3>1, LevelsBelow
    <3>. QED BY <2>4, <3>2 DEF Above
  <2>13. y[2] = p
    OBVIOUS
  <2>. HIDE DEF rest, X, y, p
  <2>14. OwnersRight(Hooked, New, C, DOMAIN live, DOMAIN allocation) /\ Idle(Hooked, C, p) /\ p \in DOMAIN live
    BY <1>1, <2>9, <2>12, <2>13, ListGiven DEF HandsRight
  <2>. HIDE DEF C
  <2>15. HandsRight'
    BY <1>1, <1>2, <2>5, <2>7, <2>11, <2>14, HandsFreed
  <2>. QED BY <1>3, <2>5, <2>15 DEF ProfileInv
<1>. QED BY <1>4, <1>5

\* The hook of malloc, which records the object or returns at once, and may go
\* on to a dump.
LEMMA RecordAllocExact ==
    ASSUME IInv, ProfileInv, NEW t \in Threads, RecordAlloc(t)
    PROVE  ProfileInv'
<1>. DEFINE p == Head(stack[t]).ptr
            x == <<Len(Below(t)), p>>
            X == Levels(Below(t), HookLabels)
            Y == Levels(Below(t), NewLabels)
            L == DOMAIN live
            A == DOMAIN allocation
<1>1. /\ At(t) = "record_alloc" /\ LockFree
      /\ UNCHANGED <<heap_lock, is_on, live>>
  BY Zenon DEF RecordAlloc, switches
<1>2. Shapes /\ HandsRight /\ LiveRight /\ Below(t) \in Seq(AnyProcedure)
  BY <1>1, BelowSeq DEF IInv, ProfileInv
<1>3. PICK s : Becomes(t, s) /\ \A B \in OwnerLabels : Levels(s, B) = Levels(Below(t), B)
  <2>1. Return(t) \/ StartsDump(t)
    BY Zenon DEF RecordAlloc
  <2>2. Becomes(t, Below(t)) \/ Becomes(t, Push(Frame("write", None, 0), Below(t)))
    BY <2>1, Zenon DEF Return, StartsDump, Jump, Becomes, Push, Below
  <2>3. ASSUME NEW B \in OwnerLabels
        PROVE  Levels(Push(Frame("write", None, 0), Below(t)), B) = Levels(Below(t), B)
    <3>1. Frame("write", None, 0).at \notin B
      BY FrameFields DEF OwnerLabels, HookLabels, NewLabels, ListLabels
    <3>. QED BY <1>2, <3>1, PushOut
  <2>. QED BY <2>2, <2>3
<1>4. /\ Hooked[t] = X \cup {x} /\ x \notin X
      /\ New[t] = Y \cup {x} /\ x \notin Y
      /\ Lists[t] = Levels(Below(t), ListLabels)
  <2>1. At(t) # "run" /\ At(t) \in HookLabels /\ At(t) \in NewLabels /\ At(t) \notin ListLabels
    BY <1>1 DEF HookLabels, NewLabels, ListLabels
  <2>. QED BY <1>2, <2>1, BelowIn, BelowOut, HandsOf
<1>5. /\ Levels(s, HookLabels) = X /\ Levels(s, NewLabels) = Y
      /\ Levels(s, ListLabels) = Lists[t]
  BY <1>3, <1>4 DEF OwnerLabels
<1>6. x[2] = p
  OBVIOUS
<1>. HIDE DEF x, X, Y, L, A
<1>7. /\ OwnersRight(With(Hooked, t, X), With(New, t, Y), Lists, L, A)
      /\ \A u \in Threads : \A y \in With(Hooked, t, X)[u] : y[2] # p
      /\ p \in L
  <2>1. /\ OwnersRight(Hooked, New, Lists, L, A)
        /\ Hooked[t] = X \cup {x} /\ x \notin X /\ Y = New[t] \ {x}
    BY <1>2, <1>4 DEF HandsRight, L, A
  <2>2. OwnersRight(With(Hooked, t, X), With(New, t, Y), Lists, L, A)
    BY <2>1, HookReturns
  <2>3. \A u \in Threads : \A y \in With(Hooked, t, X)[u] : y[2] # x[2]
    BY <2>1, <2>2, HookReturns
  <2>4. x[2] \in L
    BY <2>1 DEF OwnersRight
  <2>. QED BY <1>6, <2>2, <2>3, <2>4
<1>8. p \notin A
  BY <1>2, <1>4, <1>6 DEF HandsRight, OwnersRight, A
<1>. HIDE DEF p
<1>9. CASE ~ is_on
  <2>1. UNCHANGED <<table, total, allocation>>
    BY <1>9, Zenon DEF RecordAlloc, profile
  <2>2. LiveRight' /\ BooksRight(table, total, allocation, is_on)'
    BY <1>1, <1>2, <2>1, BooksStay DEF LiveRight
  <2>3. OwnersRight(With(Hooked, t, Levels(s, HookLabels)), With(New, t, Levels(s, NewLabels)),
                    With(Lists, t, Levels(s, ListLabels)), DOMAIN live', DOMAIN allocation')
    BY <1>1, <1>5, <1>7, <2>1, WithSame DEF L, A
  <2>4. HandsRight'
    BY <1>2, <1>3, <2>3, HandsNext
  <2>. QED BY <2>2, <2>4 DEF ProfileInv
<1>10. CASE is_on
  <2>. DEFINE n == live[p]
  <2>1. PICK r \in Stacks :
          /\ table' = Put(table, r, Counted(IF r \in DOMAIN table THEN table[r] ELSE NoBucket, n))
          /\ allocation' = Put(allocation, p, [bucket |-> r, bytes |-> n])
    BY <1>10, Zenon DEF RecordAlloc, p
  <2>2. total' = Counted(total, n)
    BY <1>10, Zenon DEF RecordAlloc, p
  <2>3. n \in Nat
    BY <1>2, <1>7, HeapProfilerAssumption DEF LiveRight, L
  <2>. HIDE DEF n
  <2>4. BooksRight(table', total', allocation', TRUE)
    <3>1. BooksRight(table, total, allocation, TRUE) /\ p \notin DOMAIN allocation
      BY <1>8, <1>10 DEF ProfileInv, BooksRight, A
    <3>2. BooksRight(Put(table, r, Counted(IF r \in DOMAIN table THEN table[r] ELSE NoBucket, n)),
                     Counted(total, n), Put(allocation, p, [bucket |-> r, bytes |-> n]), TRUE)
      BY <2>3, <3>1, BooksRecord
    <3>. QED BY <2>1, <2>2, <3>2
  <2>5. BooksRight(table, total, allocation, is_on)'
    BY <2>4 DEF BooksRight
  <2>6. DOMAIN allocation' = A \cup {p} /\ \A q \in A : allocation'[q] = allocation[q]
    BY <1>8, <2>1 DEF Put, A
  <2>7. allocation'[p].bytes = n
    BY <2>1 DEF Put
  <2>8. LiveRight'
    BY <1>1, <1>2, <1>7, <1>10, <2>6, <2>7 DEF LiveRight, LockFree, L, A, n
  <2>9. OwnersRight(With(Hooked, t, X), With(New, t, Y), Lists, L, A \cup {p})
    BY <1>7, OwnersRecord
  <2>10. OwnersRight(With(Hooked, t, Levels(s, HookLabels)), With(New, t, Levels(s, NewLabels)),
                     With(Lists, t, Levels(s, ListLabels)), DOMAIN live', DOMAIN allocation')
    BY <1>1, <1>5, <2>6, <2>9, WithSame DEF L
  <2>11. HandsRight'
    BY <1>2, <1>3, <2>10, HandsNext
  <2>. QED BY <2>5, <2>8, <2>11 DEF ProfileInv
<1>. QED BY <1>9, <1>10

\* The hook of free, which takes the object out of the profile if it is there;
\* the object then goes back to the allocator.
LEMMA RecordFreeExact ==
    ASSUME IInv, ProfileInv, NEW t \in Threads, RecordFree(t)
    PROVE  ProfileInv'
<1>. DEFINE p == Head(stack[t]).ptr
            x == <<Len(Below(t)), p>>
            X == Levels(Below(t), HookLabels)
            Y == Levels(Below(t), NewLabels)
            L == DOMAIN live
            A == DOMAIN allocation
<1>1. /\ At(t) = "record_free" /\ LockFree
      /\ UNCHANGED <<heap_lock, is_on>>
      /\ live' = Restrict(live, DOMAIN live \ {p})
      /\ Return(t)
  BY Zenon DEF RecordFree, switches
<1>2. Shapes /\ HandsRight /\ LiveRight /\ Below(t) \in Seq(AnyProcedure)
  BY <1>1, BelowSeq DEF IInv, ProfileInv
<1>3. Becomes(t, Below(t))
  BY <1>1 DEF Return, Becomes, Below
<1>4. /\ Hooked[t] = X \cup {x} /\ x \notin X
      /\ New[t] = Y /\ x \notin Y
      /\ Lists[t] = Levels(Below(t), ListLabels)
  <2>1. At(t) # "run" /\ At(t) \in HookLabels /\ At(t) \notin NewLabels /\ At(t) \notin ListLabels
    BY <1>1 DEF HookLabels, NewLabels, ListLabels
  <2>2. Y \subseteq X
    BY DEF Levels, HookLabels, NewLabels
  <2>. HIDE DEF X, Y, x
  <2>3. Hooked[t] = X \cup {x} /\ x \notin X
    BY <1>2, <2>1, BelowIn, HandsOf DEF X, x
  <2>4. New[t] = Y /\ Lists[t] = Levels(Below(t), ListLabels)
    BY <1>2, <2>1, BelowOut, HandsOf DEF Y
  <2>. QED BY <2>2, <2>3, <2>4
<1>5. x[2] = p
  OBVIOUS
<1>6. DOMAIN live' = DOMAIN live \ {p} /\ \A q \in DOMAIN live \ {p} : live'[q] = live[q]
  BY <1>1, Restricted
<1>. HIDE DEF x, X, Y, L, A, p
<1>7. /\ OwnersRight(With(Hooked, t, X), With(New, t, Y), Lists, L, A)
      /\ Idle(With(Hooked, t, X), Lists, p)
  <2>1. OwnersRight(Hooked, New, Lists, L, A) /\ Y = New[t] \ {x} /\ x \notin New[t]
    BY <1>2, <1>4 DEF HandsRight, L, A
  <2>. QED BY <1>4, <1>5, <2>1, HookReturns
<1>8. ASSUME DOMAIN allocation' \subseteq A PROVE HandsRight'
  <2>1. OwnersRight(With(Hooked, t, X), With(New, t, Y), Lists, L \ {p}, DOMAIN allocation')
    BY <1>7, <1>8, OwnersFree
  <2>2. OwnersRight(With(Hooked, t, X), With(New, t, Y),
                    With(Lists, t, Levels(Below(t), ListLabels)), DOMAIN live', DOMAIN allocation')
    BY <1>4, <1>6, <2>1, WithSame DEF L
  <2>. QED BY <1>2, <1>3, <2>2, HandsNext DEF X, Y
<1>9. CASE is_on /\ p \in A
  <2>. DEFINE v == allocation[p]
  <2>1. /\ table' = [table EXCEPT ![v.bucket] = Uncounted(table[v.bucket], v.bytes)]
        /\ total' = Uncounted(total, v.bytes)
        /\ allocation' = Restrict(allocation, A \ {p})
    BY <1>9, Zenon DEF RecordFree, p, A
  <2>2. DOMAIN allocation' = A \ {p} /\ \A q \in A \ {p} : allocation'[q] = allocation[q]
    BY <2>1, Restricted
  <2>3. BooksRight(table', total', allocation', TRUE)
    <3>1. BooksRight(table, total, allocation, TRUE) /\ p \in DOMAIN allocation
      BY <1>9 DEF ProfileInv, BooksRight, A
    <3>2. v.bucket \in DOMAIN table
      BY <3>1 DEF BooksRight
    <3>. DEFINE tab2 == table'
    <3>3. /\ DOMAIN tab2 = DOMAIN table
          /\ tab2[v.bucket] = Uncounted(table[v.bucket], v.bytes)
          /\ \A r \in DOMAIN table \ {v.bucket} : tab2[r] = table[r]
      BY <2>1, <3>2
    <3>. HIDE DEF tab2
    <3>4. BooksRight(tab2, Uncounted(total, v.bytes), Restrict(allocation, DOMAIN allocation \ {p}), TRUE)
      BY <3>1, <3>3, BooksForget
    <3>. QED BY <2>1, <3>4 DEF tab2, A
  <2>4. BooksRight(table, total, allocation, is_on)'
    BY <1>1, <1>9, <2>3 DEF BooksRight
  <2>5. LiveRight'
    BY <1>1, <1>2, <1>6, <2>2 DEF LiveRight, LockFree, A
  <2>. QED BY <1>8, <2>2, <2>4, <2>5 DEF ProfileInv
<1>10. CASE ~ (is_on /\ p \in A)
  <2>1. UNCHANGED <<table, total, allocation>>
    BY <1>10, Zenon DEF RecordFree, p, A
  <2>2. p \notin A
    BY <1>2, <1>10 DEF LiveRight, A
  <2>3. LiveRight' /\ BooksRight(table, total, allocation, is_on)'
    BY <1>1, <1>2, <1>6, <2>1, <2>2, BooksStay DEF LiveRight, A
  <2>. QED BY <1>8, <2>1, <2>3 DEF ProfileInv, A
<1>. QED BY <1>9, <1>10

\* The steps of a dump that are not at a list, and calls from outside.
LEMMA DumpExact ==
    ASSUME IInv, ProfileInv, NEW t \in Threads,
           \/ HeapProfilerDump(t) \/ DumpLocked(t) \/ OpenFile(t) \/ CloseFile(t)
           \/ GetHeapProfile(t)
    PROVE  ProfileInv'
<1>1. Shapes /\ stack[t] \in Seq(AnyProcedure) /\ HandsRight /\ LiveRight
  BY BelowSeq DEF IInv, ProfileInv
<1>2. UNCHANGED <<heap_lock, is_on, table, total, allocation, live>>
  BY Zenon DEF HeapProfilerDump, DumpLocked, OpenFile, CloseFile, GetHeapProfile, profile, switches
<1>3. LiveRight' /\ BooksRight(table, total, allocation, is_on)'
  BY <1>1, <1>2, BooksStay DEF LiveRight
<1>4. ASSUME NEW A \in OwnerLabels, NEW l \in {"dump", "profile", "write", "written", "run"}
      PROVE  /\ l \notin A
             /\ \A p, n : Frame(l, p, n).at \notin A
  BY <1>4, FrameFields DEF OwnerLabels, HookLabels, NewLabels, ListLabels
<1>5. ASSUME NEW A \in OwnerLabels, At(t) \in {"dump", "write", "written"}
      PROVE  Below(t) \in Seq(AnyProcedure) /\ Levels(Below(t), A) = Levels(stack[t], A)
  BY <1>1, <1>4, <1>5, BelowSeq, BelowOut
<1>6. ASSUME NEW s, Becomes(t, s), \A A \in OwnerLabels : Levels(s, A) = Levels(stack[t], A)
      PROVE  HandsRight'
  BY <1>1, <1>2, <1>6, HandsStay
<1>7. CASE HeapProfilerDump(t) \/ GetHeapProfile(t)
  <2>1. PICK l \in {"dump", "profile"} : Call(t, Frame(l, None, 0))
    BY <1>7 DEF HeapProfilerDump, GetHeapProfile
  <2>. DEFINE f == Frame(l, None, 0)
  <2>2. Becomes(t, Push(f, stack[t]))
    BY <2>1, Zenon DEF Call, Becomes, Push
  <2>3. \A A \in OwnerLabels : f.at \notin A
    BY <1>4
  <2>. HIDE DEF f
  <2>4. \A A \in OwnerLabels : Levels(Push(f, stack[t]), A) = Levels(stack[t], A)
    BY <1>1, <2>3, PushOut
  <2>. QED BY <1>3, <1>6, <2>2, <2>4 DEF ProfileInv
<1>8. CASE DumpLocked(t)
  <2>1. At(t) = "dump" /\ (Return(t) \/ StartsDump(t) \/ stack' = stack)
    BY <1>8, Zenon DEF DumpLocked
  <2>. DEFINE f == Frame("write", None, 0)
  <2>2. Becomes(t, Below(t)) \/ Becomes(t, Push(f, Below(t))) \/ Becomes(t, stack[t])
    <3>1. stack' = stack => Becomes(t, stack[t])
      BY <1>1 DEF Shapes, Becomes
    <3>. QED BY <2>1, <3>1, Zenon DEF Return, StartsDump, Jump, Becomes, Push, Below
  <2>3. \A A \in OwnerLabels : f.at \notin A
    BY <1>4
  <2>. HIDE DEF f
  <2>4. ASSUME NEW A \in OwnerLabels
        PROVE  /\ Levels(Below(t), A) = Levels(stack[t], A)
               /\ Levels(Push(f, Below(t)), A) = Levels(stack[t], A)
    BY <1>5, <2>1, <2>3, PushOut
  <2>. QED BY <1>3, <1>6, <2>2, <2>4 DEF ProfileInv
<1>9. CASE OpenFile(t)
  <2>. DEFINE f == Frame("profile", None, 0)
              g == Frame("written", None, 0)
              below == Push(g, Below(t))
  <2>1. At(t) = "write"
    BY <1>1, <1>9, OpenFileStack
  <2>2. PICK opened \in BOOLEAN : Becomes(t, PushIf(opened, f, below))
    BY <1>1, <1>9, OpenFileStack
  <2>3. g \in AnyProcedure /\ \A A \in OwnerLabels : f.at \notin A /\ g.at \notin A
    BY <1>4, FramesAny DEF Labels
  <2>. HIDE DEF f, g
  <2>4. ASSUME NEW A \in OwnerLabels
        PROVE  Levels(PushIf(opened, f, below), A) = Levels(stack[t], A)
    <3>1. Below(t) \in Seq(AnyProcedure) /\ Levels(Below(t), A) = Levels(stack[t], A)
      BY <1>5, <2>1
    <3>2. below \in Seq(AnyProcedure) /\ Levels(below, A) = Levels(Below(t), A)
      BY <2>3, <3>1, PushSeq, PushOut
    <3>. HIDE DEF below
    <3>. QED BY <2>3, <3>1, <3>2, PushOut
  <2>. QED BY <1>3, <1>6, <2>2, <2>4 DEF ProfileInv
<1>10. CASE CloseFile(t)
  <2>1. At(t) = "written" /\ Becomes(t, Below(t))
    BY <1>10 DEF CloseFile, Return, Becomes, Below
  <2>. QED BY <1>3, <1>5, <1>6, <2>1 DEF ProfileInv
<1>. QED BY <1>7, <1>8, <1>9, <1>10

\* Start and stop: either nothing is recorded after them, or what was.
LEMMA SwitchExact ==
    ASSUME IInv, ProfileInv, NEW t \in Threads,
           \/ HeapProfilerStart(t) \/ FirstAllocation(t)
           \/ HeapProfilerStop(t) \/ StopForLeaks(t) \/ DumpProfileLocked(t)
    PROVE  ProfileInv'
<1>1. Shapes /\ stack[t] \in Seq(AnyProcedure) /\ HandsRight /\ LiveRight
  BY BelowSeq DEF IInv, ProfileInv
<1>2. live' = live
  BY Zenon DEF HeapProfilerStart, FirstAllocation, HeapProfilerStop, StopForLeaks, DumpProfileLocked
<1>3. \/ table' = Empty /\ allocation' = Empty /\ is_on' = TRUE /\ total' = NoBucket
      \/ table' = Empty /\ allocation' = Empty /\ is_on' = FALSE /\ total' = total
      \/ UNCHANGED <<is_on, table, total, allocation>> /\ (LockFree => LockFree')
  <2>1. CASE HeapProfilerStart(t)
    BY <2>1, Zenon DEF HeapProfilerStart, profile, LockFree
  <2>2. CASE FirstAllocation(t)
    BY <2>2, Zenon DEF FirstAllocation, profile, LockFree
  <2>3. CASE HeapProfilerStop(t)
    BY <2>3, Zenon DEF HeapProfilerStop, TurnOff, profile, LockFree
  <2>4. CASE StopForLeaks(t)
    BY <2>4, Zenon DEF StopForLeaks, TurnOff, profile, LockFree
  <2>5. CASE DumpProfileLocked(t)
    BY <2>5, Zenon DEF DumpProfileLocked, switches, profile, LockFree
  <2>. QED BY <2>1, <2>2, <2>3, <2>4, <2>5
<1>4. DOMAIN allocation' \subseteq DOMAIN allocation
  BY <1>3 DEF Empty
<1>5. HandsRight'
  <2>1. \E s : Becomes(t, s) /\ \A A \in OwnerLabels : Levels(s, A) = Levels(stack[t], A)
    <3>1. ASSUME stack' = stack PROVE Becomes(t, stack[t])
      BY <1>1, <3>1 DEF Shapes, Becomes
    <3>2. \A A \in OwnerLabels : "first" \notin A
      BY DEF OwnerLabels, HookLabels, NewLabels, ListLabels
    <3>3. CASE FirstAllocation(t)
      <4>1. At(t) = "first" /\ At(t) # "run" /\ Becomes(t, Below(t))
        BY <3>3 DEF FirstAllocation, Return, Becomes, Below
      <4>2. \A A \in OwnerLabels : Levels(Below(t), A) = Levels(stack[t], A)
        BY <1>1, <3>2, <4>1, BelowOut
      <4>. QED BY <4>1, <4>2
    <3>4. CASE HeapProfilerStart(t)
      <4>1. stack' = stack \/ Call(t, Frame("first", None, 0))
        BY <3>4, Zenon DEF HeapProfilerStart
      <4>. DEFINE f == Frame("first", None, 0)
      <4>2. Call(t, f) => Becomes(t, Push(f, stack[t]))
        BY Zenon DEF Call, Becomes, Push
      <4>3. \A A \in OwnerLabels : f.at \notin A
        BY <3>2, FrameFields
      <4>. HIDE DEF f
      <4>4. \A A \in OwnerLabels : Levels(Push(f, stack[t]), A) = Levels(stack[t], A)
        BY <1>1, <4>3, PushOut
      <4>. QED BY <3>1, <4>1, <4>2, <4>4 DEF f
    <3>5. CASE HeapProfilerStop(t) \/ StopForLeaks(t) \/ DumpProfileLocked(t)
      <4>1. stack' = stack
        BY <3>5, Zenon DEF HeapProfilerStop, StopForLeaks, DumpProfileLocked
      <4>. QED BY <3>1, <4>1
    <3>. QED BY <3>3, <3>4, <3>5
  <2>2. PICK s : Becomes(t, s) /\ \A A \in OwnerLabels : Levels(s, A) = Levels(stack[t], A)
    BY <2>1
  <2>. QED BY <1>1, <1>2, <1>4, <2>2, HandsStay
<1>6. LiveRight'
  <2>1. CASE allocation' = Empty
    BY <1>1, <1>2, <2>1 DEF LiveRight, Empty
  <2>2. CASE UNCHANGED <<is_on, allocation>> /\ (LockFree => LockFree')
    BY <1>1, <1>2, <2>2 DEF LiveRight
  <2>. QED BY <1>3, <2>1, <2>2
<1>7. BooksRight(table', total', allocation', is_on')
  <2>1. NoBucket \in Bucket /\ total \in Bucket
    BY DEF NoBucket, Bucket, ProfileInv, BooksRight
  <2>2. BooksRight(Empty, NoBucket, Empty, TRUE) /\ BooksRight(Empty, total, Empty, FALSE)
    BY <2>1, BooksEmpty
  <2>3. BooksRight(table, total, allocation, is_on)
    BY DEF ProfileInv
  <2>. QED BY <1>3, <2>2, <2>3
<1>8. BooksRight(table, total, allocation, is_on)'
  BY <1>7
<1>. QED BY <1>5, <1>6, <1>8 DEF ProfileInv

LEMMA ProfileStep == IInv /\ ProfileInv /\ [Next]_vars => ProfileInv'
<1>. SUFFICES ASSUME IInv, ProfileInv, [Next]_vars PROVE ProfileInv'
  OBVIOUS
<1>1. CASE UNCHANGED vars
  <2>1. UNCHANGED <<heap_lock, is_on, table, total, allocation, live, stack>>
    BY <1>1 DEF vars, switches, profile
  <2>2. LiveRight' /\ BooksRight(table, total, allocation, is_on)'
    BY <2>1, BooksStay DEF ProfileInv, LiveRight
  <2>3. HandsRight'
    BY <2>1 DEF ProfileInv, HandsRight, Hooked, New, Lists, Labelled, OwnersRight
  <2>. QED BY <2>2, <2>3 DEF ProfileInv
<1>2. CASE Next
  <2>1. PICK t \in Threads :
          \/ Malloc(t) \/ Free(t) \/ RecordAlloc(t) \/ RecordFree(t)
          \/ HeapProfilerDump(t) \/ DumpLocked(t) \/ OpenFile(t) \/ CloseFile(t)
          \/ GetHeapProfile(t) \/ NewList(t) \/ Collect(t)
          \/ HeapProfilerStart(t) \/ FirstAllocation(t)
          \/ HeapProfilerStop(t) \/ StopForLeaks(t) \/ DumpProfileLocked(t)
    BY <1>2, Zenon DEF Next
  <2>. QED BY <2>1, AllocatedExact, FreedExact, RecordAllocExact, RecordFreeExact, DumpExact,
              SwitchExact
<1>. QED BY <1>1, <1>2

LEMMA InitProfile == Init => ProfileInv
<1>. SUFFICES ASSUME Init PROVE ProfileInv
  OBVIOUS
<1>1. \A t \in Threads : Hooked[t] = {} /\ New[t] = {} /\ Lists[t] = {}
  BY LevelsEmpty, HandsOf DEF Init
<1>2. HandsRight
  BY <1>1 DEF HandsRight, OwnersRight
<1>3. LiveRight
  BY DEF Init, Empty, LiveRight
<1>4. BooksRight(table, total, allocation, is_on)
  <2>1. NoBucket \in Bucket
    BY DEF NoBucket, Bucket
  <2>. QED BY <2>1, BooksEmpty DEF Init
<1>. QED BY <1>2, <1>3, <1>4 DEF ProfileInv

-----------------------------------------------------------------------------
(* The theorems                                                              *)

\* Every step keeps the invariant.
LEMMA NextIInv == IInv /\ [Next]_vars => IInv'
<1>. SUFFICES ASSUME IInv, [Next]_vars PROVE IInv'
  OBVIOUS
<1>1. CASE Next
  <2>1. PICK t \in Threads :
          \/ Malloc(t) \/ Free(t) \/ RecordAlloc(t) \/ RecordFree(t)
          \/ HeapProfilerDump(t) \/ DumpLocked(t) \/ OpenFile(t) \/ CloseFile(t)
          \/ GetHeapProfile(t) \/ NewList(t) \/ Collect(t)
          \/ HeapProfilerStart(t) \/ FirstAllocation(t)
          \/ HeapProfilerStop(t) \/ StopForLeaks(t) \/ DumpProfileLocked(t)
    BY <1>1, Zenon DEF Next
  <2>. QED BY <2>1, MallocFreeStep, RecordStep, DumpStep, StartStep, StopStep
<1>2. CASE UNCHANGED vars
  <2>1. UNCHANGED <<heap_lock, switches, new_hook, delete_hook, num_buckets, stack>>
    BY <1>2 DEF vars, hooks, profile
  <2>2. Shapes' /\ Holder'
    BY <2>1 DEF IInv, Shapes, Holder, switches
  <2>3. Starting' /\ OnWhenNeeded'
    BY <2>1, SwitchesStay DEF IInv
  <2>. QED BY <2>2, <2>3 DEF IInv
<1>. QED BY <1>1, <1>2

\* The switches and the lock of the heap profiler, who is in a dump, and what is
\* recorded of the objects are in order at every step of start, stop, dumps inside
\* dumps, and of the allocations these make.
THEOREM HeapProfilerInvariance == Spec => [](IInv /\ OneDumper /\ ProfileInv)
<1>. DEFINE I == IInv /\ OneDumper /\ ProfileInv
<1>1. Init => I
  BY InitIInv, InitOneDumper, InitProfile
<1>2. I /\ [Next]_vars => I'
  BY NextIInv, OneDumperStep, ProfileStep
<1>. QED BY <1>1, <1>2, PTL DEF Spec

\* Whenever heap_lock is free, the profiler is on when a dump file or the heap
\* checker needs it, and both hooks are set then and only then: no start finds
\* the state in which EarlyStartLocked calls abort.
THEOREM OnWhenNeededHolds == Spec => []OnWhenNeeded
<1>1. IInv => OnWhenNeeded
  BY DEF IInv
<1>. QED BY <1>1, HeapProfilerInvariance, PTL

\* dumping_ says that a thread is in DumpLocked after it dropped the lock, and
\* there is one at most, at one place of its stack.
THEOREM OneDumperHolds == Spec => []OneDumper
<1>. QED BY HeapProfilerInvariance, PTL

\* What the profile says of every trace, and in total, is what is allocated of
\* the objects it has recorded, however the hooks of malloc and free and the
\* lists of GetHeapProfile come in between.
THEOREM ProfileExactHolds == Spec => []ProfileExact
<1>. QED BY ProfileInvExact, HeapProfilerInvariance, PTL

=============================================================================
