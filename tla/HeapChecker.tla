------------------------------ MODULE HeapChecker ------------------------------
(***************************************************************************)
(* The heap leak checker (heapcheck.cpp) on the thread lister: how a check *)
(* marks what can still be reached, and what becomes of it when the lister *)
(* fails half way; and the names the checkers keep on the heap themselves. *)
(*                                                                         *)
(* A check holds heap_checker_lock and the profiler's lock from its        *)
(* beginning to its end, so that other threads that record an allocation   *)
(* or ask for a check wait.  What memory holds is chosen when the marking  *)
(* starts.  The libraries' global data is taken as one, and the profile    *)
(* and pprof are left out.                                                 *)
(***************************************************************************)
EXTENDS ThreadLister

CONSTANTS Objects,     \* those the profiler has recorded
          Disabled,    \* those of them that disabled code may have allocated
          Referrers,   \* what may point to each of them
          Globals,     \* the global data
          Checkers,    \* threads that make a HeapLeakCheck
          StackIn      \* thread -> the object its stack lies in, or Null

\* The string that the HeapLeakCheck of t keeps on the heap, and the registers of t.
Name(t) == <<t>>
Registers(t) == <<t, "registers">>
RegistersOf(threads) == {Registers(t) : t \in threads}

ASSUME HeapCheckerAssumption ==
    /\ Checkers \subseteq Threads
    /\ StackIn \in [Threads -> Objects \cup {Null}]
    /\ Disabled \subseteq Objects /\ IsFiniteSet(Objects) /\ IsFiniteSet(Threads)
    /\ Referrers \in [Objects -> SUBSET (Threads \cup RegistersOf(Threads)
                                          \cup Objects \cup {Globals})]
    /\ Objects \cap (Threads \cup {Globals, Null}) = {} /\ Globals \notin Threads \cup {Null}
    /\ \A t \in Threads :
          {Name(t), Registers(t)} \cap (Threads \cup Objects \cup {Globals, Null}) = {}

VARIABLES
    draconian,        \* FLAGS_heap_check_ignore_thread_live and _global_live are off
    checker,          \* per thread, where its HeapLeakCheck is
    names,            \* the threads whose name_ is allocated
    ignored_names,    \* those in ignored_objects
    phase,            \* of the check that is made, or "idle"
    status,           \* thread_listing_status
    memory,           \* what there is to mark, once it has been
    stacks,           \* threads whose stack was found
    registers,        \* threads whose registers were read
    ignored,          \* HeapProfiler::ignored_objects_
    nonthread,        \* history: times IgnoreNonThreadLiveObjectsLocked has run
    dead              \* why the checker called abort(), or Null

marking == <<memory, stacks, registers, ignored>>
check   == <<phase, status, marking, nonthread>>
own     == <<checker, names, ignored_names>>
vars    == <<vars_L, draconian, own, check, dead>>

Idle == phase = "idle"

NoMemory == [points |-> [o \in Objects |-> Null], disabled |-> {}, have_stack |-> FALSE]
Forget == memory' = NoMemory /\ stacks' = {} /\ registers' = {} /\ ignored' = {}

Init ==
    /\ Init_L
    /\ draconian \in BOOLEAN
    /\ checker = [t \in Threads |-> "none"]
    /\ names = {} /\ ignored_names = {}
    /\ phase = "idle" /\ status = "NOT_STARTED"
    /\ memory = NoMemory /\ stacks = {} /\ registers = {} /\ ignored = {}
    /\ nonthread = 0 /\ dead = Null

-----------------------------------------------------------------------------
(* HeapLeakCheck: between its own locked sections others come in             *)

Step(t, from, to) ==
    /\ Idle
    /\ t \in Running \ {holder}
    /\ checker[t] = from
    /\ checker' = [checker EXCEPT ![t] = to]

\* Create: a name is allocated, ...
NewName(t) ==
    /\ Step(t, "none", "named")
    /\ names' = names \cup {t}
    /\ UNCHANGED <<vars_L, draconian, ignored_names, check, dead>>

\* ... ignored, ...
IgnoreName(t) ==
    /\ Step(t, "named", "ignored")
    /\ ignored_names' = IF t \in names THEN ignored_names \cup {t} ELSE ignored_names
    /\ dead' = IF t \in ignored_names THEN "already ignored" ELSE dead
    /\ UNCHANGED <<vars_L, draconian, names, check>>

\* ... and DumpProfileLocked is called, as it is once more by DoNoLeaks: up to
\* the lister, which is not asked by the draconian check.
StartCheck(t) ==
    /\ (Step(t, "ignored", "made") \/ Step(t, "made", "reported"))
    /\ phase' = "list"
    /\ IF draconian
       THEN /\ caller' = t /\ lister' = "done" /\ result' = -1
            /\ UNCHANGED <<program, stopped, scan>>
       ELSE ListAllProcessThreads(t)
    /\ status' = "NOT_STARTED" /\ nonthread' = 0
    /\ UNCHANGED <<draconian, names, ignored_names, marking, dead>>

\* The end of DoNoLeaks.
UnIgnoreForgotten(t) ==
    /\ Step(t, "reported", "unignored")
    /\ UNCHANGED <<vars_L, draconian, names, ignored_names, check, dead>>
UnIgnoreName(t) ==
    /\ Step(t, "reported", "unignored")
    /\ dead' = IF t \in names \cap ignored_names THEN dead ELSE "has not been ignored"
    /\ ignored_names' = ignored_names \ {t}
    /\ UNCHANGED <<vars_L, draconian, names, check>>

DeleteName(t) ==
    /\ Step(t, "unignored", "none")
    /\ names' = names \ {t}
    /\ UNCHANGED <<vars_L, draconian, ignored_names, check, dead>>

-----------------------------------------------------------------------------
(* Marking                                                                   *)

\* What memory may hold: each object is pointed to by the stack or the registers
\* of a thread, by global data, by an object or by nothing, and may have been
\* allocated under disabled code.
Memories ==
    {mem \in [points : [Objects -> alive \cup RegistersOf(alive) \cup Objects
                                    \cup {Globals, Null}],
              disabled : SUBSET Disabled, have_stack : BOOLEAN] :
        \A o \in Objects : mem.points[o] \in Referrers[o] \cup {Null}}

Named == {Name(t) : t \in names}

Contents(mem, x) == {o \in Objects : mem.points[o] = x}
OnHeap(x) == x \in Objects \cup Named

\* An object is taken from live_objects and what is new behind its pointers put
\* there.
Follow(mem, s) ==
    LET x   == CHOOSE x \in s.live : TRUE
        new == Contents(mem, x) \ s.ignored
    IN  [live    |-> (s.live \ {x}) \cup new,
         ignored |-> s.ignored \cup new \cup {y \in {x} : OnHeap(y)}]

\* IgnoreLiveObjectsLocked: that is done until live_objects is empty.
IgnoreLiveObjects(mem, live, done) ==
    LET loop[s \in [live : SUBSET (live \cup Objects),
                    ignored : SUBSET (live \cup Objects \cup done)]] ==
          IF s.live = {} THEN s.ignored ELSE loop[Follow(mem, s)]
    IN  loop[[live |-> live, ignored |-> done]]

\* MakeDisabledLiveCallback: not the memory of a stack that is known.
StackInside(o, stack_ranges) == \E t \in stack_ranges : StackIn[t] = o

OwnStack(mem) == IF mem.have_stack THEN {caller} ELSE {}
DisabledBeforeStacks(mem, threads, done) ==
    LET code  == IgnoreLiveObjects(mem, mem.disabled, done)
        self  == IgnoreLiveObjects(mem, OwnStack(mem), code)
        asked == IgnoreLiveObjects(mem, {Name(t) : t \in ignored_names}, self)
    IN  IgnoreLiveObjects(mem, IF draconian THEN {} ELSE {Globals}, asked)
IgnoreNonThreadLiveObjects(mem, threads, done) ==
    LET ranges == threads \cup OwnStack(mem)
        self   == IgnoreLiveObjects(mem, OwnStack(mem), done)
        asked  == IgnoreLiveObjects(mem, {Name(t) : t \in ignored_names}, self)
        code   == IgnoreLiveObjects(mem,
                    {o \in mem.disabled : ~ StackInside(o, ranges)}, asked)
    IN  IgnoreLiveObjects(mem, IF draconian THEN {} ELSE {Globals}, code)

\* The threads' stacks, their registers, and then the rest; an ignored object
\* must be there.
Mark(found, got) ==
    /\ \E mem \in Memories :
         /\ memory' = mem
         /\ ignored' = IgnoreNonThreadLiveObjects(mem, found,
                         IgnoreLiveObjects(mem, RegistersOf(got),
                           IgnoreLiveObjects(mem, found, {})))
    /\ stacks' = found /\ registers' = got
    /\ nonthread' = nonthread + 1
    /\ dead' = IF ignored_names \subseteq names THEN dead ELSE "disappeared"

\* The callback.  What it allocates comes from the caller's cache or needs the
\* lock of the allocator.
IgnoreLiveThreads ==
    /\ lister = "callback" /\ phase = "list"
    /\ status' = "STARTED"
    /\ phase' \in {"allocate", "threads"}
    /\ UNCHANGED <<vars_L, draconian, own, marking, nonthread, dead>>
Allocate ==
    /\ phase = "allocate" /\ holder = Null
    /\ phase' = "threads"
    /\ UNCHANGED <<vars_L, draconian, own, status, marking, nonthread, dead>>

\* All but the one that it takes for the caller: it may not get the registers,
\* and then not find the extent of the stack.
Others == pids \ {Main}
MarkThreads ==
    /\ phase = "threads"
    /\ \E got \in SUBSET Others : \E found \in SUBSET got : Mark(found, got)
    /\ phase' = "marked"
    /\ UNCHANGED <<vars_L, draconian, own, status>>
Completed ==
    /\ phase = "marked" /\ lister = "callback"
    /\ ResumeAllProcessThreads
    /\ lister' = "resume" /\ result' = Cardinality(Others \ stacks)
    /\ status' = "COMPLETED" /\ phase' = "list"
    /\ Forget
    /\ UNCHANGED <<program, caller, scan, draconian, own, nonthread, dead>>

-----------------------------------------------------------------------------
(* IgnoreAllLiveObjectsLocked, after the lister                              *)

NeedAfterFailure == result < 0
NeedNonThread == result < 0 /\ status # "COMPLETED"

Listed ==
    /\ lister = "done" /\ phase = "list" /\ caller \in alive
    /\ lister' = "none"
    /\ \/ ~ NeedNonThread
            /\ phase' = "dump" /\ UNCHANGED <<marking, nonthread, dead>>
       \/ /\ NeedNonThread /\ status = "STARTED"
          /\ dead' = "interrupted" /\ UNCHANGED <<phase, marking, nonthread>>
       \/ NeedNonThread /\ status # "STARTED" /\ Mark({}, {}) /\ phase' = "marked"
    /\ UNCHANGED <<program, stopped, caller, scan, result, draconian, own, status>>

Marked ==
    /\ phase = "marked" /\ lister = "none"
    /\ phase' = "dump"
    /\ Forget
    /\ UNCHANGED <<vars_L, draconian, own, status, nonthread, dead>>

\* The profile is written without what is ignored, and both locks are dropped.
Dump ==
    /\ phase = "dump"
    /\ phase' = "idle" /\ caller' = Null /\ result' = 0
    /\ status' = "NOT_STARTED" /\ nonthread' = 0
    /\ UNCHANGED <<program, stopped, lister, scan, draconian, own, marking, dead>>

-----------------------------------------------------------------------------

\* The lister up to the callback, and its end, in the middle of that too.
Listing(steps) ==
    /\ steps
    /\ phase' = "list" /\ Forget
    /\ UNCHANGED <<draconian, own, status, nonthread, dead>>

Check == Listing(Scan \/ Leave(result))
         \/ IgnoreLiveThreads \/ Allocate \/ MarkThreads \/ Completed \/ Listed \/ Marked \/ Dump

Next ==
    /\ dead = Null
    /\ \/ (Program \/ \E t \in Threads : checker[t] = "none" /\ Exit(t))
            /\ UNCHANGED <<draconian, own, check, dead>>
       \/ \E t \in Checkers : NewName(t) \/ IgnoreName(t) \/ StartCheck(t)
                              \/ UnIgnoreName(t) \/ DeleteName(t)
       \/ Listing(Failure \/ SignalHandler)
       \/ Check

Spec == Init /\ [][Next]_vars

\* The lister and the thread that waits for it are scheduled, and who has the
\* allocator's lock is, unless it is stopped.
FairSpec == Spec /\ WF_vars(dead = Null /\ Check)
                 /\ WF_vars(dead = Null /\ DropLock /\ UNCHANGED <<draconian, own, check, dead>>)

-----------------------------------------------------------------------------
(* Properties                                                                *)

\* What can be reached, by definition: what is in every set that has the objects
\* to start from and is closed under following pointers.
Roots ==
    LET known == stacks \cup OwnStack(memory)
    IN  known \cup RegistersOf(registers) \cup (IF draconian THEN {} ELSE {Globals})
        \cup {o \in memory.disabled : \A t \in known : StackIn[t] # o}
Closed(S) == \A o \in Objects : o \in Roots \/ memory.points[o] \in Roots \cup S => o \in S
Reachable == {o \in Objects : \A S \in SUBSET Objects : Closed(S) => o \in S}

\* Once all is marked, the objects that the profile will leave out are those
\* that can be reached and no other, in whichever process the marking was done;
\* and the names of the checkers that wait for their end.
IgnoredRight ==
    phase = "marked" => ignored = Reachable \cup {Name(t) : t \in ignored_names}

\* However the lister ended, what is not a thread's is marked exactly once: a
\* second time would follow library_live_objects, which the first has deleted.
MarkedOnce == phase = "dump" => nonthread = 1

\* Checkers of several threads come and go: none finds an object that it has
\* ignored gone, ignored already or not ignored, and aborts.
NamesThere == dead \in {Null, "interrupted"}

\* A check ends, and every thread runs again, unless the callback was interrupted,
\* or waits for the lock of the allocator, which a thread has that is kept stopped
\* or one that was missed takes again and again, or the program was killed.  A
\* program that makes threads for ever may keep a pass from its end, or have one
\* more after each.
Waits == phase = "allocate" /\ (holder \in stopped \/ missed)
Over  == dead # Null \/ alive = {}
CheckEnds ==
    \/ []<><<alive \subseteq alive' /\ alive' # alive>>_vars
    \/ phase # "idle" ~> (phase = "idle" /\ stopped = {}) \/ Over \/ Waits

===============================================================================
