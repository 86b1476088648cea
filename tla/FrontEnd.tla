------------------------------ MODULE FrontEnd ------------------------------
(***************************************************************************)
(* What the application calls: malloc, calloc, realloc, memalign, free,    *)
(* operator new and delete of tcmalloc.cpp (lines 1596-1720 and 1747-1960),*)
(* with the hooks they invoke and the new-handler loop.                    *)
(*                                                                         *)
(* The allocator behind do_malloc is abstract here: it gives any unused    *)
(* place, or NULL.  Calls of different threads interleave between their    *)
(* steps: the allocation, the hooks, the copy, the release.                *)
(***************************************************************************)
EXTENDS Integers, Sequences, FiniteSets, SequencesExt, FiniteSetsExt

CONSTANTS Threads,
          Places,        \* addresses blocks can have
          Sizes,         \* requested sizes
          MaxSize,       \* kMaxSize
          ClassSize,     \* ByteSizeForClass(SizeClass(n)), n <= MaxSize
          PageSize,      \* kPageSize
          Sampling,      \* FLAGS_tcmalloc_sample_parameter > 0
          Handlers,      \* new-handlers the application installs
          Null           \* NULL; also no thread, no handler, no block

ASSUME SizesAssumption ==
    /\ Sizes \subseteq Nat /\ MaxSize \in Nat /\ PageSize \in Nat \ {0}
    /\ \A n \in 0 .. MaxSize : ClassSize[n] \in Nat /\ ClassSize[n] >= Max({n, 1})

ASSUME NullAssumption == Null \notin Threads \cup Places \cup Handlers

VARIABLES
    room,          \* size of the block at each place, 0 when there is none
    memory,        \* what is in it: whose bytes, and how many from its start
    sampled,       \* the blocks on the list sampled_objects
    held,          \* history: what the application holds and expects in it
    recorded,      \* history: places NewHook was told of, and DeleteHook not
    confused,      \* history: a hook was told what contradicts what it knows
    handler,       \* the C++ library's new-handler
    installed,     \* history: the handler the application set last
    raced,         \* history: it set it while cpp_alloc had taken it out
    handler_lock,  \* holder of set_new_handler_lock
    pc,
    call           \* the arguments and locals of the call each thread is in

blocks  == <<room, memory, sampled>>
hooks   == <<recorded, confused>>
newh    == <<handler, installed, raced, handler_lock>>
vars    == <<blocks, held, hooks, newh, pc, call>>

-----------------------------------------------------------------------------

MinOf(a, b) == Min({a, b})

\* pages(n) << kPageShift
Pages(n) == ((n + PageSize - 1) \div PageSize) * PageSize

AllocationSize(n) == IF n <= MaxSize THEN ClassSize[n] ELSE Pages(n)

Nothing == [tag |-> Null, bytes |-> 0]
NoCall  == [op |-> "none", size |-> 0, old |-> Null, saved |-> Null, ptr |-> Null,
            nh |-> Null]

GoTo(t, label) == pc' = [pc EXCEPT ![t] = label]
Unused == {p \in Places : room[p] = 0}

\* NewHook and DeleteHook as the heap profiler has them: a map of the blocks,
\* which ignores NULL.
InvokeNewHook(p) ==
    /\ recorded' = recorded \cup ({p} \ {Null})
    /\ confused' = (confused \/ p \in recorded)
InvokeDeleteHook(p) ==
    /\ recorded' = recorded \ {p}
    /\ confused' = (confused \/ p \notin recorded)

-----------------------------------------------------------------------------

Init ==
    /\ room = [p \in Places |-> 0]
    /\ memory = [p \in Places |-> Nothing]
    /\ sampled = {}
    /\ held = [p \in {} |-> Null]
    /\ recorded = {}
    /\ confused = FALSE
    /\ handler = Null
    /\ installed = Null
    /\ raced = FALSE
    /\ handler_lock = Null
    /\ pc = [t \in Threads |-> "run"]
    /\ call = [t \in Threads |-> NoCall]

-----------------------------------------------------------------------------
(* do_malloc, do_memalign, do_free                                           *)

\* A new block at place p, or, when sampled, pages, on the list sampled_objects
\* if there is memory for the trace.
NewBlock(p, size) ==
    /\ p \in Unused
    /\ room' = [room EXCEPT ![p] = size]
    /\ UNCHANGED sampled

DoSampledAllocation(p, n) ==
    /\ p \in Unused
    /\ room' = [room EXCEPT ![p] = Pages(Max({n, 1}))]
    /\ sampled' \in {sampled, sampled \cup {p}}

\* do_malloc(n) returns p.
do_malloc(n, p) ==
    \/ p = Null /\ UNCHANGED <<room, sampled>>
    \/ Sampling /\ DoSampledAllocation(p, n)
    \/ NewBlock(p, AllocationSize(n))

\* do_memalign(align, n) returns p: a block of an aligned class, or pages.
do_memalign(n, p) ==
    \/ p = Null /\ UNCHANGED <<room, sampled>>
    \/ \E size \in {AllocationSize(Max({n, 1})), Pages(Max({n, 1}))} : NewBlock(p, size)

\* do_free(p): a sampled block leaves the list; what was in the block is gone.
DropTrace(p) == sampled' = sampled \ {p}
do_free(p) ==
    /\ room' = [room EXCEPT ![p] = 0]
    /\ memory' = [memory EXCEPT ![p] = Nothing]
    /\ DropTrace(p)

-----------------------------------------------------------------------------
(* Allocation                                                                *)

\* The call returns p to the application, which fills what it asked for; a
\* block from calloc it leaves as it is.
Return(t, p, n, op) ==
    IF p = Null THEN UNCHANGED <<held, memory>>
    ELSE LET own == [tag |-> IF op = "calloc" THEN "zero" ELSE t, bytes |-> n]
         IN  /\ held' = [q \in DOMAIN held \cup {p} |->
                            IF q = p THEN [own |-> own, size |-> n] ELSE held[q]]
             /\ memory' = IF op = "calloc" THEN memory ELSE [memory EXCEPT ![p] = own]

\* malloc, calloc whose product does not overflow (otherwise it returns NULL at
\* once), realloc of NULL, memalign and its kin: up to the hook.
Clear(p, n) ==
    memory' = IF p = Null THEN memory ELSE [memory EXCEPT ![p] = [tag |-> "zero", bytes |-> n]]

Malloc(t) ==
    /\ pc[t] = "run"
    /\ \E n \in Sizes, p \in Places \cup {Null}, op \in {"malloc", "calloc", "memalign"} :
         /\ IF op = "memalign" THEN do_memalign(n, p) ELSE do_malloc(n, p)
         /\ IF op = "calloc" THEN Clear(p, n) ELSE UNCHANGED memory
         /\ call' = [call EXCEPT ![t] =
                        [NoCall EXCEPT !.op = IF op = "calloc" THEN op ELSE "malloc",
                                       !.size = n, !.ptr = p]]
    /\ GoTo(t, "hook")
    /\ UNCHANGED <<held, hooks, newh>>

\* cpp_alloc: an attempt of operator new (new) or of its nothrow form (nothrow).
cpp_alloc(t) ==
    /\ pc[t] \in {"run", "new"}
    /\ \E n \in Sizes, p \in Places \cup {Null}, op \in {"new", "nothrow"} :
         /\ pc[t] = "new" => op = call[t].op /\ n = call[t].size
         /\ do_malloc(n, p)
         /\ call' = [call EXCEPT ![t] = [NoCall EXCEPT !.op = op, !.size = n, !.ptr = p]]
         /\ GoTo(t, IF p = Null THEN "nomem" ELSE "hook")
    /\ UNCHANGED <<memory, held, hooks, newh>>

\* No memory: under set_new_handler_lock the handler is read by setting it to
\* 0 ...
LockIgnored(t) == TRUE
LockFree(t) == handler_lock = Null
TakeHandler(t) ==
    /\ pc[t] = "nomem"
    /\ LockFree(t)
    /\ handler_lock' = t
    /\ call' = [call EXCEPT ![t].nh = handler]
    /\ handler' = Null
    /\ GoTo(t, "window")
    /\ UNCHANGED <<blocks, held, hooks, installed, raced>>

\* ... and set again.  Without a handler the call fails, with no hook.
RestoreHandler(t) ==
    /\ pc[t] = "window"
    /\ handler_lock' = Null
    /\ handler' = call[t].nh
    /\ GoTo(t, IF call[t].nh = Null THEN "run" ELSE "handler")
    /\ call' = IF call[t].nh = Null THEN [call EXCEPT ![t] = NoCall] ELSE call
    /\ UNCHANGED <<blocks, held, hooks, installed, raced>>

\* The handler returns, and the allocation is tried again; or it throws.
Handle(t) ==
    /\ pc[t] = "handler"
    /\ \/ GoTo(t, "new") /\ UNCHANGED call
       \/ call[t].op = "nothrow" /\ GoTo(t, "hook") /\ UNCHANGED call
       \/ call[t].op # "nothrow" /\ GoTo(t, "run") /\ call' = [call EXCEPT ![t] = NoCall]
    /\ UNCHANGED <<blocks, held, hooks, newh>>

\* The application sets the handler, also from inside one; the library's
\* set_new_handler takes no lock of tcmalloc's.
SetNewHandler(t) ==
    /\ pc[t] \in {"run", "handler"}
    /\ \E h \in Handlers \cup {Null} : handler' = h /\ installed' = h
    /\ raced' = \E u \in Threads : pc[u] = "window"
    /\ UNCHANGED <<blocks, held, hooks, handler_lock, pc, call>>

-----------------------------------------------------------------------------
(* Release and reallocation                                                  *)

\* What is done to a block that goes: the hook is told, then it is freed.
OrderSwapped == <<"free", "delete">>
Order == <<"delete", "free">>
After(label) == IF label = Order[1] THEN Order[2] ELSE "run"

\* The block is the application's no more once it calls.
GiveUp(p) == held' = [q \in DOMAIN held \ {p} |-> held[q]]

\* free, cfree, operator delete, and realloc to size 0.
Free(t) ==
    /\ pc[t] = "run"
    /\ \E p \in DOMAIN held :
         /\ GiveUp(p)
         /\ call' = [call EXCEPT ![t] = [NoCall EXCEPT !.op = "free", !.old = p]]
    /\ GoTo(t, Order[1])
    /\ UNCHANGED <<blocks, hooks, newh>>

\* realloc keeps the block when the new size rounds to the size it has.
Fits(p, n) == n <= room[p] /\ AllocationSize(n) >= room[p]

ReallocInPlace(t) ==
    /\ pc[t] = "run"
    /\ \E p \in DOMAIN held, n \in Sizes \ {0} :
         /\ Fits(p, n)
         /\ held' = [held EXCEPT ![p].size = n, ![p].own.bytes = MinOf(@, n)]
    /\ UNCHANGED <<blocks, hooks, newh, pc, call>>

\* Otherwise it allocates; when that fails nothing has happened to the block.
Realloc(t) ==
    /\ pc[t] = "run"
    /\ \E p \in DOMAIN held, n \in Sizes \ {0}, new \in Places :
         /\ ~ Fits(p, n)
         /\ do_malloc(n, new)
         /\ GiveUp(p)
         /\ call' = [call EXCEPT ![t] = [NoCall EXCEPT !.op = "realloc", !.size = n, !.old = p,
                                                       !.saved = held[p], !.ptr = new]]
    /\ GoTo(t, "hook")
    /\ UNCHANGED <<memory, hooks, newh>>

\* NewHook is told of the new block, or of NULL.  An allocation returns;
\* realloc copies next.
NewHook(t) ==
    LET c == call[t]
    IN  /\ pc[t] = "hook"
        /\ InvokeNewHook(c.ptr)
        /\ \/ /\ c.op = "realloc"
              /\ GoTo(t, "copy")
              /\ UNCHANGED <<held, memory, call>>
           \/ /\ c.op # "realloc"
              /\ Return(t, c.ptr, c.size, c.op)
              /\ GoTo(t, "run")
              /\ call' = [call EXCEPT ![t] = NoCall]
        /\ UNCHANGED <<room, sampled, newh>>

\* realloc's memcpy: of the old block's whole room, or of the new size.
CopyTooMuch(p, n) == room[p]
CopyCount(p, n) == MinOf(room[p], n)
Copy(t) ==
    LET c == call[t]
    IN  /\ pc[t] = "copy"
        /\ memory' = [memory EXCEPT ![c.ptr] =
                         [tag |-> memory[c.old].tag,
                          bytes |-> MinOf(memory[c.old].bytes, CopyCount(c.old, c.size))]]
        /\ GoTo(t, Order[1])
        /\ UNCHANGED <<room, sampled, held, hooks, newh, call>>

\* The end of a call that frees: realloc returns the new block.
Finish(t) ==
    LET c == call[t]
    IN  /\ call' = [call EXCEPT ![t] = NoCall]
        /\ held' = IF c.op # "realloc" THEN held
                   ELSE [q \in DOMAIN held \cup {c.ptr} |->
                           IF q # c.ptr THEN held[q]
                           ELSE [own |-> [c.saved.own EXCEPT !.bytes = MinOf(@, c.size)],
                                 size |-> c.size]]

DeleteHook(t) ==
    /\ pc[t] = "delete"
    /\ InvokeDeleteHook(call[t].old)
    /\ GoTo(t, After("delete"))
    /\ IF After("delete") = "run" THEN Finish(t) ELSE UNCHANGED <<held, call>>
    /\ UNCHANGED <<blocks, newh>>

Release(t) ==
    /\ pc[t] = "free"
    /\ do_free(call[t].old)
    /\ GoTo(t, After("free"))
    /\ IF After("free") = "run" THEN Finish(t) ELSE UNCHANGED <<held, call>>
    /\ UNCHANGED <<hooks, newh>>

-----------------------------------------------------------------------------

Next ==
    \E t \in Threads :
        \/ Malloc(t) \/ cpp_alloc(t) \/ NewHook(t)
        \/ TakeHandler(t) \/ RestoreHandler(t) \/ Handle(t) \/ SetNewHandler(t)
        \/ Free(t) \/ ReallocInPlace(t) \/ Realloc(t) \/ Copy(t) \/ DeleteHook(t) \/ Release(t)

Spec == Init /\ [][Next]_vars

-----------------------------------------------------------------------------
(* Properties                                                                *)

\* What is known of blocks elsewhere is true although no lock joins it to the
\* block: a block the hooks know is there, one the application holds is known,
\* they are never told of a new block where they know one, nor of the release of
\* one they do not know, however soon another thread gets the address; and the
\* blocks on sampled_objects, whose traces a dump reads, are there.
BooksFollowBlocks ==
    /\ ~ confused
    /\ \A p \in recorded \cup sampled : room[p] > 0
    /\ DOMAIN held \subseteq recorded

\* A block has the room its holder asked for and holds what its holder, or the
\* holder of the block it was reallocated from, left there, as far as both sizes
\* reach; a block from calloc holds zeros; and nothing was written past its end.
ContentKept ==
    \A p \in DOMAIN held :
        /\ memory[p].tag = held[p].own.tag
        /\ memory[p].bytes \in held[p].own.bytes .. room[p]
        /\ held[p].size <= room[p]

\* cpp_alloc reads the new-handler by taking it out; no other cpp_alloc takes
\* that for the handler, or puts an old one back: outside the window the handler
\* is the one the application set last, and inside it is the one read, unless the
\* application set one in that very window.
HandlerKept ==
    \/ raced
    \/ IF \E u \in Threads : pc[u] = "window"
       THEN \A u \in Threads : pc[u] = "window" => call[u].nh = installed
       ELSE handler = installed

=============================================================================
