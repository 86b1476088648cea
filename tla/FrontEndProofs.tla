---------------------------- MODULE FrontEndProofs ----------------------------
(***************************************************************************)
(* Proofs about FrontEnd, for any threads, addresses, sizes and handlers:  *)
(* the hooks and the list of sampled blocks are right about the blocks,    *)
(* blocks keep their contents, and the new-handler is not lost.            *)
(*                                                                         *)
(* The invariant says for each label of a call which blocks the thread     *)
(* that makes it owns, that it alone owns them, what the hooks have been   *)
(* told of them, and what is in them.                                      *)
(***************************************************************************)
EXTENDS FrontEnd, TLAPS

-----------------------------------------------------------------------------
(* Sizes.                                                                    *)

LEMMA MaxMin ==
    ASSUME NEW a \in Int, NEW b \in Int
    PROVE  /\ Max({a, b}) = IF a >= b THEN a ELSE b
           /\ MinOf(a, b) = IF a <= b THEN a ELSE b
<1>1. \E y \in {a, b} : \A z \in {a, b} : y >= z  OBVIOUS
<1>2. Max({a, b}) \in {a, b} /\ \A z \in {a, b} : Max({a, b}) >= z
    BY <1>1 DEF Max
<1>3. \E y \in {a, b} : \A z \in {a, b} : y <= z  OBVIOUS
<1>4. Min({a, b}) \in {a, b} /\ \A z \in {a, b} : Min({a, b}) <= z
    BY <1>3 DEF Min
<1>5. Min({a, b}) = IF a <= b THEN a ELSE b  BY <1>4
<1>6. Max({a, b}) = IF a >= b THEN a ELSE b  BY <1>2
<1> QED  BY <1>5, <1>6 DEF MinOf

LEMMA LesserIsNat ==
    ASSUME NEW a \in Nat, NEW b \in Nat
    PROVE  /\ MinOf(a, b) = IF a <= b THEN a ELSE b
           /\ MinOf(a, b) \in Nat /\ MinOf(a, b) <= a /\ MinOf(a, b) <= b
<1>1. a \in Int /\ b \in Int  OBVIOUS
<1>2. MinOf(a, b) = IF a <= b THEN a ELSE b  BY <1>1, MaxMin
<1> QED  BY <1>2

LEMMA AtLeastOne ==
    ASSUME NEW n \in Nat
    PROVE  Max({n, 1}) \in Nat /\ Max({n, 1}) >= n /\ Max({n, 1}) > 0
<1>1. Max({n, 1}) = IF n >= 1 THEN n ELSE 1  BY MaxMin
<1> QED  BY <1>1

\* Pages have room for what they are asked for.
LEMMA PagesHold ==
    ASSUME NEW n \in Nat
    PROVE  Pages(n) \in Nat /\ Pages(n) >= n
<1> DEFINE q == (n + PageSize - 1) \div PageSize
           r == (n + PageSize - 1) % PageSize
<1>1. PageSize \in Nat \ {0} /\ n + PageSize - 1 \in Nat  BY SizesAssumption
<1>2. q \in Nat /\ r \in 0 .. PageSize - 1 /\ n + PageSize - 1 = PageSize * q + r
    BY <1>1
<1>3. q * PageSize = PageSize * q /\ PageSize * q \in Nat  BY <1>1, <1>2
<1> HIDE DEF q, r
<1>4. q * PageSize >= n  BY <1>1, <1>2, <1>3
<1> QED  BY <1>3, <1>4 DEF Pages, q

LEMMA AllocationHolds ==
    ASSUME NEW n \in Nat
    PROVE  AllocationSize(n) \in Nat /\ AllocationSize(n) >= n /\ AllocationSize(n) > 0
<1> USE SizesAssumption
<1>1. CASE n <= MaxSize
    <2>1. n \in 0 .. MaxSize  BY <1>1
    <2>2. ClassSize[n] \in Nat /\ ClassSize[n] >= Max({n, 1})  BY <2>1
    <2> DEFINE m == Max({n, 1})
    <2>3. m \in Nat /\ m >= n /\ m > 0  BY AtLeastOne
    <2> QED  BY <1>1, <2>2, <2>3 DEF AllocationSize
<1>2. CASE ~ n <= MaxSize
    <2>1. n > 0  BY <1>2
    <2> QED  BY <1>2, <2>1, PagesHold DEF AllocationSize
<1> QED  BY <1>1, <1>2

\* What do_malloc and do_memalign do: nothing, or p, which was unused, has room.
Given(n, p) ==
    \/ p = Null /\ room' = room /\ sampled' = sampled
    \/ /\ p \in Places /\ room[p] = 0
       /\ \E s \in Nat : s >= n /\ s > 0 /\ room' = [room EXCEPT ![p] = s]
       /\ sampled' \in {sampled, sampled \cup {p}}

LEMMA Gives ==
    ASSUME NEW n \in Nat, NEW p, do_malloc(n, p) \/ do_memalign(n, p)
    PROVE  Given(n, p)
<1> DEFINE m == Max({n, 1})
<1>1. m \in Nat /\ m >= n /\ m > 0  BY AtLeastOne
<1>2. ASSUME NEW s \in Nat, s >= n, s > 0, NewBlock(p, s) PROVE Given(n, p)
    BY <1>2 DEF NewBlock, Unused, Given
<1>3. CASE p = Null /\ UNCHANGED <<room, sampled>>  BY <1>3 DEF Given
<1>4. CASE DoSampledAllocation(p, n)
    <2>1. Pages(m) \in Nat /\ Pages(m) >= n /\ Pages(m) > 0  BY <1>1, PagesHold
    <2> QED  BY <1>4, <2>1 DEF DoSampledAllocation, Unused, Given
<1>5. CASE NewBlock(p, AllocationSize(n))  BY <1>2, <1>5, AllocationHolds
<1>6. ASSUME NEW size \in {AllocationSize(m), Pages(m)}, NewBlock(p, size)
      PROVE  Given(n, p)
    <2>1. size \in Nat /\ size >= m  BY <1>1, PagesHold, AllocationHolds
    <2> QED  BY <1>1, <1>2, <1>6, <2>1
<1> QED  BY <1>3, <1>4, <1>5, <1>6 DEF do_malloc, do_memalign

-----------------------------------------------------------------------------
(* The invariant.                                                            *)

Contents == [tag : Threads \cup {"zero", Null}, bytes : Nat]
Promise  == [own : Contents, size : Nat]
Allocs   == {"malloc", "calloc", "new", "nothrow"}
Calls    == [op : Allocs \cup {"none", "realloc", "free"}, size : Nat,
             old : Places \cup {Null}, saved : Promise \cup {Null},
             ptr : Places \cup {Null}, nh : Handlers \cup {Null}]

Types ==
    /\ room \in [Places -> Nat]
    /\ memory \in [Places -> Contents]
    /\ held \in [DOMAIN held -> Promise] /\ DOMAIN held \subseteq Places
    /\ recorded \subseteq Places /\ sampled \subseteq Places
    /\ pc \in [Threads -> {"run", "hook", "copy", "delete", "free",
                            "new", "nomem", "window", "handler"}]
    /\ call \in [Threads -> Calls]
    /\ handler \in Handlers \cup {Null}

\* The blocks of the call t is in.
Owns(t) == {call[t].ptr, call[t].old} \ {Null}

\* Which call it is, at each label.
AtLabel(t) ==
    LET c == call[t]
    IN  /\ pc[t] = "run" => c = NoCall
        /\ pc[t] \in {"new", "nomem", "window", "handler"} =>
              c.op \in {"new", "nothrow"} /\ c.ptr = Null /\ c.old = Null
        /\ pc[t] = "hook" => (c.op \in Allocs /\ c.old = Null) \/ c.op = "realloc"
        /\ pc[t] = "copy" => c.op = "realloc"
        /\ pc[t] \in {"delete", "free"} => c.op \in {"free", "realloc"}
        /\ c.op = "free" => c.old # Null /\ c.ptr = Null
        /\ c.op = "realloc" => /\ c.old # Null /\ c.ptr # Null /\ c.old # c.ptr
                               /\ c.saved \in Promise

\* What the hooks know of the blocks.
Told(t) ==
    LET c == call[t]
    IN  /\ pc[t] = "hook" => /\ c.ptr # Null => c.ptr \notin recorded
                             /\ c.old # Null => c.old \in recorded
        /\ pc[t] \in {"copy", "delete"} => c.old \in recorded
        /\ pc[t] \in {"copy", "delete", "free"} /\ c.ptr # Null => c.ptr \in recorded
        /\ pc[t] = "free" => c.old \notin recorded

\* A block at p holds what is promised of it.
Keeps(p, own, size) ==
    /\ memory[p].tag = own.tag
    /\ own.bytes <= memory[p].bytes /\ memory[p].bytes <= room[p] /\ size <= room[p]

\* What is in them.
Filled(t) ==
    LET c == call[t]
    IN  /\ pc[t] = "hook" /\ c.ptr # Null => c.size <= room[c.ptr]
        /\ pc[t] = "hook" /\ c.ptr # Null /\ c.op = "calloc" =>
              memory[c.ptr] = [tag |-> "zero", bytes |-> c.size]
        /\ pc[t] \in {"hook", "copy"} /\ c.op = "realloc" =>
              /\ Keeps(c.old, c.saved.own, c.saved.size)
              /\ c.size <= room[c.ptr]
        /\ pc[t] \in {"delete", "free"} /\ c.op = "realloc" =>
              Keeps(c.ptr, [c.saved.own EXCEPT !.bytes = MinOf(@, c.size)], c.size)

Mine(t) ==
    /\ \A p \in Owns(t) : room[p] > 0 /\ p \notin DOMAIN held
    /\ AtLabel(t) /\ Told(t) /\ Filled(t)

Apart == \A t, u \in Threads : t # u => Owns(t) \cap Owns(u) = {}

Kept == \A p \in DOMAIN held : Keeps(p, held[p].own, held[p].size)

IInv == Types /\ Apart /\ Kept /\ BooksFollowBlocks /\ \A t \in Threads : Mine(t)

LEMMA InitIInv == Init => IInv
<1> SUFFICES ASSUME Init PROVE IInv  OBVIOUS
<1> USE NullAssumption DEF Init
<1>1. DOMAIN held = {}  OBVIOUS
<1>2. NoCall \in Calls /\ Nothing \in Contents  BY DEF NoCall, Calls, Nothing, Contents, Allocs
<1>3. Types  BY <1>1, <1>2 DEF Types
<1>4. ASSUME NEW t \in Threads PROVE Mine(t) /\ Owns(t) = {}
    <2>1. pc[t] = "run" /\ call[t] = NoCall  OBVIOUS
    <2>2. Owns(t) = {}  BY <2>1 DEF Owns, NoCall
    <2> QED  BY <2>1, <2>2 DEF Mine, AtLabel, Told, Filled, NoCall
<1> QED  BY <1>1, <1>3, <1>4 DEF IInv, Apart, Kept, BooksFollowBlocks

-----------------------------------------------------------------------------
(* What a step of t leaves alone.                                            *)

\* A call of another thread, whose blocks t's step does not touch.
LEMMA OthersMine ==
    ASSUME IInv, NEW t \in Threads, NEW u \in Threads, u # t,
           pc'[u] = pc[u], call'[u] = call[u],
           \A p \in Owns(u) : /\ room'[p] = room[p] /\ memory'[p] = memory[p]
                              /\ p \in recorded' <=> p \in recorded
                              /\ p \notin DOMAIN held'
    PROVE  Mine(u)' /\ Owns(u)' = Owns(u)
<1> DEFINE c == call[u]
<1>1. c \in Calls /\ Mine(u)  BY DEF IInv, Types
<1>2. Owns(u)' = Owns(u)  BY DEF Owns
<1>3. \A p \in Owns(u) : room'[p] > 0 /\ p \notin DOMAIN held'
    BY <1>1 DEF Mine
<1>4. AtLabel(u)'  BY <1>1 DEF Mine, AtLabel
<1>5. Told(u)'
    <2>1. c.ptr # Null => c.ptr \in Owns(u)  BY DEF Owns
    <2>2. c.old # Null => c.old \in Owns(u)  BY DEF Owns
    <2> QED  BY <1>1, <2>1, <2>2, NullAssumption DEF Mine, AtLabel, Told
<1>6. Filled(u)'
    <2>1. c.ptr # Null => c.ptr \in Owns(u)  BY DEF Owns
    <2>2. c.old # Null => c.old \in Owns(u)  BY DEF Owns
    <2> QED  BY <1>1, <2>1, <2>2 DEF Mine, AtLabel, Filled, Keeps
<1> QED  BY <1>2, <1>3, <1>4, <1>5, <1>6 DEF Mine

\* A step that touches no block.
LEMMA NoBlocks ==
    ASSUME IInv, NEW t \in Threads, UNCHANGED <<blocks, held, hooks>>,
           \A u \in Threads \ {t} : pc'[u] = pc[u] /\ call'[u] = call[u],
           Types', Mine(t)', Owns(t)' \subseteq Owns(t)
    PROVE  IInv'
<1>1. UNCHANGED <<room, memory, sampled, held, recorded, confused>>  BY DEF blocks, hooks
<1>2. ASSUME NEW u \in Threads, u # t PROVE Mine(u)' /\ Owns(u)' = Owns(u)
    <2>1. \A p \in Owns(u) : p \notin DOMAIN held'  BY <1>1 DEF IInv, Mine
    <2>2. pc'[u] = pc[u] /\ call'[u] = call[u]  BY <1>2
    <2> QED  BY <1>1, <1>2, <2>1, <2>2, OthersMine
<1>3. Apart'
    <2> SUFFICES ASSUME NEW a \in Threads, NEW b \in Threads, a # b
                 PROVE  Owns(a)' \cap Owns(b)' = {}
        BY DEF Apart
    <2>1. Owns(a)' \subseteq Owns(a) /\ Owns(b)' \subseteq Owns(b)  BY <1>2
    <2> QED  BY <2>1 DEF IInv, Apart
<1>4. Kept' /\ BooksFollowBlocks'  BY <1>1 DEF IInv, Kept, Keeps, BooksFollowBlocks
<1> QED  BY <1>2, <1>3, <1>4 DEF IInv

\* A step that gives t the block p, which was unused.
LEMMA NewBlockIInv ==
    ASSUME IInv, NEW t \in Threads, NEW n \in Nat, NEW p, Given(n, p), p \in Places,
           Types', UNCHANGED <<recorded, confused>>,
           \A u \in Threads \ {t} : pc'[u] = pc[u] /\ call'[u] = call[u],
           \A q \in Places \ {p} : memory'[q] = memory[q],
           NEW old, Owns(t) = {}, Owns(t)' = {p, old} \ {Null},
           old = Null \/ old \in DOMAIN held,
           DOMAIN held' = DOMAIN held \ {old},
           \A q \in DOMAIN held' : held'[q] = held[q],
           AtLabel(t)', Told(t)', Filled(t)'
    PROVE  IInv'
<1>1. /\ room[p] = 0 /\ room'[p] > 0 /\ room'[p] >= n /\ sampled' \subseteq sampled \cup {p}
      /\ \A q \in Places \ {p} : room'[q] = room[q]
    BY NullAssumption DEF Given, IInv, Types
<1>2. p \notin recorded /\ p \notin DOMAIN held  BY <1>1 DEF IInv, BooksFollowBlocks
<1>3. ASSUME NEW u \in Threads PROVE p \notin Owns(u) /\ Owns(u) \subseteq Places
    <2>1. call[u] \in Calls  BY DEF IInv, Types
    <2>2. Owns(u) \subseteq Places  BY <2>1 DEF Owns, Calls
    <2> QED  BY <1>1, <2>2 DEF IInv, Mine
<1>4. ASSUME NEW u \in Threads, u # t
      PROVE  Mine(u)' /\ Owns(u)' = Owns(u) /\ Owns(u) \cap {p, old} = {}
    <2>1. \A q \in Owns(u) : q \notin DOMAIN held /\ q \in Places \ {p}
        BY <1>3 DEF IInv, Mine
    <2>2. \A q \in Owns(u) : /\ room'[q] = room[q] /\ memory'[q] = memory[q]
                             /\ q \in recorded' <=> q \in recorded
                             /\ q \notin DOMAIN held'
        BY <1>1, <2>1
    <2>3. pc'[u] = pc[u] /\ call'[u] = call[u]  BY <1>4
    <2>4. Mine(u)' /\ Owns(u)' = Owns(u)  BY <1>4, <2>2, <2>3, OthersMine
    <2>5. old \notin Owns(u)  BY <2>1 DEF Owns
    <2> QED  BY <1>3, <2>4, <2>5
<1>5. Mine(t)'
    <2>1. old # Null => room'[old] > 0 /\ old \notin DOMAIN held'
        <3> SUFFICES ASSUME old # Null PROVE room'[old] > 0 /\ old \notin DOMAIN held'
            OBVIOUS
        <3>1. old \in DOMAIN held /\ old \in Places \ {p} /\ room[old] > 0
            BY <1>2 DEF IInv, Types, BooksFollowBlocks
        <3> QED  BY <1>1, <3>1
    <2> QED  BY <1>1, <1>2, <2>1 DEF Mine
<1>6. Apart'
    <2> SUFFICES ASSUME NEW a \in Threads, NEW b \in Threads, a # b
                 PROVE  Owns(a)' \cap Owns(b)' = {}
        BY DEF Apart
    <2>1. CASE a # t /\ b # t  BY <1>4, <2>1 DEF IInv, Apart
    <2>2. CASE a = t  BY <1>4, <2>2
    <2>3. CASE b = t  BY <1>4, <2>3
    <2> QED  BY <2>1, <2>2, <2>3
<1>7. Kept'
    <2> SUFFICES ASSUME NEW q \in DOMAIN held'
                 PROVE  Keeps(q, held[q].own, held[q].size)'
        BY DEF Kept
    <2>1. q \in DOMAIN held /\ q \in Places \ {p} /\ held'[q] = held[q]
        BY <1>2 DEF IInv, Types
    <2> QED  BY <1>1, <2>1 DEF IInv, Kept, Keeps
<1>8. BooksFollowBlocks'
    <2>1. ASSUME NEW q \in recorded' \cup sampled' PROVE room'[q] > 0
        BY <1>1, <2>1 DEF IInv, Types, BooksFollowBlocks
    <2> QED  BY <2>1 DEF IInv, BooksFollowBlocks
<1> QED  BY <1>4, <1>5, <1>6, <1>7, <1>8 DEF IInv

-----------------------------------------------------------------------------
(* The steps.                                                                *)

\* What t has at label run.
LEMMA AtRun ==
    ASSUME IInv, NEW t \in Threads, pc[t] = "run"
    PROVE  call[t] = NoCall /\ Owns(t) = {}
<1>1. call[t] = NoCall  BY DEF IInv, Mine, AtLabel
<1> QED  BY <1>1 DEF Owns, NoCall

LEMMA NoCallMine ==
    ASSUME NEW t \in Threads, pc'[t] = "run", call'[t] = NoCall
    PROVE  Mine(t)' /\ Owns(t)' = {}
<1>1. Owns(t)' = {}  BY DEF Owns, NoCall
<1> QED  BY <1>1 DEF Mine, AtLabel, Told, Filled, NoCall

\* Allocation that gives no block.
LEMMA NoMemoryMine ==
    ASSUME NEW t \in Threads, call'[t].op \in Allocs, call'[t].ptr = Null, call'[t].old = Null,
           pc'[t] = "hook" \/ (pc'[t] = "nomem" /\ call'[t].op \in {"new", "nothrow"})
    PROVE  Mine(t)' /\ Owns(t)' = {}
<1>1. Owns(t)' = {}  BY DEF Owns
<1> QED  BY <1>1 DEF Mine, AtLabel, Told, Filled, Allocs

LEMMA MallocIInv ==
    ASSUME IInv, NEW t \in Threads, Malloc(t) PROVE IInv'
<1>1. PICK n \in Sizes, p \in Places \cup {Null}, op \in {"malloc", "calloc", "memalign"} :
        /\ IF op = "memalign" THEN do_memalign(n, p) ELSE do_malloc(n, p)
        /\ IF op = "calloc" THEN Clear(p, n) ELSE UNCHANGED memory
        /\ call' = [call EXCEPT ![t] =
                       [NoCall EXCEPT !.op = IF op = "calloc" THEN op ELSE "malloc",
                                      !.size = n, !.ptr = p]]
    BY DEF Malloc
<1> DEFINE what == IF op = "calloc" THEN op ELSE "malloc"
<1>2. pc[t] = "run" /\ pc' = [pc EXCEPT ![t] = "hook"] /\ UNCHANGED <<held, hooks, newh>>
    BY DEF Malloc, GoTo
<1>3. n \in Nat /\ Given(n, p)  BY <1>1, SizesAssumption, Gives
<1>4. call[t] = NoCall /\ Owns(t) = {}  BY <1>2, AtRun
<1>5. what \in Allocs  BY DEF Allocs
<1>6. call'[t] = [op |-> what, size |-> n, old |-> Null, saved |-> Null, ptr |-> p, nh |-> Null]
    BY <1>1 DEF NoCall, IInv, Types
<1> HIDE DEF what
<1>7. call'[t] \in Calls  BY <1>3, <1>5, <1>6 DEF Calls
<1>8. memory' \in [Places -> Contents] /\ \A q \in Places \ {p} : memory'[q] = memory[q]
    <2>1. [tag |-> "zero", bytes |-> n] \in Contents  BY <1>3 DEF Contents
    <2> QED  BY <1>1, <2>1 DEF Clear, IInv, Types
<1>9. Types'
    <2>1. room' \in [Places -> Nat] /\ sampled' \subseteq Places
        BY <1>3 DEF Given, IInv, Types
    <2>2. call' \in [Threads -> Calls]  BY <1>1, <1>7 DEF IInv, Types
    <2>3. UNCHANGED <<held, recorded, handler>>  BY <1>2 DEF hooks, newh
    <2> QED  BY <1>2, <1>8, <2>1, <2>2, <2>3 DEF IInv, Types
<1>10. \A u \in Threads \ {t} : pc'[u] = pc[u] /\ call'[u] = call[u]
    BY <1>1, <1>2 DEF IInv, Types
<1>11. pc'[t] = "hook"  BY <1>2 DEF IInv, Types
<1>12. CASE p = Null
    <2>1. UNCHANGED <<room, memory, sampled>>
        BY <1>1, <1>3, <1>12, NullAssumption DEF Clear, Given
    <2>2. Mine(t)' /\ Owns(t)' = {}
        BY <1>5, <1>6, <1>11, <1>12, NoMemoryMine
    <2> QED  BY <1>2, <1>9, <1>10, <2>1, <2>2, NoBlocks DEF blocks
<1>13. CASE p \in Places
    <2>1. p \notin recorded /\ room'[p] >= n
        BY <1>3, <1>13, NullAssumption DEF Given, IInv, Types, BooksFollowBlocks
    <2>2. Owns(t)' = {p, Null} \ {Null}  BY <1>6 DEF Owns
    <2>3. AtLabel(t)'  BY <1>5, <1>6, <1>11 DEF AtLabel, Allocs
    <2>4. UNCHANGED <<recorded, confused, held>>  BY <1>2 DEF hooks
    <2>5. Told(t)'  BY <1>6, <1>11, <2>1, <2>4 DEF Told
    <2>6. what = "calloc" => memory'[p] = [tag |-> "zero", bytes |-> n]
        BY <1>1, <1>13, NullAssumption DEF what, Clear, IInv, Types
    <2>7. Filled(t)'  BY <1>5, <1>6, <1>11, <2>1, <2>6 DEF Filled, Allocs
    <2>8. Null \notin DOMAIN held  BY NullAssumption DEF IInv, Types
    <2> QED  BY <1>3, <1>4, <1>8, <1>9, <1>10, <1>13, <2>2, <2>3, <2>4, <2>5, <2>7, <2>8,
                NewBlockIInv
<1> QED  BY <1>12, <1>13

LEMMA CppAllocIInv ==
    ASSUME IInv, NEW t \in Threads, cpp_alloc(t) PROVE IInv'
<1>1. PICK n \in Sizes, p \in Places \cup {Null}, op \in {"new", "nothrow"} :
        /\ do_malloc(n, p)
        /\ call' = [call EXCEPT ![t] = [NoCall EXCEPT !.op = op, !.size = n, !.ptr = p]]
        /\ pc' = [pc EXCEPT ![t] = IF p = Null THEN "nomem" ELSE "hook"]
    BY DEF cpp_alloc, GoTo
<1>2. pc[t] \in {"run", "new"} /\ UNCHANGED <<memory, held, recorded, confused, handler>>
    BY DEF cpp_alloc, hooks, newh
<1>3. n \in Nat /\ Given(n, p)  BY <1>1, SizesAssumption, Gives
<1>4. Owns(t) = {}
    <2>1. call[t].ptr = Null /\ call[t].old = Null
        BY <1>2 DEF IInv, Mine, AtLabel, NoCall
    <2> QED  BY <2>1 DEF Owns
<1>5. op \in Allocs  BY DEF Allocs
<1>6. call'[t] = [op |-> op, size |-> n, old |-> Null, saved |-> Null, ptr |-> p, nh |-> Null]
    BY <1>1 DEF NoCall, IInv, Types
<1>7. call'[t] \in Calls  BY <1>3, <1>5, <1>6 DEF Calls
<1>8. pc'[t] = IF p = Null THEN "nomem" ELSE "hook"  BY <1>1 DEF IInv, Types
<1>9. Types'
    <2>1. room' \in [Places -> Nat] /\ sampled' \subseteq Places
        BY <1>3 DEF Given, IInv, Types
    <2>2. call' \in [Threads -> Calls]  BY <1>1, <1>7 DEF IInv, Types
    <2> QED  BY <1>1, <1>2, <2>1, <2>2 DEF IInv, Types
<1>10. \A u \in Threads \ {t} : pc'[u] = pc[u] /\ call'[u] = call[u]
    BY <1>1 DEF IInv, Types
<1>11. CASE p = Null
    <2>1. UNCHANGED <<room, sampled>>  BY <1>3, <1>11, NullAssumption DEF Given
    <2>2. Mine(t)' /\ Owns(t)' = {}
        BY <1>5, <1>6, <1>8, <1>11, NoMemoryMine
    <2> QED  BY <1>2, <1>9, <1>10, <2>1, <2>2, NoBlocks DEF blocks, hooks
<1>12. CASE p \in Places
    <2>1. p \notin recorded /\ room'[p] >= n /\ pc'[t] = "hook"
        BY <1>3, <1>8, <1>12, NullAssumption DEF Given, IInv, Types, BooksFollowBlocks
    <2>2. Owns(t)' = {p, Null} \ {Null}  BY <1>6 DEF Owns
    <2>3. AtLabel(t)'  BY <1>5, <1>6, <2>1 DEF AtLabel, Allocs
    <2>4. Told(t)'  BY <1>2, <1>6, <2>1 DEF Told
    <2>5. Filled(t)'  BY <1>6, <2>1 DEF Filled
    <2>6. Null \notin DOMAIN held  BY NullAssumption DEF IInv, Types
    <2> QED  BY <1>2, <1>3, <1>4, <1>9, <1>10, <1>12, <2>2, <2>3, <2>4, <2>5, <2>6,
                NewBlockIInv
<1> QED  BY <1>11, <1>12

\* The steps of the new-handler loop touch no block.
LEMMA HandlerIInv ==
    ASSUME IInv, NEW t \in Threads,
           TakeHandler(t) \/ RestoreHandler(t) \/ Handle(t) \/ SetNewHandler(t)
    PROVE  IInv'
<1>1. UNCHANGED <<blocks, held, hooks>>
    BY DEF TakeHandler, RestoreHandler, Handle, SetNewHandler
<1>2. call[t] \in Calls /\ AtLabel(t)  BY DEF IInv, Types, Mine
<1>3. NoCall \in Calls  BY DEF NoCall, Calls
<1>4. Types'
    <2>1. call' \in [Threads -> Calls]
        <3>1. [call[t] EXCEPT !.nh = handler] \in Calls  BY <1>2 DEF IInv, Types, Calls
        <3>2. \/ call' = call
              \/ call' = [call EXCEPT ![t] = NoCall]
              \/ call' = [call EXCEPT ![t].nh = handler]
            BY DEF TakeHandler, RestoreHandler, Handle, SetNewHandler
        <3> QED  BY <1>3, <3>1, <3>2 DEF IInv, Types
    <2>3. handler' \in Handlers \cup {Null}
        <3>1. call[t].nh \in Handlers \cup {Null}  BY <1>2 DEF Calls
        <3> QED  BY <3>1 DEF TakeHandler, RestoreHandler, Handle, SetNewHandler, newh, IInv, Types
    <2>2. pc' \in [Threads -> {"run", "hook", "copy", "delete", "free",
                              "new", "nomem", "window", "handler"}]
        BY DEF TakeHandler, RestoreHandler, Handle, SetNewHandler, GoTo, IInv, Types
    <2> QED  BY <1>1, <2>1, <2>2, <2>3 DEF blocks, hooks, IInv, Types
<1>5. \A u \in Threads \ {t} : pc'[u] = pc[u] /\ call'[u] = call[u]
    BY DEF TakeHandler, RestoreHandler, Handle, SetNewHandler, GoTo, IInv, Types
<1>6. CASE pc'[t] = "run" /\ call'[t] = NoCall
    BY <1>1, <1>4, <1>5, <1>6, NoBlocks, NoCallMine
<1>7. CASE /\ pc'[t] \in {"new", "window", "handler", "hook"}
           /\ call[t].op \in {"new", "nothrow"} /\ call[t].ptr = Null /\ call[t].old = Null
           /\ call'[t] \in {call[t], [call[t] EXCEPT !.nh = handler]}
    <2>1. /\ call'[t].op = call[t].op /\ call'[t].ptr = Null /\ call'[t].old = Null
        BY <1>2, <1>7 DEF Calls
    <2>2. Owns(t)' = {}  BY <2>1 DEF Owns
    <2>3. Mine(t)'  BY <1>7, <2>1, <2>2 DEF Mine, AtLabel, Told, Filled, Allocs
    <2> QED  BY <1>1, <1>4, <1>5, <2>2, <2>3, NoBlocks
<1>8. CASE TakeHandler(t)
    <2>1. pc[t] = "nomem" /\ pc'[t] = "window" /\ call'[t] = [call[t] EXCEPT !.nh = handler]
        BY <1>8 DEF TakeHandler, GoTo, IInv, Types
    <2> QED  BY <1>2, <1>7, <2>1 DEF AtLabel
<1>9. CASE RestoreHandler(t)
    <2>1. /\ pc[t] = "window"
          /\ \/ pc'[t] = "run" /\ call'[t] = NoCall
             \/ pc'[t] = "handler" /\ call'[t] = call[t]
        BY <1>9 DEF RestoreHandler, GoTo, IInv, Types
    <2> QED  BY <1>2, <1>6, <1>7, <2>1 DEF AtLabel
<1>10. CASE Handle(t)
    <2>1. /\ pc[t] = "handler"
          /\ \/ pc'[t] \in {"new", "hook"} /\ call'[t] = call[t]
             \/ pc'[t] = "run" /\ call'[t] = NoCall
        BY <1>10 DEF Handle, GoTo, IInv, Types
    <2> QED  BY <1>2, <1>6, <1>7, <2>1 DEF AtLabel
<1>11. CASE SetNewHandler(t)
    <2>1. pc[t] \in {"run", "handler"} /\ pc' = pc /\ call' = call
        BY <1>11 DEF SetNewHandler
    <2> QED  BY <1>2, <1>6, <1>7, <2>1 DEF AtLabel
<1> QED  BY <1>8, <1>9, <1>10, <1>11

\* free takes a block from the application, ...
LEMMA FreeIInv ==
    ASSUME IInv, NEW t \in Threads, Free(t) PROVE IInv'
<1>1. PICK p \in DOMAIN held :
        /\ held' = [q \in DOMAIN held \ {p} |-> held[q]]
        /\ call' = [call EXCEPT ![t] = [NoCall EXCEPT !.op = "free", !.old = p]]
    BY DEF Free, GiveUp
<1>2. pc[t] = "run" /\ pc' = [pc EXCEPT ![t] = "delete"]
      /\ UNCHANGED <<room, memory, sampled, recorded, confused, handler>>
    BY DEF Free, GoTo, Order, blocks, hooks, newh
<1>3. p \in Places /\ p # Null /\ room[p] > 0 /\ p \in recorded
    BY NullAssumption DEF IInv, Types, BooksFollowBlocks
<1>4. call[t] = NoCall /\ Owns(t) = {}  BY <1>2, AtRun
<1>5. call'[t] = [op |-> "free", size |-> 0, old |-> p, saved |-> Null, ptr |-> Null, nh |-> Null]
    BY <1>1 DEF NoCall, IInv, Types
<1>6. pc'[t] = "delete" /\ \A u \in Threads \ {t} : pc'[u] = pc[u] /\ call'[u] = call[u]
    BY <1>1, <1>2 DEF IInv, Types
<1>7. DOMAIN held' = DOMAIN held \ {p} /\ \A q \in DOMAIN held' : held'[q] = held[q]
    BY <1>1
<1>8. Types'
    <2>1. call'[t] \in Calls  BY <1>3, <1>5 DEF Calls
    <2>2. call' \in [Threads -> Calls]  BY <1>1, <2>1 DEF IInv, Types
    <2>3. held' \in [DOMAIN held' -> Promise]  BY <1>1 DEF IInv, Types
    <2> QED  BY <1>2, <1>7, <2>2, <2>3 DEF IInv, Types
<1>9. Owns(t)' = {p}  BY <1>3, <1>5 DEF Owns
<1>10. Mine(t)'
    BY <1>2, <1>3, <1>5, <1>6, <1>7, <1>9 DEF Mine, AtLabel, Told, Filled
<1>11. ASSUME NEW u \in Threads, u # t
       PROVE  Mine(u)' /\ Owns(u)' = Owns(u) /\ p \notin Owns(u)
    <2>1. \A q \in Owns(u) : q \notin DOMAIN held  BY DEF IInv, Mine
    <2>2. \A q \in Owns(u) : q \notin DOMAIN held'  BY <1>7, <2>1
    <2> QED  BY <1>2, <1>6, <1>11, <2>1, <2>2, OthersMine
<1>12. Apart'
    <2> SUFFICES ASSUME NEW a \in Threads, NEW b \in Threads, a # b
                 PROVE  Owns(a)' \cap Owns(b)' = {}
        BY DEF Apart
    <2>1. CASE a # t /\ b # t  BY <1>11, <2>1 DEF IInv, Apart
    <2>2. CASE a = t  BY <1>9, <1>11, <2>2
    <2>3. CASE b = t  BY <1>9, <1>11, <2>3
    <2> QED  BY <2>1, <2>2, <2>3
<1>13. Kept' /\ BooksFollowBlocks'
    BY <1>2, <1>7 DEF IInv, Kept, Keeps, BooksFollowBlocks
<1> QED  BY <1>8, <1>10, <1>11, <1>12, <1>13 DEF IInv

\* ... realloc in place changes what it expects of one, ...
LEMMA ReallocInPlaceIInv ==
    ASSUME IInv, NEW t \in Threads, ReallocInPlace(t) PROVE IInv'
<1>1. PICK p \in DOMAIN held, n \in Sizes \ {0} :
        /\ n <= room[p]
        /\ held' = [held EXCEPT ![p].size = n, ![p].own.bytes = MinOf(@, n)]
    BY DEF ReallocInPlace, Fits
<1>2. UNCHANGED <<room, memory, sampled, recorded, confused, handler, pc, call>>
    BY DEF ReallocInPlace, blocks, hooks, newh
<1>3. /\ held[p] \in Promise /\ n \in Nat /\ p \in Places
    BY SizesAssumption DEF IInv, Types
<1> DEFINE own == [held[p].own EXCEPT !.bytes = MinOf(@, n)]
<1>4. own \in Contents /\ own.tag = held[p].own.tag /\ own.bytes <= held[p].own.bytes
    <2>1. held[p].own.bytes \in Nat  BY <1>3 DEF Promise, Contents
    <2>2. MinOf(held[p].own.bytes, n) \in Nat
          /\ MinOf(held[p].own.bytes, n) <= held[p].own.bytes
        BY <1>3, <2>1, LesserIsNat
    <2> QED  BY <1>3, <2>2 DEF Promise, Contents
<1>5. /\ DOMAIN held' = DOMAIN held
      /\ held'[p] = [held[p] EXCEPT !.size = n, !.own = own]
      /\ \A q \in DOMAIN held \ {p} : held'[q] = held[q]
      /\ held' = [held EXCEPT ![p] = held'[p]]
    BY <1>1, <1>3 DEF IInv, Types, Promise
<1> HIDE DEF own
<1>6. held'[p] \in Promise /\ held'[p].own = own /\ held'[p].size = n
    BY <1>3, <1>4, <1>5 DEF Promise
<1>7. Types'  BY <1>2, <1>5, <1>6 DEF IInv, Types
<1>8. ASSUME NEW u \in Threads PROVE Mine(u)' /\ Owns(u)' = Owns(u)
    BY <1>2, <1>5 DEF IInv, Mine, Owns, AtLabel, Told, Filled, Keeps
<1>9. Apart'  BY <1>8 DEF IInv, Apart
<1>10. Kept'
    <2>1. \A q \in DOMAIN held \ {p} : Keeps(q, held[q].own, held[q].size)'
        BY <1>2, <1>5 DEF IInv, Kept, Keeps
    <2>2. Keeps(p, held[p].own, held[p].size)'
        <3>1. Keeps(p, held[p].own, held[p].size)  BY DEF IInv, Kept
        <3>2. memory[p].bytes \in Nat /\ own.bytes \in Nat /\ held[p].own.bytes \in Nat
            BY <1>3, <1>4 DEF IInv, Types, Contents, Promise
        <3> QED  BY <1>1, <1>2, <1>4, <1>6, <3>1, <3>2 DEF Keeps
    <2> QED  BY <1>5, <2>1, <2>2 DEF Kept
<1>11. BooksFollowBlocks'  BY <1>2, <1>5 DEF IInv, BooksFollowBlocks
<1> QED  BY <1>7, <1>8, <1>9, <1>10, <1>11 DEF IInv

\* ... and otherwise takes one and gives t another.
LEMMA ReallocIInv ==
    ASSUME IInv, NEW t \in Threads, Realloc(t) PROVE IInv'
<1>1. PICK p \in DOMAIN held, n \in Sizes \ {0}, new \in Places :
        /\ do_malloc(n, new)
        /\ held' = [q \in DOMAIN held \ {p} |-> held[q]]
        /\ call' = [call EXCEPT ![t] = [NoCall EXCEPT !.op = "realloc", !.size = n, !.old = p,
                                                      !.saved = held[p], !.ptr = new]]
    BY DEF Realloc, GiveUp
<1>2. pc[t] = "run" /\ pc' = [pc EXCEPT ![t] = "hook"]
      /\ UNCHANGED <<memory, recorded, confused, handler>>
    BY DEF Realloc, GoTo, hooks, newh
<1>3. n \in Nat /\ Given(n, new)  BY <1>1, SizesAssumption, Gives
<1>4. Owns(t) = {}  BY <1>2, AtRun
<1>5. held[p] \in Promise /\ p \in Places /\ p \in recorded /\ room[p] > 0
    BY DEF IInv, Types, BooksFollowBlocks
<1>6. call'[t] = [op |-> "realloc", size |-> n, old |-> p, saved |-> held[p], ptr |-> new,
                  nh |-> Null]
    BY <1>1 DEF NoCall, IInv, Types
<1>7. pc'[t] = "hook" /\ \A u \in Threads \ {t} : pc'[u] = pc[u] /\ call'[u] = call[u]
    BY <1>1, <1>2 DEF IInv, Types
<1>8. DOMAIN held' = DOMAIN held \ {p} /\ \A q \in DOMAIN held' : held'[q] = held[q]
    BY <1>1
<1>9. /\ room[new] = 0 /\ room'[new] >= n /\ new # p /\ new \notin recorded
      /\ room'[p] = room[p]
    BY <1>3, <1>5, NullAssumption DEF Given, IInv, Types, BooksFollowBlocks
<1>10. Types'
    <2>1. call'[t] \in Calls  BY <1>3, <1>5, <1>6 DEF Calls
    <2>2. call' \in [Threads -> Calls]  BY <1>1, <2>1 DEF IInv, Types
    <2>3. held' \in [DOMAIN held' -> Promise]  BY <1>1 DEF IInv, Types
    <2>4. room' \in [Places -> Nat] /\ sampled' \subseteq Places
        BY <1>3 DEF Given, IInv, Types
    <2> QED  BY <1>2, <1>8, <2>2, <2>3, <2>4 DEF IInv, Types
<1>11. Owns(t)' = {new, p} \ {Null}  BY <1>6 DEF Owns
<1>12. AtLabel(t)'  BY <1>5, <1>6, <1>7, <1>9, NullAssumption DEF AtLabel
<1>13. Told(t)'  BY <1>2, <1>5, <1>6, <1>7, <1>9 DEF Told
<1>14. Filled(t)'
    <2>1. Keeps(p, held[p].own, held[p].size)  BY DEF IInv, Kept
    <2> QED  BY <1>2, <1>6, <1>7, <1>9, <2>1 DEF Filled, Keeps
<1> QED  BY <1>2, <1>3, <1>4, <1>7, <1>8, <1>10, <1>11, <1>12, <1>13, <1>14, NewBlockIInv

\* A step of t within its call: what it changes are its own blocks, of which the
\* application may get some.
LEMMA OwnStep ==
    ASSUME IInv, NEW t \in Threads, Types', Mine(t)', Owns(t)' \subseteq Owns(t),
           \A u \in Threads \ {t} : pc'[u] = pc[u] /\ call'[u] = call[u],
           \A q \in Places \ Owns(t) : /\ room'[q] = room[q] /\ memory'[q] = memory[q]
                                       /\ q \in recorded' <=> q \in recorded,
           \A q \in DOMAIN held : q \in DOMAIN held' /\ held'[q] = held[q],
           \A q \in DOMAIN held' \ DOMAIN held :
                q \in Owns(t) /\ q \in recorded' /\ Keeps(q, held[q].own, held[q].size)',
           sampled' \subseteq sampled, ~ confused',
           \A q \in Owns(t) : q \in recorded' \cup sampled' => room'[q] > 0
    PROVE  IInv'
<1>1. ASSUME NEW u \in Threads, u # t PROVE Mine(u)' /\ Owns(u)' = Owns(u)
    <2>1. call[u] \in Calls  BY DEF IInv, Types
    <2>2. Owns(u) \subseteq Places  BY <2>1 DEF Owns, Calls
    <2>3. Owns(u) \cap Owns(t) = {}  BY <1>1 DEF IInv, Apart
    <2>4. \A q \in Owns(u) : q \notin DOMAIN held  BY DEF IInv, Mine
    <2>5. \A q \in Owns(u) : /\ room'[q] = room[q] /\ memory'[q] = memory[q]
                             /\ q \in recorded' <=> q \in recorded
                             /\ q \notin DOMAIN held'
        BY <2>2, <2>3, <2>4
    <2>6. pc'[u] = pc[u] /\ call'[u] = call[u]  BY <1>1
    <2> QED  BY <1>1, <2>5, <2>6, OthersMine
<1>2. Apart'
    <2> SUFFICES ASSUME NEW a \in Threads, NEW b \in Threads, a # b
                 PROVE  Owns(a)' \cap Owns(b)' = {}
        BY DEF Apart
    <2>1. Owns(a)' \subseteq Owns(a) /\ Owns(b)' \subseteq Owns(b)  BY <1>1
    <2> QED  BY <2>1 DEF IInv, Apart
<1>3. \A q \in DOMAIN held : q \in Places \ Owns(t)  BY DEF IInv, Types, Mine
<1>4. Kept'
    <2> SUFFICES ASSUME NEW q \in DOMAIN held', q \in DOMAIN held
                 PROVE  Keeps(q, held[q].own, held[q].size)'
        BY DEF Kept
    <2> QED  BY <1>3 DEF IInv, Kept, Keeps
<1>5. BooksFollowBlocks'
    <2>1. ASSUME NEW q \in recorded' \cup sampled' PROVE room'[q] > 0
        <3>1. q \in Places  BY <2>1 DEF Types
        <3>2. CASE q \notin Owns(t)  BY <2>1, <3>1, <3>2 DEF IInv, BooksFollowBlocks
        <3> QED  BY <2>1, <3>2
    <2>2. DOMAIN held' \subseteq recorded'
        BY <1>3 DEF IInv, BooksFollowBlocks
    <2> QED  BY <2>1, <2>2 DEF BooksFollowBlocks
<1> QED  BY <1>1, <1>2, <1>4, <1>5 DEF IInv

\* What t has from the invariant.
LEMMA OwnFacts ==
    ASSUME IInv, NEW t \in Threads
    PROVE  /\ call[t] \in Calls /\ Owns(t) \subseteq Places
           /\ AtLabel(t) /\ Told(t) /\ Filled(t)
           /\ call[t].ptr # Null => call[t].ptr \in Owns(t)
           /\ call[t].old # Null => call[t].old \in Owns(t)
           /\ \A q \in Owns(t) : room[q] > 0 /\ q \notin DOMAIN held
<1>1. call[t] \in Calls  BY DEF IInv, Types
<1> QED  BY <1>1 DEF IInv, Mine, Owns, Calls

LEMMA NewHookIInv ==
    ASSUME IInv, NEW t \in Threads, NewHook(t) PROVE IInv'
<1> DEFINE c == call[t]
<1> USE NullAssumption
<1>1. /\ pc[t] = "hook" /\ InvokeNewHook(c.ptr) /\ UNCHANGED <<room, sampled, handler>>
    BY DEF NewHook, newh
<1>2. /\ c \in Calls /\ Owns(t) \subseteq Places
      /\ (c.op \in Allocs /\ c.old = Null) \/ c.op = "realloc"
      /\ c.ptr # Null => c.ptr \notin recorded /\ c.ptr \in Owns(t)
      /\ c.op = "realloc" => c.old \in recorded /\ c.ptr # Null /\ c.old # Null
    BY <1>1, OwnFacts DEF AtLabel, Told
<1>3. /\ recorded' = recorded \cup ({c.ptr} \ {Null}) /\ ~ confused'
    <2>1. Null \notin recorded /\ ~ confused  BY DEF IInv, Types, BooksFollowBlocks
    <2> QED  BY <1>1, <1>2, <2>1 DEF InvokeNewHook
<1>4. recorded' \subseteq Places /\ \A q \in Places \ Owns(t) : q \in recorded' <=> q \in recorded
    BY <1>2, <1>3 DEF Calls, IInv, Types
<1>5. CASE c.op = "realloc"
    <2>1. pc' = [pc EXCEPT ![t] = "copy"] /\ UNCHANGED <<held, memory, call>>
        BY <1>2, <1>5 DEF NewHook, GoTo
    <2>2. Types'  BY <1>1, <1>4, <2>1 DEF IInv, Types
    <2>3. pc'[t] = "copy" /\ \A u \in Threads \ {t} : pc'[u] = pc[u]
        BY <2>1 DEF IInv, Types
    <2>4. Owns(t)' = Owns(t)  BY <2>1 DEF Owns
    <2>5. AtLabel(t)' /\ Told(t)' /\ Filled(t)'
        BY <1>1, <1>2, <1>3, <1>5, <2>1, <2>3, OwnFacts DEF AtLabel, Told, Filled, Keeps
    <2>6. Mine(t)'  BY <1>1, <2>1, <2>4, <2>5, OwnFacts DEF Mine
    <2> QED  BY <1>1, <1>3, <1>4, <2>1, <2>2, <2>3, <2>4, <2>6, OwnFacts, OwnStep
<1>6. CASE c.op # "realloc"
    <2>1. /\ Return(t, c.ptr, c.size, c.op)
          /\ pc' = [pc EXCEPT ![t] = "run"] /\ call' = [call EXCEPT ![t] = NoCall]
        BY <1>2, <1>6 DEF NewHook, GoTo
    <2>2. /\ pc'[t] = "run" /\ call'[t] = NoCall
          /\ \A u \in Threads \ {t} : pc'[u] = pc[u] /\ call'[u] = call[u]
        BY <2>1 DEF IInv, Types
    <2>3. Mine(t)' /\ Owns(t)' = {}  BY <2>2, NoCallMine
    <2>4. NoCall \in Calls  BY DEF NoCall, Calls
    <2>5. CASE c.ptr = Null
        <3>1. UNCHANGED <<held, memory>>  BY <2>1, <2>5 DEF Return
        <3>2. Types'  BY <1>1, <1>4, <2>1, <2>4, <3>1 DEF IInv, Types
        <3> QED  BY <1>1, <1>2, <1>3, <1>4, <2>2, <2>3, <2>5, <3>1, <3>2, OwnFacts, OwnStep
    <2>6. CASE c.ptr # Null
        <3> PICK p : p = c.ptr  OBVIOUS
        <3> DEFINE own == [tag |-> IF c.op = "calloc" THEN "zero" ELSE t, bytes |-> c.size]
        <3>1. p \in Places /\ p \in Owns(t) /\ c.size \in Nat /\ c.size <= room[p]
              /\ p \notin DOMAIN held /\ p \in recorded'
            BY <1>1, <1>2, <1>3, <2>6, OwnFacts DEF Calls, Filled
        <3>2. own \in Contents  BY <3>1 DEF Contents
        <3>3. /\ held' = [q \in DOMAIN held \cup {p} |->
                            IF q = p THEN [own |-> own, size |-> c.size] ELSE held[q]]
              /\ memory' = IF c.op = "calloc" THEN memory ELSE [memory EXCEPT ![p] = own]
            BY <2>1, <2>6 DEF Return
        <3>4. memory'[p] = own /\ memory' \in [Places -> Contents]
            <4>1. CASE c.op = "calloc"
                <5>1. memory[p] = [tag |-> "zero", bytes |-> c.size]
                    BY <1>1, <2>6, <4>1, OwnFacts DEF Filled
                <5> QED  BY <3>3, <4>1, <5>1 DEF IInv, Types
            <4>2. CASE c.op # "calloc"  BY <3>1, <3>2, <3>3, <4>2 DEF IInv, Types
            <4> QED  BY <4>1, <4>2
        <3>5. own.bytes = c.size  OBVIOUS
        <3> HIDE DEF own
        <3>6. /\ DOMAIN held' = DOMAIN held \cup {p}
              /\ held'[p].own = own /\ held'[p].size = c.size
              /\ \A q \in DOMAIN held : held'[q] = held[q]
            BY <3>1, <3>3
        <3>7. held' \in [DOMAIN held' -> Promise]
            <4>1. [own |-> own, size |-> c.size] \in Promise  BY <3>1, <3>2 DEF Promise
            <4> QED  BY <3>3, <4>1 DEF IInv, Types
        <3>8. Types'
            BY <1>1, <1>4, <2>1, <2>4, <3>1, <3>4, <3>6, <3>7 DEF IInv, Types
        <3>9. Keeps(p, held[p].own, held[p].size)'
            BY <1>1, <3>1, <3>4, <3>5, <3>6 DEF Keeps
        <3>10. \A q \in Places \ Owns(t) : memory'[q] = memory[q]
            BY <3>1, <3>3 DEF IInv, Types
        <3> QED  BY <1>1, <1>3, <1>4, <2>2, <2>3, <3>1, <3>6, <3>8, <3>9, <3>10, OwnFacts,
                    OwnStep
    <2> QED  BY <2>5, <2>6
<1> QED  BY <1>5, <1>6

LEMMA CopyIInv ==
    ASSUME IInv, NEW t \in Threads, Copy(t) PROVE IInv'
<1> DEFINE c == call[t]
           bytes == MinOf(memory[c.old].bytes, CopyCount(c.old, c.size))
<1>1. /\ pc[t] = "copy" /\ pc' = [pc EXCEPT ![t] = "delete"]
      /\ memory' = [memory EXCEPT ![c.ptr] = [tag |-> memory[c.old].tag, bytes |-> bytes]]
      /\ UNCHANGED <<room, sampled, held, recorded, confused, handler, call>>
    BY DEF Copy, GoTo, Order, hooks, newh
<1>2. /\ c \in Calls /\ Owns(t) \subseteq Places
      /\ c.op = "realloc" /\ c.old # Null /\ c.ptr # Null /\ c.old # c.ptr /\ c.saved \in Promise
      /\ c.old \in Owns(t) /\ c.ptr \in Owns(t)
    BY <1>1, OwnFacts DEF AtLabel
<1>3. Keeps(c.old, c.saved.own, c.saved.size) /\ c.size <= room[c.ptr]
    BY <1>1, <1>2, OwnFacts DEF Filled
<1>4. /\ memory[c.old] \in Contents /\ room[c.old] \in Nat /\ room[c.ptr] \in Nat
      /\ c.size \in Nat /\ c.saved.own.bytes \in Nat
    BY <1>2 DEF Calls, Promise, Contents, IInv, Types
<1>5. /\ bytes \in Nat /\ bytes <= room[c.ptr]
      /\ MinOf(c.saved.own.bytes, c.size) <= bytes
    <2> DEFINE m == memory[c.old].bytes
    <2>1. m \in Nat /\ c.saved.own.bytes <= m /\ m <= room[c.old]
        BY <1>3, <1>4 DEF Contents, Keeps
    <2>2. CopyCount(c.old, c.size) = IF room[c.old] <= c.size THEN room[c.old] ELSE c.size
        BY <1>4, LesserIsNat DEF CopyCount
    <2> DEFINE k == CopyCount(c.old, c.size)
    <2> HIDE DEF m, k
    <2>3. k \in Nat /\ k <= c.size /\ (k = room[c.old] \/ k = c.size)  BY <1>4, <2>2 DEF k
    <2>4. MinOf(m, k) = IF m <= k THEN m ELSE k  BY <2>1, <2>3, LesserIsNat
    <2> DEFINE b == c.saved.own.bytes
    <2>5. b \in Nat  BY <1>4
    <2>6. MinOf(b, c.size) = IF b <= c.size THEN b ELSE c.size
        BY <1>4, <2>5, LesserIsNat
    <2> QED  BY <1>3, <1>4, <2>1, <2>3, <2>4, <2>5, <2>6 DEF m, k
<1> HIDE DEF bytes
<1>6. /\ memory'[c.ptr] = [tag |-> memory[c.old].tag, bytes |-> bytes]
      /\ memory' \in [Places -> Contents]
      /\ \A q \in Places \ Owns(t) : memory'[q] = memory[q]
    <2>1. [tag |-> memory[c.old].tag, bytes |-> bytes] \in Contents
        BY <1>4, <1>5 DEF Contents
    <2> QED  BY <1>1, <1>2, <2>1 DEF IInv, Types
<1>7. pc'[t] = "delete" /\ \A u \in Threads \ {t} : pc'[u] = pc[u]
    BY <1>1 DEF IInv, Types
<1>8. Types'  BY <1>1, <1>6 DEF IInv, Types
<1>9. Owns(t)' = Owns(t)  BY <1>1 DEF Owns
<1>10. Filled(t)'
    <2>1. Keeps(c.ptr, [c.saved.own EXCEPT !.bytes = MinOf(@, c.size)], c.size)'
        BY <1>1, <1>2, <1>3, <1>5, <1>6 DEF Keeps, Promise, Contents
    <2> QED  BY <1>1, <1>2, <1>7, <2>1 DEF Filled
<1>11. AtLabel(t)' /\ Told(t)'
    BY <1>1, <1>2, <1>7, OwnFacts DEF AtLabel, Told
<1>12. Mine(t)'  BY <1>1, <1>9, <1>10, <1>11, OwnFacts DEF Mine
<1> QED  BY <1>1, <1>6, <1>7, <1>8, <1>9, <1>12, OwnFacts, OwnStep DEF IInv, BooksFollowBlocks

LEMMA DeleteHookIInv ==
    ASSUME IInv, NEW t \in Threads, DeleteHook(t) PROVE IInv'
<1> DEFINE c == call[t]
<1>1. /\ pc[t] = "delete" /\ pc' = [pc EXCEPT ![t] = "free"] /\ InvokeDeleteHook(c.old)
      /\ UNCHANGED <<room, memory, sampled, held, handler, call>>
    BY DEF DeleteHook, GoTo, After, Order, blocks, newh
<1>2. /\ c \in Calls /\ Owns(t) \subseteq Places /\ c.op \in {"free", "realloc"}
      /\ c.old # Null /\ c.old \in Owns(t) /\ c.old \in recorded /\ c.ptr # c.old
      /\ c.ptr # Null => c.ptr \in recorded
    BY <1>1, OwnFacts DEF AtLabel, Told
<1>3. recorded' = recorded \ {c.old} /\ ~ confused'
    BY <1>1, <1>2 DEF InvokeDeleteHook, IInv, BooksFollowBlocks
<1>4. pc'[t] = "free" /\ \A u \in Threads \ {t} : pc'[u] = pc[u]
    BY <1>1 DEF IInv, Types
<1>5. Types'  BY <1>1, <1>3 DEF IInv, Types
<1>6. Owns(t)' = Owns(t)  BY <1>1 DEF Owns
<1>7. AtLabel(t)' /\ Told(t)'  BY <1>1, <1>2, <1>3, <1>4, OwnFacts DEF AtLabel, Told
<1>8. Filled(t)'  BY <1>1, <1>4, OwnFacts DEF Filled, Keeps
<1>9. Mine(t)'  BY <1>1, <1>6, <1>7, <1>8, OwnFacts DEF Mine
<1>10. \A q \in Places \ Owns(t) : q \in recorded' <=> q \in recorded  BY <1>2, <1>3
<1> QED  BY <1>1, <1>3, <1>4, <1>5, <1>6, <1>9, <1>10, OwnFacts, OwnStep

LEMMA ReleaseIInv ==
    ASSUME IInv, NEW t \in Threads, Release(t) PROVE IInv'
<1> DEFINE c == call[t]
<1>1. /\ pc[t] = "free" /\ pc' = [pc EXCEPT ![t] = "run"]
      /\ room' = [room EXCEPT ![c.old] = 0] /\ memory' = [memory EXCEPT ![c.old] = Nothing]
      /\ sampled' = sampled \ {c.old} /\ call' = [call EXCEPT ![t] = NoCall]
      /\ UNCHANGED <<recorded, confused, handler>> /\ Finish(t)
    BY DEF Release, do_free, DropTrace, Finish, GoTo, After, Order, hooks, newh
<1>2. /\ c \in Calls /\ Owns(t) \subseteq Places /\ c.op \in {"free", "realloc"}
      /\ c.old # Null /\ c.old \in Owns(t) /\ c.old \notin recorded /\ c.ptr # c.old
      /\ c.op = "realloc" => /\ c.ptr # Null /\ c.ptr \in Owns(t) /\ c.ptr \in recorded
                             /\ c.saved \in Promise
    BY <1>1, OwnFacts DEF AtLabel, Told
<1>3. /\ pc'[t] = "run" /\ call'[t] = NoCall
      /\ \A u \in Threads \ {t} : pc'[u] = pc[u] /\ call'[u] = call[u]
    BY <1>1 DEF IInv, Types
<1>4. Mine(t)' /\ Owns(t)' = {}  BY <1>3, NoCallMine
<1>5. \A q \in Places \ {c.old} : room'[q] = room[q] /\ memory'[q] = memory[q]
    BY <1>1 DEF IInv, Types
<1>6. /\ room' \in [Places -> Nat] /\ memory' \in [Places -> Contents]
      /\ call' \in [Threads -> Calls]
    <2>1. Nothing \in Contents /\ NoCall \in Calls
        BY DEF Nothing, Contents, NoCall, Calls
    <2> QED  BY <1>1, <2>1 DEF IInv, Types
<1>7. \A q \in Owns(t) : q \in recorded' \cup sampled' => room'[q] > 0
    BY <1>1, <1>2, <1>5, OwnFacts
<1>8. ~ confused'  BY <1>1 DEF IInv, BooksFollowBlocks
<1>9. CASE c.op # "realloc"
    <2>1. held' = held  BY <1>1, <1>9 DEF Finish
    <2>2. Types'  BY <1>1, <1>6, <2>1 DEF IInv, Types
    <2> QED  BY <1>1, <1>2, <1>3, <1>4, <1>5, <1>7, <1>8, <2>1, <2>2, OwnStep
<1>10. CASE c.op = "realloc"
    <2> DEFINE keep == [c.saved.own EXCEPT !.bytes = MinOf(@, c.size)]
    <2>1. PICK p : p = c.ptr  OBVIOUS
    <2>2. PICK own : own = keep  OBVIOUS
    <2>3. PICK n : n = c.size  OBVIOUS
    <2>4. Keeps(p, own, n)
        BY <1>1, <1>10, <2>1, <2>2, <2>3, OwnFacts DEF Filled
    <2>5. own \in Contents /\ n \in Nat
        <3>1. c.saved.own \in Contents /\ n \in Nat  BY <1>2, <1>10, <2>3 DEF Calls, Promise
        <3>2. MinOf(c.saved.own.bytes, n) \in Nat  BY <3>1, LesserIsNat DEF Contents
        <3> QED  BY <2>2, <2>3, <3>1, <3>2 DEF Contents
    <2>6. p \in Places /\ p \in Owns(t) /\ p \notin DOMAIN held /\ p # c.old /\ p \in recorded'
        BY <1>1, <1>2, <1>10, <2>1, OwnFacts
    <2>7. held' = [q \in DOMAIN held \cup {p} |->
                     IF q # p THEN held[q] ELSE [own |-> own, size |-> n]]
        BY <1>1, <1>10, <2>1, <2>2, <2>3 DEF Finish
    <2> HIDE DEF keep
    <2>8. /\ DOMAIN held' = DOMAIN held \cup {p}
          /\ held'[p].own = own /\ held'[p].size = n
          /\ \A q \in DOMAIN held : held'[q] = held[q]
        BY <2>6, <2>7
    <2>9. held' \in [DOMAIN held' -> Promise]
        <3>1. [own |-> own, size |-> n] \in Promise  BY <2>5 DEF Promise
        <3> QED  BY <2>7, <3>1 DEF IInv, Types
    <2>10. Types'  BY <1>1, <1>6, <2>6, <2>8, <2>9 DEF IInv, Types
    <2>11. Keeps(p, held[p].own, held[p].size)'
        BY <1>5, <2>4, <2>6, <2>8 DEF Keeps
    <2> QED  BY <1>1, <1>2, <1>3, <1>4, <1>5, <1>7, <1>8, <2>6, <2>8, <2>10, <2>11, OwnStep
<1> QED  BY <1>9, <1>10

LEMMA NextIInv == IInv /\ [Next]_vars => IInv'
<1> SUFFICES ASSUME IInv, [Next]_vars PROVE IInv'  OBVIOUS
<1>1. CASE UNCHANGED vars
    <2>1. UNCHANGED <<room, memory, sampled, held, recorded, confused, handler, pc, call>>
        BY <1>1 DEF vars, blocks, hooks, newh
    <2>2. Types' /\ Kept' /\ BooksFollowBlocks'
        BY <2>1 DEF IInv, Types, Kept, Keeps, BooksFollowBlocks
    <2>3. ASSUME NEW t \in Threads PROVE Mine(t)' /\ Owns(t)' = Owns(t)
        BY <2>1 DEF IInv, Mine, Owns, AtLabel, Told, Filled, Keeps
    <2> QED  BY <2>2, <2>3 DEF IInv, Apart
<1>2. ASSUME NEW t \in Threads, Malloc(t) PROVE IInv'  BY <1>2, MallocIInv
<1>3. ASSUME NEW t \in Threads, cpp_alloc(t) PROVE IInv'  BY <1>3, CppAllocIInv
<1>4. ASSUME NEW t \in Threads, NewHook(t) PROVE IInv'  BY <1>4, NewHookIInv
<1>5. ASSUME NEW t \in Threads,
             TakeHandler(t) \/ RestoreHandler(t) \/ Handle(t) \/ SetNewHandler(t)
      PROVE  IInv'
    BY <1>5, HandlerIInv
<1>6. ASSUME NEW t \in Threads, Free(t) PROVE IInv'  BY <1>6, FreeIInv
<1>7. ASSUME NEW t \in Threads, ReallocInPlace(t) PROVE IInv'  BY <1>7, ReallocInPlaceIInv
<1>8. ASSUME NEW t \in Threads, Realloc(t) PROVE IInv'  BY <1>8, ReallocIInv
<1>9. ASSUME NEW t \in Threads, Copy(t) PROVE IInv'  BY <1>9, CopyIInv
<1>10. ASSUME NEW t \in Threads, DeleteHook(t) PROVE IInv'  BY <1>10, DeleteHookIInv
<1>11. ASSUME NEW t \in Threads, Release(t) PROVE IInv'  BY <1>11, ReleaseIInv
<1> QED  BY <1>1, <1>2, <1>3, <1>4, <1>5, <1>6, <1>7, <1>8, <1>9, <1>10, <1>11 DEF Next

-----------------------------------------------------------------------------
(* The new-handler.                                                          *)

\* The window is the critical section of set_new_handler_lock.
Locked == \A t \in Threads : pc[t] = "window" <=> handler_lock = t

LEMMA InitHandler == Init => Locked /\ HandlerKept
BY NullAssumption DEF Init, Locked, HandlerKept

LEMMA NextHandler == IInv /\ Locked /\ HandlerKept /\ [Next]_vars => (Locked /\ HandlerKept)'
<1> SUFFICES ASSUME IInv, Locked, HandlerKept, [Next]_vars PROVE (Locked /\ HandlerKept)'
    OBVIOUS
<1> USE NullAssumption
<1>1. pc \in [Threads -> {"run", "hook", "copy", "delete", "free",
                          "new", "nomem", "window", "handler"}] /\ call \in [Threads -> Calls]
    BY DEF IInv, Types
<1>2. ASSUME UNCHANGED newh,
             \A u \in Threads : pc'[u] = "window" <=> pc[u] = "window",
             \A u \in Threads : pc[u] = "window" => call'[u] = call[u]
      PROVE  (Locked /\ HandlerKept)'
    BY <1>2 DEF newh, Locked, HandlerKept
<1>3. ASSUME NEW t \in Threads, NEW label, label # "window", pc[t] # "window",
             pc' = [pc EXCEPT ![t] = label], UNCHANGED newh,
             \A u \in Threads \ {t} : call'[u] = call[u]
      PROVE  (Locked /\ HandlerKept)'
    BY <1>1, <1>2, <1>3
<1>4. ASSUME NEW t \in Threads, TakeHandler(t) PROVE (Locked /\ HandlerKept)'
    <2>1. /\ pc[t] = "nomem" /\ handler_lock = Null /\ handler_lock' = t /\ handler' = Null
          /\ pc' = [pc EXCEPT ![t] = "window"] /\ call' = [call EXCEPT ![t].nh = handler]
          /\ UNCHANGED <<installed, raced>>
        BY <1>4 DEF TakeHandler, LockFree, GoTo
    <2>2. \A u \in Threads : pc[u] # "window"  BY <2>1 DEF Locked
    <2>3. \A u \in Threads : pc'[u] = "window" <=> u = t  BY <1>1, <2>1, <2>2
    <2>4. call'[t].nh = handler  BY <1>1, <2>1 DEF Calls
    <2>5. Locked'  BY <2>1, <2>3 DEF Locked
    <2>6. HandlerKept'  BY <2>1, <2>2, <2>3, <2>4 DEF HandlerKept
    <2> QED  BY <2>5, <2>6
<1>5. ASSUME NEW t \in Threads, RestoreHandler(t) PROVE (Locked /\ HandlerKept)'
    <2>1. /\ pc[t] = "window" /\ handler_lock' = Null /\ handler' = call[t].nh
          /\ pc'[t] # "window" /\ \A u \in Threads \ {t} : pc'[u] = pc[u]
          /\ UNCHANGED <<installed, raced>>
        BY <1>1, <1>5 DEF RestoreHandler, GoTo
    <2>2. \A u \in Threads : pc'[u] # "window"  BY <2>1 DEF Locked
    <2>3. Locked'  BY <2>1, <2>2 DEF Locked
    <2>4. HandlerKept'  BY <2>1, <2>2 DEF HandlerKept
    <2> QED  BY <2>3, <2>4
<1>6. ASSUME NEW t \in Threads, SetNewHandler(t) PROVE (Locked /\ HandlerKept)'
    BY <1>6 DEF SetNewHandler, Locked, HandlerKept
<1>7. ASSUME NEW t \in Threads, Malloc(t) \/ cpp_alloc(t) \/ Free(t) \/ Realloc(t)
      PROVE  (Locked /\ HandlerKept)'
    BY <1>1, <1>3, <1>7 DEF Malloc, cpp_alloc, Free, Realloc, GoTo, Order
<1>8. ASSUME NEW t \in Threads, NewHook(t) \/ Copy(t) \/ DeleteHook(t) \/ Release(t)
      PROVE  (Locked /\ HandlerKept)'
    BY <1>1, <1>3, <1>8 DEF NewHook, Copy, DeleteHook, Release, GoTo, Order, After, Finish
<1>9. ASSUME NEW t \in Threads, Handle(t) PROVE (Locked /\ HandlerKept)'
    BY <1>1, <1>3, <1>9 DEF Handle, GoTo
<1>10. ASSUME NEW t \in Threads, ReallocInPlace(t) PROVE (Locked /\ HandlerKept)'
    BY <1>2, <1>10 DEF ReallocInPlace
<1>11. CASE UNCHANGED vars
    BY <1>2, <1>11 DEF vars
<1> QED  BY <1>4, <1>5, <1>6, <1>7, <1>8, <1>9, <1>10, <1>11 DEF Next

-----------------------------------------------------------------------------
(* The theorems.                                                             *)

\* The invariant: who owns which block, what the hooks have been told of it, and
\* what is in it, at each label.
THEOREM FrontEndInvariance == Spec => []IInv
<1> QED  BY InitIInv, NextIInv, PTL DEF Spec

\* The hooks and the list of sampled blocks are right about the blocks, however
\* soon an address is used again.
THEOREM BooksFollowBlocksHolds == Spec => []BooksFollowBlocks
<1>1. IInv => BooksFollowBlocks  BY DEF IInv
<1> QED  BY <1>1, FrontEndInvariance, PTL

\* Blocks keep what their holders left there, through realloc too.
THEOREM ContentKeptHolds == Spec => []ContentKept
<1>1. IInv => ContentKept
    <2> SUFFICES ASSUME IInv, NEW p \in DOMAIN held
                 PROVE  /\ memory[p].tag = held[p].own.tag
                        /\ memory[p].bytes \in held[p].own.bytes .. room[p]
                        /\ held[p].size <= room[p]
        BY DEF ContentKept
    <2>1. held[p] \in Promise /\ memory[p] \in Contents /\ room[p] \in Nat
        BY DEF IInv, Types
    <2>2. Keeps(p, held[p].own, held[p].size)  BY DEF IInv, Kept
    <2> QED  BY <2>1, <2>2 DEF Keeps, Promise, Contents
<1> QED  BY <1>1, FrontEndInvariance, PTL

\* No cpp_alloc loses the new-handler.
THEOREM HandlerKeptHolds == Spec => []HandlerKept
<1> QED  BY InitHandler, NextHandler, FrontEndInvariance, PTL DEF Spec
===============================================================================
