----------------------------- MODULE ObjectPool -----------------------------
(***************************************************************************)
(* What the central free lists promise the thread caches                   *)
(* (TCMalloc_Central_FreeList::InsertRange and RemoveRange,                *)
(* tcmalloc.cpp lines 808-809): a pool of objects, each of some size class,*)
(* from which objects of one class are taken and to which they are given   *)
(* back, in pieces of at most one batch.  The pool may change the class of *)
(* an object, or destroy it, only while it has it.                         *)
(***************************************************************************)
EXTENDS Integers, FiniteSets

CONSTANTS Objects,  \* every object that can exist
          Classes,  \* the size classes; 0 is "does not exist"
          Batch     \* the most objects of a class that move in one call

VARIABLES client,   \* the objects outside the pool
          class     \* the size class of each object

Init == client = {} /\ class = [o \in Objects |-> 0]

\* RemoveRange returns objects of the class it was called for.
Take(c) ==
    /\ c # 0
    /\ client \subseteq client'
    /\ client' \ client \subseteq {o \in Objects : class[o] = c}
    /\ Cardinality(client' \ client) \in 1 .. Batch[c]
    /\ UNCHANGED class

\* InsertRange is given objects of the class it is called for.
Give(c) ==
    /\ c # 0
    /\ client' \subseteq client
    /\ client \ client' \subseteq {o \in Objects : class[o] = c}
    /\ Cardinality(client \ client') \in 1 .. Batch[c]
    /\ UNCHANGED class

\* Spans are cut into objects and given back to the page heap.
Recut ==
    /\ class' \in [Objects -> Classes]
    /\ \A o \in client : class'[o] = class[o]
    /\ UNCHANGED client

Next == (\E c \in Classes : Take(c) \/ Give(c)) \/ Recut

Spec == Init /\ [][Next]_<<client, class>>
=============================================================================
