------------------------------ MODULE Structures ------------------------------
(***************************************************************************)
(* The data structures that have no lock of their own, because their users *)
(* hold one: the page map, the allocators of the allocator's own objects,  *)
(* the heap profiler's address map and the memory it is kept in.  They     *)
(* share nothing, so that a behaviour here is one of one of them.          *)
(***************************************************************************)
EXTENDS PageMap, MetaData, AddressMap, ProfilerMemory

VARIABLE used  \* the one that is used

vars == <<vars_P, vars_M, vars_A, vars_H, used>>

Init ==
    /\ Init_P /\ Init_M /\ Init_A /\ Init_H
    /\ used \in {"page map", "metadata", "address map", "profiler memory"}
    /\ used # "page map" => levels = PageMap3

Next ==
    /\ \/ used = "page map" /\ Next_P /\ UNCHANGED <<vars_M, vars_A, vars_H>>
       \/ used = "metadata" /\ Next_M /\ UNCHANGED <<vars_P, vars_A, vars_H>>
       \/ used = "address map" /\ Next_A /\ UNCHANGED <<vars_P, vars_M, vars_H>>
       \/ used = "profiler memory" /\ Next_H /\ UNCHANGED <<vars_P, vars_M, vars_A>>
    /\ UNCHANGED used

Spec == Init /\ [][Next]_vars

-----------------------------------------------------------------------------
(* Properties, of which the parts are stated where the structures are        *)

\* Page map and address map are maps from keys to values, in which a call changes
\* one key.
ImplementMaps == PageMapIsMap /\ AddressMapIsMap

\* No entry, object or piece of memory is used twice at a time.
NothingUsedTwice == EntriesOnce /\ ObjectsApart /\ PiecesApart
===============================================================================
