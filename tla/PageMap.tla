------------------------------- MODULE PageMap -------------------------------
(***************************************************************************)
(* The page map (pagemap.hpp): a radix tree from page numbers to spans,    *)
(* of three levels on 64-bit systems and two on 32-bit ones.  set and      *)
(* Ensure are called under pageheap_lock; get is also called without it,   *)
(* by free, while Ensure adds nodes.  Neither get nor set looks whether    *)
(* the nodes on the way are there: that is what Ensure is for.             *)
(*                                                                         *)
(* A node is known by the indices that lead to it, the root by <<>>.       *)
(***************************************************************************)
EXTENDS Arithmetic, Sequences, FiniteSets, FiniteSetsExt, SequencesExt

CONSTANTS BITS,        \* bits of a page number
          ROOT_BITS,   \* of TCMalloc_PageMap2
          Spans, None,
          Pages,       \* pages that the system may give
          MaxLength,   \* bound: pages ensured at once
          MaxStored    \* bound: pages that have a value

ASSUME BitsAssumption ==
    /\ BITS \in Nat \ {0, 1} /\ ROOT_BITS \in 1 .. BITS
    /\ Pages \subseteq 0 .. Pow2[BITS] - 1
    /\ {MaxLength, MaxStored} \subseteq Nat
    /\ None \notin Spans

VARIABLES
    levels,     \* how many bits of a page number each level looks at
    nodes,      \* the nodes that are there, leaves included
    values,     \* the slots of the leaves
    ensuring,   \* the Ensure that is under way, or None
    ensured     \* history: pages for which an Ensure has returned true

vars_P == <<levels, nodes, values, ensuring, ensured>>

PageNumbers == 0 .. Pow2[BITS] - 1

\* MapSelector: TCMalloc_PageMap3 or TCMalloc_PageMap2.
INTERIOR_BITS == (BITS + 2) \div 3
PageMap3 == <<INTERIOR_BITS, INTERIOR_BITS, BITS - 2 * INTERIOR_BITS>>
PageMap2 == <<ROOT_BITS, BITS - ROOT_BITS>>

-----------------------------------------------------------------------------
(* The indices, as the code shifts and masks them                            *)

Depth == Len(levels)
LEAF_LENGTH == Pow2[levels[Depth]]

\* Bits of the levels below level i.
Below(w, i) ==
    LET n == Len(w)
    IN  IF i = n THEN 0 ELSE IF i = n - 1 THEN w[n] ELSE w[n - 1] + w[n]

\* (k >> Below) & (LENGTH - 1); the highest index is not masked.
Index(w, k, i) ==
    IF i = 1 THEN k \div Pow2[Below(w, 1)] ELSE (k \div Pow2[Below(w, i)]) % Pow2[w[i]]

Indices == [w \in {PageMap2, PageMap3} |-> [k \in PageNumbers |-> [i \in 1 .. Len(w) |-> Index(w, k, i)]]]
Path(k, i) == SubSeq(Indices[levels][k], 1, i)
LeafOf(k) == Path(k, Depth - 1)
SlotsOf(leaf) == {Append(leaf, i) : i \in 0 .. LEAF_LENGTH - 1}

Init_P ==
    /\ levels \in {PageMap2, PageMap3}
    /\ nodes = {<<>>}
    /\ values = [s \in {} |-> None]
    /\ ensuring = None
    /\ ensured = {}

-----------------------------------------------------------------------------
(* Ensure                                                                    *)

Ensure(start, n) ==
    /\ ensuring = None
    /\ ensuring' = [start |-> start, key |-> start, last |-> start + n - 1]
    /\ UNCHANGED <<levels, nodes, values, ensured>>

\* Of two levels, every leaf is made in advance when the heap has grown much.
PreallocateMoreMemory == levels = PageMap2 /\ Ensure(0, Pow2[BITS])

\* The first page of the next leaf.
NextKeyByLength(key) == key + LEAF_LENGTH
NextKey(key) == (key \div LEAF_LENGTH + 1) * LEAF_LENGTH

Missing(key) == {i \in 1 .. Depth - 1 : Path(key, i) \notin nodes}

\* One round of its loop: the first node that is missing on the way to the leaf
\* is made, with nothing in it, ...
NewNode ==
    /\ ensuring # None /\ ensuring.key <= ensuring.last
    /\ Missing(ensuring.key) # {}
    /\ LET n == Path(ensuring.key, Min(Missing(ensuring.key)))
       IN  /\ nodes' = nodes \cup {n}
           /\ values' = IF Len(n) < Depth - 1 THEN values
                        ELSE [s \in DOMAIN values \cup SlotsOf(n) |->
                                IF s \in SlotsOf(n) THEN None ELSE values[s]]
    /\ UNCHANGED <<levels, ensuring, ensured>>

\* ... or there is no memory, and Ensure returns false;
NoMemory ==
    /\ ensuring # None /\ ensuring.key <= ensuring.last
    /\ Missing(ensuring.key) # {}
    /\ ensuring' = None
    /\ UNCHANGED <<levels, nodes, values, ensured>>

\* and when the leaf is there it goes on to the next one.
NextLeaf ==
    /\ ensuring # None /\ ensuring.key <= ensuring.last
    /\ Missing(ensuring.key) = {}
    /\ ensuring' = [ensuring EXCEPT !.key = NextKey(@)]
    /\ UNCHANGED <<levels, nodes, values, ensured>>

Ensured ==
    /\ ensuring # None /\ ensuring.key > ensuring.last
    /\ ensured' = ensured \cup ensuring.start .. ensuring.last
    /\ ensuring' = None
    /\ UNCHANGED <<levels, nodes, values>>

-----------------------------------------------------------------------------
(* get and set: of pages that were ensured                                   *)

Stored == {s \in DOMAIN values : values[s] # None}

get(k) == values[Path(k, Depth)]

set(k, v) ==
    /\ k \in ensured /\ ensuring = None
    /\ Path(k, Depth) \notin Stored => Cardinality(Stored) < MaxStored
    /\ values' = [values EXCEPT ![Path(k, Depth)] = v]
    /\ UNCHANGED <<levels, nodes, ensuring, ensured>>

-----------------------------------------------------------------------------

Next_P ==
    \/ \E start \in Pages, n \in 1 .. MaxLength :
          start .. start + n - 1 \subseteq Pages /\ Ensure(start, n)
    \/ PreallocateMoreMemory
    \/ NewNode \/ NoMemory \/ NextLeaf \/ Ensured
    \/ \E k \in Pages, v \in Spans : set(k, v)
-----------------------------------------------------------------------------
(* Properties                                                                *)

\* Wherever in a leaf its region begins or ends, and whatever an Ensure that
\* failed has left, a page for which Ensure returned true can be read and set
\* without looking: every node on the way is there, as free finds it while other
\* nodes are made.
EnsuredReached == \A k \in ensured : LeafOf(k) \in nodes

\* The tree is a map from page numbers: no two pages share a slot, set changes one
\* page, and Ensure, also in its middle, loses and changes nothing.
PagesMap == INSTANCE KeyMap WITH
         Keys <- PageNumbers, Values <- Spans, Null <- None,
         contents <- [k \in PageNumbers |-> IF LeafOf(k) \in nodes THEN get(k) ELSE None]
PageMapIsMap == PagesMap!Spec
=============================================================================
