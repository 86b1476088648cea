------------------------------ MODULE PageHeap ------------------------------
(***************************************************************************)
(* The page heap of tcmalloc.cpp (class TCMalloc_PageHeap, lines 438-715): *)
(* it carves spans of pages out of memory obtained from the system, and    *)
(* coalesces the spans given back with their free neighbours, which it     *)
(* finds through a page map that is only kept correct at span boundaries.  *)
(*                                                                         *)
(* Every operation runs under pageheap_lock, so each is one action.  The   *)
(* heap is one record, and the code's procedures are operators from heap   *)
(* to heap, composed as the code composes them.                            *)
(***************************************************************************)
EXTENDS Integers, Sequences, FiniteSets, SequencesExt, FiniteSetsExt

CONSTANTS NumPages,    \* the address space: pages 1 .. NumPages
          MaxPages,    \* kMaxPages = kMinSystemAlloc: the first "large" length
          LeafLength,  \* pages described by one leaf of the page map
          Alignments   \* the alignments, in pages, memalign is called with

ASSUME SizesAssumption ==
    /\ NumPages \in Nat \ {0}
    /\ MaxPages \in Nat \ {0}
    /\ LeafLength \in Nat \ {0}
    /\ Alignments \subseteq Nat \ {0, 1}

Pages == 1 .. NumPages

\* Pages 0 and NumPages+1 are only ever looked up as neighbours.
MapPages == 0 .. NumPages + 1
LeafOf(p) == p \div LeafLength

\* No span.
NULL == 0

\* A live Span is known by its first page.  Entries of the page map outlive
\* the Span they point to, so what counts is whether the entry of a page is
\* the descriptor of the live span that contains the page: "right", or not
\* ("stale": a Span that is gone, recycled, or elsewhere), or NULL.
Entries == {"null", "stale", "right"}

VARIABLE
    heap   \* pagemap  the page map
           \* leaves   the leaves of the page map that exist
           \* length   the length of the span that begins at each page, or 0
           \* free, sized   the spans with Span::free, with Span::sizeclass
           \* lists    free_[1 .. MaxPages-1]
           \* large    large_
           \* free_pages, system_pages   free_pages_, system_bytes_ / page size
           \* mapped   the pages obtained from the system so far
           \* lost     those of them GrowHeap could not enter in the page map

Init ==
    heap = [pagemap |-> [p \in MapPages |-> "null"],
            leaves |-> {},
            length |-> [p \in Pages |-> 0],
            free |-> {},
            sized |-> {},
            lists |-> [n \in 1 .. MaxPages - 1 |-> <<>>],
            large |-> <<>>,
            free_pages |-> 0,
            system_pages |-> 0,
            mapped |-> {},
            lost |-> {}]

Live(h) == {p \in Pages : h.length[p] > 0}
LastPage(h, s) == s + h.length[s] - 1
PagesOf(h, s) == s .. LastPage(h, s)

-----------------------------------------------------------------------------
(* Spans and lists.                                                          *)

\* pagemap_.set of the pages P to the span that contains them.
Enter(h, P) == [h EXCEPT !.pagemap = [p \in MapPages |-> IF p \in P THEN "right" ELSE @[p]]]

\* pagemap_.get: the span, if the entry is one.
GetDescriptor(h, p) ==
    IF h.pagemap[p] = "right"
    THEN CHOOSE s \in Live(h) : p \in PagesOf(h, s)
    ELSE NULL

\* The pages P change their span, their entries do not.
Outdate(h, P) ==
    [h EXCEPT !.pagemap = [p \in MapPages |-> IF p \in P /\ @[p] = "right" THEN "stale" ELSE @[p]]]

NewSpan(h, p, n) == [Outdate(h, p .. p + n - 1) EXCEPT !.length[p] = n]

DeleteSpan(h, s) ==
    [Outdate(h, PagesOf(h, s)) EXCEPT !.length[s] = 0, !.free = @ \ {s}]

RecordSpan(h, s) == Enter(h, {s, LastPage(h, s)})

\* A span is taken out of a list wherever it is.
DLL_Remove(list, s) ==
    IF s \in ToSet(list) THEN RemoveAt(list, CHOOSE i \in DOMAIN list : list[i] = s) ELSE list

\* DLL_Remove from whichever list the span is on.
Unlink(h, s) ==
    [h EXCEPT !.lists = [n \in DOMAIN @ |-> DLL_Remove(@[n], s)],
              !.large = DLL_Remove(@, s)]

\* DLL_InsertOrdered: after the spans below it.
InsertOrdered(list, s) == InsertAt(list, Cardinality({i \in DOMAIN list : list[i] < s}) + 1, s)

\* The end of Carve and of Delete: a free span goes to its list.
ToList(h, s) ==
    IF h.length[s] < MaxPages
    THEN [h EXCEPT !.free = @ \cup {s}, !.lists[h.length[s]] = <<s>> \o @]
    ELSE [h EXCEPT !.free = @ \cup {s}, !.large = InsertOrdered(@, s)]

-----------------------------------------------------------------------------
(* TCMalloc_PageHeap                                                         *)

\* A span keeps its first n pages; the others become a new span.
CutKeepsLength(h, s, n) ==
    Enter(RecordSpan(NewSpan(h, s + n, h.length[s] - n), s + n), {s + n - 1})
Cut(h, s, n) ==
    Enter(RecordSpan(NewSpan([h EXCEPT !.length[s] = n], s + n, h.length[s] - n), s + n),
          {s + n - 1})

Split(h, s, n) == Cut(h, s, n)

\* Carve: a free span is taken off its list and cut to n pages; what is left
\* over is a free span of its own.
Carve(h, s, n) ==
    LET h1 == [Unlink(h, s) EXCEPT !.free = @ \ {s}]
    IN  IF h.length[s] = n THEN h1 ELSE ToList(Cut(h1, s, n), s + n)

\* Delete, in two halves: a free neighbour found through the page map is
\* merged into the span.  Merging the one before moves the span's start.
MergedPrev(h, s) ==
    LET prev == GetDescriptor(h, s - 1)
    IN  IF prev \in h.free THEN prev ELSE s
MergePrev(h, s) ==
    LET prev == MergedPrev(h, s)
    IN  IF prev = s
        THEN h
        ELSE Enter([DeleteSpan(Unlink(h, prev), prev)
                       EXCEPT !.length[prev] = h.length[prev] + h.length[s],
                              !.length[s] = 0], {prev})
MergeNext(h, s) ==
    LET next == GetDescriptor(h, LastPage(h, s) + 1)
    IN  IF next \notin h.free
        THEN h
        ELSE Enter([DeleteSpan(Unlink(h, next), next)
                       EXCEPT !.length[s] = h.length[s] + h.length[next]],
                   {LastPage(h, next)})

DeleteCountsMerged(h, s) ==
    LET first == MergedPrev(h, s)
        merged == MergeNext(MergePrev([h EXCEPT !.sized = @ \ {s}], s), first)
    IN  [ToList(merged, first) EXCEPT !.free_pages = @ + merged.length[first]]
Delete(h, s) ==
    LET first == MergedPrev(h, s)
        merged == MergeNext(MergePrev([h EXCEPT !.sized = @ \ {s}], s), first)
    IN  [ToList(merged, first) EXCEPT !.free_pages = @ + h.length[s]]

\* RegisterSizeClass: every page of the span is entered, so that the span of
\* any object in it can be found.
RegisterSizeClass(h, s) == Enter([h EXCEPT !.sized = @ \cup {s}], s + 1 .. LastPage(h, s) - 1)

-----------------------------------------------------------------------------
(* New                                                                       *)

\* First pass: the first nonempty list of at least n pages.
SmallFits(h, n) == {k \in n .. MaxPages - 1 : h.lists[k] # <<>>}

\* Second pass: in large_, which is ordered by address, the first of the
\* shortest spans that are long enough.
LargeFits(h, n) == {s \in ToSet(h.large) : h.length[s] >= n}
BestFit(h, n) ==
    CHOOSE s \in LargeFits(h, n) :
        \A r \in LargeFits(h, n) \ {s} :
            \/ h.length[s] < h.length[r]
            \/ h.length[s] = h.length[r] /\ s < r

\* GrowHeap after the system gave pages p .. p+ask-1 and Ensure made the
\* leaves for them and for both neighbours (it reads those in Delete).
EnsuredOwnPages(p, ask) == {LeafOf(q) : q \in p .. p + ask - 1}
EnsuredLeaves(p, ask) == {LeafOf(q) : q \in p - 1 .. p + ask}

SystemAlloc(h, p, ask) ==
    [h EXCEPT !.mapped = @ \cup p .. p + ask - 1,
              !.system_pages = @ + ask]

Grow(h, p, ask) ==
    LET h1 == [SystemAlloc(h, p, ask) EXCEPT !.leaves = @ \cup EnsuredLeaves(p, ask)]
    IN  Delete(RecordSpan(NewSpan(h1, p, ask), p), p)

\* Ensure fails at one of the leaves it needs: the ones before it are made,
\* and the pages stay out of the heap forever.
GrowFails(h, p, ask, made) ==
    [SystemAlloc(h, p, ask) EXCEPT !.leaves = @ \cup made,
                                   !.lost = @ \cup p .. p + ask - 1]

\* The heap once span s is taken from the free spans.
Take(h, s, n) == [Carve(h, s, n) EXCEPT !.free_pages = @ - n]

\* The span a request for n pages is served from, without asking the system.
FromLists(h, n) ==
    IF SmallFits(h, n) # {} THEN {Head(h.lists[Min(SmallFits(h, n))])}
    ELSE IF LargeFits(h, n) # {} THEN {BestFit(h, n)}
    ELSE {}

\* The regions the system can give for a request of ask pages.
Regions(h, ask) == {p \in Pages : p .. p + ask - 1 \subseteq Pages \ h.mapped}

\* GrowHeap asks for at least MaxPages pages and then for n only.
Asks(n) == {n} \cup {k \in {MaxPages} : k > n}

\* The outcomes of New(n): the heap and the span, or NULL.  After GrowHeap the
\* code looks at large_ alone, so what a short region was turned into is found
\* only if coalescing made it large.
Outcomes(h, n) ==
    IF FromLists(h, n) # {}
    THEN {[heap |-> Take(h, s, n), span |-> s] : s \in FromLists(h, n)}
    ELSE {[heap |-> h, span |-> NULL]}
         \cup UNION {
           {IF LargeFits(Grow(h, p, ask), n) = {}
            THEN [heap |-> Grow(h, p, ask), span |-> NULL]
            ELSE LET s == BestFit(Grow(h, p, ask), n)
                 IN  [heap |-> Take(Grow(h, p, ask), s, n), span |-> s]
              : p \in Regions(h, ask)}
           \cup UNION {{[heap |-> GrowFails(h, p, ask, {l \in EnsuredLeaves(p, ask) : l < m}), span |-> NULL]
                          : m \in EnsuredLeaves(p, ask) \ h.leaves} : p \in Regions(h, ask)}
           : ask \in Asks(n)}

-----------------------------------------------------------------------------
(* The operations, as their callers use them under pageheap_lock.            *)

Used(h) == Live(h) \ h.free

\* do_malloc of a large or sampled size; do_memalign up to page alignment.
AllocatePages ==
    \E n \in 1 .. NumPages : \E out \in Outcomes(heap, n) : heap' = out.heap

\* Populate: New, and on success RegisterSizeClass.
AllocateForClass ==
    \E n \in 1 .. NumPages : \E out \in Outcomes(heap, n) :
        /\ out.span # NULL
        /\ heap' = RegisterSizeClass(out.heap, out.span)

\* do_memalign above page alignment: allocate size and alignment, give back
\* the pages before the aligned address and those after the last page needed.
AlignedPage(s, align) == CHOOSE p \in s .. s + align - 1 : p % align = 0
TrimFront(h, s, p) == IF p = s THEN h ELSE Delete(Split(h, s, p - s), s)
TrimBack(h, p, needed) ==
    IF h.length[p] = needed THEN h ELSE Delete(Split(h, p, needed), p + needed)

AllocateAligned ==
    \E align \in Alignments, n \in 1 .. NumPages :
        \E out \in Outcomes(heap, n + align) :
            /\ out.span # NULL
            /\ LET p == AlignedPage(out.span, align)
               IN  heap' = TrimBack(TrimFront(out.heap, out.span, p), p, n)

\* do_free of a large object, or ReleaseToSpans of a span with no object out.
Free == \E s \in Used(heap) : heap' = Delete(heap, s)

Next == AllocatePages \/ AllocateForClass \/ AllocateAligned \/ Free

Spec == Init /\ [][Next]_heap

-----------------------------------------------------------------------------
(* Properties                                                                *)

ListOf(s) == IF heap.length[s] < MaxPages THEN heap.lists[heap.length[s]] ELSE heap.large

\* The spans, free and in use, partition the pages the system gave, except
\* the ones lost when Ensure failed: no page is in two spans, however spans
\* are carved, split, aligned and coalesced.
SpansTile ==
    /\ \A s, r \in Live(heap) : s # r => PagesOf(heap, s) \cap PagesOf(heap, r) = {}
    /\ UNION {PagesOf(heap, s) : s \in Live(heap)} = heap.mapped \ heap.lost
    /\ heap.free \cup heap.sized \subseteq Live(heap)

\* The page map may be stale inside spans, but not where Delete looks: at the
\* first and last page of a span, and just outside it, where an entry is the
\* one of the live span that ends (or begins) there, if there is one.  Inside
\* a span of small objects every entry is right: do_free and ReleaseToSpans
\* find the span of an object through it.
DescriptorsRight ==
    \A s \in Live(heap) :
        /\ heap.pagemap[s] = "right"
        /\ heap.pagemap[LastPage(heap, s)] = "right"
        /\ \A p \in {s - 1, LastPage(heap, s) + 1} :
             heap.pagemap[p] = (IF \E r \in Live(heap) : p \in PagesOf(heap, r) THEN "right" ELSE "null")
        /\ s \in heap.sized => \A p \in PagesOf(heap, s) : heap.pagemap[p] = "right"

\* Free memory does not fragment by itself: two free spans are never adjacent.
Coalesced == \A s, r \in heap.free : LastPage(heap, s) + 1 # r

\* What Check() and CheckList() look at, and more: each free span is on the
\* list of its length, once, and on no other, a span in use is on none, and
\* large_ is ordered by address, so that best fit prefers low addresses.
FreeListsRight ==
    /\ \A s \in heap.free : s \in ToSet(ListOf(s))
    /\ \A k \in DOMAIN heap.lists :
         /\ IsInjective(heap.lists[k])
         /\ \A s \in ToSet(heap.lists[k]) : s \in heap.free /\ heap.length[s] = k
    /\ \A s \in ToSet(heap.large) : s \in heap.free /\ heap.length[s] >= MaxPages
    /\ \A i, j \in DOMAIN heap.large : i < j => heap.large[i] < heap.large[j]

\* The statistics: free_pages_ is the number of pages in free spans, and
\* system_bytes_ counts every page the system gave, those lost included.
PagesCounted ==
    /\ heap.free_pages = Cardinality(UNION {PagesOf(heap, s) : s \in heap.free})
    /\ heap.system_pages = Cardinality(heap.mapped)

\* The free memory as Delete, Carve and Split leave it: coalesced, on the lists
\* where New will look for it, and counted.
FreeMemoryRight == Coalesced /\ FreeListsRight /\ PagesCounted

\* Every entry Delete reads or writes for a span (its pages and the two
\* neighbours) is in a leaf of the radix tree that exists: get and set follow
\* the pointer to the leaf without looking at it.
LeavesExist ==
    \A s \in Live(heap) : \A p \in s - 1 .. LastPage(heap, s) + 1 : LeafOf(p) \in heap.leaves

\* The page map can be read wherever it is read: the leaf is there, and the
\* entry is the one of the span that has the page.
PageMapRight == DescriptorsRight /\ LeavesExist

=============================================================================
