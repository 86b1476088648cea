--------------------------- MODULE StructuresProofs ---------------------------
(***************************************************************************)
(* Proofs about the data structures that have no lock of their own: the    *)
(* system allocator, the radix tree of the page map, the metadata          *)
(* allocator, the memory of the heap profiler and its address map.  Each   *)
(* part has an invariant of its own, and the structures of Structures share*)
(* nothing, so that a step of one leaves the invariants of the others.     *)
(***************************************************************************)
EXTENDS Structures, SystemAlloc, FiniteSetTheorems, FunctionTheorems, SequenceTheorems,
        WellFoundedInduction, TLAPS


-----------------------------------------------------------------------------
(* The system allocator.                                                     *)

-----------------------------------------------------------------------------
(* Rounding.                                                                 *)

LEMMA Division ==
    ASSUME NEW n \in Nat, NEW a \in Nat \ {0}
    PROVE  /\ n \div a \in Nat /\ n % a \in 0 .. a - 1
           /\ n = (n \div a) * a + (n % a)
           /\ (n \div a) * a \in Nat
<1>1. n \div a \in Nat /\ n % a \in 0 .. a - 1 /\ n = a * (n \div a) + (n % a)
    OBVIOUS
<1>2. a * (n \div a) = (n \div a) * a /\ (n \div a) * a \in Nat  BY <1>1
<1> QED  BY <1>1, <1>2

LEMMA Between ==
    ASSUME NEW a \in Nat \ {0}, NEW d \in Int, d * a < a, - a < d * a
    PROVE  d = 0
<1>1. CASE d >= 1
    <2>1. PICK e \in Nat : d = 1 + e
        <3>1. d - 1 \in Nat /\ d = 1 + (d - 1)  BY <1>1
        <3> QED  BY <3>1
    <2>2. d * a = a + e * a /\ e * a >= 0  BY <2>1
    <2> QED  BY <2>2
<1>2. CASE d <= -1
    <2>1. PICK e \in Nat : d = - (1 + e)
        <3>1. - d - 1 \in Nat /\ d = - (1 + (- d - 1))  BY <1>2
        <3> QED  BY <3>1
    <2>2. d * a = - (a + e * a) /\ e * a >= 0 /\ e * a \in Int  BY <2>1
    <2> QED  BY <2>2
<1> QED  BY <1>1, <1>2

\* What is a multiple leaves no remainder.
LEMMA Multiple ==
    ASSUME NEW a \in Nat \ {0}, NEW k \in Nat
    PROVE  (k * a) % a = 0
<1> DEFINE n == k * a
           q == n \div a
           r == n % a
<1>1. n \in Nat  OBVIOUS
<1>2. q \in Nat /\ r \in 0 .. a - 1 /\ n = q * a + r /\ q * a \in Nat
    BY <1>1, Division
<1> HIDE DEF q, r
<1>3. (k - q) * a = r /\ k - q \in Int
    <2>1. (k - q) * a = k * a - q * a  BY <1>2
    <2> QED  BY <1>1, <1>2, <2>1
<1>4. k - q = 0
    <2>1. (k - q) * a < a /\ - a < (k - q) * a  BY <1>2, <1>3
    <2> QED  BY <1>3, <2>1, Between
<1>5. r = 0  BY <1>3, <1>4
<1> QED  BY <1>5 DEF r

LEMMA Quotient ==
    ASSUME NEW n \in Nat, NEW a \in Nat \ {0}, n % a = 0
    PROVE  \E k \in Nat : n = k * a
<1> DEFINE k == n \div a
<1>1. k \in Nat /\ n = k * a + (n % a) /\ k * a \in Nat  BY Division
<1> HIDE DEF k
<1>2. n = k * a  BY <1>1
<1> QED  BY <1>1, <1>2

LEMMA RoundUpFacts ==
    ASSUME NEW n \in Nat, NEW a \in Nat \ {0}
    PROVE  /\ RoundUp(n, a) \in Nat /\ RoundUp(n, a) % a = 0
           /\ n <= RoundUp(n, a) /\ RoundUp(n, a) < n + a
           /\ Adjust(n, a) \in Nat /\ Adjust(n, a) < a /\ n + Adjust(n, a) = RoundUp(n, a)
<1> DEFINE m == n + a - 1
           q == m \div a
           r == m % a
<1>1. m \in Nat  OBVIOUS
<1>2. q \in Nat /\ r \in 0 .. a - 1 /\ m = q * a + r /\ q * a \in Nat
    <2> HIDE DEF m
    <2> QED  BY <1>1, Division
<1>3. RoundUp(n, a) = q * a  BY DEF RoundUp
<1> HIDE DEF q, r
<1>4. (q * a) % a = 0  BY <1>2, Multiple
<1>5. n <= q * a /\ q * a < n + a  BY <1>2
<1>6. Adjust(n, a) = q * a - n  BY <1>3 DEF Adjust
<1> QED  BY <1>2, <1>3, <1>4, <1>5, <1>6

\* From a page boundary it is not further than whole pages.
LEMMA AdjustPages ==
    ASSUME NEW p \in Nat, NEW b \in Nat \ {0}, NEW a \in Nat \ {0}, p % b = 0, a % b = 0
    PROVE  Adjust(p, a) <= a - b
<1>1. PICK k \in Nat : p = k * b  BY Quotient
<1>2. PICK m \in Nat : a = m * b  BY Quotient
<1>3. RoundUp(p, a) % a = 0 /\ RoundUp(p, a) \in Nat  BY RoundUpFacts
<1>4. PICK q \in Nat : RoundUp(p, a) = q * a  BY <1>3, Quotient
<1> DEFINE d == q * m - k
<1>5. d \in Int /\ q * m \in Nat  OBVIOUS
<1>6. Adjust(p, a) = d * b
    <2>1. q * (m * b) = (q * m) * b  OBVIOUS
    <2>2. d * b = (q * m) * b - k * b  BY <1>5
    <2> QED  BY <1>1, <1>2, <1>4, <2>1, <2>2 DEF Adjust
<1>7. d * b < m * b  BY <1>2, <1>6, RoundUpFacts
<1> HIDE DEF d
<1>8. d <= m - 1
    <2> SUFFICES ASSUME d >= m PROVE FALSE  BY <1>5
    <2>1. PICK e \in Nat : d = m + e
        <3>1. d - m \in Nat /\ d = m + (d - m)  BY <1>5
        <3> QED  BY <3>1
    <2>2. d * b = m * b + e * b /\ e * b >= 0 /\ m * b \in Int /\ e * b \in Int  BY <2>1
    <2> QED  BY <1>7, <2>2
<1>9. d * b <= m * b - b
    <2>1. PICK e \in Nat : m - 1 = d + e
        <3>1. (m - 1) - d \in Nat /\ m - 1 = d + ((m - 1) - d)  BY <1>5, <1>8
        <3> QED  BY <3>1
    <2>2. (m - 1) * b = d * b + e * b /\ e * b >= 0 /\ (m - 1) * b = m * b - b
          /\ d * b \in Int /\ e * b \in Int /\ m * b \in Int
        BY <1>5, <2>1
    <2> QED  BY <2>2
<1> QED  BY <1>2, <1>6, <1>9

\* A multiple of a multiple.
LEMMA MultipleOfMultiple ==
    ASSUME NEW x \in Nat, NEW b \in Nat \ {0}, NEW a \in Nat \ {0}, x % b = 0, b % a = 0
    PROVE  x % a = 0
<1>1. PICK k \in Nat : x = k * b  BY Quotient
<1>2. PICK m \in Nat : b = m * a  BY Quotient
<1>3. x = (k * m) * a /\ k * m \in Nat
    <2>1. k * (m * a) = (k * m) * a  OBVIOUS
    <2> QED  BY <1>1, <1>2, <2>1
<1>4. ((k * m) * a) % a = 0  BY <1>3, Multiple
<1> QED  BY <1>3, <1>4


\* What is not 0 is at least once what it is a multiple of.
LEMMA AtLeastOnce ==
    ASSUME NEW n \in Nat \ {0}, NEW a \in Nat \ {0}, NEW k \in Nat, n = k * a
    PROVE  n >= a
<1>1. k # 0  OBVIOUS
<1>2. PICK j \in Nat : k = 1 + j
    <2>1. k - 1 \in Nat /\ k = 1 + (k - 1)  BY <1>1
    <2> QED  BY <2>1
<1>3. n = a + j * a /\ j * a >= 0 /\ j * a \in Int  BY <1>2
<1> QED  BY <1>3

LEMMA AdjustedFacts ==
    ASSUME NEW n \in Nat, NEW a \in Nat \ {0}
    PROVE  Adjust(n, a) \in Nat /\ Adjust(n, a) < a /\ (n + Adjust(n, a)) % a = 0
<1> DEFINE d == Adjust(n, a)
           u == RoundUp(n, a)
<1>1. u \in Nat /\ u % a = 0 /\ d \in Nat /\ d < a /\ n + d = u  BY RoundUpFacts
<1> HIDE DEF d, u
<1>2. (n + d) % a = 0  BY <1>1
<1> QED  BY <1>1, <1>2 DEF d

-----------------------------------------------------------------------------
(* The inductive invariant.                                                  *)

\* An alignment the code can be called with: it divides a page or is pages.
Alignment(a) == a \in Nat \ {0} /\ (a % PageSize = 0 \/ PageSize % a = 0)

\* The break is where it can be, and what the process owns is below it or was
\* mapped.
Layout == brk \in 0 .. BrkLimit /\ owned \subseteq 0 .. brk - 1 \cup MmapArea

InCall == stage # "idle" => call.size \in Nat \ {0} /\ Alignment(call.align)

Extents == \A r \in regions : r.start \in Nat /\ r.size \in Nat \ {0}

ApartFrom(p, n) == \A q \in regions : Block(p, n) \cap Block(q.start, q.size) = {}

\* The first piece of TrySbrk is still nobody's.
PieceKept ==
    stage = "extra" =>
        ptr \in Nat /\ Block(ptr, SbrkSize) \subseteq owned /\ ApartFrom(ptr, SbrkSize)

\* What was taken from the device is below the base, and the base in bounds.
BaseRight ==
    physmem_base # Null =>
        /\ physmem_base \in Nat /\ DevStart <= physmem_base
        /\ DevLimit # 0 => physmem_base <= DevLimit
BelowBase ==
    \A r \in FromDevice :
        /\ physmem_base # Null
        /\ r.phys \in Nat /\ DevStart <= r.phys /\ r.phys + r.size <= physmem_base
PhysicalApart ==
    \A r, q \in FromDevice : r # q => Physical(r) \cap Physical(q) = {}

IInv_S ==
    /\ Layout
    /\ InCall
    /\ Extents
    /\ PieceKept
    /\ RegionsUsable
    /\ NothingElseMapped
    /\ BaseRight
    /\ BelowBase
    /\ PhysicalApart

-----------------------------------------------------------------------------
(* The sizes and places a call works with.                                   *)

LEMMA MaxOfTwo ==
    ASSUME NEW a \in Int, NEW b \in Int
    PROVE  Max({a, b}) = IF a >= b THEN a ELSE b
<1> DEFINE m == IF a >= b THEN a ELSE b
           P(x) == x \in {a, b} /\ \A y \in {a, b} : x >= y
<1>1. P(m)  OBVIOUS
<1>2. \A x : P(x) => x = m  OBVIOUS
<1>3. Max({a, b}) = CHOOSE x : P(x)  BY DEF Max
<1> HIDE DEF P, m
<1>4. P(CHOOSE x : P(x))  BY <1>1
<1>5. Max({a, b}) = m  BY <1>2, <1>3, <1>4
<1> QED  BY <1>5 DEF m

LEMMA AlignmentOfCall ==
    ASSUME NEW a \in Alignments
    PROVE  Alignment(Max({a, 1}))
<1>1. a \in Nat /\ PageSize \in Nat \ {0}  BY CallsAssumption, LayoutAssumption
<1>2. CASE a = 0
    <2>1. Max({a, 1}) = 1  BY <1>2, MaxOfTwo
    <2>2. (PageSize * 1) % 1 = 0  BY <1>1, Multiple
    <2>3. PageSize * 1 = PageSize  BY <1>1
    <2> QED  BY <2>1, <2>2, <2>3 DEF Alignment
<1>3. CASE a # 0
    <2>1. Max({a, 1}) = a  BY <1>1, <1>3, MaxOfTwo
    <2> QED  BY <1>1, <1>3, <2>1, CallsAssumption DEF Alignment
<1> QED  BY <1>2, <1>3

\* The alignment of a mapping, in pages and in what is asked for.
LEMMA MapAlignFacts ==
    ASSUME Alignment(call.align)
    PROVE  /\ MapAlign \in Nat \ {0} /\ PageSize <= MapAlign
           /\ MapAlign % PageSize = 0 /\ MapAlign % call.align = 0
<1> DEFINE a == call.align
<1>1. a \in Nat \ {0} /\ PageSize \in Nat \ {0}  BY LayoutAssumption DEF Alignment
<1>2. MapAlign = IF a >= PageSize THEN a ELSE PageSize  BY <1>1, MaxOfTwo DEF MapAlign
<1>3. (1 * a) % a = 0 /\ (1 * PageSize) % PageSize = 0  BY <1>1, Multiple
<1>4. a % a = 0 /\ PageSize % PageSize = 0
    <2>1. 1 * a = a /\ 1 * PageSize = PageSize  BY <1>1
    <2> QED  BY <1>3, <2>1
<1>5. CASE a % PageSize = 0
    <2>1. PICK k \in Nat : a = k * PageSize  BY <1>1, <1>5, Quotient
    <2>2. a >= PageSize  BY <1>1, <2>1, AtLeastOnce
    <2> QED  BY <1>1, <1>2, <1>4, <1>5, <2>2
<1>6. CASE PageSize % a = 0
    <2>1. PICK k \in Nat : PageSize = k * a  BY <1>1, <1>6, Quotient
    <2>2. PageSize >= a  BY <1>1, <2>1, AtLeastOnce
    <2>3. MapAlign = PageSize  BY <1>1, <1>2, <2>2
    <2> QED  BY <1>1, <1>4, <1>6, <2>3
<1> QED  BY <1>5, <1>6 DEF Alignment

\* A mapping has room for the size at an aligned address, and what is left of
\* it is that room.
LEMMA MappingFacts ==
    ASSUME IInv_S, stage # "idle", NEW p \in Places
    PROVE  /\ p \in Nat /\ Extra \in Nat /\ MapSize \in Nat /\ call.size <= MapSize
           /\ Adjust(p, MapAlign) \in 0 .. Extra
           /\ (p + Adjust(p, MapAlign)) % call.align = 0
           /\ Trimmed(p) = owned \cup Block(p + Adjust(p, MapAlign), MapSize)
           /\ Block(p + Adjust(p, MapAlign), MapSize) \subseteq MmapArea \ owned
<1>1. call.size \in Nat \ {0} /\ Alignment(call.align)  BY DEF IInv_S, InCall
<1>2. /\ MapAlign \in Nat \ {0} /\ PageSize <= MapAlign
      /\ MapAlign % PageSize = 0 /\ MapAlign % call.align = 0
    BY <1>1, MapAlignFacts
<1>3. PageSize \in Nat \ {0} /\ BrkLimit \in Nat \ {0} /\ Top \in Nat  BY LayoutAssumption
<1>4. p \in Nat /\ p % PageSize = 0 /\ Block(p, MapSize + Extra) \subseteq MmapArea \ owned
    BY <1>3 DEF Places, MmapArea
<1>5. Extra \in Nat /\ Extra = MapAlign - PageSize  BY <1>2, <1>3 DEF Extra
<1>6. MapSize \in Nat /\ call.size <= MapSize  BY <1>1, <1>2, RoundUpFacts DEF MapSize
<1> DEFINE d == Adjust(p, MapAlign)
           e == Extra
           m == MapSize
<1>7. d \in Nat /\ d <= e
    <2>1. d \in Nat  BY <1>2, <1>4, RoundUpFacts
    <2>2. d <= MapAlign - PageSize  BY <1>2, <1>3, <1>4, AdjustPages
    <2> QED  BY <1>5, <2>1, <2>2
<1>8. (p + d) % call.align = 0
    <2>1. p + d = RoundUp(p, MapAlign) /\ RoundUp(p, MapAlign) \in Nat
          /\ RoundUp(p, MapAlign) % MapAlign = 0
        BY <1>2, <1>4, RoundUpFacts
    <2>2. call.align \in Nat \ {0}  BY <1>1 DEF Alignment
    <2> HIDE DEF d
    <2> QED  BY <1>2, <2>1, <2>2, MultipleOfMultiple
<1>9. Trimmed(p) = owned \cup Block(p + d, m)
    <2> DEFINE tail == IF d < e THEN Block(p + d + m, e - d) ELSE {}
    <2>1. Trimmed(p) = owned \cup ((Block(p, m + e) \ Block(p, d)) \ tail)  BY DEF Trimmed
    <2> HIDE DEF d, e, m
    <2>2. p \in Nat /\ d \in Nat /\ e \in Nat /\ m \in Nat /\ d <= e
        BY <1>4, <1>5, <1>6, <1>7 DEF e, m
    <2>3. (Block(p, m + e) \ Block(p, d)) \ tail = Block(p + d, m)  BY <2>2 DEF Block
    <2> QED  BY <2>1, <2>3
<1>10. Block(p + d, m) \subseteq Block(p, m + e)
    <2> HIDE DEF d, e, m
    <2>1. p \in Nat /\ d \in Nat /\ e \in Nat /\ m \in Nat /\ d <= e
        BY <1>4, <1>5, <1>6, <1>7 DEF e, m
    <2> QED  BY <2>1 DEF Block
<1> QED  BY <1>4, <1>5, <1>6, <1>7, <1>8, <1>9, <1>10

-----------------------------------------------------------------------------
(* What the steps of different allocators have in common.                    *)

\* The mappings that regions account for.
Mapped(R) ==
    UNION {Block(r.start, RoundUp(r.size, Max({r.align, PageSize}))) :
              r \in {q \in R : q.start \in MmapArea}}

\* A region is handed out: memory of the process that nobody has.
LEMMA RegionAdded ==
    ASSUME IInv_S, NEW p \in Nat, NEW phys, Return(p, phys),
           call.size \in Nat \ {0}, p % call.align = 0,
           owned \subseteq owned', Block(p, call.size) \subseteq owned', ApartFrom(p, call.size)
    PROVE  /\ InCall' /\ Extents' /\ PieceKept' /\ RegionsUsable'
           /\ regions' # regions
           /\ p \notin MmapArea => Mapped(regions') = Mapped(regions)
           /\ p \in MmapArea => Mapped(regions') = Mapped(regions) \cup Block(p, MapSize)
<1> DEFINE r == [start |-> p, size |-> call.size, align |-> call.align, phys |-> phys]
<1>1. regions' = regions \cup {r} /\ stage' = "idle"  BY DEF Return, Done
<1>2. /\ r.start = p /\ r.size = call.size /\ r.align = call.align
    OBVIOUS
<1> HIDE DEF r
<1>3. InCall' /\ PieceKept'  BY <1>1 DEF InCall, PieceKept
<1>4. Extents'  BY <1>1, <1>2 DEF IInv_S, Extents
<1>5. Block(r.start, r.size) \subseteq owned' /\ r.start % r.align = 0  BY <1>2
<1>6. \A q \in regions : Block(r.start, r.size) \cap Block(q.start, q.size) = {}
    BY <1>2 DEF ApartFrom
<1>7. RegionsUsable'
    <2> SUFFICES ASSUME NEW x \in regions'
                 PROVE  /\ x.start % x.align = 0
                        /\ Block(x.start, x.size) \subseteq owned'
                        /\ \A q \in regions' \ {x} :
                              Block(x.start, x.size) \cap Block(q.start, q.size) = {}
        BY DEF RegionsUsable
    <2>1. CASE x = r
        BY <1>1, <1>5, <1>6, <2>1
    <2>2. CASE x \in regions
        <3>1. /\ x.start % x.align = 0 /\ Block(x.start, x.size) \subseteq owned
              /\ \A q \in regions \ {x} : Block(x.start, x.size) \cap Block(q.start, q.size) = {}
            BY <2>2 DEF IInv_S, RegionsUsable
        <3>2. Block(x.start, x.size) \cap Block(r.start, r.size) = {}  BY <1>6, <2>2
        <3> QED  BY <1>1, <3>1, <3>2
    <2> QED  BY <1>1, <2>1, <2>2
<1>8. r \notin regions
    <2>1. p \in Block(r.start, r.size)  BY <1>2 DEF Block
    <2> QED  BY <1>6, <2>1
<1>9. p \notin MmapArea => Mapped(regions') = Mapped(regions)
    <2> SUFFICES ASSUME p \notin MmapArea PROVE Mapped(regions') = Mapped(regions)
        OBVIOUS
    <2>1. {q \in regions' : q.start \in MmapArea} = {q \in regions : q.start \in MmapArea}
        BY <1>1, <1>2
    <2> QED  BY <2>1 DEF Mapped
<1>10. p \in MmapArea => Mapped(regions') = Mapped(regions) \cup Block(p, MapSize)
    <2> SUFFICES ASSUME p \in MmapArea
                 PROVE  Mapped(regions') = Mapped(regions) \cup Block(p, MapSize)
        OBVIOUS
    <2> DEFINE A == {q \in regions : q.start \in MmapArea}
               B(x) == Block(x.start, RoundUp(x.size, Max({x.align, PageSize})))
    <2>1. {q \in regions' : q.start \in MmapArea} = A \cup {r}  BY <1>1, <1>2
    <2>2. Mapped(regions') = UNION {B(x) : x \in A \cup {r}} /\ Mapped(regions) = UNION {B(x) : x \in A}
        BY <2>1 DEF Mapped
    <2>3. B(r) = Block(p, MapSize)  BY <1>2 DEF MapSize, MapAlign
    <2> HIDE DEF A, B
    <2>4. UNION {B(x) : x \in A \cup {r}} = (UNION {B(x) : x \in A}) \cup B(r)  OBVIOUS
    <2> QED  BY <2>2, <2>3, <2>4
<1> QED  BY <1>1, <1>3, <1>4, <1>7, <1>8, <1>9, <1>10

\* It is not of the device.
LEMMA NotOfDevice ==
    ASSUME IInv_S, NEW p, Return(p, Null), UNCHANGED physmem_base
    PROVE  BaseRight' /\ BelowBase' /\ PhysicalApart'
<1>1. FromDevice' = FromDevice  BY DEF FromDevice, Return, Done
<1> QED  BY <1>1 DEF IInv_S, BaseRight, BelowBase, PhysicalApart, Physical

\* The device gives what begins past the base, and the base is moved past it.
LEMMA OfDevice ==
    ASSUME IInv_S, NEW p, NEW base \in Nat, NEW phys \in Nat, Return(p, phys),
           base = IF physmem_base = Null THEN DevStart ELSE physmem_base,
           call.size \in Nat \ {0}, base <= phys,
           physmem_base' \in Nat, phys + call.size <= physmem_base',
           DevLimit # 0 => physmem_base' <= DevLimit
    PROVE  BaseRight' /\ BelowBase' /\ PhysicalApart'
<1> DEFINE r == [start |-> p, size |-> call.size, align |-> call.align, phys |-> phys]
<1>1. regions' = regions \cup {r}  BY DEF Return, Done
<1>2. r.size = call.size /\ r.phys = phys  OBVIOUS
<1> HIDE DEF r
<1>3. Null \notin Nat /\ DevStart \in Nat  BY LayoutAssumption
<1>4. FromDevice' = FromDevice \cup {r}  BY <1>1, <1>2, <1>3 DEF FromDevice
<1>5. Extents /\ BaseRight /\ BelowBase /\ PhysicalApart  BY DEF IInv_S
<1>6. DevStart <= base /\ \A q \in FromDevice : q.phys \in Nat /\ q.size \in Nat /\ DevStart <= q.phys /\ q.phys + q.size <= base
    BY <1>3, <1>5 DEF BaseRight, BelowBase, Extents, FromDevice
<1>7. BaseRight'  BY <1>3, <1>6 DEF BaseRight
<1>8. BelowBase'
    <2> SUFFICES ASSUME NEW q \in FromDevice \cup {r}
                 PROVE  q.phys \in Nat /\ DevStart <= q.phys /\ q.phys + q.size <= physmem_base'
        BY <1>3, <1>4 DEF BelowBase
    <2>1. CASE q = r  BY <1>2, <1>3, <1>6, <2>1
    <2>2. CASE q \in FromDevice  BY <1>6, <2>2
    <2> QED  BY <2>1, <2>2
<1>9. PhysicalApart'
    <2>1. \A q \in FromDevice : Physical(q) \cap Physical(r) = {}
        BY <1>2, <1>6 DEF Physical, Block
    <2>2. \A x, q \in FromDevice : x # q => Physical(x) \cap Physical(q) = {}
        BY <1>5 DEF PhysicalApart
    <2>3. \A x, q \in FromDevice \cup {r} : x # q => Physical(x) \cap Physical(q) = {}
        BY <2>1, <2>2
    <2> QED  BY <1>4, <2>3 DEF PhysicalApart, Physical
<1> QED  BY <1>7, <1>8, <1>9

\* Nothing is handed out, and nothing of the system changes but the break.
LEMMA NothingReturned ==
    ASSUME IInv_S, regions' = regions, Layout', InCall', PieceKept',
           owned \subseteq owned', owned' \cap MmapArea = owned \cap MmapArea, BaseRight',
           physmem_base # Null => physmem_base' = physmem_base
    PROVE  IInv_S'
<1>1. FromDevice' = FromDevice  BY DEF FromDevice
<1>2. Extents' /\ RegionsUsable' /\ PhysicalApart'
    BY <1>1 DEF IInv_S, Extents, RegionsUsable, PhysicalApart, Physical
<1>3. NothingElseMapped'  BY DEF IInv_S, NothingElseMapped
<1>4. BelowBase'  BY <1>1 DEF IInv_S, BelowBase
<1> QED  BY <1>2, <1>3, <1>4 DEF IInv_S

\* The call ends and returns nothing.
GivesUp == stage # "idle" /\ stage' = "idle" /\ regions' = regions

\* Going on to the next allocator, or giving up.
LEMMA AdvanceStep ==
    ASSUME IInv_S, NEW a \in Sources, stage # "idle", NEW flags, NEW tries, Advance(a, flags, tries)
    PROVE  /\ regions' = regions
           /\ InCall' /\ PieceKept'
           /\ stage' = "idle" => a = "mmap"
<1>1. regions' = regions /\ stage' # "extra" /\ (stage' = "idle" => a = "mmap")
    BY DEF Advance, Done, NextAfter
<1>2. stage' = "idle" \/ UNCHANGED call  BY DEF Advance, Done
<1>3. InCall'  BY <1>2 DEF IInv_S, InCall, Alignment
<1> QED  BY <1>1, <1>3 DEF PieceKept

\* The break is moved on by the process: what it then owns is new, and not of
\* the mappings.
LEMMA SbrkStep ==
    ASSUME IInv_S, NEW n \in Nat, CanSbrk(n), Sbrk(n)
    PROVE  /\ brk \in Nat /\ Layout' /\ owned \subseteq owned'
           /\ Block(brk, n) \subseteq owned' /\ ApartFrom(brk, n)
           /\ Block(brk, n) \cap owned = {}
           /\ owned' \cap MmapArea = owned \cap MmapArea
           /\ brk + n <= BrkLimit
<1>1. brk \in 0 .. BrkLimit /\ BrkLimit \in Nat /\ owned \subseteq 0 .. brk - 1 \cup MmapArea
    BY LayoutAssumption DEF IInv_S, Layout
<1>2. brk + n <= BrkLimit /\ brk' = brk + n /\ owned' = owned \cup Block(brk, n)
    BY DEF CanSbrk, Sbrk
<1>3. Block(brk, n) \subseteq 0 .. brk' - 1 /\ Block(brk, n) \cap MmapArea = {}
    BY <1>1, <1>2 DEF Block, MmapArea
<1>4. Layout'
    <2>1. 0 .. brk - 1 \subseteq 0 .. brk' - 1 /\ brk' \in 0 .. BrkLimit  BY <1>1, <1>2
    <2> QED  BY <1>1, <1>2, <1>3, <2>1 DEF Layout, MmapArea
<1>5. Block(brk, n) \cap owned = {}
    <2>1. Block(brk, n) \cap (0 .. brk - 1) = {}  BY <1>1 DEF Block
    <2> QED  BY <1>1, <1>3, <2>1
<1>6. ApartFrom(brk, n)  BY <1>5 DEF ApartFrom, IInv_S, RegionsUsable
<1> QED  BY <1>1, <1>2, <1>3, <1>4, <1>5, <1>6

-----------------------------------------------------------------------------
(* The actions.                                                              *)

LEMMA InitIInv_S == Init_S => IInv_S
<1> SUFFICES ASSUME Init_S PROVE IInv_S  OBVIOUS
<1>1. Layout /\ InCall /\ Extents /\ PieceKept /\ RegionsUsable
    BY LayoutAssumption DEF Init_S, Layout, InCall, Extents, PieceKept, RegionsUsable
<1>2. NothingElseMapped  BY DEF Init_S, NothingElseMapped
<1>3. BaseRight /\ BelowBase /\ PhysicalApart
    BY DEF Init_S, BaseRight, BelowBase, PhysicalApart, FromDevice
<1> QED  BY <1>1, <1>2, <1>3 DEF IInv_S

LEMMA SystemAllocStep ==
    ASSUME IInv_S, NEW size \in Sizes, NEW alignment \in Alignments, SystemAlloc(size, alignment)
    PROVE  IInv_S'
<1>1. Alignment(Max({alignment, 1})) /\ size \in Nat \ {0}  BY AlignmentOfCall, CallsAssumption
<1>2. InCall'  BY <1>1 DEF SystemAlloc, InCall, Alignment
<1>3. Layout' /\ PieceKept' /\ BaseRight' /\ UNCHANGED <<regions, owned, physmem_base>>
    BY DEF SystemAlloc, system, IInv_S, Layout, PieceKept, BaseRight
<1> QED  BY <1>2, <1>3, NothingReturned

LEMMA SkipStep ==
    ASSUME IInv_S, NEW a \in Sources, Skip(a)
    PROVE  IInv_S'
<1>1. stage # "idle" /\ Advance(a, failure, {}) /\ UNCHANGED <<brk, owned, physmem_base>>
    BY DEF Skip, system, Sources
<1>2. regions' = regions /\ InCall' /\ PieceKept'  BY <1>1, AdvanceStep
<1>3. Layout' /\ BaseRight'  BY <1>1 DEF IInv_S, Layout, BaseRight
<1> QED  BY <1>1, <1>2, <1>3, NothingReturned

LEMMA FailStep ==
    ASSUME IInv_S, NEW a \in Sources, stage # "idle", Fail(a), UNCHANGED <<brk, owned, physmem_base>>
    PROVE  IInv_S' /\ (GivesUp => a = "mmap")
<1>1. Advance(a, failure \cup {a}, {a})  BY DEF Fail
<1>2. regions' = regions /\ InCall' /\ PieceKept' /\ (stage' = "idle" => a = "mmap")
    BY <1>1, AdvanceStep
<1>3. Layout' /\ BaseRight'  BY DEF IInv_S, Layout, BaseRight
<1>4. IInv_S'  BY <1>2, <1>3, NothingReturned
<1> QED  BY <1>2, <1>4 DEF GivesUp

\* A mapping is trimmed and handed out.
LEMMA MappedStep ==
    ASSUME IInv_S, stage # "idle", UNCHANGED brk, NEW p \in Places, NEW phys,
           owned' = Trimmed(p), Return(p + Adjust(p, MapAlign), phys),
           BaseRight', BelowBase', PhysicalApart'
    PROVE  IInv_S' /\ regions' # regions
<1> DEFINE s == p + Adjust(p, MapAlign)
<1>1. /\ p \in Nat /\ MapSize \in Nat /\ call.size <= MapSize
      /\ Extra \in Nat /\ Adjust(p, MapAlign) \in 0 .. Extra
      /\ s % call.align = 0 /\ Trimmed(p) = owned \cup Block(s, MapSize)
      /\ Block(s, MapSize) \subseteq MmapArea \ owned
    BY MappingFacts
<1>2. s \in Nat /\ call.size \in Nat \ {0}  BY <1>1 DEF IInv_S, InCall
<1>3. Return(s, phys)  OBVIOUS
<1> HIDE DEF s
<1>4. Block(s, call.size) \subseteq Block(s, MapSize)  BY <1>1, <1>2 DEF Block
<1>5. ApartFrom(s, call.size)  BY <1>1, <1>4 DEF ApartFrom, IInv_S, RegionsUsable
<1>6. s \in MmapArea
    <2>1. s \in Block(s, MapSize)  BY <1>1, <1>2 DEF Block
    <2> QED  BY <1>1, <2>1
<1>7. owned \subseteq owned' /\ Block(s, call.size) \subseteq owned'  BY <1>1, <1>4
<1>8. /\ InCall' /\ Extents' /\ PieceKept' /\ RegionsUsable' /\ regions' # regions
      /\ Mapped(regions') = Mapped(regions) \cup Block(s, MapSize)
    BY <1>1, <1>2, <1>3, <1>5, <1>6, <1>7, RegionAdded
<1>9. owned \cap MmapArea = Mapped(regions)  BY DEF IInv_S, NothingElseMapped, Mapped
<1>10. owned' \cap MmapArea = Mapped(regions')
    <2>1. owned' \cap MmapArea = (owned \cap MmapArea) \cup Block(s, MapSize)  BY <1>1
    <2> QED  BY <1>8, <1>9, <2>1
<1>11. NothingElseMapped'  BY <1>10 DEF NothingElseMapped, Mapped, MmapArea
<1>12. Layout'  BY <1>1 DEF IInv_S, Layout
<1> QED  BY <1>8, <1>11, <1>12 DEF IInv_S

LEMMA TryMmapStep == ASSUME IInv_S, TryMmap PROVE IInv_S' /\ (GivesUp => Fail("mmap"))
<1>1. stage = "mmap" /\ UNCHANGED <<brk, physmem_base>>  BY DEF TryMmap
<1>2. CASE Fail("mmap") /\ UNCHANGED owned  BY <1>1, <1>2, FailStep DEF Sources
<1>3. ASSUME NEW p \in Places, owned' = Trimmed(p), Return(p + Adjust(p, MapAlign), Null)
      PROVE  IInv_S' /\ ~ GivesUp
    <2>1. BaseRight' /\ BelowBase' /\ PhysicalApart'  BY <1>1, <1>3, NotOfDevice
    <2> QED  BY <1>1, <1>3, <2>1, MappedStep DEF GivesUp
<1> QED  BY <1>2, <1>3 DEF TryMmap

LEMMA TryDevMemStep == ASSUME IInv_S, TryDevMem PROVE IInv_S' /\ ~ GivesUp
<1> DEFINE base == IF physmem_base = Null THEN DevStart ELSE physmem_base
<1>1. stage = "devmem" /\ UNCHANGED brk  BY DEF TryDevMem
<1>2. base \in Nat /\ (DevStart # 0 /\ DevLimit # 0 => base <= DevLimit)
    BY LayoutAssumption DEF IInv_S, BaseRight
<1>3. CASE Advance("devmem", failure, {"devmem"}) /\ UNCHANGED <<owned, physmem_base>>
    <2>1. regions' = regions /\ InCall' /\ PieceKept' /\ stage' # "idle"
        BY <1>1, <1>3, AdvanceStep DEF Sources
    <2>2. Layout' /\ BaseRight'  BY <1>1, <1>3 DEF IInv_S, Layout, BaseRight
    <2> QED  BY <1>3, <2>1, <2>2, NothingReturned DEF GivesUp
<1>4. CASE Fail("devmem") /\ UNCHANGED <<owned, physmem_base>>
    BY <1>1, <1>4, FailStep DEF Sources, GivesUp
<1>5. CASE DevStart # 0 /\ Fail("devmem") /\ physmem_base' = base /\ UNCHANGED owned
    <2>1. regions' = regions /\ InCall' /\ PieceKept' /\ stage' # "idle"
        BY <1>1, <1>5, AdvanceStep DEF Sources, Fail
    <2>2. Layout'  BY <1>1, <1>5 DEF IInv_S, Layout
    <2>3. BaseRight'  BY <1>2, <1>5, LayoutAssumption DEF IInv_S, BaseRight
    <2> QED  BY <1>5, <2>1, <2>2, <2>3, NothingReturned DEF GivesUp
<1>6. ASSUME NEW p \in Places, DevStart # 0, ~ OverLimit(base), owned' = Trimmed(p),
             physmem_base' = BaseAfter(base, p),
             Return(p + Adjust(p, MapAlign), base + Adjust(p, MapAlign))
      PROVE  IInv_S' /\ ~ GivesUp
    <2> DEFINE d == Adjust(p, MapAlign)
    <2>1. /\ MapSize \in Nat /\ call.size <= MapSize /\ Extra \in Nat /\ d \in 0 .. Extra
          /\ call.size \in Nat \ {0}
        BY <1>1, MappingFacts DEF IInv_S, InCall
    <2>2. physmem_base' = base + d + MapSize  BY <1>6 DEF BaseAfter
    <2>3. DevLimit # 0 => MapSize + Extra <= DevLimit - base
        BY <1>2, <1>6, <2>1, LayoutAssumption DEF OverLimit
    <2>4. Return(p + d, base + d)  BY <1>6
    <2>5. base = IF physmem_base = Null THEN DevStart ELSE physmem_base  OBVIOUS
    <2> HIDE DEF d, base
    <2>6. /\ physmem_base' \in Nat /\ base + d \in Nat /\ base <= base + d
          /\ (base + d) + call.size <= physmem_base'
          /\ DevLimit # 0 => physmem_base' <= DevLimit
        BY <1>2, <2>1, <2>2, <2>3, LayoutAssumption
    <2>7. BaseRight' /\ BelowBase' /\ PhysicalApart'
        BY <1>2, <2>1, <2>4, <2>5, <2>6, OfDevice
    <2> QED  BY <1>1, <1>6, <2>7, MappedStep DEF GivesUp
<1> QED  BY <1>1, <1>3, <1>4, <1>5, <1>6 DEF TryDevMem

\* The sizes of TrySbrk.
LEMMA SbrkSizes ==
    ASSUME IInv_S, stage # "idle"
    PROVE  /\ call.size \in Nat \ {0} /\ call.align \in Nat \ {0}
           /\ SbrkSize \in Nat /\ call.size <= SbrkSize
BY RoundUpFacts DEF IInv_S, InCall, Alignment, SbrkSize

\* A region that begins below the break is not of the mappings.
LEMMA BrokenStep ==
    ASSUME IInv_S, stage # "idle", NEW p \in Nat, Return(p, Null), UNCHANGED physmem_base,
           p < BrkLimit, p % call.align = 0, Layout', owned \subseteq owned',
           owned' \cap MmapArea = owned \cap MmapArea,
           Block(p, call.size) \subseteq owned', ApartFrom(p, call.size)
    PROVE  IInv_S' /\ regions' # regions
<1>1. call.size \in Nat \ {0}  BY SbrkSizes
<1>2. p \notin MmapArea  BY LayoutAssumption DEF MmapArea
<1>3. /\ InCall' /\ Extents' /\ PieceKept' /\ RegionsUsable' /\ regions' # regions
      /\ Mapped(regions') = Mapped(regions)
    BY <1>1, <1>2, RegionAdded
<1>4. NothingElseMapped'
    BY <1>3 DEF IInv_S, NothingElseMapped, Mapped, MmapArea
<1>5. BaseRight' /\ BelowBase' /\ PhysicalApart'  BY NotOfDevice
<1> QED  BY <1>3, <1>4, <1>5 DEF IInv_S

\* What is part of a place nobody has is nobody's.
LEMMA PartApart ==
    ASSUME NEW p \in Nat, NEW n \in Nat, NEW q \in Nat, NEW m \in Nat,
           p <= q, q + m <= p + n, ApartFrom(p, n)
    PROVE  Block(q, m) \subseteq Block(p, n) /\ ApartFrom(q, m)
<1>1. Block(q, m) \subseteq Block(p, n)  BY DEF Block
<1> QED  BY <1>1 DEF ApartFrom

LEMMA TrySbrkStep == ASSUME IInv_S, TrySbrk PROVE IInv_S' /\ ~ GivesUp
<1>1. stage = "sbrk" /\ UNCHANGED physmem_base  BY DEF TrySbrk
<1>2. /\ call.size \in Nat \ {0} /\ call.align \in Nat \ {0}
      /\ SbrkSize \in Nat /\ call.size <= SbrkSize
    BY <1>1, SbrkSizes
<1>3. CASE Fail("sbrk") /\ UNCHANGED <<brk, owned>>
    BY <1>1, <1>3, FailStep DEF Sources
<1>4. ASSUME CanSbrk(SbrkSize), Sbrk(SbrkSize)
      PROVE  /\ brk \in Nat /\ Layout' /\ owned \subseteq owned'
             /\ Block(brk, SbrkSize) \subseteq owned' /\ ApartFrom(brk, SbrkSize)
             /\ owned' \cap MmapArea = owned \cap MmapArea
             /\ brk < BrkLimit
    <2>1. brk + SbrkSize <= BrkLimit /\ BrkLimit \in Nat  BY <1>4, LayoutAssumption DEF CanSbrk
    <2>2. brk \in Nat  BY <1>2, <1>4, SbrkStep
    <2>3. brk < BrkLimit  BY <1>2, <2>1, <2>2
    <2> QED  BY <1>2, <1>4, <2>3, SbrkStep
<1>5. CASE /\ CanSbrk(SbrkSize) /\ Sbrk(SbrkSize)
           /\ Adjust(brk, call.align) = 0 /\ Return(brk, Null)
    <2>1. brk \in Nat  BY <1>4, <1>5
    <2>2. brk % call.align = 0
        <3>1. brk + 0 = RoundUp(brk, call.align) /\ RoundUp(brk, call.align) % call.align = 0
            BY <1>2, <1>5, <2>1, RoundUpFacts
        <3> QED  BY <2>1, <3>1
    <2>3. Block(brk, call.size) \subseteq Block(brk, SbrkSize) /\ ApartFrom(brk, call.size)
        BY <1>2, <1>4, <1>5, <2>1, PartApart
    <2> QED  BY <1>1, <1>4, <1>5, <2>1, <2>2, <2>3, BrokenStep DEF GivesUp
<1>6. CASE /\ CanSbrk(SbrkSize) /\ Sbrk(SbrkSize)
           /\ ptr' = brk /\ stage' = "extra" /\ UNCHANGED <<call, regions>>
    <2>1. SbrkSize' = SbrkSize  BY <1>6 DEF SbrkSize
    <2>2. PieceKept'  BY <1>4, <1>6, <2>1 DEF PieceKept, ApartFrom
    <2>3. InCall'  BY <1>1, <1>6 DEF IInv_S, InCall, Alignment
    <2>4. BaseRight'  BY <1>1 DEF IInv_S, BaseRight
    <2> QED  BY <1>1, <1>4, <1>6, <2>2, <2>3, <2>4, NothingReturned DEF GivesUp
<1> QED  BY <1>3, <1>5, <1>6 DEF TrySbrk

LEMMA TrySbrkExtraStep == ASSUME IInv_S, TrySbrkExtra PROVE IInv_S' /\ ~ GivesUp
<1> DEFINE extra == Adjust(ptr, call.align)
<1>1. stage = "extra" /\ UNCHANGED physmem_base  BY DEF TrySbrkExtra
<1>2. /\ call.size \in Nat \ {0} /\ call.align \in Nat \ {0}
      /\ SbrkSize \in Nat /\ call.size <= SbrkSize
    BY <1>1, SbrkSizes
<1>3. ptr \in Nat /\ Block(ptr, SbrkSize) \subseteq owned /\ ApartFrom(ptr, SbrkSize)
    BY <1>1 DEF IInv_S, PieceKept
<1>4. extra \in Nat /\ (ptr + extra) % call.align = 0
    BY <1>2, <1>3, AdjustedFacts
<1>5. \/ CanSbrk(extra) /\ Sbrk(extra)
      \/ UNCHANGED <<brk, owned>>
    BY DEF TrySbrkExtra
<1>6. \/ CanSbrk(extra) /\ Contiguous /\ Return(ptr + extra, Null)
      \/ stage' = "again" /\ UNCHANGED <<call, regions>>
    BY DEF TrySbrkExtra
<1>7. CanSbrk(extra) => Sbrk(extra)  BY DEF TrySbrkExtra
<1> HIDE DEF extra
<1>8. Layout' /\ owned \subseteq owned' /\ owned' \cap MmapArea = owned \cap MmapArea
    <2>1. CASE CanSbrk(extra) /\ Sbrk(extra)  BY <1>4, <2>1, SbrkStep
    <2>2. CASE UNCHANGED <<brk, owned>>  BY <2>2 DEF IInv_S, Layout
    <2> QED  BY <1>5, <2>1, <2>2
<1>9. CASE CanSbrk(extra) /\ Contiguous /\ Return(ptr + extra, Null)
    <2>1. /\ brk \in Nat /\ brk = ptr + SbrkSize /\ brk + extra <= BrkLimit
          /\ Block(brk, extra) \subseteq owned' /\ ApartFrom(brk, extra)
        BY <1>4, <1>7, <1>9, SbrkStep DEF Contiguous
    <2>2. Block(ptr, SbrkSize + extra) = Block(ptr, SbrkSize) \cup Block(brk, extra)
        BY <1>2, <1>3, <1>4, <2>1 DEF Block
    <2>3. ApartFrom(ptr, SbrkSize + extra)  BY <1>3, <2>1, <2>2 DEF ApartFrom
    <2>4. Block(ptr, SbrkSize + extra) \subseteq owned'  BY <1>3, <1>8, <2>1, <2>2
    <2>5. /\ ptr + extra \in Nat /\ ptr + extra < BrkLimit /\ ptr <= ptr + extra
          /\ (ptr + extra) + call.size <= ptr + (SbrkSize + extra) /\ SbrkSize + extra \in Nat
        BY <1>2, <1>3, <1>4, <2>1, LayoutAssumption
    <2>6. /\ Block(ptr + extra, call.size) \subseteq Block(ptr, SbrkSize + extra)
          /\ ApartFrom(ptr + extra, call.size)
        BY <1>2, <1>3, <2>3, <2>5, PartApart
    <2> QED  BY <1>1, <1>4, <1>8, <1>9, <2>4, <2>5, <2>6, BrokenStep DEF GivesUp
<1>10. CASE stage' = "again" /\ UNCHANGED <<call, regions>>
    <2>1. InCall' /\ PieceKept' /\ BaseRight'
        BY <1>1, <1>10 DEF IInv_S, InCall, Alignment, PieceKept, BaseRight
    <2> QED  BY <1>1, <1>8, <1>10, <2>1, NothingReturned DEF GivesUp
<1> QED  BY <1>6, <1>9, <1>10

LEMMA TrySbrkAgainStep == ASSUME IInv_S, TrySbrkAgain PROVE IInv_S' /\ ~ GivesUp
<1> DEFINE n == SbrkSize + call.align - 1
           d == Adjust(brk, call.align)
<1>1. stage = "again" /\ UNCHANGED physmem_base  BY DEF TrySbrkAgain
<1>2. /\ call.size \in Nat \ {0} /\ call.align \in Nat \ {0}
      /\ SbrkSize \in Nat /\ call.size <= SbrkSize
    BY <1>1, SbrkSizes
<1>3. CASE Fail("sbrk") /\ UNCHANGED <<brk, owned>>
    BY <1>1, <1>3, FailStep DEF Sources
<1>4. CASE CanSbrk(n) /\ Sbrk(n) /\ Return(brk + d, Null)
    <2>1. n \in Nat  BY <1>2
    <2>2. /\ brk \in Nat /\ Layout' /\ owned \subseteq owned'
          /\ Block(brk, n) \subseteq owned' /\ ApartFrom(brk, n)
          /\ owned' \cap MmapArea = owned \cap MmapArea
          /\ brk + n <= BrkLimit
        BY <1>4, <2>1, SbrkStep
    <2>3. d \in Nat /\ d < call.align /\ (brk + d) % call.align = 0
        BY <1>2, <2>2, AdjustedFacts
    <2>4. Return(brk + d, Null)  BY <1>4
    <2> HIDE DEF d
    <2>5. /\ brk + d \in Nat /\ brk + d < BrkLimit /\ brk <= brk + d
          /\ (brk + d) + call.size <= brk + n
        BY <1>2, <2>2, <2>3, LayoutAssumption
    <2> HIDE DEF n
    <2>6. /\ Block(brk + d, call.size) \subseteq Block(brk, n) /\ ApartFrom(brk + d, call.size)
        BY <1>2, <2>1, <2>2, <2>5, PartApart
    <2> QED  BY <1>1, <2>2, <2>3, <2>4, <2>5, <2>6, BrokenStep DEF GivesUp
<1> QED  BY <1>3, <1>4 DEF TrySbrkAgain

LEMMA OtherSbrkStep == ASSUME IInv_S, OtherSbrk PROVE IInv_S'
<1>1. /\ brk \in 0 .. BrkLimit /\ brk < BrkLimit /\ brk' = brk + 1 /\ BrkLimit \in Nat
      /\ owned \subseteq 0 .. brk - 1 \cup MmapArea
    BY LayoutAssumption DEF IInv_S, Layout, OtherSbrk
<1>2. UNCHANGED <<owned, physmem_base, stage, call, ptr, regions>>  BY DEF OtherSbrk
<1>3. Layout'
    <2>1. 0 .. brk - 1 \subseteq 0 .. brk' - 1 /\ brk' \in 0 .. BrkLimit  BY <1>1
    <2> QED  BY <1>1, <1>2, <2>1 DEF Layout, MmapArea
<1>4. InCall' /\ PieceKept' /\ BaseRight'
    BY <1>2 DEF IInv_S, InCall, Alignment, PieceKept, BaseRight, SbrkSize, ApartFrom
<1> QED  BY <1>2, <1>3, <1>4, NothingReturned

LEMMA IInvStep == IInv_S /\ [Next_S]_vars_S => IInv_S'
<1> SUFFICES ASSUME IInv_S, [Next_S]_vars_S PROVE IInv_S'  OBVIOUS
<1>1. CASE UNCHANGED vars_S
    <2>1. UNCHANGED <<brk, owned, physmem_base, stage, call, ptr, regions>>
        BY <1>1 DEF vars_S, system
    <2>2. Layout' /\ InCall' /\ PieceKept' /\ BaseRight'
        BY <2>1 DEF IInv_S, Layout, InCall, Alignment, PieceKept, BaseRight, SbrkSize, ApartFrom
    <2> QED  BY <2>1, <2>2, NothingReturned
<1>2. ASSUME Next_S PROVE IInv_S'
    BY <1>2, SystemAllocStep, SkipStep, TryDevMemStep, TrySbrkStep, TrySbrkExtraStep,
       TrySbrkAgainStep, TryMmapStep, OtherSbrkStep DEF Next_S
<1> QED  BY <1>1, <1>2

\* The inductive invariant: where the break and the mappings are, that the first
\* piece of TrySbrk stays nobody's, and that the device's base is past what was
\* taken from it.
THEOREM SystemAllocInvariance == Spec_S => []IInv_S
<1>1. Init_S => IInv_S  BY InitIInv_S
<1>2. IInv_S /\ [Next_S]_vars_S => IInv_S'  BY IInvStep
<1> QED  BY <1>1, <1>2, PTL DEF Spec_S

\* Every region returned is aligned, mapped and the caller's alone, whatever
\* other code does to the break; of the mappings nothing else stays mapped; and
\* no physical memory is given twice or beyond the limit.
THEOREM MemoryAccountedHolds == Spec_S => []MemoryAccounted
<1>1. IInv_S => MemoryAccounted
    <2> SUFFICES ASSUME IInv_S PROVE DeviceMemoryOnce
        BY DEF IInv_S, MemoryAccounted
    <2>1. \A r \in FromDevice : r.phys >= DevStart /\ (DevLimit # 0 => r.phys + r.size <= DevLimit)
        BY LayoutAssumption DEF IInv_S, BaseRight, BelowBase, Extents, FromDevice
    <2> QED  BY <2>1 DEF IInv_S, PhysicalApart, BaseRight, DeviceMemoryOnce
<1> QED  BY <1>1, SystemAllocInvariance, PTL

-----------------------------------------------------------------------------
(* Giving up.                                                                *)

\* The flags that are set in the second round are those of allocators which this
\* call has tried in it.
Rounds ==
    /\ stage \in Sources \cup {"idle", "extra", "again"} /\ tried \subseteq Sources
    /\ stage = "idle" => round = 0
    /\ round = 1 =>
        /\ stage = "devmem" => failure = {}
        /\ stage \in {"sbrk", "extra", "again"} =>
              failure \subseteq {"devmem"} /\ {"devmem"} \subseteq tried
        /\ stage = "mmap" =>
              failure \subseteq {"devmem", "sbrk"} /\ {"devmem", "sbrk"} \subseteq tried

\* Where a call gives up, all were tried.
TriedAll == tried \cup {stage} = Sources

\* An allocator has nothing to give: it was tried, as all are in the second round.
LEMMA AdvanceRounds ==
    ASSUME Rounds, NEW a \in Sources, NEW flags, NEW tries, Advance(a, flags, tries),
           flags \subseteq failure \cup {a}, tries \subseteq {a}, round = 1 => tries = {a},
           stage = a \/ (a = "sbrk" /\ stage = "again")
    PROVE  Rounds' /\ (stage' = "idle" => TriedAll)
<1> USE DEF Sources
<1>1. CASE a = "devmem"
    <2>1. stage = "devmem" /\ stage' = "sbrk" /\ UNCHANGED round
        BY <1>1 DEF Advance, NextAfter
    <2>2. failure' = flags /\ tried' = tried \cup tries  BY <1>1 DEF Advance
    <2> QED  BY <1>1, <2>1, <2>2 DEF Rounds
<1>2. CASE a = "sbrk"
    <2>1. stage \in {"sbrk", "again"} /\ stage' = "mmap" /\ UNCHANGED round
        BY <1>2 DEF Advance, NextAfter
    <2>2. failure' = flags /\ tried' = tried \cup tries  BY <1>2 DEF Advance
    <2> QED  BY <1>2, <2>1, <2>2 DEF Rounds
<1>3. CASE a = "mmap" /\ round = 0
    <2>1. stage' = "devmem" /\ failure' = {} /\ tried' = tried \cup tries
        BY <1>3 DEF Advance, FlagsAfterRound
    <2> QED  BY <1>3, <2>1 DEF Rounds
<1>4. CASE a = "mmap" /\ round = 1
    <2>1. stage = "mmap" /\ stage' = "idle" /\ round' = 0 /\ tried' = {}
        BY <1>4 DEF Advance, Done
    <2>2. TriedAll  BY <1>4, <2>1 DEF Rounds, TriedAll
    <2> QED  BY <2>1, <2>2 DEF Rounds
<1> QED  BY <1>1, <1>2, <1>3, <1>4 DEF Advance

LEMMA ReturnRounds ==
    ASSUME NEW p, NEW phys, Return(p, phys)
    PROVE  Rounds'
BY DEF Return, Done, Rounds

\* A failure that is not a skip.
LEMMA FailRounds ==
    ASSUME Rounds, NEW a \in Sources, Fail(a), stage = a \/ (a = "sbrk" /\ stage = "again")
    PROVE  Rounds' /\ (stage' = "idle" => TriedAll)
BY AdvanceRounds DEF Fail

LEMMA SkipRounds ==
    ASSUME Rounds, NEW a \in Sources, Skip(a)
    PROVE  Rounds' /\ (GivesUp => TriedAll)
<1>1. stage = a /\ a \in failure /\ Advance(a, failure, {})  BY DEF Skip
<1>2. round # 1  BY <1>1 DEF Rounds, Sources
<1> QED  BY <1>1, <1>2, AdvanceRounds DEF GivesUp

LEMMA TryMmapRounds == ASSUME IInv_S, Rounds, TryMmap PROVE Rounds' /\ (GivesUp => TriedAll)
<1>1. stage = "mmap" /\ (GivesUp => Fail("mmap"))  BY TryMmapStep DEF TryMmap
<1>2. CASE Fail("mmap")  BY <1>1, <1>2, FailRounds DEF Sources, GivesUp
<1>3. ASSUME NEW p, Return(p, Null) PROVE Rounds'  BY <1>3, ReturnRounds
<1> QED  BY <1>1, <1>2, <1>3 DEF TryMmap

LEMMA TryDevMemRounds == ASSUME Rounds, TryDevMem PROVE Rounds'
<1>1. stage = "devmem" /\ "devmem" \in Sources  BY DEF TryDevMem, Sources
<1>2. CASE Advance("devmem", failure, {"devmem"})  BY <1>1, <1>2, AdvanceRounds
<1>3. CASE Fail("devmem")  BY <1>1, <1>3, FailRounds
<1>4. ASSUME NEW p, NEW phys, Return(p, phys) PROVE Rounds'  BY <1>4, ReturnRounds
<1> QED  BY <1>2, <1>3, <1>4 DEF TryDevMem

LEMMA SbrkRounds == ASSUME Rounds, TrySbrk \/ TrySbrkExtra \/ TrySbrkAgain PROVE Rounds'
<1>1. stage \in {"sbrk", "extra", "again"} /\ "sbrk" \in Sources
    BY DEF TrySbrk, TrySbrkExtra, TrySbrkAgain, Sources
<1>2. CASE Fail("sbrk") /\ stage \in {"sbrk", "again"}  BY <1>1, <1>2, FailRounds
<1>3. ASSUME NEW p, NEW phys, Return(p, phys) PROVE Rounds'  BY <1>3, ReturnRounds
<1>4. CASE stage' \in {"extra", "again"} /\ UNCHANGED <<round, failure>> /\ tried' \in {tried, tried \cup {"sbrk"}}
    BY <1>1, <1>4 DEF Rounds
<1>5. TrySbrk => stage = "sbrk" /\ (Fail("sbrk") \/ Return(brk, Null)
        \/ (stage' = "extra" /\ UNCHANGED <<round, failure>> /\ tried' = tried \cup {"sbrk"}))
    BY DEF TrySbrk
<1>6. TrySbrkExtra => Return(ptr + Adjust(ptr, call.align), Null)
        \/ (stage' = "again" /\ UNCHANGED <<round, failure, tried>>)
    BY DEF TrySbrkExtra
<1>7. TrySbrkAgain => stage = "again" /\ (Fail("sbrk") \/ Return(brk + Adjust(brk, call.align), Null))
    BY DEF TrySbrkAgain
<1> QED  BY <1>2, <1>3, <1>4, <1>5, <1>6, <1>7

LEMMA RoundsStep == IInv_S /\ Rounds /\ [Next_S]_vars_S => Rounds' /\ (GivesUp => TriedAll)
<1> SUFFICES ASSUME IInv_S, Rounds, [Next_S]_vars_S PROVE Rounds' /\ (GivesUp => TriedAll)
    OBVIOUS
<1>1. CASE UNCHANGED vars_S  BY <1>1 DEF vars_S, Rounds, GivesUp
<1>2. ASSUME NEW size \in Sizes, NEW alignment \in Alignments, SystemAlloc(size, alignment)
      PROVE  Rounds' /\ ~ GivesUp
    BY <1>2 DEF SystemAlloc, Rounds, GivesUp, Sources
<1>3. ASSUME OtherSbrk PROVE Rounds' /\ ~ GivesUp
    BY <1>3 DEF OtherSbrk, Rounds, GivesUp
<1>4. ASSUME NEW a \in Sources, Skip(a) PROVE Rounds' /\ (GivesUp => TriedAll)
    BY <1>4, SkipRounds
<1>5. ASSUME TryDevMem PROVE Rounds' /\ ~ GivesUp  BY <1>5, TryDevMemStep, TryDevMemRounds
<1>6. ASSUME TrySbrk \/ TrySbrkExtra \/ TrySbrkAgain PROVE Rounds' /\ ~ GivesUp
    BY <1>6, TrySbrkStep, TrySbrkExtraStep, TrySbrkAgainStep, SbrkRounds
<1>7. ASSUME TryMmap PROVE Rounds' /\ (GivesUp => TriedAll)  BY <1>7, TryMmapRounds
<1> QED  BY <1>1, <1>2, <1>3, <1>4, <1>5, <1>6, <1>7 DEF Next_S

\* A call of TCMalloc_SystemAlloc gives up only after every allocator, its failure
\* flag set or not, was tried in this call and gave nothing.
THEOREM NullOnlyAfterAllHolds == Spec_S => NullOnlyAfterAll
<1>1. Init_S => Rounds  BY DEF Init_S, Rounds, Sources
<1>2. IInv_S /\ Rounds /\ [Next_S]_vars_S => Rounds'  BY RoundsStep
<1>3. IInv_S /\ Rounds /\ [Next_S]_vars_S => [GivesUp => TriedAll]_vars_S
    BY RoundsStep
<1>4. Spec_S => [][GivesUp => TriedAll]_vars_S
    BY <1>1, <1>2, <1>3, SystemAllocInvariance, PTL DEF Spec_S
<1> QED  BY <1>4 DEF NullOnlyAfterAll, GivesUp, TriedAll

-----------------------------------------------------------------------------
(* Powers of two.                                                            *)

\* A nonempty set of naturals has a least element.
LEMMA LeastNat ==
    ASSUME NEW T \in SUBSET Nat, T # {}
    PROVE  \E x \in T : \A y \in T : x <= y
<1> DEFINE R == {ss \in Nat \X Nat : ss[1] < ss[2]}
<1>1. IsWellFoundedOn(R, Nat)  BY NatLessThanWellFounded DEF OpToRel
<1>2. PICK x \in T : \A y \in T : ~ (<<y, x>> \in R)
    <2> HIDE DEF R
    <2> QED  BY <1>1, WFMin
<1>3. ASSUME NEW y \in T PROVE x <= y
    <2>1. ~ (y < x)  BY <1>2
    <2> QED  BY <2>1
<1> QED  BY <1>3

\* Induction, with a set in the place of a predicate.
LEMMA InductNat ==
    ASSUME NEW Good, 0 \in Good, \A n \in Nat : n \in Good => n + 1 \in Good
    PROVE  Nat \subseteq Good
<1> DEFINE Bad == Nat \ Good
<1> SUFFICES ASSUME Bad # {} PROVE FALSE  OBVIOUS
<1>1. PICK m \in Bad : \A k \in Bad : m <= k
    <2>1. Bad \in SUBSET Nat  OBVIOUS
    <2> HIDE DEF Bad
    <2> QED  BY <2>1, LeastNat
<1>2. m \in Nat /\ m # 0  BY <1>1
<1>3. m - 1 \in Nat /\ ~ (m <= m - 1)  BY <1>2
<1>4. m - 1 \in Good  BY <1>1, <1>3
<1>5. (m - 1) + 1 \in Good  BY <1>3, <1>4
<1>6. (m - 1) + 1 = m  BY <1>2
<1> QED  BY <1>1, <1>5, <1>6

\* g doubles from each number to the next, up to n.
Doubles(g, n) ==
    /\ DOMAIN g = 0 .. n
    /\ \A i \in 0 .. n : g[i] = IF i = 0 THEN 1 ELSE 2 * g[i - 1]

LEMMA DoublesExists == \A n \in Nat : \E g : Doubles(g, n)
<1> DEFINE Good == {n \in Nat : \E g : Doubles(g, n)}
<1>1. 0 \in Good
    <2>1. Doubles([i \in 0 .. 0 |-> 1], 0)  BY DEF Doubles
    <2> QED  BY <2>1
<1>2. ASSUME NEW n \in Nat, n \in Good PROVE n + 1 \in Good
    <2>1. PICK g : Doubles(g, n)  BY <1>2
    <2> DEFINE h == [i \in 0 .. n + 1 |-> IF i <= n THEN g[i] ELSE 2 * g[n]]
    <2>2. Doubles(h, n + 1)
        <3> SUFFICES ASSUME NEW i \in 0 .. n + 1 PROVE h[i] = IF i = 0 THEN 1 ELSE 2 * h[i - 1]
            BY DEF Doubles
        <3>1. CASE i = 0  BY <2>1, <3>1 DEF Doubles
        <3>2. CASE i # 0 /\ i <= n
            <4>1. i \in 0 .. n /\ i - 1 \in 0 .. n /\ i - 1 <= n /\ i - 1 \in 0 .. n + 1  BY <3>2
            <4>2. h[i] = g[i] /\ h[i - 1] = g[i - 1]  BY <4>1
            <4>3. g[i] = 2 * g[i - 1]  BY <2>1, <3>2, <4>1 DEF Doubles
            <4> QED  BY <3>2, <4>2, <4>3
        <3>3. CASE i = n + 1
            <4>1. i - 1 = n /\ n \in 0 .. n + 1 /\ i # 0  BY <3>3
            <4> QED  BY <3>3, <4>1
        <3> QED  BY <3>1, <3>2, <3>3
    <2> HIDE DEF h
    <2> QED  BY <2>2
<1>3. Nat \subseteq Good
    <2> HIDE DEF Good
    <2> QED  BY <1>1, <1>2, InductNat
<1> QED  BY <1>3

LEMMA DoublesAgree ==
    ASSUME NEW m \in Nat, NEW n \in Nat, NEW g, NEW h, Doubles(g, m), Doubles(h, n)
    PROVE  \A i \in Nat : i <= m /\ i <= n => g[i] = h[i]
<1> DEFINE Good == {i \in Nat : i <= m /\ i <= n => g[i] = h[i]}
<1>1. 0 \in Good  BY DEF Doubles
<1>2. ASSUME NEW i \in Nat, i \in Good PROVE i + 1 \in Good
    <2> SUFFICES ASSUME i + 1 <= m, i + 1 <= n PROVE g[i + 1] = h[i + 1]  OBVIOUS
    <2>1. i + 1 \in 0 .. m /\ i + 1 \in 0 .. n /\ i + 1 # 0 /\ (i + 1) - 1 = i  OBVIOUS
    <2>2. g[i + 1] = 2 * g[i] /\ h[i + 1] = 2 * h[i]  BY <2>1 DEF Doubles
    <2> QED  BY <1>2, <2>2
<1>3. Nat \subseteq Good
    <2> HIDE DEF Good
    <2> QED  BY <1>1, <1>2, InductNat
<1> QED  BY <1>3

\* Pow2 is the function its definition describes.
LEMMA Pow2Rule == \A n \in Nat : Pow2[n] = IF n = 0 THEN 1 ELSE 2 * Pow2[n - 1]
<1> DEFINE Table(n) == CHOOSE g : Doubles(g, n)
           p == [n \in Nat |-> Table(n)[n]]
           P(f) == f = [n \in Nat |-> IF n = 0 THEN 1 ELSE 2 * f[n - 1]]
<1>1. \A n \in Nat : Doubles(Table(n), n)  BY DoublesExists
<1>2. ASSUME NEW n \in Nat PROVE p[n] = IF n = 0 THEN 1 ELSE 2 * p[n - 1]
    <2>1. Doubles(Table(n), n)  BY <1>1
    <2>2. CASE n = 0  BY <2>1, <2>2 DEF Doubles
    <2>3. CASE n # 0
        <3>1. n - 1 \in Nat /\ n - 1 <= n /\ n - 1 <= n - 1 /\ n \in 0 .. n  BY <2>3
        <3>2. Doubles(Table(n - 1), n - 1)  BY <1>1, <3>1
        <3>3. Table(n)[n - 1] = Table(n - 1)[n - 1]
            <4> DEFINE a == Table(n)
                       b == Table(n - 1)
            <4>1. Doubles(a, n) /\ Doubles(b, n - 1)  BY <2>1, <3>2
            <4> HIDE DEF a, b
            <4>2. a[n - 1] = b[n - 1]  BY <3>1, <4>1, DoublesAgree
            <4> QED  BY <4>2 DEF a, b
        <3>4. Table(n)[n] = 2 * Table(n)[n - 1]  BY <2>1, <2>3, <3>1 DEF Doubles
        <3> HIDE DEF Table
        <3> QED  BY <2>3, <3>1, <3>3, <3>4
    <2> QED  BY <2>2, <2>3
<1>3. P(p)
    <2> HIDE DEF Table
    <2>1. p = [n \in Nat |-> p[n]]  OBVIOUS
    <2> HIDE DEF p
    <2> QED  BY <1>2, <2>1
<1>4. Pow2 = CHOOSE f : P(f)  BY DEF Pow2
<1>5. P(Pow2)
    <2> HIDE DEF P, p
    <2> QED  BY <1>3, <1>4
<1> HIDE DEF p
<1> QED  BY <1>5

LEMMA Pow2Type == \A n \in Nat : Pow2[n] \in Nat \ {0}
<1> DEFINE Good == {n \in Nat : Pow2[n] \in Nat \ {0}}
<1>1. 0 \in Good  BY Pow2Rule
<1>2. ASSUME NEW n \in Nat, n \in Good PROVE n + 1 \in Good
    <2>1. Pow2[n + 1] = 2 * Pow2[n]
        <3>1. n + 1 \in Nat /\ n + 1 # 0 /\ (n + 1) - 1 = n  OBVIOUS
        <3> QED  BY <3>1, Pow2Rule
    <2> QED  BY <1>2, <2>1
<1>3. Nat \subseteq Good
    <2> HIDE DEF Good
    <2> QED  BY <1>1, <1>2, InductNat
<1> QED  BY <1>3

LEMMA Pow2Plus ==
    ASSUME NEW m \in Nat, NEW n \in Nat
    PROVE  Pow2[m + n] = Pow2[m] * Pow2[n]
<1> DEFINE Good == {i \in Nat : Pow2[m + i] = Pow2[m] * Pow2[i]}
<1>0. Pow2[0] = 1  BY Pow2Rule
<1>1. 0 \in Good
    <2>1. m + 0 = m /\ Pow2[m] * 1 = Pow2[m]  BY Pow2Type
    <2> QED  BY <1>0, <2>1
<1>2. ASSUME NEW i \in Nat, i \in Good PROVE i + 1 \in Good
    <2>1. Pow2[i + 1] = 2 * Pow2[i] /\ Pow2[m + (i + 1)] = 2 * Pow2[m + i]
        <3>1. i + 1 \in Nat /\ i + 1 # 0 /\ (i + 1) - 1 = i  OBVIOUS
        <3>2. m + (i + 1) \in Nat /\ m + (i + 1) # 0 /\ (m + (i + 1)) - 1 = m + i  OBVIOUS
        <3> QED  BY <3>1, <3>2, Pow2Rule
    <2>2. Pow2[m] \in Nat /\ Pow2[i] \in Nat  BY Pow2Type
    <2>3. 2 * (Pow2[m] * Pow2[i]) = Pow2[m] * (2 * Pow2[i])  BY <2>2
    <2> QED  BY <1>2, <2>1, <2>3
<1>3. Nat \subseteq Good
    <2> HIDE DEF Good
    <2> QED  BY <1>1, <1>2, InductNat
<1> QED  BY <1>3

-----------------------------------------------------------------------------
(* Lists on which nothing is twice.                                          *)

NoTwice(s) == \A i, j \in 1 .. Len(s) : i # j => s[i] # s[j]

LEMMA Members ==
    ASSUME NEW S, NEW s \in Seq(S)
    PROVE  /\ ToSet(s) = {s[i] : i \in 1 .. Len(s)}
           /\ ToSet(s) \subseteq S /\ (s = <<>> <=> ToSet(s) = {})
<1>1. DOMAIN s = 1 .. Len(s) /\ Len(s) \in Nat  BY LenProperties
<1>2. ToSet(s) = {s[i] : i \in 1 .. Len(s)}  BY <1>1 DEF ToSet
<1>3. s # <<>> => 1 \in 1 .. Len(s)  BY EmptySeq, <1>1
<1>4. s = <<>> => 1 .. Len(s) = {}  OBVIOUS
<1> QED  BY <1>1, <1>2, <1>3, <1>4, ElementOfSeq

LEMMA PushedMembers ==
    ASSUME NEW S, NEW s \in Seq(S), NEW p \in S
    PROVE  /\ <<p>> \o s \in Seq(S) /\ ToSet(<<p>> \o s) = {p} \cup ToSet(s)
           /\ NoTwice(s) /\ p \notin ToSet(s) => NoTwice(<<p>> \o s)
<1> DEFINE t == <<p>> \o s
           n == Len(s)
<1>1. t \in Seq(S) /\ Len(t) = n + 1 /\ n \in Nat
      /\ \A i \in 1 .. n + 1 : t[i] = IF i = 1 THEN p ELSE s[i - 1]
    <2>1. <<p>> \in Seq(S) /\ Len(<<p>>) = 1 /\ <<p>>[1] = p  OBVIOUS
    <2>2. n \in Nat  BY LenProperties
    <2>3. t \in Seq(S) /\ Len(t) = 1 + n
          /\ \A i \in 1 .. 1 + n : t[i] = IF i <= 1 THEN <<p>>[i] ELSE s[i - 1]
        BY <2>1, ConcatProperties
    <2> HIDE DEF t
    <2> QED  BY <2>1, <2>2, <2>3
<1>2. ToSet(s) = {s[i] : i \in 1 .. n} /\ ToSet(t) = {t[i] : i \in 1 .. Len(t)}
    BY <1>1, Members
<1> HIDE DEF t, n
<1>3. ToSet(t) = {p} \cup ToSet(s)
    <2>1. ASSUME NEW x \in ToSet(t) PROVE x \in {p} \cup ToSet(s)
        <3>1. PICK i \in 1 .. n + 1 : x = t[i]  BY <1>1, <1>2
        <3>2. i # 1 => i - 1 \in 1 .. n  BY <1>1
        <3> QED  BY <1>1, <1>2, <3>1, <3>2
    <2>2. p \in ToSet(t)
        <3>1. 1 \in 1 .. n + 1  BY <1>1
        <3> QED  BY <1>1, <1>2, <3>1
    <2>3. ASSUME NEW x \in ToSet(s) PROVE x \in ToSet(t)
        <3>1. PICK i \in 1 .. n : x = s[i]  BY <1>2
        <3>2. i + 1 \in 1 .. n + 1 /\ i + 1 # 1 /\ (i + 1) - 1 = i  BY <1>1
        <3>3. t[i + 1] = s[i]  BY <1>1, <3>2
        <3> QED  BY <1>1, <1>2, <3>1, <3>2, <3>3
    <2> QED  BY <2>1, <2>2, <2>3
<1>4. ASSUME NoTwice(s), p \notin ToSet(s) PROVE NoTwice(t)
    <2> SUFFICES ASSUME NEW i \in 1 .. n + 1, NEW j \in 1 .. n + 1, i < j PROVE t[i] # t[j]
        <3>1. \A i, j \in 1 .. n + 1 : i # j => i < j \/ j < i  BY <1>1
        <3> QED  BY <1>1, <3>1 DEF NoTwice
    <2>1. j - 1 \in 1 .. n /\ j # 1  BY <1>1
    <2>2. t[j] = s[j - 1]  BY <1>1, <2>1
    <2>3. CASE i = 1
        <3>1. t[i] = p /\ s[j - 1] \in ToSet(s)  BY <1>1, <1>2, <2>1, <2>3
        <3> QED  BY <1>4, <2>2, <3>1
    <2>4. CASE i # 1
        <3>1. i - 1 \in 1 .. n /\ i - 1 # j - 1  BY <1>1, <2>4
        <3>2. t[i] = s[i - 1]  BY <1>1, <2>4
        <3>3. s[i - 1] # s[j - 1]  BY <1>4, <2>1, <3>1 DEF NoTwice, n
        <3> QED  BY <2>2, <3>2, <3>3
    <2> QED  BY <2>3, <2>4
<1> QED  BY <1>1, <1>3, <1>4 DEF t

LEMMA PoppedMembers ==
    ASSUME NEW S, NEW s \in Seq(S), s # <<>>
    PROVE  /\ Head(s) \in S /\ Tail(s) \in Seq(S) /\ ToSet(s) = {Head(s)} \cup ToSet(Tail(s))
           /\ NoTwice(s) => NoTwice(Tail(s)) /\ Head(s) \notin ToSet(Tail(s))
<1> DEFINE t == Tail(s)
           n == Len(s)
<1>1. /\ t \in Seq(S) /\ Len(t) = n - 1 /\ \A i \in 1 .. Len(t) : t[i] = s[i + 1]
      /\ Head(s) \in S
    BY HeadTailProperties
<1>2. n \in Nat \ {0}  BY EmptySeq
<1>3. Head(s) = s[1]  OBVIOUS
<1>4. ToSet(s) = {s[i] : i \in 1 .. n} /\ ToSet(t) = {t[i] : i \in 1 .. Len(t)}
    BY <1>1, Members
<1> HIDE DEF t, n
<1>5. \A i \in 1 .. n - 1 : t[i] = s[i + 1] /\ i + 1 \in 1 .. n /\ i + 1 # 1  BY <1>1, <1>2
<1>6. 1 \in 1 .. n /\ \A i \in 1 .. n : i = 1 \/ (i - 1 \in 1 .. n - 1 /\ (i - 1) + 1 = i)
    BY <1>2
<1>7. ToSet(s) = {Head(s)} \cup ToSet(t)
    <2>1. \A x \in ToSet(t) : x \in ToSet(s)  BY <1>1, <1>4, <1>5
    <2>2. ASSUME NEW x \in ToSet(s) PROVE x = Head(s) \/ x \in ToSet(t)
        <3>1. PICK i \in 1 .. n : x = s[i]  BY <1>4
        <3>2. i # 1 => x = t[i - 1] /\ i - 1 \in 1 .. n - 1
            <4>1. i # 1 => i - 1 \in 1 .. n - 1 /\ (i - 1) + 1 = i  BY <1>6
            <4> QED  BY <1>5, <3>1, <4>1
        <3> QED  BY <1>1, <1>3, <1>4, <3>1, <3>2
    <2>3. Head(s) \in ToSet(s)  BY <1>3, <1>4, <1>6
    <2> QED  BY <2>1, <2>2, <2>3
<1>8. ASSUME NoTwice(s) PROVE NoTwice(t) /\ Head(s) \notin ToSet(t)
    <2>1. \A i, j \in 1 .. n : i # j => s[i] # s[j]  BY <1>8 DEF NoTwice, n
    <2>2. \A i, j \in 1 .. n - 1 : i # j => i + 1 # j + 1  BY <1>2
    <2>3. \A i, j \in 1 .. n - 1 : i # j => t[i] # t[j]  BY <1>5, <2>1, <2>2
    <2>4. \A i \in 1 .. n - 1 : t[i] # s[1]  BY <1>5, <1>6, <2>1
    <2> QED  BY <1>1, <1>3, <1>4, <2>3, <2>4 DEF NoTwice
<1> QED  BY <1>1, <1>7, <1>8 DEF t

LEMMA NoTwiceSize ==
    ASSUME NEW S, NEW s \in Seq(S), NoTwice(s)
    PROVE  Cardinality(ToSet(s)) = Len(s) /\ IsFiniteSet(ToSet(s))
<1> DEFINE n == Len(s)
           f == [i \in 1 .. n |-> s[i]]
           T == ToSet(s)
<1>1. n \in Nat /\ T = {s[i] : i \in 1 .. n}  BY LenProperties, Members
<1>2. \A i, j \in 1 .. n : i # j => s[i] # s[j]  BY DEF NoTwice
<1> HIDE DEF n, T
<1>3. f \in Bijection(1 .. n, T)
    BY <1>1, <1>2 DEF Bijection, Injection, Surjection, IsInjective
<1> HIDE DEF f
<1>4. ExistsBijection(1 .. n, T)  BY <1>3 DEF ExistsBijection
<1>5. Cardinality(T) = n  BY <1>1, <1>4, FS_CountingElements
<1>6. IsFiniteSet(T)  BY <1>1, <1>4, FS_NatBijection
<1> QED  BY <1>5, <1>6 DEF n, T

-----------------------------------------------------------------------------
(* Division: more facts.                                                     *)

\* There is one quotient and one remainder.
LEMMA DivisionOnce ==
    ASSUME NEW a \in Nat \ {0}, NEW q \in Nat, NEW r \in 0 .. a - 1
    PROVE  (q * a + r) \div a = q /\ (q * a + r) % a = r
<1> DEFINE n == q * a + r
           p == n \div a
           s == n % a
<1>1. n \in Nat /\ q * a \in Nat  OBVIOUS
<1>2. p \in Nat /\ s \in 0 .. a - 1 /\ n = p * a + s /\ p * a \in Nat
    <2> HIDE DEF n
    <2> QED  BY <1>1, Division
<1> HIDE DEF p, s
<1>3. (p - q) * a = r - s /\ p - q \in Int
    <2>1. (p - q) * a = p * a - q * a  BY <1>2
    <2> QED  BY <1>1, <1>2, <2>1
<1>4. p - q = 0
    <2>1. (p - q) * a < a /\ - a < (p - q) * a  BY <1>2, <1>3
    <2> QED  BY <1>3, <2>1, Between
<1>5. p = q  BY <1>2, <1>4
<1>6. s = r  BY <1>1, <1>2, <1>5
<1> QED  BY <1>5, <1>6 DEF p, s

\* Division by a product is division by one factor and then by the other.
LEMMA DivisionTwice ==
    ASSUME NEW n \in Nat, NEW m \in Nat \ {0}, NEW a \in Nat \ {0}
    PROVE  n \div (m * a) = (n \div a) \div m
<1> DEFINE q == n \div a
           r == n % a
           p == q \div m
           s == q % m
<1>1. q \in Nat /\ r \in 0 .. a - 1 /\ n = q * a + r  BY Division
<1>2. p \in Nat /\ s \in 0 .. m - 1 /\ q = p * m + s
    <2> HIDE DEF q
    <2> QED  BY <1>1, Division
<1> HIDE DEF q, r, p, s
<1> DEFINE b == m * a
           t == s * a + r
<1>3. n = p * b + t
    <2>1. q * a = p * (m * a) + s * a
        <3>1. (p * m + s) * a = p * (m * a) + s * a  BY <1>2
        <3> QED  BY <1>2, <3>1
    <2> QED  BY <1>1, <1>2, <2>1
<1>4. b \in Nat \ {0} /\ t \in 0 .. b - 1
    <2>1. PICK d \in Nat : m = s + 1 + d
        <3>1. m - s - 1 \in Nat /\ m = s + 1 + (m - s - 1)  BY <1>2
        <3> QED  BY <3>1
    <2>2. b = s * a + a + d * a
        <3>1. (s + 1 + d) * a = s * a + a + d * a  BY <1>2, <2>1
        <3> QED  BY <2>1, <3>1
    <2>3. s * a \in Nat /\ d * a \in Nat  BY <1>2, <2>1
    <2> QED  BY <1>1, <2>2, <2>3
<1> HIDE DEF b, t
<1>5. n \div b = p  BY <1>2, <1>3, <1>4, DivisionOnce
<1> QED  BY <1>5 DEF b, p, q

LEMMA DivisionOrdered ==
    ASSUME NEW n \in Nat, NEW a \in Nat \ {0}, NEW q \in Nat
    PROVE  n \div a = q <=> q * a <= n /\ n < (q + 1) * a
<1> DEFINE p == n \div a
           r == n % a
<1>1. p \in Nat /\ r \in 0 .. a - 1 /\ n = p * a + r /\ p * a \in Nat  BY Division
<1>2. (q + 1) * a = q * a + a /\ q * a \in Nat  OBVIOUS
<1> HIDE DEF p, r
<1>3. p = q => q * a <= n /\ n < (q + 1) * a  BY <1>1, <1>2
<1>4. q * a <= n /\ n < (q + 1) * a => p = q
    <2> SUFFICES ASSUME q * a <= n, n < (q + 1) * a PROVE p = q  OBVIOUS
    <2>1. n - q * a \in 0 .. a - 1 /\ n = q * a + (n - q * a)  BY <1>2
    <2> DEFINE s == n - q * a
    <2>2. s \in 0 .. a - 1 /\ n = q * a + s  BY <2>1
    <2> HIDE DEF s
    <2>3. n \div a = q  BY <2>2, DivisionOnce
    <2> QED  BY <2>3 DEF p
<1> QED  BY <1>3, <1>4 DEF p

-----------------------------------------------------------------------------
(* The page map: where a page's slot is.                                     *)

\* The bits of the levels.
LEMMA LevelBits ==
    /\ INTERIOR_BITS \in Nat /\ BITS - 2 * INTERIOR_BITS \in Nat
    /\ ROOT_BITS \in Nat /\ BITS - ROOT_BITS \in Nat
    /\ PageNumbers \subseteq Nat
<1>1. BITS \in Nat \ {0, 1} /\ ROOT_BITS \in 1 .. BITS  BY BitsAssumption
<1>2. INTERIOR_BITS \in Nat /\ BITS - 2 * INTERIOR_BITS \in Nat
    BY <1>1 DEF INTERIOR_BITS
<1> QED  BY <1>1, <1>2 DEF PageNumbers

InLevels == levels \in {PageMap2, PageMap3}

\* The number of a page's leaf, of which LeafOf tells the same.
LeafNumber(k) == k \div LEAF_LENGTH

LEMMA LeafLength ==
    ASSUME InLevels
    PROVE  LEAF_LENGTH \in Nat \ {0} /\ Depth \in {2, 3} /\ levels[Depth] \in Nat
<1>1. CASE levels = PageMap2
    <2>1. Depth = 2 /\ levels[Depth] = BITS - ROOT_BITS  BY <1>1 DEF PageMap2, Depth
    <2> QED  BY <2>1, LevelBits, Pow2Type DEF LEAF_LENGTH
<1>2. CASE levels = PageMap3
    <2>1. Depth = 3 /\ levels[Depth] = BITS - 2 * INTERIOR_BITS  BY <1>2 DEF PageMap3, Depth
    <2> QED  BY <2>1, LevelBits, Pow2Type DEF LEAF_LENGTH
<1> QED  BY <1>1, <1>2 DEF InLevels

\* The indices of a page, level by level.
LEMMA IndicesOf ==
    ASSUME InLevels, NEW k \in PageNumbers
    PROVE  LET M == Pow2[levels[2]]
               q == LeafNumber(k)
               r == k % LEAF_LENGTH
           IN  /\ q \in Nat /\ r \in 0 .. LEAF_LENGTH - 1 /\ k = q * LEAF_LENGTH + r
               /\ Depth = 2 => Indices[levels][k] = [i \in 1 .. 2 |-> IF i = 1 THEN q ELSE r]
               /\ Depth = 3 => /\ M \in Nat \ {0}
                               /\ Indices[levels][k]
                                    = [i \in 1 .. 3 |-> IF i = 1 THEN q \div M ELSE IF i = 2 THEN q % M ELSE r]
<1> DEFINE M == Pow2[levels[2]]
           L == LEAF_LENGTH
           q == k \div L
           r == k % L
<1>1. k \in Nat  BY LevelBits
<1>2. L \in Nat \ {0}  BY LeafLength
<1>3. q \in Nat /\ r \in 0 .. L - 1 /\ k = q * L + r
    <2> HIDE DEF L
    <2> QED  BY <1>1, <1>2, Division
<1>4. Pow2[0] = 1 /\ k \div 1 = k
    <2>1. Pow2[0] = 1  BY Pow2Rule
    <2> QED  BY <1>1, <2>1
<1>5. Indices[levels][k] = [i \in 1 .. Len(levels) |-> Index(levels, k, i)]
    BY DEF Indices, InLevels
<1>6. CASE levels = PageMap2
    <2>1. levels = <<ROOT_BITS, BITS - ROOT_BITS>>  BY <1>6 DEF PageMap2
    <2>2. Depth = 2 /\ Len(levels) = 2 /\ L = Pow2[levels[2]]  BY <2>1 DEF Depth, LEAF_LENGTH
    <2>3. Below(levels, 1) = levels[2] /\ Below(levels, 2) = 0  BY <2>2 DEF Below
    <2>4. Index(levels, k, 1) = q  BY <2>2, <2>3 DEF Index
    <2>5. Index(levels, k, 2) = r  BY <1>4, <2>2, <2>3 DEF Index
    <2>6. Indices[levels][k] = [i \in 1 .. 2 |-> IF i = 1 THEN q ELSE r]
        <3>1. \A i \in 1 .. 2 : i = 1 \/ i = 2  OBVIOUS
        <3> HIDE DEF q, r, L
        <3> QED  BY <1>5, <2>2, <2>4, <2>5, <3>1
    <2> HIDE DEF q, r
    <2> QED  BY <1>3, <2>2, <2>6 DEF LeafNumber, q, r
<1>7. CASE levels = PageMap3
    <2>1. levels = <<INTERIOR_BITS, INTERIOR_BITS, BITS - 2 * INTERIOR_BITS>>  BY <1>7 DEF PageMap3
    <2>2. Depth = 3 /\ Len(levels) = 3 /\ L = Pow2[levels[3]]  BY <2>1 DEF Depth, LEAF_LENGTH
    <2>3. /\ Below(levels, 1) = levels[2] + levels[3]
          /\ Below(levels, 2) = levels[3] /\ Below(levels, 3) = 0
        BY <2>2 DEF Below
    <2>4. levels[2] \in Nat /\ levels[3] \in Nat  BY <2>1, LevelBits
    <2>5. M \in Nat \ {0}  BY <2>4, Pow2Type
    <2>6. Index(levels, k, 1) = q \div M
        <3>1. Pow2[levels[2] + levels[3]] = M * L  BY <2>2, <2>4, Pow2Plus
        <3>2. Index(levels, k, 1) = k \div (M * L)  BY <2>3, <3>1 DEF Index
        <3> HIDE DEF M, L
        <3> QED  BY <1>1, <1>2, <2>5, <3>2, DivisionTwice
    <2>7. Index(levels, k, 2) = q % M  BY <2>2, <2>3 DEF Index
    <2>8. Index(levels, k, 3) = r  BY <1>4, <2>2, <2>3 DEF Index
    <2>9. Indices[levels][k] = [i \in 1 .. 3 |-> IF i = 1 THEN q \div M ELSE IF i = 2 THEN q % M ELSE r]
        <3>1. \A i \in 1 .. 3 : i = 1 \/ i = 2 \/ i = 3  OBVIOUS
        <3> HIDE DEF q, r, L, M
        <3> QED  BY <1>5, <2>2, <2>6, <2>7, <2>8, <3>1
    <2> HIDE DEF q, r, M
    <2> QED  BY <1>3, <2>2, <2>5, <2>9 DEF LeafNumber, q, r, M
<1> QED  BY <1>6, <1>7 DEF InLevels

\* The parts of a path.
LEMMA PathParts ==
    ASSUME InLevels, NEW k \in PageNumbers
    PROVE  /\ LeafOf(k) \in Seq(Nat) /\ Len(LeafOf(k)) = Depth - 1
           /\ Path(k, Depth) \in Seq(Nat) /\ Len(Path(k, Depth)) = Depth
           /\ \A i \in 1 .. Depth - 1 : /\ LeafOf(k)[i] = Indices[levels][k][i]
                                        /\ Path(k, Depth)[i] = Indices[levels][k][i]
           /\ Path(k, Depth)[Depth] = k % LEAF_LENGTH
<1> DEFINE s == Indices[levels][k]
           M == Pow2[levels[2]]
           q == LeafNumber(k)
           r == k % LEAF_LENGTH
<1>1. q \in Nat /\ r \in Nat
    <2>1. q \in Nat /\ r \in 0 .. LEAF_LENGTH - 1  BY IndicesOf
    <2> HIDE DEF q, r
    <2> QED  BY <2>1, LeafLength
<1>2. Depth \in {2, 3}  BY LeafLength
<1>3. \A i \in 1 .. Depth : s[i] \in Nat
    <2>1. CASE Depth = 2
        <3>1. s = [i \in 1 .. 2 |-> IF i = 1 THEN q ELSE r]  BY <2>1, IndicesOf
        <3> HIDE DEF s, q, r
        <3> QED  BY <1>1, <2>1, <3>1
    <2>2. CASE Depth = 3
        <3>1. M \in Nat \ {0}
              /\ s = [i \in 1 .. 3 |-> IF i = 1 THEN q \div M ELSE IF i = 2 THEN q % M ELSE r]
            BY <2>2, IndicesOf
        <3> HIDE DEF s, q, r, M
        <3>2. q \div M \in Nat /\ q % M \in 0 .. M - 1  BY <1>1, <3>1, Division
        <3>3. q % M \in Nat  BY <3>1, <3>2
        <3> QED  BY <1>1, <2>2, <3>1, <3>2, <3>3
    <2> QED  BY <1>2, <2>1, <2>2
<1>4. s[Depth] = r
    <2>1. CASE Depth = 2
        <3>1. s = [i \in 1 .. 2 |-> IF i = 1 THEN q ELSE r]  BY <2>1, IndicesOf
        <3> HIDE DEF s, q, r
        <3> QED  BY <2>1, <3>1
    <2>2. CASE Depth = 3
        <3>1. s = [i \in 1 .. 3 |-> IF i = 1 THEN q \div M ELSE IF i = 2 THEN q % M ELSE r]
            BY <2>2, IndicesOf
        <3> HIDE DEF s, q, r, M
        <3> QED  BY <2>2, <3>1
    <2> QED  BY <1>2, <2>1, <2>2
<1> HIDE DEF s, q, M
<1> DEFINE d == Depth
           full == SubSeq(s, 1, d)
           part == SubSeq(s, 1, d - 1)
<1>5. d \in Int /\ d - 1 \in Int /\ 1 \in Int /\ 1 <= d - 1 /\ 1 <= d  BY <1>2
<1>6. (\A i \in 1 .. d : s[i] \in Nat) /\ \A i \in 1 .. d - 1 : s[i] \in Nat
    BY <1>3, <1>5
<1> HIDE DEF d
<1>7. full \in Seq(Nat) /\ Len(full) = d /\ \A i \in 1 .. d : full[i] = s[i]
    <2>1. /\ full \in Seq(Nat) /\ Len(full) = IF 1 <= d THEN d - 1 + 1 ELSE 0
          /\ \A i \in 1 .. d - 1 + 1 : full[i] = s[1 + i - 1]
        BY <1>5, <1>6, SubSeqProperties
    <2>2. d - 1 + 1 = d /\ \A i \in 1 .. d : 1 + i - 1 = i  BY <1>5
    <2> HIDE DEF full
    <2> QED  BY <1>5, <2>1, <2>2
<1>8. part \in Seq(Nat) /\ Len(part) = d - 1 /\ \A i \in 1 .. d - 1 : part[i] = s[i]
    <2>1. /\ part \in Seq(Nat) /\ Len(part) = IF 1 <= d - 1 THEN (d - 1) - 1 + 1 ELSE 0
          /\ \A i \in 1 .. (d - 1) - 1 + 1 : part[i] = s[1 + i - 1]
        BY <1>5, <1>6, SubSeqProperties
    <2>2. (d - 1) - 1 + 1 = d - 1 /\ \A i \in 1 .. d - 1 : 1 + i - 1 = i  BY <1>5
    <2> HIDE DEF part
    <2> QED  BY <1>5, <2>1, <2>2
<1>9. Path(k, Depth) = full /\ LeafOf(k) = part  BY DEF LeafOf, Path, s, d
<1> HIDE DEF full, part
<1>10. full[d] = s[d] /\ \A i \in 1 .. d - 1 : full[i] = s[i]  BY <1>5, <1>7
<1> QED  BY <1>4, <1>7, <1>8, <1>9, <1>10 DEF d, s

\* Pages are of one leaf when their leaf numbers are one.
LEMMA SameLeaf ==
    ASSUME InLevels, NEW k \in PageNumbers, NEW j \in PageNumbers
    PROVE  LeafOf(k) = LeafOf(j) <=> LeafNumber(k) = LeafNumber(j)
<1> DEFINE s == Indices[levels][k]
           t == Indices[levels][j]
           M == Pow2[levels[2]]
           q == LeafNumber(k)
           p == LeafNumber(j)
           r == k % LEAF_LENGTH
           u == j % LEAF_LENGTH
           leaf == LeafOf(k)
           other == LeafOf(j)
           d == Depth
<1>1. leaf \in Seq(Nat) /\ Len(leaf) = d - 1 /\ other \in Seq(Nat) /\ Len(other) = d - 1
    BY PathParts
<1>2. \A i \in 1 .. d - 1 : leaf[i] = s[i] /\ other[i] = t[i]  BY PathParts
<1>3. d \in {2, 3}  BY LeafLength
<1>4. q \in Nat /\ p \in Nat  BY IndicesOf
<1>5. leaf = other <=> \A i \in 1 .. d - 1 : s[i] = t[i]
    <2> HIDE DEF leaf, other, s, t, d
    <2>1. leaf = other => \A i \in 1 .. d - 1 : s[i] = t[i]  BY <1>2
    <2>2. ASSUME \A i \in 1 .. d - 1 : s[i] = t[i] PROVE leaf = other
        <3>1. Len(leaf) = Len(other) /\ \A i \in 1 .. Len(leaf) : leaf[i] = other[i]
            BY <1>1, <1>2, <2>2
        <3> QED  BY <1>1, <3>1, SeqEqual
    <2> QED  BY <2>1, <2>2
<1>6. CASE d = 2
    <2>1. s = [i \in 1 .. 2 |-> IF i = 1 THEN q ELSE r] /\ t = [i \in 1 .. 2 |-> IF i = 1 THEN p ELSE u]
        BY <1>6, IndicesOf
    <2> HIDE DEF s, t, q, p, r, u, leaf, other, d
    <2>2. s[1] = q /\ t[1] = p /\ \A i \in 1 .. d - 1 : i = 1  BY <1>6, <2>1
    <2>3. 1 \in 1 .. d - 1  BY <1>6
    <2>4. leaf = other <=> q = p  BY <1>5, <2>2, <2>3
    <2> QED  BY <2>4 DEF leaf, other, q, p
<1>7. CASE d = 3
    <2>1. M \in Nat \ {0}
          /\ s = [i \in 1 .. 3 |-> IF i = 1 THEN q \div M ELSE IF i = 2 THEN q % M ELSE r]
          /\ t = [i \in 1 .. 3 |-> IF i = 1 THEN p \div M ELSE IF i = 2 THEN p % M ELSE u]
        BY <1>7, IndicesOf
    <2> HIDE DEF s, t, q, p, r, u, M, leaf, other, d
    <2>2. /\ s[1] = q \div M /\ t[1] = p \div M /\ s[2] = q % M /\ t[2] = p % M
          /\ \A i \in 1 .. d - 1 : i = 1 \/ i = 2
        BY <1>7, <2>1
    <2>3. 1 \in 1 .. d - 1 /\ 2 \in 1 .. d - 1  BY <1>7
    <2>4. leaf = other <=> (q \div M = p \div M /\ q % M = p % M)  BY <1>5, <2>2, <2>3
    <2>5. q = (q \div M) * M + (q % M) /\ p = (p \div M) * M + (p % M)  BY <1>4, <2>1, Division
    <2>6. leaf = other <=> q = p  BY <2>4, <2>5
    <2> QED  BY <2>6 DEF leaf, other, q, p
<1> QED  BY <1>3, <1>6, <1>7

\* No two pages share a slot.
LEMMA SlotsDiffer ==
    ASSUME InLevels, NEW k \in PageNumbers, NEW j \in PageNumbers, Path(k, Depth) = Path(j, Depth)
    PROVE  k = j
<1>1. Depth \in {2, 3}  BY LeafLength
<1>2. k % LEAF_LENGTH = j % LEAF_LENGTH  BY PathParts
<1>3. LeafOf(k) = LeafOf(j)
    <2> DEFINE leaf == LeafOf(k)
               other == LeafOf(j)
    <2>1. /\ leaf \in Seq(Nat) /\ Len(leaf) = Depth - 1
          /\ other \in Seq(Nat) /\ Len(other) = Depth - 1
        BY PathParts
    <2>2. \A i \in 1 .. Depth - 1 : leaf[i] = Path(k, Depth)[i] /\ other[i] = Path(j, Depth)[i]
        BY PathParts
    <2>3. \A i \in 1 .. Len(leaf) : leaf[i] = other[i]  BY <2>1, <2>2
    <2> HIDE DEF leaf, other
    <2>4. leaf = other  BY <2>1, <2>3, SeqEqual
    <2> QED  BY <2>4 DEF leaf, other
<1>4. LeafNumber(k) = LeafNumber(j)  BY <1>3, SameLeaf
<1>5. /\ k = LeafNumber(k) * LEAF_LENGTH + (k % LEAF_LENGTH)
      /\ j = LeafNumber(j) * LEAF_LENGTH + (j % LEAF_LENGTH)
    BY IndicesOf
<1> QED  BY <1>2, <1>4, <1>5

\* A page's slot is one of its leaf, and of no other node of a leaf's depth.
LEMMA SlotOfLeaf ==
    ASSUME InLevels, NEW k \in PageNumbers
    PROVE  /\ Path(k, Depth) \in SlotsOf(LeafOf(k))
           /\ \A n \in Seq(Nat) : Len(n) = Depth - 1 /\ Path(k, Depth) \in SlotsOf(n) => n = LeafOf(k)
<1> DEFINE d == Depth
           leaf == LeafOf(k)
           slot == Path(k, Depth)
           L == LEAF_LENGTH
           r == k % L
<1>1. /\ leaf \in Seq(Nat) /\ Len(leaf) = d - 1 /\ slot \in Seq(Nat) /\ Len(slot) = d
      /\ \A i \in 1 .. d - 1 : leaf[i] = slot[i]
      /\ slot[d] = r
    BY PathParts
<1>2. d \in {2, 3} /\ L \in Nat \ {0}  BY LeafLength
<1>3. r \in 0 .. L - 1
    <2>1. k \in Nat  BY LevelBits
    <2> HIDE DEF L
    <2> QED  BY <1>2, <2>1, Division
<1>4. \A n : SlotsOf(n) = {Append(n, i) : i \in 0 .. L - 1}  BY DEF SlotsOf
<1> HIDE DEF d, leaf, slot, L, r
<1>5. slot = Append(leaf, r)
    <2> DEFINE a == Append(leaf, r)
    <2>1. r \in Nat  BY <1>2, <1>3
    <2>2. a \in Seq(Nat) /\ Len(a) = d /\ a[d] = r /\ \A i \in 1 .. d - 1 : a[i] = leaf[i]
        BY <1>1, <1>2, <2>1, AppendProperties
    <2>3. \A i \in 1 .. d : a[i] = slot[i]
        <3>1. \A i \in 1 .. d : i = d \/ i \in 1 .. d - 1  BY <1>2
        <3> QED  BY <1>1, <2>2, <3>1
    <2> HIDE DEF a
    <2>4. slot = a  BY <1>1, <2>2, <2>3, SeqEqual
    <2> QED  BY <2>4 DEF a
<1>6. ASSUME NEW n \in Seq(Nat), Len(n) = d - 1, slot \in SlotsOf(n)
      PROVE  n = leaf
    <2>1. PICK i \in 0 .. L - 1 : slot = Append(n, i)  BY <1>4, <1>6
    <2>2. i \in Nat  BY <1>2
    <2>3. \A x \in 1 .. d - 1 : Append(n, i)[x] = n[x]  BY <1>6, <2>2, AppendProperties
    <2>4. \A x \in 1 .. Len(leaf) : n[x] = leaf[x]  BY <1>1, <2>1, <2>3
    <2> QED  BY <1>1, <1>6, <2>4, SeqEqual
<1> QED  BY <1>3, <1>4, <1>5, <1>6 DEF d, leaf, slot

-----------------------------------------------------------------------------
(* The page map: its invariant, and that it is a map.                        *)

\* Of the pages before the one it has come to, an Ensure that is under way has
\* made the leaves.
EnsureKept ==
    ensuring # None =>
        /\ ensuring \in [start : Nat, key : Nat, last : PageNumbers]
        /\ \A k \in ensuring.start .. ensuring.last : k < ensuring.key => LeafOf(k) \in nodes

\* A leaf that is there has its slots.
SlotsThere == \A k \in PageNumbers : LeafOf(k) \in nodes => Path(k, Depth) \in DOMAIN values

PageMapInv ==
    /\ InLevels
    /\ ensured \subseteq PageNumbers
    /\ EnsureKept
    /\ SlotsThere
    /\ EnsuredReached

LEMMA InitPageMap == Init_P => PageMapInv
<1> SUFFICES ASSUME Init_P PROVE PageMapInv  OBVIOUS
<1>1. InLevels  BY DEF Init_P, InLevels
<1>2. \A k \in PageNumbers : LeafOf(k) \notin nodes
    <2> SUFFICES ASSUME NEW k \in PageNumbers PROVE LeafOf(k) # <<>>  BY DEF Init_P
    <2>1. Len(LeafOf(k)) = Depth - 1 /\ Depth \in {2, 3}  BY <1>1, PathParts, LeafLength
    <2>2. Len(LeafOf(k)) # 0  BY <2>1
    <2>3. Len(<<>>) = 0  OBVIOUS
    <2> QED  BY <2>2, <2>3
<1> QED  BY <1>1, <1>2 DEF PageMapInv, Init_P, EnsureKept, SlotsThere, EnsuredReached

\* Where a page's slot is does not change.
LEMMA PathsSame ==
    ASSUME levels' = levels
    PROVE  /\ InLevels => InLevels'
           /\ Depth' = Depth
           /\ \A k : LeafOf(k)' = LeafOf(k) /\ Path(k, Depth)' = Path(k, Depth)
BY DEF InLevels, Depth, LeafOf, Path

\* What get gives, as the abstract map has it.
PageContents == [k \in PageNumbers |-> IF LeafOf(k) \in nodes THEN get(k) ELSE None]

\* Steps that touch no node and no slot.
LEMMA NodesKept ==
    ASSUME PageMapInv, UNCHANGED <<levels, nodes, values>>
    PROVE  SlotsThere' /\ PageContents' = PageContents
<1>1. \A k : LeafOf(k)' = LeafOf(k) /\ Path(k, Depth)' = Path(k, Depth)  BY PathsSame
<1> QED  BY <1>1 DEF PageMapInv, SlotsThere, PageContents, get

LEMMA EnsureStep ==
    ASSUME PageMapInv, NEW start \in Nat, NEW n \in Nat,
           start + n - 1 \in PageNumbers, Ensure(start, n)
    PROVE  PageMapInv' /\ PageContents' = PageContents
<1>1. UNCHANGED <<levels, nodes, values, ensured>>  BY DEF Ensure
<1>2. ensuring' = [start |-> start, key |-> start, last |-> start + n - 1]  BY DEF Ensure
<1>3. EnsureKept'
    <2>1. ensuring'.start = start /\ ensuring'.key = start /\ ensuring'.last = start + n - 1
        BY <1>2
    <2>2. \A k \in start .. start + n - 1 : ~ (k < start)  OBVIOUS
    <2>3. ensuring' \in [start : Nat, key : Nat, last : PageNumbers]  BY <1>2
    <2> QED  BY <2>1, <2>2, <2>3 DEF EnsureKept, PageNumbers
<1>4. \A k : LeafOf(k)' = LeafOf(k)  BY <1>1, PathsSame
<1> QED  BY <1>1, <1>3, <1>4, NodesKept, PathsSame DEF PageMapInv, EnsuredReached, PageNumbers

LEMMA EnsurePages ==
    ASSUME PageMapInv,
           \/ \E start \in Pages, n \in 1 .. MaxLength :
                 start .. start + n - 1 \subseteq Pages /\ Ensure(start, n)
           \/ PreallocateMoreMemory
    PROVE  PageMapInv' /\ PageContents' = PageContents
<1>1. Pages \subseteq PageNumbers /\ PageNumbers \subseteq Nat /\ MaxLength \in Nat
    BY BitsAssumption, LevelBits DEF PageNumbers
<1>2. ASSUME NEW start \in Pages, NEW n \in 1 .. MaxLength,
             start .. start + n - 1 \subseteq Pages, Ensure(start, n)
      PROVE  PageMapInv' /\ PageContents' = PageContents
    <2>1. start \in Nat /\ n \in Nat /\ n >= 1  BY <1>1
    <2>2. start + n - 1 \in start .. start + n - 1  BY <2>1
    <2>3. start + n - 1 \in PageNumbers  BY <1>1, <1>2, <2>2
    <2> QED  BY <1>2, <2>1, <2>3, EnsureStep
<1>3. ASSUME PreallocateMoreMemory PROVE PageMapInv' /\ PageContents' = PageContents
    <2>1. Ensure(0, Pow2[BITS])  BY <1>3 DEF PreallocateMoreMemory
    <2>2. Pow2[BITS] \in Nat \ {0}  BY BitsAssumption, Pow2Type
    <2>3. 0 + Pow2[BITS] - 1 \in PageNumbers  BY <2>2 DEF PageNumbers
    <2> QED  BY <2>1, <2>2, <2>3, EnsureStep
<1> QED  BY <1>2, <1>3

\* The first that is missing of a set of levels.
LEMMA LeastIn ==
    ASSUME NEW T \in SUBSET Nat, T # {}
    PROVE  Min(T) \in T
<1>1. \E x \in T : \A y \in T : x <= y  BY LeastNat
<1> QED  BY <1>1 DEF Min

LEMMA NewNodeStep ==
    ASSUME PageMapInv, NewNode
    PROVE  PageMapInv' /\ PageContents' = PageContents
<1> DEFINE key == ensuring.key
           i == Min(Missing(key))
           n == Path(key, i)
<1>1. /\ ensuring # None /\ key <= ensuring.last /\ Missing(key) # {}
      /\ UNCHANGED <<levels, ensuring, ensured>>
      /\ nodes' = nodes \cup {n}
      /\ values' = IF Len(n) < Depth - 1 THEN values
                   ELSE [s \in DOMAIN values \cup SlotsOf(n) |-> IF s \in SlotsOf(n) THEN None ELSE values[s]]
    BY DEF NewNode
<1>2. InLevels /\ Depth \in {2, 3}  BY LeafLength DEF PageMapInv
<1>3. key \in PageNumbers
    <2>1. key \in Nat /\ ensuring.last \in PageNumbers  BY <1>1 DEF PageMapInv, EnsureKept
    <2>2. Pow2[BITS] \in Nat  BY BitsAssumption, Pow2Type
    <2> QED  BY <1>1, <2>1, <2>2 DEF PageNumbers
<1>4. i \in 1 .. Depth - 1 /\ n \notin nodes
    <2>1. Missing(key) \subseteq Nat  BY <1>2 DEF Missing
    <2>2. i \in Missing(key)  BY <1>1, <2>1, LeastIn
    <2> QED  BY <2>2 DEF Missing
<1> HIDE DEF i
<1>5. n \in Seq(Nat) /\ Len(n) = i
    <2> DEFINE s == Indices[levels][key]
               full == Path(key, Depth)
    <2>1. full \in Seq(Nat) /\ Len(full) = Depth /\ full[Depth] \in Nat
        <3>1. full \in Seq(Nat) /\ Len(full) = Depth  BY <1>2, <1>3, PathParts
        <3>2. Depth \in 1 .. Len(full)  BY <1>2, <3>1
        <3> QED  BY <3>1, <3>2, ElementOfSeq
    <2>2. \A x \in 1 .. Depth - 1 : full[x] = s[x]  BY <1>2, <1>3, PathParts
    <2>3. ASSUME NEW x \in 1 .. i PROVE s[x] \in Nat
        <3>1. x \in 1 .. Depth - 1 /\ x \in 1 .. Len(full)  BY <1>2, <1>4, <2>1
        <3> QED  BY <2>1, <2>2, <3>1, ElementOfSeq
    <2>4. 1 \in Int /\ i \in Int /\ 1 <= i /\ i - 1 + 1 = i  BY <1>2, <1>4
    <2> HIDE DEF s
    <2>5. SubSeq(s, 1, i) \in Seq(Nat) /\ Len(SubSeq(s, 1, i)) = IF 1 <= i THEN i - 1 + 1 ELSE 0
        BY <2>3, <2>4, SubSeqProperties
    <2> QED  BY <2>4, <2>5 DEF Path, s
<1>6. \A k : LeafOf(k)' = LeafOf(k) /\ Path(k, Depth)' = Path(k, Depth)  BY <1>1, PathsSame
<1> HIDE DEF n, key
<1>7. \A k \in PageNumbers : LeafOf(k) \in nodes =>
            /\ Path(k, Depth) \in DOMAIN values' /\ values'[Path(k, Depth)] = values[Path(k, Depth)]
    <2> SUFFICES ASSUME NEW k \in PageNumbers, LeafOf(k) \in nodes
                 PROVE  /\ Path(k, Depth) \in DOMAIN values'
                        /\ values'[Path(k, Depth)] = values[Path(k, Depth)]
        OBVIOUS
    <2>1. Path(k, Depth) \in DOMAIN values  BY DEF PageMapInv, SlotsThere
    <2>2. CASE Len(n) < Depth - 1  BY <1>1, <2>1, <2>2
    <2>3. CASE ~ (Len(n) < Depth - 1)
        <3>1. Len(n) = Depth - 1  BY <1>2, <1>4, <1>5, <2>3
        <3>2. Path(k, Depth) \notin SlotsOf(n)
            BY <1>2, <1>4, <1>5, <3>1, SlotOfLeaf
        <3> QED  BY <1>1, <2>1, <2>3, <3>2
    <2> QED  BY <2>2, <2>3
<1>8. \A k \in PageNumbers : LeafOf(k) \notin nodes /\ LeafOf(k) \in nodes' =>
            /\ Path(k, Depth) \in DOMAIN values' /\ values'[Path(k, Depth)] = None
    <2> SUFFICES ASSUME NEW k \in PageNumbers, LeafOf(k) \notin nodes, LeafOf(k) \in nodes'
                 PROVE  /\ Path(k, Depth) \in DOMAIN values'
                        /\ values'[Path(k, Depth)] = None
        OBVIOUS
    <2>1. LeafOf(k) = n  BY <1>1
    <2>2. Len(n) = Depth - 1  BY <1>2, <2>1, PathParts
    <2>3. ~ (Len(n) < Depth - 1)  BY <1>2, <2>2
    <2>4. Path(k, Depth) \in SlotsOf(n)  BY <1>2, <2>1, SlotOfLeaf
    <2> QED  BY <1>1, <2>3, <2>4
<1>9. SlotsThere'  BY <1>6, <1>7, <1>8 DEF SlotsThere
<1>10. PageContents' = PageContents
    <2>1. \A k \in PageNumbers : get(k)' = values'[Path(k, Depth)]  BY <1>6 DEF get
    <2>2. nodes \subseteq nodes'  BY <1>1
    <2>3. \A k \in PageNumbers :
             (IF LeafOf(k) \in nodes' THEN get(k)' ELSE None) = (IF LeafOf(k) \in nodes THEN get(k) ELSE None)
        BY <1>7, <1>8, <2>1, <2>2 DEF get
    <2>4. PageContents' = [k \in PageNumbers |-> IF LeafOf(k) \in nodes' THEN get(k)' ELSE None]
        BY <1>6 DEF PageContents
    <2>5. PageContents = [k \in PageNumbers |-> IF LeafOf(k) \in nodes THEN get(k) ELSE None]
        BY DEF PageContents
    <2> QED  BY <2>3, <2>4, <2>5
<1>11. EnsureKept' /\ EnsuredReached'
    BY <1>1, <1>6 DEF PageMapInv, EnsureKept, EnsuredReached
<1> QED  BY <1>1, <1>2, <1>9, <1>10, <1>11, PathsSame DEF PageMapInv, PageNumbers

\* From a page to the first of the next leaf, every page is of the leaf that is
\* there.
LEMMA NextLeafStep ==
    ASSUME PageMapInv, NextLeaf
    PROVE  PageMapInv' /\ PageContents' = PageContents
<1> DEFINE key == ensuring.key
           L == LEAF_LENGTH
           q == key \div L
<1>1. /\ ensuring # None /\ key <= ensuring.last /\ Missing(key) = {}
      /\ UNCHANGED <<levels, nodes, values, ensured>>
      /\ ensuring' = [ensuring EXCEPT !.key = NextKey(key)]
    BY DEF NextLeaf
<1>2. InLevels /\ Depth \in {2, 3} /\ L \in Nat \ {0}  BY LeafLength DEF PageMapInv
<1>3. key \in PageNumbers /\ key \in Nat /\ ensuring.last \in PageNumbers /\ ensuring.start \in Nat
    <2>1. key \in Nat /\ ensuring.last \in PageNumbers /\ ensuring.start \in Nat
        BY <1>1 DEF PageMapInv, EnsureKept
    <2>2. Pow2[BITS] \in Nat  BY BitsAssumption, Pow2Type
    <2> QED  BY <1>1, <2>1, <2>2 DEF PageNumbers
<1>4. LeafOf(key) \in nodes
    <2>1. Depth - 1 \in 1 .. Depth - 1  BY <1>2
    <2> QED  BY <1>1, <2>1 DEF Missing, LeafOf
<1>5. NextKey(key) = (q + 1) * L  BY DEF NextKey
<1> HIDE DEF L
<1>6. q \in Nat /\ (q + 1) * L \in Nat /\ q * L <= key /\ q * L \in Nat
    <2>1. q \in Nat  BY <1>2, <1>3, Division
    <2> HIDE DEF q
    <2>2. key \div L = q  BY DEF q
    <2> QED  BY <1>2, <1>3, <2>1, <2>2, DivisionOrdered
<1> HIDE DEF q
<1>7. \A k : LeafOf(k)' = LeafOf(k)  BY <1>1, PathsSame
<1>8. EnsureKept'
    <2>1. ensuring \in [start : Nat, key : Nat, last : PageNumbers]
        BY <1>1 DEF PageMapInv, EnsureKept
    <2>2. /\ ensuring'.start = ensuring.start /\ ensuring'.last = ensuring.last
          /\ ensuring'.key = (q + 1) * L
        BY <1>1, <1>5, <2>1
    <2>3. ensuring' \in [start : Nat, key : Nat, last : PageNumbers]
        BY <1>1, <1>5, <1>6, <2>1
    <2>4. ASSUME NEW k \in ensuring.start .. ensuring.last, k < (q + 1) * L
          PROVE  LeafOf(k) \in nodes
        <3>1. k \in PageNumbers /\ k \in Nat
            <4>1. Pow2[BITS] \in Nat  BY BitsAssumption, Pow2Type
            <4> QED  BY <1>3, <4>1 DEF PageNumbers
        <3>2. CASE k < key  BY <1>1, <3>2 DEF PageMapInv, EnsureKept
        <3>3. CASE key <= k
            <4>1. q * L <= k  BY <1>3, <1>6, <3>1, <3>3
            <4>2. k \div L = q  BY <1>2, <1>6, <2>4, <3>1, <4>1, DivisionOrdered
            <4>3. LeafNumber(k) = LeafNumber(key)  BY <4>2 DEF LeafNumber, L, q
            <4>4. LeafOf(k) = LeafOf(key)  BY <1>2, <1>3, <3>1, <4>3, SameLeaf
            <4> QED  BY <1>4, <4>4
        <3> QED  BY <1>3, <3>1, <3>2, <3>3
    <2> QED  BY <1>1, <1>7, <2>2, <2>3, <2>4 DEF EnsureKept, PageNumbers
<1> QED  BY <1>1, <1>2, <1>7, <1>8, NodesKept, PathsSame DEF PageMapInv, EnsuredReached, PageNumbers

LEMMA EndStep ==
    ASSUME PageMapInv, NoMemory \/ Ensured
    PROVE  PageMapInv' /\ PageContents' = PageContents
<1>1. UNCHANGED <<levels, nodes, values>> /\ ensuring' = None  BY DEF NoMemory, Ensured
<1>2. \A k : LeafOf(k)' = LeafOf(k)  BY <1>1, PathsSame
<1>3. EnsureKept'  BY <1>1 DEF EnsureKept
<1>4. CASE NoMemory
    BY <1>1, <1>2, <1>3, <1>4, NodesKept, PathsSame
    DEF NoMemory, PageMapInv, EnsuredReached, PageNumbers
<1>5. CASE Ensured
    <2>1. /\ ensuring # None /\ ensuring.key > ensuring.last
          /\ ensured' = ensured \cup ensuring.start .. ensuring.last
        BY <1>5 DEF Ensured
    <2>2. /\ ensuring \in [start : Nat, key : Nat, last : PageNumbers]
          /\ \A k \in ensuring.start .. ensuring.last : k < ensuring.key => LeafOf(k) \in nodes
        BY <2>1 DEF PageMapInv, EnsureKept
    <2>3. /\ ensuring.start \in Nat /\ ensuring.key \in Nat /\ ensuring.last \in PageNumbers
          /\ ensuring.last \in Nat
        BY <2>2, LevelBits
    <2>4. \A k \in ensuring.start .. ensuring.last : LeafOf(k) \in nodes /\ k \in PageNumbers
        <3> SUFFICES ASSUME NEW k \in ensuring.start .. ensuring.last
                     PROVE  LeafOf(k) \in nodes /\ k \in PageNumbers
            OBVIOUS
        <3>1. k < ensuring.key  BY <2>1, <2>3
        <3>2. k \in PageNumbers
            <4>1. Pow2[BITS] \in Nat  BY BitsAssumption, Pow2Type
            <4> QED  BY <2>3, <4>1 DEF PageNumbers
        <3> QED  BY <2>2, <3>1, <3>2
    <2> QED  BY <1>1, <1>2, <1>3, <2>1, <2>4, NodesKept, PathsSame
             DEF PageMapInv, EnsuredReached, PageNumbers
<1> QED  BY <1>4, <1>5

LEMMA SetStep ==
    ASSUME PageMapInv, NEW k \in Pages, NEW v \in Spans, set(k, v)
    PROVE  PageMapInv' /\ PagesMap!Next
<1>1. /\ k \in ensured /\ UNCHANGED <<levels, nodes, ensuring, ensured>>
      /\ values' = [values EXCEPT ![Path(k, Depth)] = v]
    BY DEF set
<1>2. InLevels /\ k \in PageNumbers /\ LeafOf(k) \in nodes
    BY <1>1 DEF PageMapInv, EnsuredReached
<1>3. Path(k, Depth) \in DOMAIN values  BY <1>2 DEF PageMapInv, SlotsThere
<1>4. \A j : LeafOf(j)' = LeafOf(j) /\ Path(j, Depth)' = Path(j, Depth)  BY <1>1, PathsSame
<1>5. DOMAIN values' = DOMAIN values  BY <1>1
<1>6. PageMapInv'
    BY <1>1, <1>4, <1>5, PathsSame
    DEF PageMapInv, SlotsThere, EnsuredReached, EnsureKept, PageNumbers
<1>7. \A j \in PageNumbers : LeafOf(j) \in nodes =>
          values'[Path(j, Depth)] = IF j = k THEN v ELSE values[Path(j, Depth)]
    <2> SUFFICES ASSUME NEW j \in PageNumbers, LeafOf(j) \in nodes
                 PROVE  values'[Path(j, Depth)] = IF j = k THEN v ELSE values[Path(j, Depth)]
        OBVIOUS
    <2>1. Path(j, Depth) \in DOMAIN values  BY DEF PageMapInv, SlotsThere
    <2>2. j # k => Path(j, Depth) # Path(k, Depth)  BY <1>2, SlotsDiffer
    <2> HIDE DEF PageNumbers
    <2> QED  BY <1>1, <1>3, <2>1, <2>2
<1>8. PagesMap!Put(k, v)
    <2>1. PageContents' = [PageContents EXCEPT ![k] = v]
        <3>1. PageContents' = [j \in PageNumbers |-> IF LeafOf(j) \in nodes THEN values'[Path(j, Depth)] ELSE None]
            BY <1>1, <1>4 DEF PageContents, get
        <3>2. PageContents = [j \in PageNumbers |-> IF LeafOf(j) \in nodes THEN values[Path(j, Depth)] ELSE None]
            BY DEF PageContents, get
        <3> QED  BY <1>2, <1>7, <3>1, <3>2
    <2> QED  BY <2>1 DEF PagesMap!Put, PageContents
<1> QED  BY <1>2, <1>6, <1>8 DEF PagesMap!Next

LEMMA PageMapStep ==
    ASSUME PageMapInv, Next_P \/ UNCHANGED vars_P
    PROVE  PageMapInv' /\ (PageContents' = PageContents \/ PagesMap!Next)
<1>1. CASE UNCHANGED vars_P
    <2>1. UNCHANGED <<levels, nodes, values, ensuring, ensured>>  BY <1>1 DEF vars_P
    <2>2. \A k : LeafOf(k)' = LeafOf(k)  BY <2>1, PathsSame
    <2> QED  BY <2>1, <2>2, NodesKept, PathsSame
             DEF PageMapInv, EnsuredReached, EnsureKept, PageNumbers
<1>2. ASSUME \E k \in Pages, v \in Spans : set(k, v)
      PROVE  PageMapInv' /\ PagesMap!Next
    BY <1>2, SetStep
<1> QED  BY <1>1, <1>2, EnsurePages, NewNodeStep, NextLeafStep, EndStep DEF Next_P

LEMMA PageMapStart == Init_P => PagesMap!Init
<1> SUFFICES ASSUME Init_P PROVE PagesMap!Init  OBVIOUS
<1>1. InLevels  BY DEF Init_P, InLevels
<1>2. \A k \in PageNumbers : LeafOf(k) \notin nodes
    <2> SUFFICES ASSUME NEW k \in PageNumbers PROVE LeafOf(k) # <<>>  BY DEF Init_P
    <2>1. Len(LeafOf(k)) = Depth - 1 /\ Depth \in {2, 3}  BY <1>1, PathParts, LeafLength
    <2>2. Len(LeafOf(k)) # 0  BY <2>1
    <2>3. Len(<<>>) = 0  OBVIOUS
    <2> QED  BY <2>2, <2>3
<1> QED  BY <1>2 DEF PagesMap!Init

\* While another structure is used, the page map does not change.
LEMMA PageMapNext ==
    ASSUME PageMapInv, [Next]_vars
    PROVE  PageMapInv' /\ (PageContents' = PageContents \/ PagesMap!Next)
<1>1. Next_P \/ UNCHANGED vars_P  BY DEF Next, vars
<1> QED  BY <1>1, PageMapStep

\* The page map keeps its invariant: an Ensure that has come to a page has made
\* the leaves of those before it, and a leaf that is there has its slots.
THEOREM PageMapInvariance == Spec => []PageMapInv
<1>1. Init => PageMapInv  BY InitPageMap DEF Init
<1>2. PageMapInv /\ [Next]_vars => PageMapInv'  BY PageMapNext
<1> QED  BY <1>1, <1>2, PTL DEF Spec

\* For any widths of the page number and of the levels, and wherever in a leaf a
\* region begins or ends: a page for which Ensure returned true has its leaf.
THEOREM EnsuredReachedHolds == Spec => []EnsuredReached
<1>1. PageMapInv => EnsuredReached  BY DEF PageMapInv
<1> QED  BY <1>1, PageMapInvariance, PTL

\* The radix tree is a map from page numbers, in which set changes one page and
\* Ensure none.
THEOREM PageMapRefines == Spec => PageMapIsMap
<1>1. Init => PagesMap!Init  BY PageMapStart DEF Init
<1>2. PageMapInv /\ [Next]_vars => [PagesMap!Next]_PageContents
    BY PageMapNext
<1> QED  BY <1>1, <1>2, PageMapInvariance, PTL DEF Spec, PageMapIsMap, PagesMap!Spec, PageContents

-----------------------------------------------------------------------------
(* The allocators of the allocator's own objects.                            *)

Objects(a) == held[a] \cup ToSet(free_list[a])
Area(a) == Bytes(free_area[a], free_avail[a])
Piece(a, p) == Bytes(p, kAlignedSize[a])

MetaTypes ==
    /\ chunks \in [Allocators -> SUBSET Nat]
    /\ free_area \in [Allocators -> Nat] /\ free_avail \in [Allocators -> Nat]
    /\ free_list \in [Allocators -> Seq(Nat)] /\ held \in [Allocators -> SUBSET Nat]

ListsRight ==
    \A a \in Allocators : NoTwice(free_list[a]) /\ held[a] \cap ToSet(free_list[a]) = {}

\* The system gives no memory twice.
ChunksApart ==
    \A a, b \in Allocators : \A c \in chunks[a], d \in chunks[b] :
        (a = b /\ c = d) \/ Bytes(c, kAllocIncrement) \cap Bytes(d, kAllocIncrement) = {}

InChunk(a, x) == \E c \in chunks[a] : x \subseteq Bytes(c, kAllocIncrement)

\* Objects, and what is left of the last chunk, are in chunks of their allocator.
Inside ==
    \A a \in Allocators :
        /\ \A p \in Objects(a) : InChunk(a, Piece(a, p))
        /\ Area(a) # {} => InChunk(a, Area(a))

\* What one allocator has does not overlap.
OwnApart ==
    \A a \in Allocators :
        /\ \A p, q \in Objects(a) : p = q \/ Piece(a, p) \cap Piece(a, q) = {}
        /\ \A p \in Objects(a) : Piece(a, p) \cap Area(a) = {}

MetaInv == MetaTypes /\ ListsRight /\ ChunksApart /\ Inside /\ OwnApart

LEMMA MetaSizes ==
    /\ kAllocIncrement \in Nat
    /\ \A a \in Allocators : kAlignedSize[a] \in Nat \ {0} /\ kAlignedSize[a] <= kAllocIncrement
BY SizeAssumption

LEMMA InitMeta == Init_M => MetaInv
<1> SUFFICES ASSUME Init_M PROVE MetaInv  OBVIOUS
<1>1. MetaTypes  BY DEF Init_M, MetaTypes
<1>2. \A a \in Allocators : /\ held[a] = {} /\ free_list[a] = <<>> /\ chunks[a] = {}
                            /\ free_area[a] = 0 /\ free_avail[a] = 0
    BY DEF Init_M
<1>3. \A a \in Allocators : ToSet(free_list[a]) = {}  BY <1>2, EmptySeq, Members
<1>4. \A a \in Allocators : Objects(a) = {} /\ Area(a) = {}
    <2>1. Bytes(0, 0) = {}  BY DEF Bytes
    <2> QED  BY <1>2, <1>3, <2>1 DEF Objects, Area
<1>5. ListsRight  BY <1>2, <1>3 DEF ListsRight, NoTwice
<1> QED  BY <1>1, <1>2, <1>4, <1>5 DEF MetaInv, ChunksApart, Inside, OwnApart

\* What a step does with the memory of one allocator a: nothing new, ...
GivesNothing(a) ==
    Objects(a)' \subseteq Objects(a) /\ Area(a)' = Area(a) /\ chunks'[a] = chunks[a]
\* ... an object out of its area, ...
GivesPart(a, p) ==
    /\ Objects(a)' = Objects(a) \cup {p} /\ chunks'[a] = chunks[a]
    /\ Area(a) = Piece(a, p) \cup Area(a)' /\ Piece(a, p) \cap Area(a)' = {}
    /\ Area(a) # {}
\* ... or an object out of a new chunk, where the area now is.
GivesChunk(a, at) ==
    /\ at \in Regions(Chunks) /\ chunks'[a] = chunks[a] \cup {at}
    /\ Objects(a)' = Objects(a) \cup {at}
    /\ Piece(a, at) \cup Area(a)' \subseteq Bytes(at, kAllocIncrement)
    /\ Piece(a, at) \cap Area(a)' = {}

\* Of the others nothing changes.
OthersKept(a) ==
    \A b \in Allocators \ {a} :
        Objects(b)' = Objects(b) /\ Area(b)' = Area(b) /\ chunks'[b] = chunks[b]

LEMMA MemoryStep ==
    ASSUME MetaInv, NEW a \in Allocators, OthersKept(a),
           GivesNothing(a) \/ (\E p : GivesPart(a, p)) \/ (\E at : GivesChunk(a, at))
    PROVE  ChunksApart' /\ Inside' /\ OwnApart'
<1>0. Inside /\ OwnApart /\ ChunksApart  BY DEF MetaInv
<1>1. ASSUME NEW b \in Allocators \ {a}
      PROVE  /\ \A p \in Objects(b)' : InChunk(b, Piece(b, p))'
             /\ Area(b)' # {} => InChunk(b, Area(b))'
             /\ \A p, q \in Objects(b)' : p = q \/ Piece(b, p) \cap Piece(b, q) = {}
             /\ \A p \in Objects(b)' : Piece(b, p) \cap Area(b)' = {}
    BY <1>0, <1>1 DEF OthersKept, Inside, OwnApart, InChunk, Piece
<1>2. ASSUME GivesNothing(a) PROVE ChunksApart' /\ Inside' /\ OwnApart'
    <2>1. /\ \A p \in Objects(a)' : InChunk(a, Piece(a, p))'
          /\ Area(a)' # {} => InChunk(a, Area(a))'
          /\ \A p, q \in Objects(a)' : p = q \/ Piece(a, p) \cap Piece(a, q) = {}
          /\ \A p \in Objects(a)' : Piece(a, p) \cap Area(a)' = {}
        BY <1>0, <1>2 DEF GivesNothing, Inside, OwnApart, InChunk, Piece
    <2>2. ChunksApart'  BY <1>0, <1>2 DEF GivesNothing, OthersKept, ChunksApart
    <2> QED  BY <1>1, <2>1, <2>2 DEF Inside, OwnApart, Piece
<1>3. ASSUME NEW p, GivesPart(a, p) PROVE ChunksApart' /\ Inside' /\ OwnApart'
    <2>1. /\ Objects(a)' = Objects(a) \cup {p} /\ chunks'[a] = chunks[a]
          /\ Area(a) = Piece(a, p) \cup Area(a)' /\ Piece(a, p) \cap Area(a)' = {}
          /\ Area(a) # {}
        BY <1>3 DEF GivesPart
    <2>2. PICK c \in chunks[a] : Area(a) \subseteq Bytes(c, kAllocIncrement)
        BY <1>0, <2>1 DEF Inside, InChunk
    <2>3. \A q \in Objects(a)' : InChunk(a, Piece(a, q))'
        <3>1. Piece(a, p) \subseteq Bytes(c, kAllocIncrement)  BY <2>1, <2>2
        <3>2. \A q \in Objects(a) : \E d \in chunks[a] : Piece(a, q) \subseteq Bytes(d, kAllocIncrement)
            BY <1>0 DEF Inside, InChunk
        <3> QED  BY <2>1, <2>2, <3>1, <3>2 DEF InChunk, Piece
    <2>4. InChunk(a, Area(a))'
        <3>1. Area(a)' \subseteq Bytes(c, kAllocIncrement)  BY <2>1, <2>2
        <3> QED  BY <2>1, <2>2, <3>1 DEF InChunk
    <2>5. \A q \in Objects(a) : Piece(a, q) \cap Piece(a, p) = {} /\ Piece(a, q) \cap Area(a)' = {}
        <3>1. \A q \in Objects(a) : Piece(a, q) \cap Area(a) = {}  BY <1>0 DEF OwnApart
        <3> QED  BY <2>1, <3>1
    <2>6. /\ \A r, q \in Objects(a)' : r = q \/ Piece(a, r) \cap Piece(a, q) = {}
          /\ \A q \in Objects(a)' : Piece(a, q) \cap Area(a)' = {}
        BY <1>0, <2>1, <2>5 DEF OwnApart
    <2>7. ChunksApart'  BY <1>0, <2>1 DEF OthersKept, ChunksApart
    <2> QED  BY <1>1, <2>3, <2>4, <2>6, <2>7 DEF Inside, OwnApart, Piece
<1>4. ASSUME NEW at, GivesChunk(a, at) PROVE ChunksApart' /\ Inside' /\ OwnApart'
    <2> DEFINE B(c) == Bytes(c, kAllocIncrement)
    <2>1. /\ at \in Regions(Chunks) /\ chunks'[a] = chunks[a] \cup {at}
          /\ Objects(a)' = Objects(a) \cup {at}
          /\ Piece(a, at) \cup Area(a)' \subseteq B(at)
          /\ Piece(a, at) \cap Area(a)' = {}
        BY <1>4 DEF GivesChunk
    <2>2. \A b \in Allocators : \A c \in chunks[b] : B(at) \cap B(c) = {}
        <3>1. \A c \in Chunks : B(at) \cap B(c) = {}  BY <2>1 DEF Regions
        <3> QED  BY <3>1 DEF Chunks
    <2> HIDE DEF B
    <2>3. ChunksApart'
        <3> SUFFICES ASSUME NEW b \in Allocators, NEW e \in Allocators,
                            NEW c \in chunks'[b], NEW d \in chunks'[e]
                     PROVE  (b = e /\ c = d) \/ B(c) \cap B(d) = {}
            BY DEF ChunksApart, B
        <3>1. c \in chunks[b] \/ (b = a /\ c = at)  BY <2>1 DEF OthersKept
        <3>2. d \in chunks[e] \/ (e = a /\ d = at)  BY <2>1 DEF OthersKept
        <3>3. c \in chunks[b] /\ d \in chunks[e] => (b = e /\ c = d) \/ B(c) \cap B(d) = {}
            BY <1>0 DEF ChunksApart, B
        <3> QED  BY <2>2, <3>1, <3>2, <3>3
    <2>4. \A q \in Objects(a)' : InChunk(a, Piece(a, q))'
        <3>1. \A q \in Objects(a) : \E d \in chunks[a] : Piece(a, q) \subseteq Bytes(d, kAllocIncrement)
            BY <1>0 DEF Inside, InChunk
        <3> QED  BY <2>1, <3>1 DEF InChunk, Piece, B
    <2>5. InChunk(a, Area(a))'  BY <2>1 DEF InChunk, B
    <2>6. \A q \in Objects(a) : Piece(a, q) \cap Piece(a, at) = {} /\ Piece(a, q) \cap Area(a)' = {}
        <3> SUFFICES ASSUME NEW q \in Objects(a)
                     PROVE  Piece(a, q) \cap Piece(a, at) = {} /\ Piece(a, q) \cap Area(a)' = {}
            OBVIOUS
        <3>1. PICK c \in chunks[a] : Piece(a, q) \subseteq B(c)  BY <1>0 DEF Inside, InChunk, B
        <3>2. B(at) \cap B(c) = {}  BY <2>2
        <3> QED  BY <2>1, <3>1, <3>2
    <2>7. /\ \A r, q \in Objects(a)' : r = q \/ Piece(a, r) \cap Piece(a, q) = {}
          /\ \A q \in Objects(a)' : Piece(a, q) \cap Area(a)' = {}
        BY <1>0, <2>1, <2>6 DEF OwnApart
    <2> QED  BY <1>1, <2>3, <2>4, <2>5, <2>7 DEF Inside, OwnApart, Piece
<1> QED  BY <1>2, <1>3, <1>4

LEMMA InitAllocatorStep ==
    ASSUME MetaInv, NEW a \in Allocators, InitAllocator(a)
    PROVE  MetaInv'
<1>0. MetaTypes /\ ListsRight /\ Inside  BY DEF MetaInv
<1>1. chunks[a] = {} /\ UNCHANGED held  BY DEF InitAllocator
<1>2. Objects(a) = {}
    <2>1. \A p \in Objects(a) : FALSE  BY <1>0, <1>1 DEF Inside, InChunk
    <2> QED  BY <2>1
<1>3. CASE UNCHANGED <<chunks, free_area, free_avail, free_list>>
    <2>1. \A b : Objects(b)' = Objects(b) /\ Area(b)' = Area(b) /\ chunks'[b] = chunks[b]
        BY <1>1, <1>3 DEF Objects, Area
    <2>2. ChunksApart' /\ Inside' /\ OwnApart'  BY <2>1, MemoryStep DEF OthersKept, GivesNothing
    <2>3. MetaTypes' /\ ListsRight'  BY <1>0, <1>1, <1>3 DEF MetaTypes, ListsRight
    <2> QED  BY <2>2, <2>3 DEF MetaInv
<1>4. ASSUME NEW at \in Regions(Chunks),
             chunks' = [chunks EXCEPT ![a] = {at}], free_list' = [free_list EXCEPT ![a] = <<at>>],
             free_area' = [free_area EXCEPT ![a] = at + kAlignedSize[a]],
             free_avail' = [free_avail EXCEPT ![a] = kAllocIncrement - kAlignedSize[a]]
      PROVE  MetaInv'
    <2>1. at \in Nat  BY MetaSizes DEF Regions
    <2>2. /\ kAlignedSize[a] \in Nat \ {0} /\ kAllocIncrement \in Nat
          /\ kAlignedSize[a] <= kAllocIncrement
        BY MetaSizes
    <2>3. <<at>> \in Seq(Nat) /\ ToSet(<<at>>) = {at} /\ NoTwice(<<at>>)
        <3>1. <<at>> \in Seq(Nat) /\ Len(<<at>>) = 1 /\ <<at>>[1] = at  BY <2>1
        <3>2. ToSet(<<at>>) = {<<at>>[i] : i \in 1 .. 1}  BY <3>1, Members
        <3> QED  BY <3>1, <3>2 DEF NoTwice
    <2>4. MetaTypes'
        BY <1>0, <1>1, <1>4, <2>1, <2>2, <2>3 DEF MetaTypes
    <2>5. held[a] = {}  BY <1>2 DEF Objects
    <2>6. ListsRight'
        BY <1>0, <1>1, <1>4, <2>3, <2>5 DEF ListsRight, MetaTypes
    <2>7. OthersKept(a)
        BY <1>0, <1>1, <1>4 DEF OthersKept, Objects, Area, MetaTypes
    <2>8. GivesChunk(a, at)
        <3>1. chunks'[a] = chunks[a] \cup {at}  BY <1>0, <1>1, <1>4 DEF MetaTypes
        <3>2. Objects(a)' = Objects(a) \cup {at}
            BY <1>0, <1>1, <1>2, <1>4, <2>3, <2>5 DEF Objects, MetaTypes
        <3>3. Area(a)' = Bytes(at + kAlignedSize[a], kAllocIncrement - kAlignedSize[a])
            BY <1>0, <1>4 DEF Area, MetaTypes
        <3>4. /\ Piece(a, at) \cup Area(a)' \subseteq Bytes(at, kAllocIncrement)
              /\ Piece(a, at) \cap Area(a)' = {}
            BY <2>1, <2>2, <3>3 DEF Piece, Bytes
        <3> QED  BY <3>1, <3>2, <3>4 DEF GivesChunk
    <2>9. ChunksApart' /\ Inside' /\ OwnApart'  BY <2>7, <2>8, MemoryStep
    <2> QED  BY <2>4, <2>6, <2>9 DEF MetaInv
<1> QED  BY <1>1, <1>3, <1>4 DEF InitAllocator

LEMMA NewFromListStep ==
    ASSUME MetaInv, NEW a \in Allocators, NewFromList(a)
    PROVE  MetaInv'
<1> DEFINE list == free_list[a]
           p == Head(list)
<1>0. MetaTypes /\ ListsRight  BY DEF MetaInv
<1>1. /\ list # <<>> /\ held' = [held EXCEPT ![a] = @ \cup {p}]
      /\ free_list' = [free_list EXCEPT ![a] = Tail(list)]
      /\ UNCHANGED <<chunks, free_area, free_avail>>
    BY DEF NewFromList, Gives
<1>2. list \in Seq(Nat) /\ NoTwice(list) /\ held[a] \cap ToSet(list) = {} /\ held[a] \subseteq Nat
    BY <1>0 DEF MetaTypes, ListsRight
<1>3. /\ p \in Nat /\ Tail(list) \in Seq(Nat) /\ ToSet(list) = {p} \cup ToSet(Tail(list))
      /\ NoTwice(Tail(list)) /\ p \notin ToSet(Tail(list))
    BY <1>1, <1>2, PoppedMembers
<1>4. /\ free_list'[a] = Tail(list) /\ held'[a] = held[a] \cup {p}
      /\ \A b \in Allocators \ {a} : free_list'[b] = free_list[b] /\ held'[b] = held[b]
    BY <1>0, <1>1 DEF MetaTypes
<1>5. MetaTypes'
    <2> HIDE DEF list, p
    <2> QED  BY <1>0, <1>1, <1>2, <1>3 DEF MetaTypes
<1> HIDE DEF p
<1>6. ListsRight'  BY <1>0, <1>2, <1>3, <1>4 DEF ListsRight
<1>7. Objects(a)' = Objects(a)  BY <1>3, <1>4 DEF Objects
<1>8. OthersKept(a) /\ GivesNothing(a)
    BY <1>1, <1>4, <1>7 DEF OthersKept, GivesNothing, Objects, Area
<1> QED  BY <1>5, <1>6, <1>8, MemoryStep DEF MetaInv

LEMMA NewFromAreaStep ==
    ASSUME MetaInv, NEW a \in Allocators, NewFromArea(a)
    PROVE  MetaInv'
<1> DEFINE s == kAlignedSize[a]
           at == free_area[a]
           n == free_avail[a]
<1>0. MetaTypes /\ ListsRight /\ OwnApart  BY DEF MetaInv
<1>1. /\ free_list[a] = <<>> /\ n >= s /\ held' = [held EXCEPT ![a] = @ \cup {at}]
      /\ free_area' = [free_area EXCEPT ![a] = at + s]
      /\ free_avail' = [free_avail EXCEPT ![a] = n - s]
      /\ UNCHANGED <<chunks, free_list>>
    BY DEF NewFromArea, HasRoom, Cut, Gives
<1>2. s \in Nat \ {0} /\ at \in Nat /\ n \in Nat  BY <1>0, MetaSizes DEF MetaTypes
<1>3. MetaTypes'
    <2>1. n - s \in Nat /\ at + s \in Nat  BY <1>1, <1>2
    <2> HIDE DEF s, at, n
    <2> QED  BY <1>0, <1>1, <1>2, <2>1 DEF MetaTypes
<1>4. /\ held'[a] = held[a] \cup {at} /\ free_area'[a] = at + s /\ free_avail'[a] = n - s
      /\ \A b \in Allocators \ {a} : /\ held'[b] = held[b] /\ free_area'[b] = free_area[b]
                                     /\ free_avail'[b] = free_avail[b]
    BY <1>0, <1>1 DEF MetaTypes
<1>5. ToSet(free_list[a]) = {}  BY <1>0, <1>1, Members DEF MetaTypes
<1>6. ListsRight'  BY <1>0, <1>1, <1>4, <1>5 DEF ListsRight
<1>7. OthersKept(a)  BY <1>1, <1>4 DEF OthersKept, Objects, Area
<1>8. GivesPart(a, at)
    <2>1. Objects(a)' = Objects(a) \cup {at}  BY <1>1, <1>4, <1>5 DEF Objects
    <2>2. Area(a) = Bytes(at, n) /\ Area(a)' = Bytes(at + s, n - s) /\ Piece(a, at) = Bytes(at, s)
        BY <1>4 DEF Area, Piece
    <2> HIDE DEF s, at, n
    <2>3. /\ Area(a) = Piece(a, at) \cup Area(a)' /\ Piece(a, at) \cap Area(a)' = {}
          /\ at \in Area(a)
        BY <1>1, <1>2, <2>2 DEF Bytes
    <2> QED  BY <1>1, <2>1, <2>3 DEF GivesPart
<1> QED  BY <1>3, <1>6, <1>7, <1>8, MemoryStep DEF MetaInv

LEMMA NewFromChunkStep ==
    ASSUME MetaInv, NEW a \in Allocators, NewFromChunk(a)
    PROVE  MetaInv'
<1> DEFINE s == kAlignedSize[a]
<1>0. MetaTypes /\ ListsRight /\ Inside /\ ChunksApart  BY DEF MetaInv
<1>1. free_list[a] = <<>> /\ UNCHANGED free_list  BY DEF NewFromChunk
<1>2. CASE UNCHANGED <<chunks, free_area, free_avail, held>>
    <2>1. \A b : Objects(b)' = Objects(b) /\ Area(b)' = Area(b) /\ chunks'[b] = chunks[b]
        BY <1>1, <1>2 DEF Objects, Area
    <2>2. ChunksApart' /\ Inside' /\ OwnApart'  BY <2>1, MemoryStep DEF OthersKept, GivesNothing
    <2>3. MetaTypes' /\ ListsRight'  BY <1>0, <1>1, <1>2 DEF MetaTypes, ListsRight
    <2> QED  BY <2>2, <2>3 DEF MetaInv
<1>3. ASSUME NEW at \in Regions(Chunks), chunks' = [chunks EXCEPT ![a] = @ \cup {at}],
             Cut(a, at, kAllocIncrement)
      PROVE  MetaInv'
    <2>1. at \in Nat  BY MetaSizes DEF Regions
    <2>2. s \in Nat \ {0} /\ kAllocIncrement \in Nat /\ s <= kAllocIncrement  BY MetaSizes
    <2>3. /\ held' = [held EXCEPT ![a] = @ \cup {at}]
          /\ free_area' = [free_area EXCEPT ![a] = at + s]
          /\ free_avail' = [free_avail EXCEPT ![a] = kAllocIncrement - s]
        BY <1>3 DEF Cut, Gives
    <2>4. MetaTypes'
        <3>1. kAllocIncrement - s \in Nat /\ at + s \in Nat  BY <2>1, <2>2
        <3> HIDE DEF s
        <3> QED  BY <1>0, <1>1, <1>3, <2>1, <2>3, <3>1 DEF MetaTypes
    <2>5. /\ held'[a] = held[a] \cup {at} /\ free_area'[a] = at + s
          /\ free_avail'[a] = kAllocIncrement - s /\ chunks'[a] = chunks[a] \cup {at}
          /\ \A b \in Allocators \ {a} : /\ held'[b] = held[b] /\ free_area'[b] = free_area[b]
                                         /\ free_avail'[b] = free_avail[b] /\ chunks'[b] = chunks[b]
        BY <1>0, <1>3, <2>3 DEF MetaTypes
    <2>6. ToSet(free_list[a]) = {}  BY <1>0, <1>1, Members DEF MetaTypes
    <2>7. ListsRight'  BY <1>0, <1>1, <2>5, <2>6 DEF ListsRight
    <2>8. OthersKept(a)  BY <1>1, <2>5 DEF OthersKept, Objects, Area
    <2>9. GivesChunk(a, at)
        <3>1. Objects(a)' = Objects(a) \cup {at}  BY <1>1, <2>5, <2>6 DEF Objects
        <3>2. Area(a)' = Bytes(at + s, kAllocIncrement - s) /\ Piece(a, at) = Bytes(at, s)
            BY <2>5 DEF Area, Piece
        <3> HIDE DEF s
        <3>3. /\ Piece(a, at) \cup Area(a)' \subseteq Bytes(at, kAllocIncrement)
              /\ Piece(a, at) \cap Area(a)' = {}
            BY <2>1, <2>2, <3>2 DEF Bytes
        <3> QED  BY <1>3, <2>5, <3>1, <3>3 DEF GivesChunk
    <2> QED  BY <2>4, <2>7, <2>8, <2>9, MemoryStep DEF MetaInv
<1> QED  BY <1>2, <1>3 DEF NewFromChunk

LEMMA DeleteStep ==
    ASSUME MetaInv, NEW a \in Allocators, NEW p \in held[a], Delete(a, p)
    PROVE  MetaInv'
<1> DEFINE list == free_list[a]
<1>0. MetaTypes /\ ListsRight  BY DEF MetaInv
<1>1. /\ held' = [held EXCEPT ![a] = @ \ {p}] /\ free_list' = [free_list EXCEPT ![a] = <<p>> \o list]
      /\ UNCHANGED <<chunks, free_area, free_avail>>
    BY DEF Delete, Pushed
<1>2. list \in Seq(Nat) /\ NoTwice(list) /\ held[a] \cap ToSet(list) = {} /\ held[a] \subseteq Nat
    BY <1>0 DEF MetaTypes, ListsRight
<1>3. /\ <<p>> \o list \in Seq(Nat) /\ ToSet(<<p>> \o list) = {p} \cup ToSet(list)
      /\ NoTwice(<<p>> \o list)
    <2>1. p \in Nat /\ p \notin ToSet(list)  BY <1>2
    <2> HIDE DEF list
    <2> QED  BY <1>2, <2>1, PushedMembers
<1>4. /\ free_list'[a] = <<p>> \o list /\ held'[a] = held[a] \ {p}
      /\ \A b \in Allocators \ {a} : free_list'[b] = free_list[b] /\ held'[b] = held[b]
    BY <1>0, <1>1 DEF MetaTypes
<1>5. MetaTypes'
    <2> HIDE DEF list
    <2> QED  BY <1>0, <1>1, <1>2, <1>3 DEF MetaTypes
<1>6. ListsRight'  BY <1>0, <1>2, <1>3, <1>4 DEF ListsRight
<1>7. Objects(a)' = Objects(a)  BY <1>3, <1>4 DEF Objects
<1>8. OthersKept(a) /\ GivesNothing(a)
    BY <1>1, <1>4, <1>7 DEF OthersKept, GivesNothing, Objects, Area
<1> QED  BY <1>5, <1>6, <1>8, MemoryStep DEF MetaInv

LEMMA MetaStep ==
    ASSUME MetaInv, Next_M \/ UNCHANGED vars_M
    PROVE  MetaInv'
<1>1. CASE UNCHANGED vars_M
    <2>1. UNCHANGED <<chunks, free_area, free_avail, free_list, held>>  BY <1>1 DEF vars_M
    <2>2. \A b : Objects(b)' = Objects(b) /\ Area(b)' = Area(b)  BY <2>1 DEF Objects, Area
    <2>3. Inside'  BY <2>1, <2>2 DEF MetaInv, Inside, InChunk, Piece
    <2>4. OwnApart'  BY <2>2 DEF MetaInv, OwnApart, Piece
    <2>5. ChunksApart' /\ MetaTypes' /\ ListsRight'
        BY <2>1 DEF MetaInv, MetaTypes, ListsRight, ChunksApart
    <2> QED  BY <2>3, <2>4, <2>5 DEF MetaInv
<1> QED  BY <1>1, InitAllocatorStep, NewFromListStep, NewFromAreaStep, NewFromChunkStep, DeleteStep
         DEF Next_M

\* No two allocators, and no two pieces of one, overlap.
LEMMA ObjectsAreApart == MetaInv => ObjectsApart
<1> SUFFICES ASSUME MetaInv PROVE ObjectsApart  OBVIOUS
<1>0. MetaTypes /\ ListsRight /\ ChunksApart /\ Inside /\ OwnApart  BY DEF MetaInv
<1>1. \A a \in Allocators : \A x \in Pieces(a) :
          (\E p \in Objects(a) : x = Piece(a, p)) \/ (x = Area(a) /\ x # {})
    BY DEF Pieces, Objects, Piece, Area
<1>2. \A a \in Allocators : \A x \in Pieces(a) : InChunk(a, x)
    BY <1>0, <1>1 DEF Inside
<1>3. ASSUME NEW a \in Allocators, NEW b \in Allocators, NEW x \in Pieces(a), NEW y \in Pieces(b)
      PROVE  (a = b /\ x = y) \/ x \cap y = {}
    <2>1. CASE a = b
        <3>1. \A p, q \in Objects(a) : p = q \/ Piece(a, p) \cap Piece(a, q) = {}
            BY <1>0 DEF OwnApart
        <3>2. \A p \in Objects(a) : Piece(a, p) \cap Area(a) = {}  BY <1>0 DEF OwnApart
        <3> QED  BY <1>1, <2>1, <3>1, <3>2
    <2>2. CASE a # b
        <3>1. PICK c \in chunks[a] : x \subseteq Bytes(c, kAllocIncrement)  BY <1>2 DEF InChunk
        <3>2. PICK d \in chunks[b] : y \subseteq Bytes(d, kAllocIncrement)  BY <1>2 DEF InChunk
        <3>3. Bytes(c, kAllocIncrement) \cap Bytes(d, kAllocIncrement) = {}
            BY <1>0, <2>2 DEF ChunksApart
        <3> QED  BY <3>1, <3>2, <3>3
    <2> QED  BY <2>1, <2>2
<1>4. \A a \in Allocators : Len(free_list[a]) = Cardinality(ToSet(free_list[a]))
    BY <1>0, NoTwiceSize DEF MetaTypes, ListsRight
<1> QED  BY <1>0, <1>2, <1>3, <1>4 DEF ObjectsApart, InChunk, ListsRight

\* The allocators keep their invariant, while another structure is used too.
THEOREM MetaInvariance == Spec => []MetaInv
<1>1. Init => MetaInv  BY InitMeta DEF Init
<1>2. MetaInv /\ [Next]_vars => MetaInv'
    <2>1. [Next]_vars => Next_M \/ UNCHANGED vars_M  BY DEF Next, vars
    <2> QED  BY <2>1, MetaStep
<1> QED  BY <1>1, <1>2, PTL DEF Spec

\* For any allocators, sizes and chunks: what they hand out, have free or have
\* left does not overlap, and no object is free twice, or free while in use.
THEOREM ObjectsApartHolds == Spec => []ObjectsApart
BY MetaInvariance, ObjectsAreApart, PTL

-----------------------------------------------------------------------------
(* The memory of the heap profiler.                                          *)

\* The count of blocks stays what it is, so that Stop unmaps none.
ProfilerTypes ==
    /\ nblocks = 0 /\ current \in Nat
    /\ pos \in Nat /\ pos % kAlignment = 0
    /\ mapped \subseteq [ptr : Nat, size : Nat]
    /\ pieces \subseteq [ptr : Nat, size : Nat \ {0}]

MappingsRight ==
    /\ \A m \in mapped : m.ptr % pagesize = 0
    /\ \A m, l \in mapped : m = l \/ Extent(m) \cap Extent(l) = {}

CurrentBlock == [ptr |-> current, size |-> RoundUp(kBlockSize, pagesize)]

\* Where there is room in the current block, it is mapped, and nobody has what is
\* behind its position.
RoomKept ==
    pos < kBlockSize =>
        /\ CurrentBlock \in mapped
        /\ \A p \in pieces : Extent(p) \cap (current + pos .. current + kBlockSize - 1) = {}

ProfilerInv == ProfilerTypes /\ MappingsRight /\ RoomKept /\ PiecesApart

LEMMA ProfilerSizes ==
    /\ kAlignment \in Nat \ {0} /\ pagesize \in Nat \ {0} /\ pagesize % kAlignment = 0
    /\ kBlockSize \in Nat \ {0} /\ kBlockSize % kAlignment = 0
    /\ kBig \in Nat \ {0} /\ kBig <= kBlockSize
    /\ PieceSizes \subseteq Nat \ {0} /\ MaxMapping \in Nat
BY BlocksAssumption

LEMMA SumOfMultiples ==
    ASSUME NEW x \in Nat, NEW y \in Nat, NEW a \in Nat \ {0}, x % a = 0, y % a = 0
    PROVE  (x + y) % a = 0
<1>1. PICK k \in Nat : x = k * a  BY Quotient
<1>2. PICK m \in Nat : y = m * a  BY Quotient
<1>3. x + y = (k + m) * a /\ k + m \in Nat  BY <1>1, <1>2
<1>4. ((k + m) * a) % a = 0  BY <1>3, Multiple
<1> QED  BY <1>3, <1>4

LEMMA InitProfiler == Init_H => ProfilerInv
<1> SUFFICES ASSUME Init_H PROVE ProfilerInv  OBVIOUS
<1>1. /\ nblocks = 0 /\ current = 0 /\ pos = kBlockSize /\ mapped = {} /\ pieces = {}
    BY DEF Init_H
<1>2. ~ (pos < kBlockSize)  BY <1>1, ProfilerSizes
<1> QED  BY <1>1, <1>2, ProfilerSizes DEF ProfilerInv, ProfilerTypes, MappingsRight, RoomKept, PiecesApart

\* What mmap gives is apart from what is mapped and from every piece.
LEMMA MappingGiven ==
    ASSUME ProfilerInv, NEW n \in Nat \ {0}, NEW b \in Mappings(n)
    PROVE  /\ b \in [ptr : Nat, size : Nat] /\ b.size = RoundUp(n, pagesize) /\ n <= b.size
           /\ b = [ptr |-> b.ptr, size |-> RoundUp(n, pagesize)]
           /\ b.ptr % pagesize = 0 /\ b.ptr % kAlignment = 0
           /\ \A m \in mapped : Extent(m) \cap Extent(b) = {}
           /\ \A p \in pieces : Extent(p) \cap Extent(b) = {}
<1>1. /\ b \in [ptr : 1 .. MaxMapping, size : {RoundUp(n, pagesize)}]
      /\ b.ptr % pagesize = 0 /\ \A m \in mapped : Extent(m) \cap Extent(b) = {}
    BY DEF Mappings
<1>2. RoundUp(n, pagesize) \in Nat /\ n <= RoundUp(n, pagesize)  BY ProfilerSizes, RoundUpFacts
<1>3. b.ptr \in Nat /\ b.size = RoundUp(n, pagesize) /\ b \in [ptr : Nat, size : Nat]
      /\ b = [ptr |-> b.ptr, size |-> RoundUp(n, pagesize)]
    BY <1>1, <1>2, ProfilerSizes
<1>4. b.ptr % kAlignment = 0  BY <1>1, <1>3, ProfilerSizes, MultipleOfMultiple
<1>5. ASSUME NEW p \in pieces PROVE Extent(p) \cap Extent(b) = {}
    <2>1. PICK m \in mapped : Extent(p) \subseteq Extent(m)  BY DEF ProfilerInv, PiecesApart
    <2> QED  BY <1>1, <2>1
<1> QED  BY <1>1, <1>2, <1>3, <1>4, <1>5

\* A piece is handed out, of memory that is mapped and nobody has.
LEMMA PieceGiven ==
    ASSUME ProfilerInv, NEW at \in Nat, NEW n \in Nat \ {0}, at % kAlignment = 0,
           pieces' = pieces \cup {[ptr |-> at, size |-> n]}, mapped \subseteq mapped',
           \E m \in mapped' : at .. at + n - 1 \subseteq Extent(m),
           \A p \in pieces : Extent(p) \cap (at .. at + n - 1) = {}
    PROVE  PiecesApart' /\ pieces' \subseteq [ptr : Nat, size : Nat \ {0}]
<1> DEFINE r == [ptr |-> at, size |-> n]
<1>1. r.ptr = at /\ r.size = n /\ r \in [ptr : Nat, size : Nat \ {0}]  OBVIOUS
<1>2. Extent(r) = at .. at + n - 1  BY DEF Extent
<1> HIDE DEF r
<1>3. pieces' = pieces \cup {r}  BY DEF r
<1>4. \A p \in pieces' : p.ptr % kAlignment = 0 /\ \E m \in mapped' : Extent(p) \subseteq Extent(m)
    BY <1>1, <1>2, <1>3 DEF ProfilerInv, PiecesApart
<1>5. \A p, q \in pieces' : p = q \/ Extent(p) \cap Extent(q) = {}
    <2>1. \A p \in pieces : Extent(p) \cap Extent(r) = {}  BY <1>2
    <2> QED  BY <1>3, <2>1 DEF ProfilerInv, PiecesApart
<1>6. PiecesApart'  BY <1>4, <1>5 DEF PiecesApart, Extent
<1> QED  BY <1>1, <1>3, <1>6 DEF ProfilerInv, ProfilerTypes

LEMMA MappingAdded ==
    ASSUME ProfilerInv, NEW n \in Nat \ {0}, NEW b \in Mappings(n), mapped' = mapped \cup {b}
    PROVE  MappingsRight' /\ mapped' \subseteq [ptr : Nat, size : Nat]
<1>1. /\ b \in [ptr : Nat, size : Nat] /\ b.ptr % pagesize = 0
      /\ \A m \in mapped : Extent(m) \cap Extent(b) = {}
    BY MappingGiven
<1>2. \A m, l \in mapped' : m = l \/ Extent(m) \cap Extent(l) = {}
    BY <1>1 DEF ProfilerInv, MappingsRight
<1>3. \A m \in mapped' : m.ptr % pagesize = 0  BY <1>1 DEF ProfilerInv, MappingsRight
<1>4. MappingsRight'  BY <1>2, <1>3 DEF MappingsRight, Extent
<1> QED  BY <1>1, <1>4 DEF ProfilerInv, ProfilerTypes

LEMMA AllocBigStep ==
    ASSUME ProfilerInv, NEW n \in Nat \ {0}, NEW b \in Mappings(n),
           AllocBlock(b), Returns(b.ptr, n), UNCHANGED <<current, pos>>
    PROVE  ProfilerInv'
<1>1. mapped' = mapped \cup {b} /\ UNCHANGED nblocks /\ pieces' = pieces \cup {[ptr |-> b.ptr, size |-> n]}
    BY DEF AllocBlock, Returns
<1>2. /\ b.ptr \in Nat /\ b.size \in Nat /\ n <= b.size /\ b.ptr % kAlignment = 0
      /\ \A m \in mapped : Extent(m) \cap Extent(b) = {}
      /\ \A p \in pieces : Extent(p) \cap Extent(b) = {}
    BY MappingGiven
<1>3. b.ptr .. b.ptr + n - 1 \subseteq Extent(b)  BY <1>2 DEF Extent
<1>4. PiecesApart' /\ pieces' \subseteq [ptr : Nat, size : Nat \ {0}]
    <2>1. \A p \in pieces : Extent(p) \cap (b.ptr .. b.ptr + n - 1) = {}  BY <1>2, <1>3
    <2>2. \E m \in mapped' : b.ptr .. b.ptr + n - 1 \subseteq Extent(m)  BY <1>1, <1>3
    <2> QED  BY <1>1, <1>2, <2>1, <2>2, PieceGiven
<1>5. MappingsRight' /\ mapped' \subseteq [ptr : Nat, size : Nat]  BY <1>1, MappingAdded
<1>6. ProfilerTypes'  BY <1>1, <1>4, <1>5 DEF ProfilerInv, ProfilerTypes
<1>7. RoomKept'
    <2> SUFFICES ASSUME pos < kBlockSize
                 PROVE  /\ CurrentBlock \in mapped'
                        /\ \A p \in pieces' : Extent(p) \cap (current + pos .. current + kBlockSize - 1) = {}
        BY DEF RoomKept, CurrentBlock, Extent
    <2>1. /\ CurrentBlock \in mapped
          /\ \A p \in pieces : Extent(p) \cap (current + pos .. current + kBlockSize - 1) = {}
        BY DEF ProfilerInv, RoomKept
    <2>2. Extent(CurrentBlock) \cap Extent(b) = {}  BY <1>2, <2>1
    <2>3. current + pos .. current + kBlockSize - 1 \subseteq Extent(CurrentBlock)
        <3>1. current \in Nat /\ pos \in Nat  BY DEF ProfilerInv, ProfilerTypes
        <3>2. kBlockSize <= RoundUp(kBlockSize, pagesize) /\ RoundUp(kBlockSize, pagesize) \in Nat
            BY ProfilerSizes, RoundUpFacts
        <3> QED  BY <3>1, <3>2, ProfilerSizes DEF Extent, CurrentBlock
    <2>4. Extent([ptr |-> b.ptr, size |-> n]) = b.ptr .. b.ptr + n - 1  BY DEF Extent
    <2> QED  BY <1>1, <1>3, <2>1, <2>2, <2>3, <2>4
<1> QED  BY <1>4, <1>5, <1>6, <1>7 DEF ProfilerInv

LEMMA AllocNextStep ==
    ASSUME ProfilerInv, NEW n \in Nat \ {0}, NEW b \in Mappings(kBlockSize), n <= kBlockSize,
           AllocBlock(b), current' = b.ptr, Returns(b.ptr, n), pos' = Aligned(n)
    PROVE  ProfilerInv'
<1>1. mapped' = mapped \cup {b} /\ UNCHANGED nblocks /\ pieces' = pieces \cup {[ptr |-> b.ptr, size |-> n]}
    BY DEF AllocBlock, Returns
<1>2. /\ b \in [ptr : Nat, size : Nat] /\ b.ptr \in Nat /\ b.size \in Nat /\ b.ptr % kAlignment = 0
      /\ b = [ptr |-> b.ptr, size |-> RoundUp(kBlockSize, pagesize)] /\ kBlockSize <= b.size
      /\ \A p \in pieces : Extent(p) \cap Extent(b) = {}
    BY MappingGiven, ProfilerSizes
<1>3. pos' \in Nat /\ pos' % kAlignment = 0 /\ n <= pos'
    BY ProfilerSizes, RoundUpFacts DEF Aligned
<1>4. /\ b.ptr .. b.ptr + n - 1 \subseteq Extent(b)
      /\ b.ptr + pos' .. b.ptr + kBlockSize - 1 \subseteq Extent(b)
    BY <1>2, <1>3, ProfilerSizes DEF Extent
<1>5. PiecesApart' /\ pieces' \subseteq [ptr : Nat, size : Nat \ {0}]
    <2>1. \A p \in pieces : Extent(p) \cap (b.ptr .. b.ptr + n - 1) = {}  BY <1>2, <1>4
    <2>2. \E m \in mapped' : b.ptr .. b.ptr + n - 1 \subseteq Extent(m)  BY <1>1, <1>4
    <2> QED  BY <1>1, <1>2, <2>1, <2>2, PieceGiven
<1>6. MappingsRight' /\ mapped' \subseteq [ptr : Nat, size : Nat]
    BY <1>1, MappingAdded, ProfilerSizes
<1>7. ProfilerTypes'  BY <1>1, <1>2, <1>3, <1>5, <1>6 DEF ProfilerInv, ProfilerTypes
<1>8. RoomKept'
    <2>1. CurrentBlock' = b  BY <1>2 DEF CurrentBlock
    <2>2. \A p \in pieces : Extent(p) \cap (b.ptr + pos' .. b.ptr + kBlockSize - 1) = {}
        BY <1>2, <1>4
    <2>3. Extent([ptr |-> b.ptr, size |-> n]) \cap (b.ptr + pos' .. b.ptr + kBlockSize - 1) = {}
        BY <1>2, <1>3, ProfilerSizes DEF Extent
    <2> QED  BY <1>1, <2>1, <2>2, <2>3 DEF RoomKept, Extent
<1> QED  BY <1>5, <1>6, <1>7, <1>8 DEF ProfilerInv

LEMMA AllocHereStep ==
    ASSUME ProfilerInv, NEW n \in Nat \ {0}, Fits(n), Returns(current + pos, n),
           pos' = Aligned(pos + n), UNCHANGED <<nblocks, current, mapped>>
    PROVE  ProfilerInv'
<1> DEFINE at == current + pos
<1>1. pieces' = pieces \cup {[ptr |-> at, size |-> n]}  BY DEF Returns
<1>2. current \in Nat /\ pos \in Nat /\ pos % kAlignment = 0 /\ pos + n <= kBlockSize
    BY DEF ProfilerInv, ProfilerTypes, Fits
<1>3. pos < kBlockSize  BY <1>2, ProfilerSizes
<1>4. /\ CurrentBlock \in mapped
      /\ \A p \in pieces : Extent(p) \cap (at .. current + kBlockSize - 1) = {}
    BY <1>3 DEF ProfilerInv, RoomKept
<1>5. pos' \in Nat /\ pos' % kAlignment = 0 /\ pos + n <= pos'
    <2>1. pos + n \in Nat  BY <1>2
    <2> QED  BY <2>1, ProfilerSizes, RoundUpFacts DEF Aligned
<1>6. at \in Nat /\ at % kAlignment = 0
    <2>1. current % pagesize = 0  BY <1>4 DEF ProfilerInv, MappingsRight, CurrentBlock
    <2>2. current % kAlignment = 0  BY <1>2, <2>1, ProfilerSizes, MultipleOfMultiple
    <2>3. (current + pos) % kAlignment = 0
        <3>1. current \in Nat /\ pos \in Nat /\ pos % kAlignment = 0  BY <1>2
        <3> QED  BY <2>2, <3>1, ProfilerSizes, SumOfMultiples
    <2> QED  BY <1>2, <2>3
<1>7. at .. at + n - 1 \subseteq at .. current + kBlockSize - 1  BY <1>2, ProfilerSizes
<1>8. at .. at + n - 1 \subseteq Extent(CurrentBlock)
    <2>1. kBlockSize <= RoundUp(kBlockSize, pagesize) /\ RoundUp(kBlockSize, pagesize) \in Nat
        BY ProfilerSizes, RoundUpFacts
    <2> QED  BY <1>2, <2>1, ProfilerSizes DEF Extent, CurrentBlock
<1>9. PiecesApart' /\ pieces' \subseteq [ptr : Nat, size : Nat \ {0}]
    <2>1. \A p \in pieces : Extent(p) \cap (at .. at + n - 1) = {}  BY <1>4, <1>7
    <2>2. \E m \in mapped' : at .. at + n - 1 \subseteq Extent(m)  BY <1>4, <1>8
    <2>3. mapped \subseteq mapped'  OBVIOUS
    <2> HIDE DEF at
    <2> QED  BY <1>1, <1>6, <2>1, <2>2, <2>3, PieceGiven
<1>10. MappingsRight' /\ ProfilerTypes'
    BY <1>5, <1>9 DEF ProfilerInv, MappingsRight, ProfilerTypes, Extent
<1>11. RoomKept'
    <2>1. CurrentBlock' \in mapped'  BY <1>4 DEF CurrentBlock
    <2>2. current + pos' .. current + kBlockSize - 1 \subseteq at .. current + kBlockSize - 1
        BY <1>2, <1>5, ProfilerSizes
    <2>3. Extent([ptr |-> at, size |-> n]) \cap (current + pos' .. current + kBlockSize - 1) = {}
        BY <1>2, <1>5, ProfilerSizes DEF Extent
    <2> HIDE DEF at
    <2> QED  BY <1>1, <1>4, <2>1, <2>2, <2>3 DEF RoomKept, Extent
<1> QED  BY <1>9, <1>10, <1>11 DEF ProfilerInv

LEMMA ProfilerStep ==
    ASSUME ProfilerInv, Next_H \/ UNCHANGED vars_H
    PROVE  ProfilerInv'
<1>1. CASE UNCHANGED <<nblocks, current, pos, mapped, pieces>>
    BY <1>1 DEF ProfilerInv, ProfilerTypes, MappingsRight, RoomKept, PiecesApart, CurrentBlock, Extent
<1>2. ASSUME Start \/ Stop PROVE ProfilerInv'
    <2>1. nblocks' = 0 /\ current' = 0 /\ pos' = kBlockSize /\ pieces' = {}
        BY <1>2 DEF Start, Stop, Fresh
    <2>2. mapped' = mapped
        <3>1. nblocks = 0  BY DEF ProfilerInv, ProfilerTypes
        <3>2. 0 .. nblocks - 1 = {}  BY <3>1
        <3>3. {blocks[i] : i \in 0 .. nblocks - 1} = {}  BY <3>2
        <3> QED  BY <1>2, <3>3 DEF Start, Stop
    <2>3. ~ (pos' < kBlockSize)  BY <2>1, ProfilerSizes
    <2> QED  BY <2>1, <2>2, <2>3, ProfilerSizes
             DEF ProfilerInv, ProfilerTypes, MappingsRight, RoomKept, PiecesApart, Extent
<1>3. ASSUME NEW n \in PieceSizes, Alloc(n) PROVE ProfilerInv'
    <2>1. n \in Nat \ {0}  BY ProfilerSizes
    <2>2. ~ Big(n) => n <= kBlockSize  BY <2>1, ProfilerSizes DEF Big
    <2>3. CASE Big(n) /\ (\E b \in Mappings(n) : AllocBlock(b) /\ Returns(b.ptr, n)) /\ UNCHANGED <<current, pos>>
        BY <2>1, <2>3, AllocBigStep
    <2>4. CASE /\ ~ Big(n) /\ pos' = Aligned(n)
               /\ \E b \in Mappings(kBlockSize) : AllocBlock(b) /\ current' = b.ptr /\ Returns(b.ptr, n)
        BY <2>1, <2>2, <2>4, AllocNextStep
    <2>5. CASE /\ Fits(n) /\ Returns(current + pos, n) /\ pos' = Aligned(pos + n)
               /\ UNCHANGED <<nblocks, current, mapped>>
        BY <2>1, <2>5, AllocHereStep
    <2> QED  BY <1>3, <2>3, <2>4, <2>5 DEF Alloc
<1>4. ASSUME NEW n \in PieceSizes, AllocFails(n) PROVE ProfilerInv'
    BY <1>1, <1>4 DEF AllocFails, Abort
<1> QED  BY <1>1, <1>2, <1>3, <1>4 DEF Next_H, vars_H

\* The profiler's memory keeps its invariant: where there is room in the current
\* block nobody has it, and the block stays mapped.
THEOREM ProfilerInvariance == Spec => []ProfilerInv
<1>1. Init => ProfilerInv  BY InitProfiler DEF Init
<1>2. ProfilerInv /\ [Next]_vars => ProfilerInv'
    <2>1. [Next]_vars => Next_H \/ UNCHANGED vars_H  BY DEF Next, vars
    <2> QED  BY <2>1, ProfilerStep
<1> QED  BY <1>1, <1>2, PTL DEF Spec

\* For any sizes of blocks, pages and pieces: what the profiler was given is
\* mapped, aligned and does not overlap.
THEOREM PiecesApartHolds == Spec => []PiecesApart
<1>1. ProfilerInv => PiecesApart  BY DEF ProfilerInv
<1> QED  BY <1>1, ProfilerInvariance, PTL

-----------------------------------------------------------------------------
(* The address map: sequences that are searched and changed.                 *)

\* RemoveAt leaves out one element.
LEMMA RemovedAt ==
    ASSUME NEW S, NEW s \in Seq(S), NEW i \in 1 .. Len(s)
    PROVE  /\ RemoveAt(s, i) \in Seq(S) /\ Len(RemoveAt(s, i)) = Len(s) - 1
           /\ \A j \in 1 .. Len(s) - 1 : RemoveAt(s, i)[j] = IF j < i THEN s[j] ELSE s[j + 1]
<1> DEFINE n == Len(s)
           p == SubSeq(s, 1, i - 1)
           q == SubSeq(s, i + 1, n)
<1>1. n \in Nat /\ i \in 1 .. n /\ \A j \in 1 .. n : s[j] \in S  BY LenProperties, ElementOfSeq
<1> HIDE DEF n
<1>2. p \in Seq(S) /\ Len(p) = i - 1 /\ \A j \in 1 .. i - 1 : p[j] = s[j]
    <2>1. 1 \in Int /\ i - 1 \in Int /\ \A j \in 1 .. i - 1 : s[j] \in S  BY <1>1
    <2>2. /\ p \in Seq(S) /\ Len(p) = IF 1 <= i - 1 THEN (i - 1) - 1 + 1 ELSE 0
          /\ \A j \in 1 .. (i - 1) - 1 + 1 : p[j] = s[1 + j - 1]
        BY <2>1, SubSeqProperties
    <2>3. (i - 1) - 1 + 1 = i - 1 /\ \A j \in 1 .. i - 1 : 1 + j - 1 = j  BY <1>1
    <2> HIDE DEF p
    <2> QED  BY <1>1, <2>2, <2>3
<1>3. q \in Seq(S) /\ Len(q) = n - i /\ \A j \in 1 .. n - i : q[j] = s[i + j]
    <2>1. i + 1 \in Int /\ n \in Int /\ \A j \in i + 1 .. n : s[j] \in S  BY <1>1
    <2>2. /\ q \in Seq(S) /\ Len(q) = IF i + 1 <= n THEN n - (i + 1) + 1 ELSE 0
          /\ \A j \in 1 .. n - (i + 1) + 1 : q[j] = s[(i + 1) + j - 1]
        BY <2>1, SubSeqProperties
    <2>3. n - (i + 1) + 1 = n - i /\ \A j \in 1 .. n - i : (i + 1) + j - 1 = i + j  BY <1>1
    <2> HIDE DEF q
    <2> QED  BY <1>1, <2>2, <2>3
<1>4. RemoveAt(s, i) = p \o q  BY DEF RemoveAt, n
<1> HIDE DEF p, q
<1>5. /\ p \o q \in Seq(S) /\ Len(p \o q) = (i - 1) + (n - i)
      /\ \A j \in 1 .. (i - 1) + (n - i) : (p \o q)[j] = IF j <= i - 1 THEN p[j] ELSE q[j - (i - 1)]
    <2>1. /\ p \o q \in Seq(S) /\ Len(p \o q) = Len(p) + Len(q)
          /\ \A j \in 1 .. Len(p) + Len(q) : (p \o q)[j] = IF j <= Len(p) THEN p[j] ELSE q[j - Len(p)]
        <3>1. p \in Seq(S) /\ q \in Seq(S)  BY <1>2, <1>3
        <3> QED  BY <3>1, ConcatProperties
    <2> DEFINE r == p \o q
    <2> HIDE DEF r
    <2>2. Len(p) = i - 1 /\ Len(q) = n - i  BY <1>2, <1>3
    <2> QED  BY <2>1, <2>2
<1>6. (i - 1) + (n - i) = n - 1  BY <1>1
<1>7. ASSUME NEW j \in 1 .. n - 1 PROVE (p \o q)[j] = IF j < i THEN s[j] ELSE s[j + 1]
    <2>1. CASE j < i
        <3>1. j <= i - 1 /\ j \in 1 .. i - 1  BY <1>1, <2>1
        <3> QED  BY <1>2, <1>5, <1>6, <2>1, <3>1
    <2>2. CASE ~ (j < i)
        <3>1. ~ (j <= i - 1) /\ j - (i - 1) \in 1 .. n - i /\ i + (j - (i - 1)) = j + 1  BY <1>1, <2>2
        <3>2. (p \o q)[j] = q[j - (i - 1)]  BY <1>5, <1>6, <3>1
        <3> QED  BY <1>3, <2>2, <3>1, <3>2
    <2> QED  BY <2>1, <2>2
<1> QED  BY <1>4, <1>5, <1>6, <1>7 DEF n

\* What the searches find.
LEMMA FindClusterIs ==
    ASSUME NEW S, NEW list \in Seq(S), NEW key
    PROVE  LET c == FindCluster(list, key)
           IN  /\ c = 0 => \A i \in 1 .. Len(list) : list[i].id # ClusterID(key)
               /\ c # 0 => c \in 1 .. Len(list) /\ list[c].id = ClusterID(key)
<1> DEFINE I == {i \in 1 .. Len(list) : list[i].id = ClusterID(key)}
<1>1. FindCluster(list, key) = IF I # {} THEN Min(I) ELSE 0
    BY DEF FindCluster, SelectInSeq
<1>2. Len(list) \in Nat  BY LenProperties
<1>3. I \subseteq Nat  BY <1>2
<1>4. I # {} => Min(I) \in I
    <2> HIDE DEF I
    <2> QED  BY <1>3, LeastIn
<1>5. 0 \notin I  BY <1>2
<1> QED  BY <1>1, <1>4, <1>5

LEMMA PlaceInIs ==
    ASSUME NEW S, NEW block \in Seq(S), NEW key
    PROVE  LET i == PlaceIn(block, key)
           IN  /\ i = 0 => \A j \in 1 .. Len(block) : block[j].key # key
               /\ i # 0 => i \in 1 .. Len(block) /\ block[i].key = key
<1> DEFINE I == {i \in 1 .. Len(block) : block[i].key = key}
<1>1. PlaceIn(block, key) = IF I # {} THEN Min(I) ELSE 0
    BY DEF PlaceIn, SelectInSeq
<1>2. Len(block) \in Nat  BY LenProperties
<1>3. I \subseteq Nat  BY <1>2
<1>4. I # {} => Min(I) \in I
    <2> HIDE DEF I
    <2> QED  BY <1>3, LeastIn
<1>5. 0 \notin I  BY <1>2
<1> QED  BY <1>1, <1>4, <1>5

-----------------------------------------------------------------------------
(* Where a key belongs.                                                      *)

LEMMA AddressSizes ==
    /\ kHashSize \in Nat \ {0} /\ kClusterBlocks \in Nat \ {0}
    /\ kClusterSize \in Nat \ {0} /\ BlockSize \in Nat \ {0}
    /\ WordRange \in Nat \ {0} /\ HashShift \in Nat \ {0} /\ WordRange = kHashSize * HashShift
    /\ kHashMultiplier \in Nat /\ Keys \subseteq Nat /\ ALLOC_COUNT \in Nat \ {0}
<1>1. /\ kBlockBits \in Nat /\ kClusterBits \in Nat /\ kHashBits \in Nat /\ WordBits \in Nat
      /\ kHashBits <= WordBits /\ kHashMultiplier \in Nat /\ Keys \subseteq Nat
      /\ ALLOC_COUNT \in Nat \ {0}
    BY BitsOfAddressAssumption
<1>2. kBlockBits + kClusterBits \in Nat /\ WordBits - kHashBits \in Nat
      /\ kHashBits + (WordBits - kHashBits) = WordBits
    BY <1>1
<1>3. WordRange = kHashSize * HashShift
    <2>1. Pow2[kHashBits + (WordBits - kHashBits)] = Pow2[kHashBits] * Pow2[WordBits - kHashBits]
        BY <1>1, <1>2, Pow2Plus
    <2> QED  BY <1>2, <2>1 DEF WordRange, kHashSize, HashShift
<1> QED  BY <1>1, <1>2, <1>3, Pow2Type
         DEF kHashSize, kClusterBlocks, kClusterSize, BlockSize, WordRange, HashShift

Buckets == 0 .. kHashSize - 1
BlockIDs == 0 .. kClusterBlocks - 1

LEMMA WhereKeyBelongs ==
    ASSUME NEW key \in Keys
    PROVE  /\ ClusterID(key) \in Nat /\ HashInt(ClusterID(key)) \in Buckets
           /\ BlockID(key) \in BlockIDs
<1>1. key \in Nat /\ ClusterID(key) \in Nat
    <2>1. key \in Nat  BY AddressSizes
    <2>2. key \div kClusterSize \in Nat  BY <2>1, AddressSizes, Division
    <2> QED  BY <2>1, <2>2 DEF ClusterID
<1>2. BlockID(key) \in BlockIDs
    <2> DEFINE q == key \div BlockSize
    <2>1. q \in Nat  BY <1>1, AddressSizes, Division
    <2> HIDE DEF q
    <2>2. q % kClusterBlocks \in 0 .. kClusterBlocks - 1  BY <2>1, AddressSizes, Division
    <2> QED  BY <2>2 DEF BlockID, BlockIDs, q
<1>3. HashInt(ClusterID(key)) \in Buckets
    <2> DEFINE n == ClusterID(key) * kHashMultiplier
               r == n % WordRange
               d == r \div HashShift
    <2>1. n \in Nat  BY <1>1, AddressSizes
    <2> HIDE DEF n
    <2>2. r \in 0 .. WordRange - 1  BY <2>1, AddressSizes, Division
    <2>3. r \in Nat /\ r < WordRange  BY <2>2, AddressSizes
    <2> HIDE DEF r
    <2>4. d \in Nat  BY <2>3, AddressSizes, Division
    <2> HIDE DEF d
    <2>5. d * HashShift <= r
        <3>1. r \div HashShift = d  BY DEF d
        <3> QED  BY <2>3, <2>4, <3>1, AddressSizes, DivisionOrdered
    <2>6. d < kHashSize
        <3> SUFFICES ASSUME kHashSize <= d PROVE FALSE  BY <2>4, AddressSizes
        <3>1. PICK e \in Nat : d = kHashSize + e
            <4>1. d - kHashSize \in Nat /\ d = kHashSize + (d - kHashSize)  BY <2>4, AddressSizes
            <4> QED  BY <4>1
        <3>2. d * HashShift = kHashSize * HashShift + e * HashShift /\ e * HashShift \in Nat
            BY <3>1, AddressSizes
        <3>3. kHashSize * HashShift \in Nat  BY AddressSizes
        <3> QED  BY <2>3, <2>5, <3>2, <3>3, AddressSizes
    <2>7. d \in Buckets  BY <2>4, <2>6, AddressSizes DEF Buckets
    <2> QED  BY <2>7 DEF HashInt, d, r, n
<1> QED  BY <1>1, <1>2, <1>3

-----------------------------------------------------------------------------
(* The table, apart from the variable, so that a change can be taken in two  *)
(* steps: a cluster that is added, and a block that is changed.              *)

Entries == [e : Nat, key : Keys, value : Values]
Clusters == [id : Nat, blocks : [BlockIDs -> Seq(Entries)]]

Shaped(T) == T \in [Buckets -> Seq(Clusters)]
BlockAt(T, h, c, b) == T[h][c].blocks[b]

\* The entries that are in some block.
Table(T) ==
    {x \in Entries : \E h \in Buckets : \E c \in 1 .. Len(T[h]) : \E b \in BlockIDs :
        x \in ToSet(BlockAt(T, h, c, b))}

\* An entry is where its key belongs.
Belongs(x, T, h, c, b) ==
    h = HashInt(ClusterID(x.key)) /\ T[h][c].id = ClusterID(x.key) /\ b = BlockID(x.key)
PlacedRight(T) ==
    \A h \in Buckets : \A c \in 1 .. Len(T[h]) : \A b \in BlockIDs :
        \A x \in ToSet(BlockAt(T, h, c, b)) : Belongs(x, T, h, c, b)

\* No bucket has two clusters, and no block two entries, of one name.
ClustersDiffer(list) == \A c, d \in 1 .. Len(list) : list[c].id = list[d].id => c = d
KeysDiffer(s) == \A i, j \in 1 .. Len(s) : s[i].key = s[j].key => i = j
ClustersOnce(T) == \A h \in Buckets : ClustersDiffer(T[h])
KeysOnce(T) ==
    \A h \in Buckets : \A c \in 1 .. Len(T[h]) : \A b \in BlockIDs : KeysDiffer(BlockAt(T, h, c, b))

TableRight(T) == Shaped(T) /\ PlacedRight(T) /\ ClustersOnce(T) /\ KeysOnce(T)

\* Find, in any table.
BlockIn(T, key) ==
    LET list == T[HashInt(ClusterID(key))]
        c    == FindCluster(list, key)
    IN  IF c = 0 THEN <<>> ELSE list[c].blocks[BlockID(key)]
FindIn(T, key) ==
    LET block == BlockIn(T, key)
        place == PlaceIn(block, key)
    IN  IF place = 0 THEN NoValue ELSE block[place].value

LEMMA BlockShape ==
    ASSUME NEW T, Shaped(T), NEW h \in Buckets, NEW c \in 1 .. Len(T[h]), NEW b \in BlockIDs
    PROVE  /\ T[h] \in Seq(Clusters) /\ T[h][c] \in Clusters
           /\ BlockAt(T, h, c, b) \in Seq(Entries)
<1>1. T[h] \in Seq(Clusters)  BY DEF Shaped
<1>2. T[h][c] \in Clusters  BY <1>1, ElementOfSeq
<1> QED  BY <1>1, <1>2 DEF BlockAt, Clusters

\* Entries of one key are one entry, in one place.
LEMMA KeyOnce ==
    ASSUME NEW T, TableRight(T), NEW key \in Keys,
           NEW h \in Buckets, NEW c \in 1 .. Len(T[h]), NEW b \in BlockIDs,
           NEW g \in Buckets, NEW d \in 1 .. Len(T[g]), NEW a \in BlockIDs,
           NEW x \in ToSet(BlockAt(T, h, c, b)), x.key = key,
           NEW y \in ToSet(BlockAt(T, g, d, a)), y.key = key
    PROVE  h = g /\ c = d /\ b = a /\ x = y
<1>1. Shaped(T) /\ PlacedRight(T) /\ ClustersOnce(T) /\ KeysOnce(T)  BY DEF TableRight
<1>2. Belongs(x, T, h, c, b) /\ Belongs(y, T, g, d, a)  BY <1>1 DEF PlacedRight
<1>3. h = g /\ b = a /\ T[h][c].id = T[h][d].id  BY <1>2 DEF Belongs
<1>4. c = d  BY <1>1, <1>3 DEF ClustersOnce, ClustersDiffer
<1> DEFINE s == BlockAt(T, h, c, b)
<1>5. s \in Seq(Entries) /\ KeysDiffer(s)  BY <1>1, BlockShape DEF KeysOnce
<1>6. x \in ToSet(s) /\ y \in ToSet(s)  BY <1>3, <1>4
<1> HIDE DEF s
<1>7. x = y
    <2>1. ToSet(s) = {s[i] : i \in 1 .. Len(s)}  BY <1>5, Members
    <2>2. PICK i \in 1 .. Len(s) : x = s[i]  BY <1>6, <2>1
    <2>3. PICK j \in 1 .. Len(s) : y = s[j]  BY <1>6, <2>1
    <2> QED  BY <1>5, <2>2, <2>3 DEF KeysDiffer
<1> QED  BY <1>3, <1>4, <1>7

LEMMA TableKeyOnce ==
    ASSUME NEW T, TableRight(T), NEW x \in Table(T), NEW y \in Table(T), x.key = y.key
    PROVE  x = y
<1>1. PICK h \in Buckets : \E c \in 1 .. Len(T[h]) : \E b \in BlockIDs : x \in ToSet(BlockAt(T, h, c, b))
    BY DEF Table
<1>2. PICK g \in Buckets : \E d \in 1 .. Len(T[g]) : \E a \in BlockIDs : y \in ToSet(BlockAt(T, g, d, a))
    BY DEF Table
<1>3. x.key \in Keys  BY DEF Table, Entries
<1> QED  BY <1>1, <1>2, <1>3, KeyOnce

\* Where the searches of Find come to, or nothing is.
LEMMA BlockInIs ==
    ASSUME NEW T, TableRight(T), NEW key \in Keys
    PROVE  LET h == HashInt(ClusterID(key))
               c == FindCluster(T[h], key)
               b == BlockID(key)
           IN  /\ h \in Buckets /\ b \in BlockIDs /\ T[h] \in Seq(Clusters)
               /\ c = 0 => BlockIn(T, key) = <<>>
               /\ c # 0 => /\ c \in 1 .. Len(T[h]) /\ T[h][c].id = ClusterID(key)
                           /\ BlockIn(T, key) = BlockAt(T, h, c, b)
               /\ BlockIn(T, key) \in Seq(Entries) /\ KeysDiffer(BlockIn(T, key))
               /\ \A x \in Table(T) : x.key = key => x \in ToSet(BlockIn(T, key))
               /\ ToSet(BlockIn(T, key)) \subseteq Table(T)
<1> DEFINE h == HashInt(ClusterID(key))
           list == T[h]
           c == FindCluster(list, key)
           b == BlockID(key)
           s == BlockIn(T, key)
<1>1. Shaped(T) /\ PlacedRight(T) /\ ClustersOnce(T) /\ KeysOnce(T)  BY DEF TableRight
<1>2. h \in Buckets /\ b \in BlockIDs  BY WhereKeyBelongs
<1>3. list \in Seq(Clusters)  BY <1>1, <1>2 DEF Shaped
<1>4. /\ c = 0 => \A i \in 1 .. Len(list) : list[i].id # ClusterID(key)
      /\ c # 0 => c \in 1 .. Len(list) /\ list[c].id = ClusterID(key)
    BY <1>3, FindClusterIs
<1>5. s = IF c = 0 THEN <<>> ELSE BlockAt(T, h, c, b)  BY DEF BlockIn, BlockAt
<1>6. s \in Seq(Entries) /\ KeysDiffer(s)
    <2>1. CASE c = 0
        <3>1. s = <<>>  BY <1>5, <2>1
        <3> HIDE DEF s
        <3>2. s \in Seq(Entries)  BY <3>1, EmptySeq
        <3>3. 1 .. Len(s) = {}  BY <3>1
        <3> QED  BY <3>2, <3>3 DEF KeysDiffer
    <2>2. CASE c # 0
        <3>1. c \in 1 .. Len(T[h])  BY <1>4, <2>2
        <3>2. s = BlockAt(T, h, c, b)  BY <1>5, <2>2
        <3> HIDE DEF s, c, h, b
        <3> QED  BY <1>1, <1>2, <3>1, <3>2, BlockShape DEF KeysOnce
    <2> QED  BY <2>1, <2>2
<1>7. \A x \in Table(T) : x.key = key => x \in ToSet(s)
    <2> SUFFICES ASSUME NEW x \in Table(T), x.key = key PROVE x \in ToSet(s)  OBVIOUS
    <2>1. PICK g \in Buckets : \E d \in 1 .. Len(T[g]) : \E a \in BlockIDs : x \in ToSet(BlockAt(T, g, d, a))
        BY DEF Table
    <2>2. PICK d \in 1 .. Len(T[g]), a \in BlockIDs : x \in ToSet(BlockAt(T, g, d, a))  BY <2>1
    <2>3. Belongs(x, T, g, d, a)  BY <1>1, <2>2 DEF PlacedRight
    <2>4. g = h /\ a = b /\ list[d].id = ClusterID(key) /\ d \in 1 .. Len(list)  BY <2>3 DEF Belongs
    <2>5. c # 0 /\ c \in 1 .. Len(list) /\ list[c].id = ClusterID(key)  BY <1>4, <2>4
    <2>6. c = d  BY <1>1, <1>2, <2>4, <2>5 DEF ClustersOnce, ClustersDiffer
    <2> QED  BY <1>5, <2>2, <2>4, <2>5, <2>6
<1>8. ToSet(s) \subseteq Table(T)
    <2> SUFFICES ASSUME NEW x \in ToSet(s) PROVE x \in Table(T)  OBVIOUS
    <2>1. ToSet(s) \subseteq Entries /\ s # <<>>  BY <1>6, Members
    <2>2. c # 0 /\ c \in 1 .. Len(T[h]) /\ x \in ToSet(BlockAt(T, h, c, b))  BY <1>4, <1>5, <2>1
    <2> HIDE DEF s, c, h, b
    <2> QED  BY <1>2, <2>1, <2>2 DEF Table
<1> QED  BY <1>2, <1>3, <1>4, <1>5, <1>6, <1>7, <1>8

\* Find gives the value of the key's entry, or nothing when there is none.
LEMMA FindIs ==
    ASSUME NEW T, TableRight(T), NEW key \in Keys
    PROVE  LET i == PlaceIn(BlockIn(T, key), key)
           IN  /\ i = 0 => FindIn(T, key) = NoValue /\ \A x \in Table(T) : x.key # key
               /\ i # 0 => /\ i \in 1 .. Len(BlockIn(T, key)) /\ BlockIn(T, key)[i] \in Table(T)
                           /\ BlockIn(T, key)[i].key = key
                           /\ FindIn(T, key) = BlockIn(T, key)[i].value
<1> DEFINE s == BlockIn(T, key)
           i == PlaceIn(s, key)
<1>1. /\ s \in Seq(Entries) /\ \A x \in Table(T) : x.key = key => x \in ToSet(s)
      /\ ToSet(s) \subseteq Table(T)
    BY BlockInIs
<1>2. FindIn(T, key) = IF i = 0 THEN NoValue ELSE s[i].value  BY DEF FindIn
<1> HIDE DEF s
<1>3. /\ i = 0 => \A j \in 1 .. Len(s) : s[j].key # key
      /\ i # 0 => i \in 1 .. Len(s) /\ s[i].key = key
    BY <1>1, PlaceInIs
<1>4. ToSet(s) = {s[j] : j \in 1 .. Len(s)}  BY <1>1, Members
<1> HIDE DEF i
<1>5. i = 0 => \A x \in Table(T) : x.key # key  BY <1>1, <1>3, <1>4
<1>6. i # 0 => s[i] \in Table(T)  BY <1>1, <1>3, <1>4
<1> QED  BY <1>2, <1>3, <1>5, <1>6 DEF s, i

\* So it depends on what is in the table alone.
LEMMA FoundIs ==
    ASSUME NEW T, TableRight(T), NEW key \in Keys
    PROVE  /\ \A x \in Table(T) : x.key = key => FindIn(T, key) = x.value
           /\ (\A x \in Table(T) : x.key # key) => FindIn(T, key) = NoValue
           /\ FindIn(T, key) = NoValue => \A x \in Table(T) : x.key # key
<1> DEFINE i == PlaceIn(BlockIn(T, key), key)
           y == BlockIn(T, key)[i]
<1>1. /\ i = 0 => FindIn(T, key) = NoValue /\ \A x \in Table(T) : x.key # key
      /\ i # 0 => y \in Table(T) /\ y.key = key /\ FindIn(T, key) = y.value
    BY FindIs
<1> HIDE DEF i, y
<1>2. i # 0 => \A x \in Table(T) : x.key = key => x = y  BY <1>1, TableKeyOnce
<1>3. \A x \in Table(T) : x.value \in Values /\ NoValue \notin Values
    BY BitsOfAddressAssumption DEF Table, Entries
<1> QED  BY <1>1, <1>2, <1>3

WithBlock(T, h, c, b, s) ==
    [T EXCEPT ![h] = [T[h] EXCEPT ![c] = [T[h][c] EXCEPT !.blocks = [T[h][c].blocks EXCEPT ![b] = s]]]]

LEMMA WithBlockIs ==
    ASSUME NEW T, Shaped(T), NEW h \in Buckets, NEW c \in 1 .. Len(T[h]), NEW b \in BlockIDs,
           NEW s \in Seq(Entries)
    PROVE  LET U == WithBlock(T, h, c, b, s)
           IN  /\ Shaped(U) /\ \A g \in Buckets : Len(U[g]) = Len(T[g])
               /\ \A g \in Buckets : \A d \in 1 .. Len(T[g]) :
                     /\ U[g][d].id = T[g][d].id
                     /\ \A a \in BlockIDs :
                           BlockAt(U, g, d, a) = IF g = h /\ d = c /\ a = b THEN s ELSE BlockAt(T, g, d, a)
<1> DEFINE cluster == T[h][c]
           blocksN == [cluster.blocks EXCEPT ![b] = s]
           clusterN == [cluster EXCEPT !.blocks = blocksN]
           listN == [T[h] EXCEPT ![c] = clusterN]
           U == WithBlock(T, h, c, b, s)
<1>1. /\ T[h] \in Seq(Clusters) /\ cluster \in Clusters  BY BlockShape
<1>2. /\ blocksN \in [BlockIDs -> Seq(Entries)]
      /\ \A a \in BlockIDs : blocksN[a] = IF a = b THEN s ELSE cluster.blocks[a]
    <2>1. cluster.blocks \in [BlockIDs -> Seq(Entries)]  BY <1>1 DEF Clusters
    <2> HIDE DEF cluster
    <2> QED  BY <2>1
<1>3. clusterN \in Clusters /\ clusterN.id = cluster.id /\ clusterN.blocks = blocksN
    <2> HIDE DEF blocksN, cluster
    <2> QED  BY <1>1, <1>2 DEF Clusters
<1> HIDE DEF clusterN
<1>4. /\ listN \in Seq(Clusters) /\ Len(listN) = Len(T[h])
      /\ \A d \in 1 .. Len(T[h]) : listN[d] = IF d = c THEN clusterN ELSE T[h][d]
    BY <1>1, <1>3, ExceptSeq
<1>5. U = [T EXCEPT ![h] = listN]  BY DEF WithBlock, clusterN
<1> HIDE DEF listN, U
<1>6. Shaped(U) /\ \A g \in Buckets : U[g] = IF g = h THEN listN ELSE T[g]
    BY <1>4, <1>5 DEF Shaped
<1>7. \A g \in Buckets : Len(U[g]) = Len(T[g])  BY <1>4, <1>6
<1>8. ASSUME NEW g \in Buckets, NEW d \in 1 .. Len(T[g])
      PROVE  U[g][d] = IF g = h /\ d = c THEN clusterN ELSE T[g][d]
    BY <1>4, <1>6
<1>9. ASSUME NEW g \in Buckets, NEW d \in 1 .. Len(T[g])
      PROVE  U[g][d].id = T[g][d].id
    <2>1. CASE g = h /\ d = c  BY <1>3, <1>8, <2>1
    <2>2. CASE ~ (g = h /\ d = c)
        <3>1. U[g][d] = T[g][d]  BY <1>8, <2>2
        <3> QED  BY <3>1
    <2> QED  BY <2>1, <2>2
<1>10. ASSUME NEW g \in Buckets, NEW d \in 1 .. Len(T[g]), NEW a \in BlockIDs
       PROVE  BlockAt(U, g, d, a) = IF g = h /\ d = c /\ a = b THEN s ELSE BlockAt(T, g, d, a)
    <2>1. CASE g = h /\ d = c
        <3>1. U[g][d].blocks = blocksN  BY <1>3, <1>8, <2>1
        <3> HIDE DEF blocksN
        <3>2. U[g][d].blocks[a] = IF a = b THEN s ELSE cluster.blocks[a]  BY <1>2, <3>1
        <3> QED  BY <2>1, <3>2 DEF BlockAt
    <2>2. CASE ~ (g = h /\ d = c)
        <3>1. U[g][d] = T[g][d]  BY <1>8, <2>2
        <3> QED  BY <2>2, <3>1 DEF BlockAt
    <2> QED  BY <2>1, <2>2
<1> QED  BY <1>6, <1>7, <1>9, <1>10 DEF U

LEMMA BlockChanged ==
    ASSUME NEW T, TableRight(T), NEW h \in Buckets, NEW c \in 1 .. Len(T[h]), NEW b \in BlockIDs,
           NEW s \in Seq(Entries), KeysDiffer(s), \A x \in ToSet(s) : Belongs(x, T, h, c, b)
    PROVE  LET U == WithBlock(T, h, c, b, s)
           IN  /\ TableRight(U)
               /\ Table(U) = {x \in Table(T) : x \notin ToSet(BlockAt(T, h, c, b))} \cup ToSet(s)
<1> DEFINE U == WithBlock(T, h, c, b, s)
<1>0. Shaped(T) /\ PlacedRight(T) /\ ClustersOnce(T) /\ KeysOnce(T)  BY DEF TableRight
<1>1. /\ Shaped(U) /\ \A g \in Buckets : Len(U[g]) = Len(T[g])
      /\ \A g \in Buckets : \A d \in 1 .. Len(T[g]) :
            /\ U[g][d].id = T[g][d].id
            /\ \A a \in BlockIDs :
                  BlockAt(U, g, d, a) = IF g = h /\ d = c /\ a = b THEN s ELSE BlockAt(T, g, d, a)
    BY <1>0, WithBlockIs
<1> HIDE DEF U
<1>2. PlacedRight(U)
    <2> SUFFICES ASSUME NEW g \in Buckets, NEW d \in 1 .. Len(T[g]), NEW a \in BlockIDs,
                        NEW x \in ToSet(BlockAt(U, g, d, a))
                 PROVE  Belongs(x, U, g, d, a)
        BY <1>1 DEF PlacedRight
    <2>1. Belongs(x, T, g, d, a)
        <3>1. CASE g = h /\ d = c /\ a = b
            <4>1. x \in ToSet(s)  BY <1>1, <3>1
            <4> QED  BY <3>1, <4>1
        <3>2. CASE ~ (g = h /\ d = c /\ a = b)
            <4>1. x \in ToSet(BlockAt(T, g, d, a))  BY <1>1, <3>2
            <4> QED  BY <1>0, <4>1 DEF PlacedRight
        <3> QED  BY <3>1, <3>2
    <2>2. U[g][d].id = T[g][d].id  BY <1>1
    <2> QED  BY <2>1, <2>2 DEF Belongs
<1>3. ClustersOnce(U)  BY <1>0, <1>1 DEF ClustersOnce, ClustersDiffer
<1>4. KeysOnce(U)
    <2> SUFFICES ASSUME NEW g \in Buckets, NEW d \in 1 .. Len(T[g]), NEW a \in BlockIDs
                 PROVE  KeysDiffer(BlockAt(U, g, d, a))
        BY <1>1 DEF KeysOnce
    <2>1. KeysDiffer(BlockAt(T, g, d, a))  BY <1>0 DEF KeysOnce
    <2>2. BlockAt(U, g, d, a) = s \/ BlockAt(U, g, d, a) = BlockAt(T, g, d, a)  BY <1>1
    <2> QED  BY <2>1, <2>2
<1>5. ToSet(s) \subseteq Entries  BY Members
<1>6. ASSUME NEW x \in Table(U)
      PROVE  (x \in Table(T) /\ x \notin ToSet(BlockAt(T, h, c, b))) \/ x \in ToSet(s)
    <2>1. PICK g \in Buckets : \E d \in 1 .. Len(U[g]) : \E a \in BlockIDs : x \in ToSet(BlockAt(U, g, d, a))
        BY DEF Table
    <2>2. PICK d \in 1 .. Len(T[g]), a \in BlockIDs : x \in ToSet(BlockAt(U, g, d, a))
        BY <1>1, <2>1
    <2>3. CASE g = h /\ d = c /\ a = b  BY <1>1, <2>2, <2>3
    <2>4. CASE ~ (g = h /\ d = c /\ a = b)
        <3>1. x \in ToSet(BlockAt(T, g, d, a))  BY <1>1, <2>2, <2>4
        <3>2. x \in Entries /\ x.key \in Keys  BY DEF Table, Entries
        <3>3. x \in Table(T)  BY <3>1, <3>2 DEF Table
        <3>4. x \notin ToSet(BlockAt(T, h, c, b))
            <4> SUFFICES ASSUME x \in ToSet(BlockAt(T, h, c, b)) PROVE FALSE  OBVIOUS
            <4>1. g = h /\ d = c /\ a = b  BY <3>1, <3>2, KeyOnce
            <4> QED  BY <2>4, <4>1
        <3> QED  BY <3>3, <3>4
    <2> QED  BY <2>3, <2>4
<1>7. ASSUME NEW x \in Table(T), x \notin ToSet(BlockAt(T, h, c, b))
      PROVE  x \in Table(U)
    <2>1. PICK g \in Buckets : \E d \in 1 .. Len(T[g]) : \E a \in BlockIDs : x \in ToSet(BlockAt(T, g, d, a))
        BY DEF Table
    <2>2. PICK d \in 1 .. Len(T[g]), a \in BlockIDs : x \in ToSet(BlockAt(T, g, d, a))  BY <2>1
    <2>3. ~ (g = h /\ d = c /\ a = b)  BY <1>7, <2>2
    <2>4. d \in 1 .. Len(U[g]) /\ x \in ToSet(BlockAt(U, g, d, a))  BY <1>1, <2>2, <2>3
    <2> QED  BY <2>4 DEF Table
<1>8. ASSUME NEW x \in ToSet(s) PROVE x \in Table(U)
    <2>1. c \in 1 .. Len(U[h]) /\ x \in ToSet(BlockAt(U, h, c, b))  BY <1>1
    <2> QED  BY <1>5, <2>1 DEF Table
<1>9. Table(U) = {x \in Table(T) : x \notin ToSet(BlockAt(T, h, c, b))} \cup ToSet(s)
    BY <1>6, <1>7, <1>8
<1> QED  BY <1>1, <1>2, <1>3, <1>4, <1>9 DEF TableRight, U

WithCluster(T, h, id) == [T EXCEPT ![h] = <<NewCluster(id)>> \o T[h]]

LEMMA NewClusterIs ==
    ASSUME NEW id \in Nat
    PROVE  /\ NewCluster(id) \in Clusters /\ NewCluster(id).id = id
           /\ \A b \in BlockIDs : NewCluster(id).blocks[b] = <<>> /\ ToSet(NewCluster(id).blocks[b]) = {}
<1>1. <<>> \in Seq(Entries) /\ ToSet(<<>>) = {}
    <2>1. <<>> \in Seq(Entries)  BY EmptySeq
    <2> QED  BY <2>1, Members
<1>2. [b \in BlockIDs |-> <<>>] \in [BlockIDs -> Seq(Entries)]  BY <1>1
<1>3. NewCluster(id) = [id |-> id, blocks |-> [b \in BlockIDs |-> <<>>]]  BY DEF NewCluster, BlockIDs
<1> QED  BY <1>1, <1>2, <1>3 DEF Clusters

\* A cluster with nothing in it changes nothing.
LEMMA ClusterAdded ==
    ASSUME NEW T, TableRight(T), NEW h \in Buckets, NEW id \in Nat,
           \A c \in 1 .. Len(T[h]) : T[h][c].id # id
    PROVE  LET U == WithCluster(T, h, id)
           IN  /\ TableRight(U) /\ Table(U) = Table(T)
               /\ U[h] = <<NewCluster(id)>> \o T[h]
               /\ 1 \in 1 .. Len(U[h]) /\ U[h][1].id = id
               /\ \A b \in BlockIDs : BlockAt(U, h, 1, b) = <<>>
<1> DEFINE U == WithCluster(T, h, id)
           new == NewCluster(id)
           list == T[h]
           listN == <<new>> \o list
<1>0. Shaped(T) /\ PlacedRight(T) /\ ClustersOnce(T) /\ KeysOnce(T)  BY DEF TableRight
<1>1. /\ new \in Clusters /\ new.id = id
      /\ \A b \in BlockIDs : new.blocks[b] = <<>> /\ ToSet(new.blocks[b]) = {}
    BY NewClusterIs
<1>2. list \in Seq(Clusters) /\ Len(list) \in Nat  BY <1>0, LenProperties DEF Shaped
<1> HIDE DEF new
<1>3. /\ listN \in Seq(Clusters) /\ Len(listN) = Len(list) + 1
      /\ \A i \in 1 .. Len(list) + 1 : listN[i] = IF i = 1 THEN new ELSE list[i - 1]
    <2>1. <<new>> \in Seq(Clusters) /\ Len(<<new>>) = 1 /\ <<new>>[1] = new  BY <1>1
    <2> HIDE DEF list
    <2>2. /\ listN \in Seq(Clusters) /\ Len(listN) = 1 + Len(list)
          /\ \A i \in 1 .. 1 + Len(list) : listN[i] = IF i <= 1 THEN <<new>>[i] ELSE list[i - 1]
        BY <1>2, <2>1, ConcatProperties
    <2> HIDE DEF listN
    <2> QED  BY <1>2, <2>1, <2>2
<1>4. U = [T EXCEPT ![h] = listN]  BY DEF WithCluster, new
<1> HIDE DEF U, listN
<1>5. Shaped(U) /\ U[h] = listN /\ \A g \in Buckets \ {h} : U[g] = T[g]
    BY <1>0, <1>3, <1>4 DEF Shaped
<1>6. 1 \in 1 .. Len(U[h]) /\ U[h][1] = new  BY <1>2, <1>3, <1>5
\* Where a cluster of U was.
<1>7. ASSUME NEW g \in Buckets, NEW c \in 1 .. Len(U[g])
      PROVE  (g = h /\ c = 1) \/ \E d \in 1 .. Len(T[g]) : U[g][c] = T[g][d] /\ (g = h => d = c - 1) /\ (g # h => d = c)
    <2>1. CASE g = h
        <3>1. c = 1 \/ c - 1 \in 1 .. Len(T[g])  BY <1>2, <1>3, <1>5, <2>1
        <3>2. c # 1 => U[g][c] = T[g][c - 1]  BY <1>2, <1>3, <1>5, <2>1
        <3> QED  BY <2>1, <3>1, <3>2
    <2>2. CASE g # h  BY <1>5, <2>2
    <2> QED  BY <2>1, <2>2
\* Where a cluster of T is.
<1>8. ASSUME NEW g \in Buckets, NEW d \in 1 .. Len(T[g])
      PROVE  \E c \in 1 .. Len(U[g]) : U[g][c] = T[g][d]
    <2>1. CASE g = h
        <3>1. d + 1 \in 1 .. Len(U[g]) /\ d + 1 # 1 /\ (d + 1) - 1 = d  BY <1>2, <1>3, <1>5, <2>1
        <3>2. U[g][d + 1] = T[g][d]  BY <1>2, <1>3, <1>5, <2>1, <3>1
        <3> QED  BY <3>1, <3>2
    <2>2. CASE g # h  BY <1>5, <2>2
    <2> QED  BY <2>1, <2>2
<1>9. PlacedRight(U)
    <2> SUFFICES ASSUME NEW g \in Buckets, NEW c \in 1 .. Len(U[g]), NEW b \in BlockIDs,
                        NEW x \in ToSet(U[g][c].blocks[b])
                 PROVE  Belongs(x, U, g, c, b)
        BY DEF PlacedRight, BlockAt
    <2>1. ~ (g = h /\ c = 1)  BY <1>1, <1>6
    <2>2. PICK d \in 1 .. Len(T[g]) : U[g][c] = T[g][d]  BY <1>7, <2>1
    <2>3. Belongs(x, T, g, d, b)  BY <1>0, <2>2 DEF PlacedRight, BlockAt
    <2> QED  BY <2>2, <2>3 DEF Belongs
<1>10. ClustersOnce(U)
    <2> SUFFICES ASSUME NEW g \in Buckets, NEW c \in 1 .. Len(U[g]), NEW d \in 1 .. Len(U[g]),
                        U[g][c].id = U[g][d].id
                 PROVE  c = d
        BY DEF ClustersOnce, ClustersDiffer
    <2>1. CASE g # h  BY <1>0, <1>5, <2>1 DEF ClustersOnce, ClustersDiffer
    <2>2. CASE g = h
        <3>1. c # 1 => c - 1 \in 1 .. Len(T[h]) /\ U[h][c] = T[h][c - 1]
            BY <1>2, <1>3, <1>5, <2>2
        <3>2. d # 1 => d - 1 \in 1 .. Len(T[h]) /\ U[h][d] = T[h][d - 1]
            BY <1>2, <1>3, <1>5, <2>2
        <3>3. c # 1 /\ d # 1 => c - 1 = d - 1
            BY <1>0, <2>2, <3>1, <3>2 DEF ClustersOnce, ClustersDiffer
        <3>4. c = 1 <=> d = 1  BY <1>1, <1>6, <2>2, <3>1, <3>2
        <3>5. c \in Int /\ d \in Int  OBVIOUS
        <3> QED  BY <3>3, <3>4, <3>5
    <2> QED  BY <2>1, <2>2
<1>11. KeysOnce(U)
    <2> SUFFICES ASSUME NEW g \in Buckets, NEW c \in 1 .. Len(U[g]), NEW b \in BlockIDs
                 PROVE  KeysDiffer(U[g][c].blocks[b])
        BY DEF KeysOnce, BlockAt
    <2>1. CASE g = h /\ c = 1
        <3>1. U[g][c].blocks[b] = <<>>  BY <1>1, <1>6, <2>1
        <3>2. 1 .. Len(<<>>) = {}  OBVIOUS
        <3> QED  BY <3>1, <3>2 DEF KeysDiffer
    <2>2. CASE ~ (g = h /\ c = 1)  BY <1>0, <1>7, <2>2 DEF KeysOnce, BlockAt
    <2> QED  BY <2>1, <2>2
<1>12. Table(U) = Table(T)
    <2>1. ASSUME NEW x \in Table(U) PROVE x \in Table(T)
        <3>1. PICK g \in Buckets : \E c \in 1 .. Len(U[g]) : \E b \in BlockIDs : x \in ToSet(U[g][c].blocks[b])
            BY DEF Table, BlockAt
        <3>2. PICK c \in 1 .. Len(U[g]), b \in BlockIDs : x \in ToSet(U[g][c].blocks[b])  BY <3>1
        <3>3. ~ (g = h /\ c = 1)  BY <1>1, <1>6, <3>2
        <3>4. PICK d \in 1 .. Len(T[g]) : U[g][c] = T[g][d]  BY <1>7, <3>3
        <3> QED  BY <3>2, <3>4 DEF Table, BlockAt
    <2>2. ASSUME NEW x \in Table(T) PROVE x \in Table(U)
        <3>1. PICK g \in Buckets : \E d \in 1 .. Len(T[g]) : \E b \in BlockIDs : x \in ToSet(T[g][d].blocks[b])
            BY DEF Table, BlockAt
        <3>2. PICK d \in 1 .. Len(T[g]), b \in BlockIDs : x \in ToSet(T[g][d].blocks[b])  BY <3>1
        <3>3. PICK c \in 1 .. Len(U[g]) : U[g][c] = T[g][d]  BY <1>8
        <3> QED  BY <3>2, <3>3 DEF Table, BlockAt
    <2> QED  BY <2>1, <2>2
<1>13. \A b \in BlockIDs : BlockAt(U, h, 1, b) = <<>>  BY <1>1, <1>6 DEF BlockAt
<1> QED  BY <1>1, <1>5, <1>6, <1>9, <1>10, <1>11, <1>12, <1>13 DEF TableRight, U, listN, new

-----------------------------------------------------------------------------
(* What the operations do to a block and to the table.                       *)

OtherKeys(X, key) == {x \in X : x.key # key}

LEMMA BlockReplaced ==
    ASSUME NEW s \in Seq(Entries), KeysDiffer(s), NEW i \in 1 .. Len(s),
           NEW new \in Entries, s[i].key = new.key
    PROVE  /\ [s EXCEPT ![i] = new] \in Seq(Entries) /\ KeysDiffer([s EXCEPT ![i] = new])
           /\ ToSet([s EXCEPT ![i] = new]) = OtherKeys(ToSet(s), new.key) \cup {new}
<1> DEFINE t == [s EXCEPT ![i] = new]
           n == Len(s)
<1>1. /\ t \in Seq(Entries) /\ Len(t) = n
      /\ \A j \in 1 .. n : t[j] = IF j = i THEN new ELSE s[j]
    BY ExceptSeq
<1> HIDE DEF t
<1>2. ToSet(s) = {s[j] : j \in 1 .. n} /\ ToSet(t) = {t[j] : j \in 1 .. n}
    BY <1>1, Members
<1>3. \A j \in 1 .. n : t[j].key = s[j].key  BY <1>1
<1>4. KeysDiffer(t)  BY <1>1, <1>3 DEF KeysDiffer
<1>5. \A j \in 1 .. n : j # i => s[j].key # new.key  BY DEF KeysDiffer
<1>6. ToSet(t) = OtherKeys(ToSet(s), new.key) \cup {new}
    <2>1. ASSUME NEW x \in ToSet(t) PROVE x \in OtherKeys(ToSet(s), new.key) \cup {new}
        BY <1>1, <1>2, <1>5 DEF OtherKeys
    <2>2. new \in ToSet(t)  BY <1>1, <1>2
    <2>3. ASSUME NEW x \in OtherKeys(ToSet(s), new.key) PROVE x \in ToSet(t)
        BY <1>1, <1>2 DEF OtherKeys
    <2> QED  BY <2>1, <2>2, <2>3
<1> QED  BY <1>1, <1>4, <1>6 DEF t

LEMMA BlockPushed ==
    ASSUME NEW s \in Seq(Entries), KeysDiffer(s), NEW key, \A i \in 1 .. Len(s) : s[i].key # key,
           NEW new \in Entries, new.key = key
    PROVE  LET t == <<new>> \o s
           IN  /\ t \in Seq(Entries) /\ KeysDiffer(t)
               /\ ToSet(t) = OtherKeys(ToSet(s), key) \cup {new}
<1> DEFINE t == <<new>> \o s
           n == Len(s)
<1>1. /\ t \in Seq(Entries) /\ Len(t) = 1 + n /\ n \in Nat
      /\ \A j \in 1 .. 1 + n : t[j] = IF j <= 1 THEN new ELSE s[j - 1]
    <2>1. <<new>> \in Seq(Entries) /\ Len(<<new>>) = 1 /\ <<new>>[1] = new  OBVIOUS
    <2>2. n \in Nat  BY LenProperties
    <2>3. t \in Seq(Entries) /\ Len(t) = 1 + n
          /\ \A j \in 1 .. 1 + n : t[j] = IF j <= 1 THEN <<new>>[j] ELSE s[j - 1]
        BY <2>1, ConcatProperties
    <2> HIDE DEF t
    <2> QED  BY <2>1, <2>2, <2>3
<1>2. ToSet(s) = {s[j] : j \in 1 .. n} /\ ToSet(t) = {new} \cup ToSet(s)
    BY PushedMembers, Members
<1> HIDE DEF t
<1>3. KeysDiffer(t)
    <2> SUFFICES ASSUME NEW j \in 1 .. 1 + n, NEW k \in 1 .. 1 + n, j < k, t[j].key = t[k].key
                 PROVE  FALSE
        <3>1. \A j, k \in 1 .. 1 + n : j # k => j < k \/ k < j  BY <1>1
        <3> QED  BY <1>1, <3>1 DEF KeysDiffer
    <2>1. k - 1 \in 1 .. n /\ t[k] = s[k - 1]  BY <1>1
    <2>2. CASE j = 1  BY <1>1, <2>1, <2>2
    <2>3. CASE j # 1
        <3>1. j - 1 \in 1 .. n /\ t[j] = s[j - 1]  BY <1>1, <2>3
        <3>2. j - 1 = k - 1  BY <2>1, <3>1 DEF KeysDiffer
        <3> QED  BY <1>1, <3>2
    <2> QED  BY <2>2, <2>3
<1>4. OtherKeys(ToSet(s), key) = ToSet(s)  BY <1>2 DEF OtherKeys
<1> QED  BY <1>1, <1>2, <1>3, <1>4 DEF t

LEMMA BlockUnlinked ==
    ASSUME NEW s \in Seq(Entries), KeysDiffer(s), NEW i \in 1 .. Len(s), NEW key, s[i].key = key
    PROVE  LET t == RemoveAt(s, i)
           IN  t \in Seq(Entries) /\ KeysDiffer(t) /\ ToSet(t) = OtherKeys(ToSet(s), key)
<1> DEFINE t == RemoveAt(s, i)
           n == Len(s)
<1>1. /\ t \in Seq(Entries) /\ Len(t) = n - 1 /\ n \in Nat
      /\ \A j \in 1 .. n - 1 : t[j] = IF j < i THEN s[j] ELSE s[j + 1]
    BY RemovedAt, LenProperties
<1> HIDE DEF t
<1>2. ToSet(s) = {s[j] : j \in 1 .. n} /\ ToSet(t) = {t[j] : j \in 1 .. n - 1}
    BY <1>1, Members
<1> DEFINE was(j) == IF j < i THEN j ELSE j + 1
<1>3. \A j \in 1 .. n - 1 : was(j) \in 1 .. n /\ was(j) # i /\ t[j] = s[was(j)]  BY <1>1
<1>4. \A j, k \in 1 .. n - 1 : was(j) = was(k) => j = k  OBVIOUS
<1>5. \A j \in 1 .. n : j # i => \E k \in 1 .. n - 1 : was(k) = j
    <2> SUFFICES ASSUME NEW j \in 1 .. n, j # i PROVE \E k \in 1 .. n - 1 : was(k) = j  OBVIOUS
    <2>1. CASE j < i
        <3>1. j \in 1 .. n - 1 /\ was(j) = j  BY <1>1, <2>1
        <3> QED  BY <3>1
    <2>2. CASE j > i
        <3>1. j - 1 \in 1 .. n - 1 /\ was(j - 1) = j  BY <1>1, <2>2
        <3> QED  BY <3>1
    <2> QED  BY <2>1, <2>2
<1> HIDE DEF was
<1>6. \A j \in 1 .. n : j # i => s[j].key # key  BY DEF KeysDiffer
<1>7. KeysDiffer(t)
    <2> SUFFICES ASSUME NEW j \in 1 .. n - 1, NEW k \in 1 .. n - 1, t[j].key = t[k].key PROVE j = k
        BY <1>1 DEF KeysDiffer
    <2>1. was(j) = was(k)  BY <1>3 DEF KeysDiffer
    <2> QED  BY <1>4, <2>1
<1>8. ToSet(t) = OtherKeys(ToSet(s), key)
    <2>1. \A x \in ToSet(t) : x \in OtherKeys(ToSet(s), key)  BY <1>2, <1>3, <1>6 DEF OtherKeys
    <2>2. ASSUME NEW x \in OtherKeys(ToSet(s), key) PROVE x \in ToSet(t)
        <3>1. PICK j \in 1 .. n : x = s[j]  BY <1>2 DEF OtherKeys
        <3>2. j # i  BY <3>1 DEF OtherKeys
        <3>3. PICK k \in 1 .. n - 1 : was(k) = j  BY <1>5, <3>2
        <3> QED  BY <1>2, <1>3, <3>1, <3>3
    <2> QED  BY <2>1, <2>2
<1> QED  BY <1>1, <1>7, <1>8 DEF t

\* The block of a key is changed for that key: so is the table.
LEMMA KeyChanged ==
    ASSUME NEW T, TableRight(T), NEW key \in Keys,
           FindCluster(T[HashInt(ClusterID(key))], key) # 0,
           NEW s \in Seq(Entries), KeysDiffer(s), NEW N \in SUBSET Entries, \A x \in N : x.key = key,
           ToSet(s) = OtherKeys(ToSet(BlockIn(T, key)), key) \cup N
    PROVE  LET h == HashInt(ClusterID(key))
               U == WithBlock(T, h, FindCluster(T[h], key), BlockID(key), s)
           IN  TableRight(U) /\ Table(U) = OtherKeys(Table(T), key) \cup N
<1> DEFINE h == HashInt(ClusterID(key))
           c == FindCluster(T[h], key)
           b == BlockID(key)
           old == BlockIn(T, key)
           U == WithBlock(T, h, c, b, s)
<1>1. /\ h \in Buckets /\ b \in BlockIDs /\ c \in 1 .. Len(T[h]) /\ T[h][c].id = ClusterID(key)
      /\ old = BlockAt(T, h, c, b)
      /\ \A x \in Table(T) : x.key = key => x \in ToSet(old)
      /\ ToSet(old) \subseteq Table(T)
    BY BlockInIs
<1>2. PlacedRight(T)  BY DEF TableRight
<1> HIDE DEF h, c, b, old
<1>3. \A x \in ToSet(s) : Belongs(x, T, h, c, b)
    <2>1. \A x \in ToSet(old) : Belongs(x, T, h, c, b)  BY <1>1, <1>2 DEF PlacedRight
    <2>2. \A x \in N : Belongs(x, T, h, c, b)  BY <1>1 DEF Belongs, h, b
    <2> QED  BY <2>1, <2>2 DEF OtherKeys, old
<1>4. TableRight(U) /\ Table(U) = {x \in Table(T) : x \notin ToSet(old)} \cup ToSet(s)
    BY <1>1, <1>3, BlockChanged
<1>5. Table(U) = OtherKeys(Table(T), key) \cup N
    <2> HIDE DEF U
    <2>1. ToSet(s) = OtherKeys(ToSet(old), key) \cup N  BY DEF old
    <2> QED  BY <1>1, <1>4, <2>1 DEF OtherKeys
<1> QED  BY <1>4, <1>5 DEF U, h, c, b

\* And so is Find.
LEMMA FindChanged ==
    ASSUME NEW T, TableRight(T), NEW U, TableRight(U), NEW key \in Keys,
           NEW N \in SUBSET Entries, \A x \in N : x.key = key,
           Table(U) = OtherKeys(Table(T), key) \cup N
    PROVE  /\ \A j \in Keys \ {key} : FindIn(U, j) = FindIn(T, j)
           /\ N = {} => FindIn(U, key) = NoValue
           /\ \A x \in N : FindIn(U, key) = x.value
<1>1. ASSUME NEW j \in Keys \ {key} PROVE FindIn(U, j) = FindIn(T, j)
    <2>1. \A x : x.key = j => (x \in Table(U) <=> x \in Table(T))  BY DEF OtherKeys
    <2>2. CASE \A x \in Table(T) : x.key # j
        <3>1. FindIn(T, j) = NoValue  BY <2>2, FoundIs
        <3>2. FindIn(U, j) = NoValue  BY <2>1, <2>2, FoundIs
        <3> QED  BY <3>1, <3>2
    <2>3. CASE \E x \in Table(T) : x.key = j
        <3>1. PICK x \in Table(T) : x.key = j  BY <2>3
        <3>2. FindIn(T, j) = x.value  BY <3>1, FoundIs
        <3>3. FindIn(U, j) = x.value  BY <2>1, <3>1, FoundIs
        <3> QED  BY <3>2, <3>3
    <2> QED  BY <2>2, <2>3
<1>2. N = {} => FindIn(U, key) = NoValue
    <2> SUFFICES ASSUME N = {} PROVE FindIn(U, key) = NoValue  OBVIOUS
    <2>1. \A x \in Table(U) : x.key # key  BY DEF OtherKeys
    <2> QED  BY <2>1, FoundIs
<1>3. \A x \in N : FindIn(U, key) = x.value
    <2> SUFFICES ASSUME NEW x \in N PROVE FindIn(U, key) = x.value  OBVIOUS
    <2>1. x \in Table(U) /\ x.key = key  OBVIOUS
    <2> QED  BY <2>1, FoundIs
<1> QED  BY <1>1, <1>2, <1>3

-----------------------------------------------------------------------------
(* The address map: its invariant, and that it is a map.                     *)

EntryNumbers(X) == {x.e : x \in X}

\* Of n entries, those in X are in use and those of f are free, each once.
NumbersRight(X, n, f) ==
    /\ n \in Nat /\ f \in Seq(Nat) /\ NoTwice(f)
    /\ \A x, y \in X : x.e = y.e => x = y
    /\ EntryNumbers(X) \cap ToSet(f) = {} /\ EntryNumbers(X) \cup ToSet(f) = 1 .. n

AddressInv == TableRight(hashtable) /\ NumbersRight(Table(hashtable), made, free)

\* What Find gives, as the abstract map has it.
AddressContents == [k \in Keys |-> Find(k)]

LEMMA FindHere == \A key : Find(key) = FindIn(hashtable, key) /\ BlockOf(key) = BlockIn(hashtable, key)
BY DEF Find, FindIn, BlockOf, BlockIn, Bucket

\* A call of Insert or FindAndRemove changes what Find gives for its own key.
LEMMA ContentsChanged ==
    ASSUME TableRight(hashtable), TableRight(hashtable)', NEW key \in Keys,
           NEW N \in SUBSET Entries, \A x \in N : x.key = key,
           Table(hashtable)' = OtherKeys(Table(hashtable), key) \cup N
    PROVE  /\ N = {} => AddressesMap!Remove(key)
           /\ \A x \in N : AddressesMap!Put(key, x.value)
<1>1. /\ \A j \in Keys \ {key} : FindIn(hashtable', j) = FindIn(hashtable, j)
      /\ N = {} => FindIn(hashtable', key) = NoValue
      /\ \A x \in N : FindIn(hashtable', key) = x.value
    <2>1. TableRight(hashtable') /\ Table(hashtable') = OtherKeys(Table(hashtable), key) \cup N
        BY DEF TableRight, Shaped, PlacedRight, ClustersOnce, KeysOnce, Table, Belongs, BlockAt
    <2> QED  BY <2>1, FindChanged
<1>2. \A j : Find(j) = FindIn(hashtable, j) /\ Find(j)' = FindIn(hashtable', j)
    BY FindHere DEF Find, FindIn, BlockOf, BlockIn, Bucket
<1>3. /\ \A j \in Keys \ {key} : Find(j)' = Find(j)
      /\ N = {} => Find(key)' = NoValue
      /\ \A x \in N : Find(key)' = x.value
    BY <1>1, <1>2
<1>4. N = {} => AddressesMap!Remove(key)
    <2>1. N = {} => [k \in Keys |-> Find(k)]' = [[k \in Keys |-> Find(k)] EXCEPT ![key] = NoValue]
        BY <1>3
    <2> QED  BY <2>1 DEF AddressesMap!Remove
<1>5. ASSUME NEW x \in N PROVE AddressesMap!Put(key, x.value)
    <2>1. [k \in Keys |-> Find(k)]' = [[k \in Keys |-> Find(k)] EXCEPT ![key] = x.value]
        BY <1>3
    <2> QED  BY <2>1 DEF AddressesMap!Put
<1> QED  BY <1>4, <1>5

LEMMA InitAddress ==
    ASSUME Init_A
    PROVE  AddressInv /\ AddressesMap!Init
<1>1. hashtable = [h \in Buckets |-> <<>>] /\ made = 0 /\ free = <<>>  BY DEF Init_A, Buckets
<1>2. \A h \in Buckets : hashtable[h] = <<>> /\ 1 .. Len(hashtable[h]) = {}  BY <1>1
<1>3. Shaped(hashtable)
    <2>1. <<>> \in Seq(Clusters)  BY EmptySeq
    <2> QED  BY <1>1, <2>1 DEF Shaped
<1>4. TableRight(hashtable) /\ Table(hashtable) = {}
    BY <1>2, <1>3 DEF TableRight, PlacedRight, ClustersOnce, ClustersDiffer, KeysOnce, Table
<1>5. NumbersRight({}, 0, <<>>)
    <2>1. <<>> \in Seq(Nat) /\ ToSet(<<>>) = {}
        <3>1. <<>> \in Seq(Nat)  BY EmptySeq
        <3> QED  BY <3>1, Members
    <2>2. 1 .. Len(<<>>) = {} /\ 1 .. 0 = {}  OBVIOUS
    <2> QED  BY <2>1, <2>2 DEF NumbersRight, NoTwice, EntryNumbers
<1>6. AddressInv  BY <1>1, <1>4, <1>5 DEF AddressInv
<1>7. \A key \in Keys : Find(key) = NoValue  BY <1>4, FindHere, FoundIs
<1> QED  BY <1>6, <1>7 DEF AddressesMap!Init

\* A call changes one key's entry, and the numbers with it.
LEMMA AddressChanged ==
    ASSUME AddressInv, NEW key \in Keys, NEW N \in SUBSET Entries, \A x \in N : x.key = key,
           TableRight(hashtable'), Table(hashtable') = OtherKeys(Table(hashtable), key) \cup N,
           NumbersRight(OtherKeys(Table(hashtable), key) \cup N, made', free')
    PROVE  /\ AddressInv'
           /\ N = {} => AddressesMap!Remove(key)
           /\ \A x \in N : AddressesMap!Put(key, x.value)
<1>1. TableRight(hashtable)' /\ Table(hashtable)' = OtherKeys(Table(hashtable), key) \cup N
    BY DEF TableRight, Shaped, PlacedRight, ClustersOnce, KeysOnce, Table, Belongs, BlockAt
<1>2. AddressInv'
    <2> DEFINE X == OtherKeys(Table(hashtable), key) \cup N
    <2>1. NumbersRight(X, made', free') /\ Table(hashtable)' = X  BY <1>1
    <2> HIDE DEF X
    <2>2. NumbersRight(Table(hashtable), made, free)'  BY <2>1 DEF NumbersRight, NoTwice, EntryNumbers
    <2> QED  BY <1>1, <2>2 DEF AddressInv
<1>3. TableRight(hashtable)  BY DEF AddressInv
<1> QED  BY <1>1, <1>2, <1>3, ContentsChanged

\* A key that is there has a cluster and a place in its block.
LEMMA KeyThere ==
    ASSUME TableRight(hashtable), NEW key \in Keys, Place(key) # 0
    PROVE  LET h == HashInt(ClusterID(key))
               c == FindCluster(hashtable[h], key)
               s == BlockOf(key)
               i == Place(key)
           IN  /\ h \in Buckets /\ c # 0 /\ c \in 1 .. Len(hashtable[h])
               /\ BlockID(key) \in BlockIDs
               /\ s = BlockIn(hashtable, key) /\ s = hashtable[h][c].blocks[BlockID(key)]
               /\ s \in Seq(Entries) /\ KeysDiffer(s)
               /\ i \in 1 .. Len(s) /\ s[i] \in Table(hashtable) /\ s[i].key = key
               /\ Table(hashtable) = OtherKeys(Table(hashtable), key) \cup {s[i]}
<1> DEFINE h == HashInt(ClusterID(key))
           c == FindCluster(hashtable[h], key)
           s == BlockOf(key)
           i == Place(key)
<1>1. s = BlockIn(hashtable, key)  BY FindHere
<1>2. i = PlaceIn(s, key)  BY DEF Place
<1>3. i \in 1 .. Len(s) /\ s[i] \in Table(hashtable) /\ s[i].key = key
    BY <1>1, <1>2, FindIs
<1>4. c # 0
    <2> SUFFICES ASSUME c = 0 PROVE FALSE  OBVIOUS
    <2>1. s = <<>>  BY <1>1, BlockInIs
    <2> HIDE DEF s, i
    <2> QED  BY <1>3, <2>1
<1>5. /\ h \in Buckets /\ BlockID(key) \in BlockIDs /\ c \in 1 .. Len(hashtable[h])
      /\ s = hashtable[h][c].blocks[BlockID(key)] /\ s \in Seq(Entries) /\ KeysDiffer(s)
    BY <1>1, <1>4, BlockInIs DEF BlockAt
<1> HIDE DEF s, i
<1>6. Table(hashtable) = OtherKeys(Table(hashtable), key) \cup {s[i]}
    BY <1>3, TableKeyOnce DEF OtherKeys
<1> QED  BY <1>1, <1>3, <1>4, <1>5, <1>6 DEF s, i

LEMMA InsertAgainStep ==
    ASSUME AddressInv, NEW key \in Keys, NEW value \in Values, InsertAgain(key, value)
    PROVE  AddressInv' /\ AddressesMap!Put(key, value)
<1> DEFINE h == HashInt(ClusterID(key))
           c == FindCluster(hashtable[h], key)
           b == BlockID(key)
           s == BlockOf(key)
           i == Place(key)
           old == s[i]
           new == [old EXCEPT !.value = value]
           t == [s EXCEPT ![i] = new]
           X == OtherKeys(Table(hashtable), key)
<1>0. TableRight(hashtable) /\ i # 0  BY DEF AddressInv, InsertAgain
<1>1. /\ h \in Buckets /\ c # 0 /\ c \in 1 .. Len(hashtable[h])
      /\ s = BlockIn(hashtable, key) /\ s = hashtable[h][c].blocks[b]
      /\ s \in Seq(Entries) /\ KeysDiffer(s)
      /\ i \in 1 .. Len(s) /\ old \in Table(hashtable) /\ old.key = key
      /\ Table(hashtable) = X \cup {old}
    BY <1>0, KeyThere
<1>2. hashtable' = WithBlock(hashtable, h, c, b, t)
    <2>1. hashtable' = [hashtable EXCEPT ![h][c].blocks[b][i].value = value]
        BY DEF InsertAgain, Bucket
    <2> HIDE DEF h, c, b, i
    <2> QED  BY <1>1, <2>1 DEF WithBlock
<1>3. new \in Entries /\ new.key = key /\ new.e = old.e /\ new.value = value
    <2>1. old \in Entries  BY <1>1 DEF Table
    <2> HIDE DEF old
    <2> QED  BY <1>1, <2>1 DEF Entries
<1> HIDE DEF new
<1>4. t \in Seq(Entries) /\ KeysDiffer(t) /\ ToSet(t) = OtherKeys(ToSet(s), key) \cup {new}
    <2> HIDE DEF s, i
    <2>1. s \in Seq(Entries) /\ KeysDiffer(s) /\ i \in 1 .. Len(s)  BY <1>1
    <2>2. new \in Entries /\ s[i].key = new.key  BY <1>1, <1>3
    <2>3. /\ t \in Seq(Entries) /\ KeysDiffer(t)
          /\ ToSet(t) = OtherKeys(ToSet(s), new.key) \cup {new}
        BY <2>1, <2>2, BlockReplaced, Zenon
    <2> QED  BY <1>3, <2>3
<1> HIDE DEF t
<1>5. TableRight(hashtable') /\ Table(hashtable') = X \cup {new}
    <2>1. {new} \in SUBSET Entries /\ \A x \in {new} : x.key = key  BY <1>3
    <2>2. ToSet(t) = OtherKeys(ToSet(BlockIn(hashtable, key)), key) \cup {new}  BY <1>1, <1>4
    <2> HIDE DEF s, i, old, X
    <2>3. LET U == WithBlock(hashtable, h, c, b, t)
          IN  TableRight(U) /\ Table(U) = OtherKeys(Table(hashtable), key) \cup {new}
        <3>1. FindCluster(hashtable[HashInt(ClusterID(key))], key) # 0  BY <1>1
        <3>2. TableRight(hashtable)  BY <1>0
        <3> DEFINE N == {new}
        <3>3. N \in SUBSET Entries /\ (\A x \in N : x.key = key)
              /\ ToSet(t) = OtherKeys(ToSet(BlockIn(hashtable, key)), key) \cup N
            BY <2>1, <2>2
        <3>4. t \in Seq(Entries) /\ KeysDiffer(t)  BY <1>4
        <3> HIDE DEF N
        <3>5. LET U == WithBlock(hashtable, h, c, b, t)
              IN  TableRight(U) /\ Table(U) = OtherKeys(Table(hashtable), key) \cup N
            BY <3>1, <3>2, <3>3, <3>4, KeyChanged
        <3> QED  BY <3>5 DEF N
    <2> QED  BY <1>2, <2>3 DEF X
<1>6. NumbersRight(X \cup {new}, made', free')
    <2>1. NumbersRight(X \cup {old}, made, free) /\ made' = made /\ free' = free
        BY <1>1 DEF AddressInv, InsertAgain
    <2>2. \A x \in X : x.e # old.e  BY <1>1, <2>1 DEF NumbersRight, OtherKeys
    <2> HIDE DEF X, old
    <2>3. EntryNumbers(X \cup {new}) = EntryNumbers(X \cup {old})  BY <1>3 DEF EntryNumbers
    <2> QED  BY <1>3, <2>1, <2>2, <2>3 DEF NumbersRight
<1> HIDE DEF X, old
<1>7. {new} \in SUBSET Entries /\ \A x \in {new} : x.key = key  BY <1>3
<1>8. /\ AddressInv' /\ \A x \in {new} : AddressesMap!Put(key, x.value)
    BY <1>5, <1>6, <1>7, AddressChanged DEF X
<1> QED  BY <1>3, <1>8

LEMMA FindAndRemoveStep ==
    ASSUME AddressInv, NEW key \in Keys, FindAndRemove(key)
    PROVE  AddressInv' /\ AddressesMap!Remove(key)
<1> DEFINE h == HashInt(ClusterID(key))
           c == FindCluster(hashtable[h], key)
           b == BlockID(key)
           s == BlockOf(key)
           i == Place(key)
           old == s[i]
           t == RemoveAt(s, i)
           X == OtherKeys(Table(hashtable), key)
<1>0. TableRight(hashtable) /\ i # 0  BY DEF AddressInv, FindAndRemove
<1>1. /\ h \in Buckets /\ c # 0 /\ c \in 1 .. Len(hashtable[h])
      /\ s = BlockIn(hashtable, key) /\ s = hashtable[h][c].blocks[b]
      /\ s \in Seq(Entries) /\ KeysDiffer(s)
      /\ i \in 1 .. Len(s) /\ old \in Table(hashtable) /\ old.key = key
      /\ Table(hashtable) = X \cup {old}
    BY <1>0, KeyThere
<1>2. hashtable' = WithBlock(hashtable, h, c, b, t)
    <2>1. hashtable' = [hashtable EXCEPT ![h][c].blocks[b] = RemoveAt(@, i)]
        BY DEF FindAndRemove, Bucket, Unlinked
    <2> HIDE DEF h, c, b, i
    <2> QED  BY <1>1, <2>1 DEF WithBlock
<1>4. t \in Seq(Entries) /\ KeysDiffer(t) /\ ToSet(t) = OtherKeys(ToSet(s), key)
    <2> HIDE DEF s, i
    <2> QED  BY <1>1, BlockUnlinked
<1> HIDE DEF t
<1>5. TableRight(hashtable') /\ Table(hashtable') = X \cup {}
    <2>1. {} \in SUBSET Entries /\ \A x \in {} : x.key = key  OBVIOUS
    <2>2. ToSet(t) = OtherKeys(ToSet(BlockIn(hashtable, key)), key) \cup {}  BY <1>1, <1>4
    <2> HIDE DEF s, i, old, X
    <2>3. LET U == WithBlock(hashtable, h, c, b, t)
          IN  TableRight(U) /\ Table(U) = OtherKeys(Table(hashtable), key) \cup {}
        <3>1. FindCluster(hashtable[HashInt(ClusterID(key))], key) # 0  BY <1>1
        <3>2. TableRight(hashtable)  BY <1>0
        <3> DEFINE N == {}
        <3>3. N \in SUBSET Entries /\ (\A x \in N : x.key = key)
              /\ ToSet(t) = OtherKeys(ToSet(BlockIn(hashtable, key)), key) \cup N
            BY <2>1, <2>2
        <3>4. t \in Seq(Entries) /\ KeysDiffer(t)  BY <1>4
        <3> HIDE DEF N
        <3>5. LET U == WithBlock(hashtable, h, c, b, t)
              IN  TableRight(U) /\ Table(U) = OtherKeys(Table(hashtable), key) \cup N
            BY <3>1, <3>2, <3>3, <3>4, KeyChanged
        <3> QED  BY <3>5 DEF N
    <2> QED  BY <1>2, <2>3 DEF X
<1>6. NumbersRight(X \cup {}, made', free')
    <2>1. NumbersRight(X \cup {old}, made, free) /\ made' = made /\ free' = <<old.e>> \o free
        BY <1>1 DEF AddressInv, FindAndRemove
    <2>2. \A x \in X : x.e # old.e  BY <1>1, <2>1 DEF NumbersRight, OtherKeys
    <2>3. old.e \in Nat  BY <1>1 DEF Table, Entries
    <2> HIDE DEF X, old
    <2>4. EntryNumbers(X \cup {old}) = EntryNumbers(X) \cup {old.e}  BY DEF EntryNumbers
    <2>5. old.e \notin ToSet(free) /\ free \in Seq(Nat) /\ NoTwice(free)  BY <2>1, <2>4 DEF NumbersRight
    <2>6. free' \in Seq(Nat) /\ ToSet(free') = {old.e} \cup ToSet(free) /\ NoTwice(free')
        BY <2>1, <2>3, <2>5, PushedMembers
    <2>7. old.e \notin EntryNumbers(X)  BY <2>2 DEF EntryNumbers
    <2>8. X \cup {} = X  OBVIOUS
    <2>9. /\ made \in Nat /\ \A x, y \in X : x.e = y.e => x = y
          /\ EntryNumbers(X) \cap ToSet(free) = {}
          /\ EntryNumbers(X) \cup {old.e} \cup ToSet(free) = 1 .. made
        BY <2>1, <2>4 DEF NumbersRight
    <2>10. NumbersRight(X, made', free')  BY <2>1, <2>6, <2>7, <2>9 DEF NumbersRight
    <2> QED  BY <2>8, <2>10
<1> HIDE DEF X, old
<1>7. {} \in SUBSET Entries /\ \A x \in {} : x.key = key  OBVIOUS
<1> QED  BY <1>5, <1>6, <1>7, AddressChanged DEF X

LEMMA IntervalsSame ==
    ASSUME NEW m \in Nat, NEW n \in Nat, 1 .. m = 1 .. n
    PROVE  m = n
<1>1. m < n => n \in 1 .. n /\ n \notin 1 .. m  OBVIOUS
<1>2. n < m => m \in 1 .. m /\ m \notin 1 .. n  OBVIOUS
<1> QED  BY <1>1, <1>2

\* The free entries a new one is taken from.
LEMMA FreeIs ==
    ASSUME NEW X, NumbersRight(X, made, free)
    PROVE  LET n == made + IF free = <<>> THEN ALLOC_COUNT ELSE 0
           IN  NumbersRight(X, n, Free) /\ Free # <<>>
<1>1. CASE free # <<>>
    <2>1. made + 0 = made  BY DEF NumbersRight
    <2> QED  BY <1>1, <2>1 DEF Free
<1>2. CASE free = <<>>
    <2> DEFINE f == [i \in 1 .. ALLOC_COUNT |-> made + i]
    <2>1. made \in Nat /\ ALLOC_COUNT \in Nat \ {0} /\ Free = f  BY <1>2, AddressSizes DEF NumbersRight, Free
    <2>2. f \in Seq(Nat) /\ Len(f) = ALLOC_COUNT
        <3>1. f \in [1 .. ALLOC_COUNT -> Nat]  BY <2>1
        <3>2. f \in Seq(Nat)  BY <2>1, <3>1, SeqDef
        <3>3. DOMAIN f = 1 .. Len(f) /\ Len(f) \in Nat  BY <3>2, LenProperties
        <3>4. DOMAIN f = 1 .. ALLOC_COUNT  OBVIOUS
        <3> HIDE DEF f
        <3>5. 1 .. Len(f) = 1 .. ALLOC_COUNT  BY <3>3, <3>4
        <3>6. Len(f) = ALLOC_COUNT  BY <2>1, <3>3, <3>5, IntervalsSame
        <3> QED  BY <3>2, <3>6
    <2>3. ToSet(f) = made + 1 .. made + ALLOC_COUNT
        <3>1. ToSet(f) = {f[i] : i \in 1 .. ALLOC_COUNT}
            <4> HIDE DEF f
            <4>1. ToSet(f) = {f[i] : i \in 1 .. Len(f)}  BY <2>2, Members
            <4> QED  BY <2>2, <4>1
        <3>2. ToSet(f) = {made + i : i \in 1 .. ALLOC_COUNT}  BY <3>1
        <3>3. \A j \in made + 1 .. made + ALLOC_COUNT :
                 j - made \in 1 .. ALLOC_COUNT /\ made + (j - made) = j  BY <2>1
        <3>4. \A i \in 1 .. ALLOC_COUNT : made + i \in made + 1 .. made + ALLOC_COUNT  BY <2>1
        <3> QED  BY <3>2, <3>3, <3>4
    <2>4. NoTwice(f)
        <3>1. \A i, j \in 1 .. ALLOC_COUNT : i # j => made + i # made + j  BY <2>1
        <3> QED  BY <2>2, <3>1 DEF NoTwice
    <2>5. f # <<>>
        <3>1. Len(<<>>) = 0  OBVIOUS
        <3> HIDE DEF f
        <3> QED  BY <2>1, <2>2, <3>1
    <2>6. ToSet(free) = {}
        <3>1. free \in Seq(Nat)  BY DEF NumbersRight
        <3> QED  BY <1>2, <3>1, Members
    <2>7. EntryNumbers(X) = 1 .. made  BY <2>6 DEF NumbersRight
    <2>8. /\ 1 .. made + ALLOC_COUNT = (1 .. made) \cup (made + 1 .. made + ALLOC_COUNT)
          /\ (1 .. made) \cap (made + 1 .. made + ALLOC_COUNT) = {}
          /\ made + ALLOC_COUNT \in Nat
        BY <2>1
    <2> HIDE DEF f
    <2>9. NumbersRight(X, made + ALLOC_COUNT, f)
        BY <2>2, <2>3, <2>4, <2>7, <2>8 DEF NumbersRight
    <2> QED  BY <1>2, <2>1, <2>5, <2>9
<1> QED  BY <1>1, <1>2

\* The table in which the key's cluster is, before a new entry is put there.
WithClusterOf(key) ==
    LET h == HashInt(ClusterID(key))
    IN  IF FindCluster(hashtable[h], key) = 0 THEN WithCluster(hashtable, h, ClusterID(key)) ELSE hashtable

LEMMA ClusterThere ==
    ASSUME TableRight(hashtable), NEW key \in Keys
    PROVE  LET h == HashInt(ClusterID(key))
               T == WithClusterOf(key)
           IN  /\ TableRight(T) /\ Table(T) = Table(hashtable) /\ FindCluster(T[h], key) # 0
               /\ T[h] = (IF FindCluster(hashtable[h], key) = 0 THEN <<NewCluster(ClusterID(key))>> ELSE <<>>)
                         \o hashtable[h]
               /\ \A list : [T EXCEPT ![h] = list] = [hashtable EXCEPT ![h] = list]
<1> DEFINE h == HashInt(ClusterID(key))
           id == ClusterID(key)
           list == hashtable[h]
           c == FindCluster(list, key)
           T == WithClusterOf(key)
<1>1. h \in Buckets /\ list \in Seq(Clusters) /\ id \in Nat /\ Shaped(hashtable)
    BY WhereKeyBelongs, BlockInIs DEF TableRight
<1>2. CASE c = 0
    <2>1. T = WithCluster(hashtable, h, id)  BY <1>2 DEF WithClusterOf
    <2>2. \A i \in 1 .. Len(list) : list[i].id # id  BY <1>1, <1>2, FindClusterIs
    <2>3. /\ TableRight(T) /\ Table(T) = Table(hashtable) /\ T[h] = <<NewCluster(id)>> \o list
          /\ 1 \in 1 .. Len(T[h]) /\ T[h][1].id = id
        <3> HIDE DEF h, id
        <3> QED  BY <1>1, <2>1, <2>2, ClusterAdded
    <2>4. T[h] \in Seq(Clusters)
        <3> HIDE DEF T, h
        <3> QED  BY <1>1, <2>3 DEF TableRight, Shaped
    <2>5. FindCluster(T[h], key) # 0
        <3>1. FindCluster(T[h], key) = 0 => \A i \in 1 .. Len(T[h]) : T[h][i].id # id
            <4> HIDE DEF T, h
            <4> QED  BY <2>4, FindClusterIs
        <3> QED  BY <2>3, <3>1
    <2>6. \A l : [T EXCEPT ![h] = l] = [hashtable EXCEPT ![h] = l]
        <3>1. T = [hashtable EXCEPT ![h] = <<NewCluster(id)>> \o list]  BY <2>1 DEF WithCluster
        <3> HIDE DEF T, h, id
        <3> QED  BY <1>1, <3>1 DEF Shaped
    <2> QED  BY <1>2, <2>3, <2>5, <2>6
<1>3. CASE c # 0
    <2>1. T = hashtable  BY <1>3 DEF WithClusterOf
    <2>2. <<>> \o list = list  BY <1>1, ConcatEmptySeq
    <2> QED  BY <1>3, <2>1, <2>2
<1> QED  BY <1>2, <1>3

LEMMA InsertNewStep ==
    ASSUME AddressInv, NEW key \in Keys, NEW value \in Values, InsertNew(key, value)
    PROVE  AddressInv' /\ AddressesMap!Put(key, value)
<1> DEFINE h == HashInt(ClusterID(key))
           b == BlockID(key)
           T == WithClusterOf(key)
           c == FindCluster(T[h], key)
           s == BlockIn(T, key)
           new == [e |-> Head(Free), key |-> key, value |-> value]
           t == <<new>> \o s
           X == OtherKeys(Table(hashtable), key)
           n == made + IF free = <<>> THEN ALLOC_COUNT ELSE 0
<1>1. TableRight(hashtable) /\ NumbersRight(Table(hashtable), made, free)  BY DEF AddressInv
<1>2. /\ TableRight(T) /\ Table(T) = Table(hashtable) /\ c # 0
      /\ T[h] = (IF FindCluster(hashtable[h], key) = 0 THEN <<NewCluster(ClusterID(key))>> ELSE <<>>)
                \o hashtable[h]
      /\ \A list : [T EXCEPT ![h] = list] = [hashtable EXCEPT ![h] = list]
    BY <1>1, ClusterThere
<1> HIDE DEF T
<1>3. X = Table(hashtable) /\ \A x \in Table(hashtable) : x.key # key
    <2>1. PlaceIn(BlockIn(hashtable, key), key) = 0  BY FindHere DEF InsertNew, Place
    <2>2. \A x \in Table(hashtable) : x.key # key  BY <1>1, <2>1, FindIs
    <2> QED  BY <2>2 DEF OtherKeys
<1>4. NumbersRight(X, n, Free) /\ Free # <<>>  BY <1>1, <1>3, FreeIs
<1>5. /\ Free \in Seq(Nat) /\ Head(Free) \in Nat /\ Rest \in Seq(Nat)
      /\ ToSet(Free) = {Head(Free)} \cup ToSet(Rest)
      /\ NoTwice(Rest) /\ Head(Free) \notin ToSet(Rest)
    <2>1. Free \in Seq(Nat) /\ NoTwice(Free)  BY <1>4 DEF NumbersRight
    <2> QED  BY <1>4, <2>1, PoppedMembers DEF Rest
<1>6. new \in Entries /\ new.key = key /\ new.value = value /\ new.e = Head(Free)
    BY <1>5 DEF Entries
<1> HIDE DEF new
<1>7. /\ s \in Seq(Entries) /\ KeysDiffer(s) /\ s = BlockAt(T, h, c, b)
      /\ \A i \in 1 .. Len(s) : s[i].key # key
    <2>1. /\ s \in Seq(Entries) /\ KeysDiffer(s) /\ s = BlockAt(T, h, c, b)
          /\ ToSet(s) \subseteq Table(T)
        BY <1>2, BlockInIs
    <2> HIDE DEF s
    <2>2. ToSet(s) = {s[i] : i \in 1 .. Len(s)}  BY <2>1, Members
    <2> QED  BY <1>2, <1>3, <2>1, <2>2
<1>8. t \in Seq(Entries) /\ KeysDiffer(t) /\ ToSet(t) = OtherKeys(ToSet(s), key) \cup {new}
    <2> HIDE DEF s
    <2> QED  BY <1>6, <1>7, BlockPushed
<1>9. hashtable' = WithBlock(T, h, c, b, t)
    <2>1. hashtable' = [hashtable EXCEPT ![h] = [T[h] EXCEPT ![c].blocks[b] = <<new>> \o @]]
        BY <1>2 DEF InsertNew, Bucket, new
    <2> HIDE DEF h, c, b, s
    <2>2. [T[h] EXCEPT ![c].blocks[b] = <<new>> \o @]
          = [T[h] EXCEPT ![c] = [T[h][c] EXCEPT !.blocks = [T[h][c].blocks EXCEPT ![b] = t]]]
        BY <1>7 DEF BlockAt
    <2> QED  BY <1>2, <2>1, <2>2 DEF WithBlock
<1> HIDE DEF t
<1>10. TableRight(hashtable') /\ Table(hashtable') = X \cup {new}
    <2> DEFINE N == {new}
    <2>1. N \in SUBSET Entries /\ (\A x \in N : x.key = key)
          /\ ToSet(t) = OtherKeys(ToSet(BlockIn(T, key)), key) \cup N
        BY <1>6, <1>8
    <2>2. FindCluster(T[HashInt(ClusterID(key))], key) # 0 /\ TableRight(T)  BY <1>2
    <2>3. t \in Seq(Entries) /\ KeysDiffer(t)  BY <1>8
    <2> HIDE DEF N
    <2>4. LET U == WithBlock(T, h, c, b, t)
          IN  TableRight(U) /\ Table(U) = OtherKeys(Table(T), key) \cup N
        BY <2>1, <2>2, <2>3, KeyChanged
    <2> QED  BY <1>2, <1>9, <2>4 DEF N
<1>11. NumbersRight(X \cup {new}, made', free')
    <2>1. made' = n /\ free' = Rest  BY DEF InsertNew
    <2> HIDE DEF X, n
    <2>2. EntryNumbers(X \cup {new}) = EntryNumbers(X) \cup {Head(Free)}  BY <1>6 DEF EntryNumbers
    <2>3. Head(Free) \notin EntryNumbers(X)  BY <1>4, <1>5 DEF NumbersRight
    <2>4. \A x \in X : x.e # new.e  BY <1>6, <2>3 DEF EntryNumbers
    <2>5. /\ n \in Nat /\ \A x, y \in X : x.e = y.e => x = y
          /\ EntryNumbers(X) \cap ToSet(Free) = {} /\ EntryNumbers(X) \cup ToSet(Free) = 1 .. n
        BY <1>4 DEF NumbersRight
    <2>6. NumbersRight(X \cup {new}, n, Rest)
        BY <1>5, <2>2, <2>4, <2>5 DEF NumbersRight
    <2> QED  BY <2>1, <2>6
<1> HIDE DEF X
<1>12. {new} \in SUBSET Entries /\ \A x \in {new} : x.key = key  BY <1>6
<1>13. AddressInv' /\ \A x \in {new} : AddressesMap!Put(key, x.value)
    BY <1>10, <1>11, <1>12, AddressChanged DEF X
<1> QED  BY <1>6, <1>13

LEMMA AddressStep ==
    ASSUME AddressInv, [Next]_vars
    PROVE  AddressInv' /\ (AddressContents' = AddressContents \/ AddressesMap!Next)
<1>1. CASE UNCHANGED vars_A
    <2>1. UNCHANGED <<hashtable, made, free>>  BY <1>1 DEF vars_A
    <2>2. AddressInv'
        BY <2>1 DEF AddressInv, NumbersRight, NoTwice, EntryNumbers, TableRight, Shaped, PlacedRight,
                    ClustersOnce, KeysOnce, Table, Belongs, BlockAt
    <2>3. AddressContents' = AddressContents
        BY <2>1 DEF AddressContents, Find, BlockOf, Bucket
    <2> QED  BY <2>2, <2>3
<1>2. ASSUME NEW key \in Keys, FindAndRemove(key) PROVE AddressInv' /\ AddressesMap!Next
    BY <1>2, FindAndRemoveStep DEF AddressesMap!Next
<1>3. ASSUME NEW key \in Keys, NEW value \in Values, InsertAgain(key, value)
      PROVE  AddressInv' /\ AddressesMap!Next
    BY <1>3, InsertAgainStep DEF AddressesMap!Next
<1>4. ASSUME NEW key \in Keys, NEW value \in Values, InsertNew(key, value)
      PROVE  AddressInv' /\ AddressesMap!Next
    BY <1>4, InsertNewStep DEF AddressesMap!Next
<1>5. Next_A => AddressInv' /\ AddressesMap!Next
    BY <1>2, <1>3, <1>4 DEF Next_A, Insert
<1>6. Next_A \/ UNCHANGED vars_A  BY DEF Next, vars
<1> QED  BY <1>1, <1>5, <1>6

\* The address map keeps its invariant: entries are where their keys belong, no
\* bucket has two clusters and no block two entries of one name, and every entry
\* that was allocated is in one block or on the free list, once.
THEOREM AddressInvariance == Spec => []AddressInv
<1>1. Init => AddressInv  BY InitAddress DEF Init
<1>2. AddressInv /\ [Next]_vars => AddressInv'  BY AddressStep
<1> QED  BY <1>1, <1>2, PTL DEF Spec

\* For any keys, widths of cluster, block and hash, and multiplier of the hash: the
\* hash table is a map, in which Insert and FindAndRemove change their own key.
THEOREM AddressMapRefines == Spec => AddressMapIsMap
<1>1. Init => AddressesMap!Init  BY InitAddress DEF Init
<1>2. AddressInv /\ [Next]_vars => [AddressesMap!Next]_AddressContents  BY AddressStep
<1> QED  BY <1>1, <1>2, AddressInvariance, PTL DEF Spec, AddressMapIsMap, AddressesMap!Spec, AddressContents

\* Both are maps.
THEOREM ImplementMapsHolds == Spec => ImplementMaps
BY PageMapRefines, AddressMapRefines DEF ImplementMaps

-----------------------------------------------------------------------------
(* Iterate's visits.                                                         *)

\* A visit is a place in a block, and what is there is in the table.
LEMMA VisitsAre ==
    ASSUME TableRight(hashtable)
    PROVE  /\ \A h \in Buckets : \A c \in 1 .. Len(hashtable[h]) : \A b \in BlockIDs :
                 \A i \in 1 .. Len(BlockAt(hashtable, h, c, b)) : <<h, c, b, i>> \in Visits
           /\ \A p \in Visits :
                 \E h \in Buckets : \E c \in 1 .. Len(hashtable[h]) : \E b \in BlockIDs :
                    \E i \in 1 .. Len(BlockAt(hashtable, h, c, b)) :
                        /\ p = <<h, c, b, i>> /\ Visited(p) = BlockAt(hashtable, h, c, b)[i]
                        /\ Visited(p) \in ToSet(BlockAt(hashtable, h, c, b))
                        /\ Visited(p) \in Table(hashtable)
<1>1. Shaped(hashtable)  BY DEF TableRight
<1>2. \A h \in Buckets : DOMAIN hashtable[h] = 1 .. Len(hashtable[h])
    <2>1. \A h \in Buckets : hashtable[h] \in Seq(Clusters)  BY <1>1 DEF Shaped
    <2> QED  BY <2>1, LenProperties
<1>3. ASSUME NEW h \in Buckets, NEW c \in 1 .. Len(hashtable[h]), NEW b \in BlockIDs
      PROVE  /\ BlockAt(hashtable, h, c, b) \in Seq(Entries)
             /\ DOMAIN hashtable[h][c].blocks[b] = 1 .. Len(BlockAt(hashtable, h, c, b))
             /\ ToSet(BlockAt(hashtable, h, c, b))
                = {BlockAt(hashtable, h, c, b)[i] : i \in 1 .. Len(BlockAt(hashtable, h, c, b))}
             /\ ToSet(BlockAt(hashtable, h, c, b)) \subseteq Table(hashtable)
    <2> DEFINE s == BlockAt(hashtable, h, c, b)
    <2>1. s \in Seq(Entries)  BY <1>1, BlockShape
    <2>2. DOMAIN s = 1 .. Len(s)  BY <2>1, LenProperties
    <2>3. ToSet(s) = {s[i] : i \in 1 .. Len(s)} /\ ToSet(s) \subseteq Entries  BY <2>1, Members
    <2>4. ToSet(s) \subseteq Table(hashtable)  BY <2>3 DEF Table
    <2> QED  BY <2>1, <2>2, <2>3, <2>4 DEF BlockAt
<1>4. ASSUME NEW h \in Buckets, NEW c \in 1 .. Len(hashtable[h]), NEW b \in BlockIDs,
             NEW i \in 1 .. Len(BlockAt(hashtable, h, c, b))
      PROVE  <<h, c, b, i>> \in Visits
    <2>1. c \in DOMAIN hashtable[h] /\ i \in DOMAIN hashtable[h][c].blocks[b]  BY <1>2, <1>3
    <2> DEFINE of(d, a) == {<<h, d, a, j>> : j \in DOMAIN hashtable[h][d].blocks[a]}
               all == {of(d, a) : d \in DOMAIN hashtable[h], a \in BlockIDs}
    <2>2. <<h, c, b, i>> \in of(c, b) /\ of(c, b) \in all  BY <2>1
    <2> HIDE DEF of
    <2>3. <<h, c, b, i>> \in UNION all  BY <2>2
    <2> QED  BY <2>3 DEF Visits, Buckets, BlockIDs, of
<1>5. ASSUME NEW p \in Visits
      PROVE  \E h \in Buckets : \E c \in 1 .. Len(hashtable[h]) : \E b \in BlockIDs :
                \E i \in 1 .. Len(BlockAt(hashtable, h, c, b)) :
                    /\ p = <<h, c, b, i>> /\ Visited(p) = BlockAt(hashtable, h, c, b)[i]
                    /\ Visited(p) \in ToSet(BlockAt(hashtable, h, c, b))
                    /\ Visited(p) \in Table(hashtable)
    <2>0. PICK h \in Buckets :
              p \in UNION {{<<h, c, b, i>> : i \in DOMAIN hashtable[h][c].blocks[b]} :
                            c \in DOMAIN hashtable[h], b \in BlockIDs}
        BY DEF Visits, Buckets, BlockIDs
    <2>1. PICK c \in DOMAIN hashtable[h], b \in BlockIDs :
              p \in {<<h, c, b, i>> : i \in DOMAIN hashtable[h][c].blocks[b]}
        BY <2>0
    <2>2. PICK i \in DOMAIN hashtable[h][c].blocks[b] : p = <<h, c, b, i>>  BY <2>1
    <2>3. c \in 1 .. Len(hashtable[h])  BY <1>2
    <2>4. i \in 1 .. Len(BlockAt(hashtable, h, c, b))  BY <1>3, <2>3
    <2>5. Visited(p) = BlockAt(hashtable, h, c, b)[i]  BY <2>2 DEF Visited, BlockAt
    <2>6. Visited(p) \in ToSet(BlockAt(hashtable, h, c, b))  BY <1>3, <2>3, <2>4, <2>5
    <2> QED  BY <1>3, <2>2, <2>3, <2>4, <2>5, <2>6
<1> QED  BY <1>4, <1>5

\* Every entry of the table is visited, and no key twice.
LEMMA VisitsOnce ==
    ASSUME TableRight(hashtable)
    PROVE  /\ \A x \in Table(hashtable) : \E p \in Visits : Visited(p) = x
           /\ \A p, q \in Visits : Visited(p).key = Visited(q).key => p = q
<1>1. ASSUME NEW x \in Table(hashtable) PROVE \E p \in Visits : Visited(p) = x
    <2>1. PICK h \in Buckets :
              \E c \in 1 .. Len(hashtable[h]) : \E b \in BlockIDs : x \in ToSet(BlockAt(hashtable, h, c, b))
        BY DEF Table
    <2>2. PICK c \in 1 .. Len(hashtable[h]), b \in BlockIDs : x \in ToSet(BlockAt(hashtable, h, c, b))
        BY <2>1
    <2>3. BlockAt(hashtable, h, c, b) \in Seq(Entries)  BY BlockShape DEF TableRight
    <2>4. PICK i \in 1 .. Len(BlockAt(hashtable, h, c, b)) : x = BlockAt(hashtable, h, c, b)[i]
        BY <2>2, <2>3, Members
    <2>5. <<h, c, b, i>> \in Visits /\ Visited(<<h, c, b, i>>) = x
        BY <2>4, VisitsAre DEF Visited, BlockAt
    <2> QED  BY <2>5
<1>2. ASSUME NEW p \in Visits, NEW q \in Visits, Visited(p).key = Visited(q).key PROVE p = q
    <2>1. PICK h \in Buckets : \E c \in 1 .. Len(hashtable[h]) : \E b \in BlockIDs :
              \E i \in 1 .. Len(BlockAt(hashtable, h, c, b)) :
                  /\ p = <<h, c, b, i>> /\ Visited(p) = BlockAt(hashtable, h, c, b)[i]
                  /\ Visited(p) \in ToSet(BlockAt(hashtable, h, c, b)) /\ Visited(p) \in Table(hashtable)
        BY VisitsAre
    <2>2. PICK c \in 1 .. Len(hashtable[h]), b \in BlockIDs : \E i \in 1 .. Len(BlockAt(hashtable, h, c, b)) :
              /\ p = <<h, c, b, i>> /\ Visited(p) = BlockAt(hashtable, h, c, b)[i]
              /\ Visited(p) \in ToSet(BlockAt(hashtable, h, c, b)) /\ Visited(p) \in Table(hashtable)
        BY <2>1
    <2>2a. PICK i \in 1 .. Len(BlockAt(hashtable, h, c, b)) :
              /\ p = <<h, c, b, i>> /\ Visited(p) = BlockAt(hashtable, h, c, b)[i]
              /\ Visited(p) \in ToSet(BlockAt(hashtable, h, c, b)) /\ Visited(p) \in Table(hashtable)
        BY <2>2
    <2>3. PICK g \in Buckets : \E d \in 1 .. Len(hashtable[g]) : \E a \in BlockIDs :
              \E j \in 1 .. Len(BlockAt(hashtable, g, d, a)) :
                  /\ q = <<g, d, a, j>> /\ Visited(q) = BlockAt(hashtable, g, d, a)[j]
                  /\ Visited(q) \in ToSet(BlockAt(hashtable, g, d, a)) /\ Visited(q) \in Table(hashtable)
        BY VisitsAre
    <2>4. PICK d \in 1 .. Len(hashtable[g]), a \in BlockIDs : \E j \in 1 .. Len(BlockAt(hashtable, g, d, a)) :
              /\ q = <<g, d, a, j>> /\ Visited(q) = BlockAt(hashtable, g, d, a)[j]
              /\ Visited(q) \in ToSet(BlockAt(hashtable, g, d, a)) /\ Visited(q) \in Table(hashtable)
        BY <2>3
    <2>4a. PICK j \in 1 .. Len(BlockAt(hashtable, g, d, a)) :
              /\ q = <<g, d, a, j>> /\ Visited(q) = BlockAt(hashtable, g, d, a)[j]
              /\ Visited(q) \in ToSet(BlockAt(hashtable, g, d, a)) /\ Visited(q) \in Table(hashtable)
        BY <2>4
    <2> DEFINE key == Visited(p).key
               x == Visited(p)
               y == Visited(q)
    <2>5. key \in Keys /\ x.key = key /\ y.key = key  BY <1>2, <2>2a DEF Table, Entries
    <2>6. x \in ToSet(BlockAt(hashtable, h, c, b)) /\ y \in ToSet(BlockAt(hashtable, g, d, a))
        BY <2>2a, <2>4a
    <2> HIDE DEF key, x, y
    <2>7. h = g /\ c = d /\ b = a  BY <2>5, <2>6, KeyOnce
    <2>8. KeysDiffer(BlockAt(hashtable, h, c, b))  BY DEF TableRight, KeysOnce
    <2>9. i = j  BY <1>2, <2>2a, <2>4a, <2>7, <2>8 DEF KeysDiffer
    <2> QED  BY <2>2a, <2>4a, <2>7, <2>9
<1> QED  BY <1>1, <1>2

LEMMA EntriesAreOnce == AddressInv => EntriesOnce
<1> SUFFICES ASSUME AddressInv PROVE EntriesOnce  OBVIOUS
<1> DEFINE T == Table(hashtable)
           visits == Visits
           entries == {Visited(p).e : p \in visits}
<1>1. TableRight(hashtable) /\ NumbersRight(T, made, free)  BY DEF AddressInv
<1>2. \A p \in visits : Visited(p) \in T  BY <1>1, VisitsAre
<1>3. /\ \A x \in T : \E p \in visits : Visited(p) = x
      /\ \A p, q \in visits : Visited(p).key = Visited(q).key => p = q
    BY <1>1, VisitsOnce
<1>4. \A x \in T : x.key \in Keys  BY DEF Table, Entries
<1>5. /\ \A key \in Keys : (\A x \in T : x.key # key) => Find(key) = NoValue
      /\ \A key \in Keys : Find(key) = NoValue => \A x \in T : x.key # key
    BY <1>1, FindHere, FoundIs
<1> HIDE DEF T, visits
<1>6. \A p \in visits : Visited(p).key \in Keys  BY <1>2, <1>4
<1>7. ASSUME NEW key \in Keys
      PROVE  Cardinality({p \in visits : Visited(p).key = key}) = IF Find(key) = NoValue THEN 0 ELSE 1
    <2>1. CASE Find(key) = NoValue
        <3>1. {p \in visits : Visited(p).key = key} = {}  BY <1>2, <1>5, <2>1
        <3> QED  BY <2>1, <3>1, FS_EmptySet
    <2>2. CASE Find(key) # NoValue
        <3>1. PICK x \in T : x.key = key  BY <1>5, <2>2
        <3>2. PICK p \in visits : Visited(p) = x  BY <1>3
        <3>3. {q \in visits : Visited(q).key = key} = {p}  BY <1>3, <3>1, <3>2
        <3> QED  BY <2>2, <3>3, FS_Singleton
    <2> QED  BY <2>1, <2>2
<1>8. entries = EntryNumbers(T)
    <2>1. \A n \in entries : n \in EntryNumbers(T)  BY <1>2 DEF EntryNumbers
    <2>2. ASSUME NEW x \in T PROVE x.e \in entries
        <3>1. PICK p \in visits : Visited(p) = x  BY <1>3
        <3> QED  BY <3>1
    <2> QED  BY <2>1, <2>2 DEF EntryNumbers
<1>9. entries \cap ToSet(free) = {} /\ entries \cup ToSet(free) = 1 .. made
    <2> HIDE DEF entries
    <2> QED  BY <1>1, <1>8 DEF NumbersRight
<1>10. Cardinality(entries) = Cardinality(visits)
    <2> DEFINE f == [p \in visits |-> Visited(p).e]
    <2>1. \A p, q \in visits : Visited(p).e = Visited(q).e => p = q
        BY <1>1, <1>2, <1>3 DEF NumbersRight
    <2>2. f \in Bijection(visits, entries)
        <3>1. f \in [visits -> entries] /\ \A p \in visits : f[p] = Visited(p).e  OBVIOUS
        <3>2. \A n \in entries : \E p \in visits : n = Visited(p).e  OBVIOUS
        <3> HIDE DEF f, entries
        <3> QED  BY <2>1, <3>1, <3>2 DEF Bijection, Injection, Surjection, IsInjective
    <2> HIDE DEF f
    <2>3. IsFiniteSet(entries)
        <3>1. made \in Nat /\ 1 \in Int /\ made \in Int  BY <1>1 DEF NumbersRight
        <3>2. IsFiniteSet(1 .. made)  BY <3>1, FS_Interval
        <3>3. entries \subseteq 1 .. made  BY <1>9
        <3> HIDE DEF entries
        <3> QED  BY <3>2, <3>3, FS_Subset
    <2>4. ExistsBijection(entries, visits)
        <3>1. ExistsBijection(visits, entries)  BY <2>2 DEF ExistsBijection
        <3> HIDE DEF entries
        <3> QED  BY <3>1, Fun_ExistsBijSymmetric
    <2>5. Cardinality(visits) = Cardinality(entries)
        <3> HIDE DEF entries
        <3> QED  BY <2>3, <2>4, FS_Bijection
    <2> QED  BY <2>5
<1>11. Cardinality(ToSet(free)) = Len(free)  BY <1>1, NoTwiceSize DEF NumbersRight
<1> QED  BY <1>6, <1>7, <1>9, <1>10, <1>11 DEF EntriesOnce, visits

\* For any keys, widths and multiplier of the address map, any allocators and
\* chunks of the metadata and any blocks of the profiler's memory: no entry, object
\* or piece is in use twice, or in use and free, however calls follow each other.
THEOREM NothingUsedTwiceHolds == Spec => []NothingUsedTwice
<1>1. AddressInv => EntriesOnce  BY EntriesAreOnce
<1> QED  BY <1>1, AddressInvariance, ObjectsApartHolds, PiecesApartHolds, PTL DEF NothingUsedTwice
===============================================================================
