---------------------------- MODULE SizeClasses ----------------------------
(***************************************************************************)
(* The size classes of tcmalloc.cpp: how InitSizeClasses (lines 172-239)   *)
(* builds its tables, class by class, how SizeClass looks a size up in     *)
(* them, and which class do_memalign picks.                                *)
(***************************************************************************)
EXTENDS Integers, Sequences, SequencesExt, FiniteSetsExt

CONSTANTS kPageShift,   \* log2 of the page size
          kAlignShift,  \* log2 of the smallest size
          kNumClasses   \* length of the class tables

ASSUME ShiftsAssumption ==
    /\ kPageShift \in Nat /\ kAlignShift \in Nat /\ kNumClasses \in Nat
    /\ kAlignShift < kPageShift

kPageSize == 2 ^ kPageShift
kMaxSize  == 8 * kPageSize
kAlignment == 2 ^ kAlignShift
kMaxFreeListLength == 256

ShiftRight(n, k) == n \div 2 ^ k

\* LgFloor: the index of the highest bit set (bsr, or the loop of shifts).
LgFloor(n) == CHOOSE k \in 0 .. 31 : ShiftRight(n, k) = 1

Logs == 0 .. LgFloor(kMaxSize)

VARIABLES
    class_to_size,  \* the sizes of classes 1, 2, ...; the rest of the array is 0
    size_base,      \* unsigned char, by logarithm
    size_shift,     \* by logarithm
    request         \* the size and alignment of a request and the class it is
                    \* served from; class 0 while there is no request

tables == <<class_to_size, size_base, size_shift>>
vars   == <<tables, request>>

NoRequest == [size |-> 0, align |-> 1, class |-> 0]

Init ==
    /\ class_to_size = <<>>
    /\ size_base  = [lg \in Logs |-> IF lg < kAlignShift THEN 1 ELSE 0]
    /\ size_shift = [lg \in Logs |-> IF lg < kAlignShift THEN kAlignShift ELSE 0]
    /\ request = NoRequest

-----------------------------------------------------------------------------
(* InitSizeClasses                                                           *)

next_class == Len(class_to_size) + 1

\* last_lg and alignshift, as the last class left them.
last_lg == IF class_to_size = <<>> THEN -1 ELSE LgFloor(Last(class_to_size))
alignshift == IF class_to_size = <<>> THEN kAlignShift ELSE size_shift[last_lg]

\* size, the loop's variable.
NextSize == IF class_to_size = <<>> THEN kAlignment ELSE Last(class_to_size) + 2 ^ alignshift

Initialised == class_to_size # <<>> /\ NextSize > kMaxSize

\* The spacing of classes grows with the size, up to 2^8.
Wider(lg) == IF lg >= 7 /\ alignshift < 8 THEN alignshift + 1 ELSE alignshift

\* One iteration of the loop over sizes: the first class of a new logarithm
\* also sets the base and the shift with which sizes are looked up.
AddClass ==
    LET lg == LgFloor(NextSize)
        shift == Wider(lg)
    IN  /\ ~ Initialised
        /\ class_to_size' = Append(class_to_size, NextSize)
        /\ \/ /\ lg > last_lg
              /\ size_base' = [size_base EXCEPT ![lg] = (next_class - ShiftRight(NextSize - 1, shift)) % 256]
              /\ size_shift' = [size_shift EXCEPT ![lg] = shift]
           \/ /\ lg = last_lg
              /\ UNCHANGED <<size_base, size_shift>>
        /\ UNCHANGED request

\* The size of any class in the table; the unused ones are 0.
SizeOf(c) == IF c \in DOMAIN class_to_size THEN class_to_size[c] ELSE 0

\* The fewest pages whose tail, cut into objects, wastes at most one eighth.
class_to_pages(c) ==
    CHOOSE n \in 1 .. 64 :
        /\ (n * kPageSize) % SizeOf(c) <= ShiftRight(n * kPageSize, 3)
        /\ \A m \in 1 .. n - 1 : (m * kPageSize) % SizeOf(c) > ShiftRight(m * kPageSize, 3)

\* NumMoveSize: 64K worth of objects, at least 2, at most 32.
NumMoveSize(size) ==
    IF size = 0 THEN 0
    ELSE Min({Max({65536 \div size, 2}), (8 * kMaxFreeListLength) \div 10, 32})
num_objects_to_move(c) == NumMoveSize(SizeOf(c))

-----------------------------------------------------------------------------
(* The lookups.                                                              *)

SizeClassNoMinusOne(size) ==
    LET n == IF size = 0 THEN 1 ELSE size
        lg == LgFloor(n)
    IN  size_base[lg] + ShiftRight(n, size_shift[lg])
SizeClass(size) ==
    LET n == IF size = 0 THEN 1 ELSE size
        lg == LgFloor(n)
    IN  size_base[lg] + ShiftRight(n - 1, size_shift[lg])

\* do_memalign below page alignment: the first class from SizeClass(size) on
\* whose size is a multiple of align; 0 is one too.
Suits(align, c) == c < kNumClasses => SizeOf(c) % align = 0
MemalignAnyClass(align, size) == SizeClass(size)
MemalignClass(align, size) ==
    CHOOSE c \in SizeClass(size) .. kNumClasses :
        Suits(align, c) /\ \A d \in SizeClass(size) .. c - 1 : ~ Suits(align, d)

\* Populate cuts a span of the class into this many objects.
ObjectsPerSpan(c) == (class_to_pages(c) * kPageSize) \div SizeOf(c)

Malloc ==
    /\ Initialised /\ request = NoRequest
    /\ \E size \in 0 .. kMaxSize :
         request' = [size |-> size, align |-> 1, class |-> SizeClass(size)]
    /\ UNCHANGED tables

\* Whatever class is found, its size is what is then allocated; past the
\* table, memalign takes whole pages instead.
Memalign ==
    /\ Initialised /\ request = NoRequest
    /\ \E k \in 1 .. kPageShift - 1, size \in 1 .. kMaxSize :
         LET c == MemalignClass(2 ^ k, size)
         IN  /\ c < kNumClasses
             /\ request' = [size |-> size, align |-> 2 ^ k, class |-> SizeClass(SizeOf(c))]
    /\ UNCHANGED tables

Return == request # NoRequest /\ request' = NoRequest /\ UNCHANGED tables

Next == AddClass \/ Malloc \/ Memalign \/ Return

Spec == Init /\ [][Next]_vars

-----------------------------------------------------------------------------
(* Properties                                                                *)

\* Of the classes large enough for a size SizeClass finds the smallest, for
\* every size: what the loop at the end of InitSizeClasses aborts on.
TightestClass ==
    request # NoRequest /\ request.align = 1 =>
        /\ request.class \in 1 .. next_class - 1
        /\ SizeOf(request.class) >= request.size
        /\ SizeOf(request.class - 1) < request.size \/ request.class = 1

\* do_memalign's search ends at a class that is aligned and large enough: it
\* neither stops at the unused end of the table, whose size 0 is a multiple
\* of every alignment, nor leaves the table.
MemalignClassReal ==
    request # NoRequest /\ request.align > 1 =>
        /\ request.class \in 1 .. next_class - 1
        /\ SizeOf(request.class) >= request.size
        /\ SizeOf(request.class) % request.align = 0

\* The numbers of a class fit where the code keeps them: the tables have room
\* for the class, Span for the class (8 bits) and for the objects out of a
\* span (11 bits), a thread cache list, which is trimmed above
\* kMaxFreeListLength, for a batch; and a span holds at least one object.
FieldsFit ==
    LET c == request.class
    IN  request # NoRequest =>
        /\ c < kNumClasses /\ c < 2 ^ 8
        /\ ObjectsPerSpan(c) \in 1 .. 2 ^ 11 - 1
        /\ num_objects_to_move(c) \in 1 .. kMaxFreeListLength

\* What InitSizeClasses builds answers every size, with numbers that fit.
TablesRight == TightestClass /\ FieldsFit

=============================================================================
