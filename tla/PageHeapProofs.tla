--------------------------- MODULE PageHeapProofs ---------------------------
(***************************************************************************)
(* Theorems about PageHeap, for any address space, kMaxPages, leaf size    *)
(* and alignments: spans never overlap, the page map is right wherever it  *)
(* is read, and free memory is coalesced, listed and counted.              *)
(***************************************************************************)
EXTENDS PageHeap, FiniteSetTheorems, SequenceTheorems, WellFoundedInduction, TLAPS

-----------------------------------------------------------------------------
(* Numbers.                                                                  *)

\* A nonempty set of naturals has a least element.
LEMMA LeastNat ==
    ASSUME NEW T \in SUBSET Nat, T # {}
    PROVE  \E x \in T : \A y \in T : x <= y
<1> DEFINE R == {ss \in Nat \X Nat : ss[1] < ss[2]}
<1>1. IsWellFoundedOn(R, Nat)  BY NatLessThanWellFounded DEF OpToRel
<1>2. PICK x \in T : \A y \in T : ~ (<<y, x>> \in R)
    <2> HIDE DEF R
    <2> QED  BY <1>1, WFMin
<1>3. ASSUME NEW y \in T PROVE x <= y
    <2>1. ~ (y < x)  BY <1>2
    <2> QED  BY <2>1
<1> QED  BY <1>3

LEMMA MinFacts ==
    ASSUME NEW T \in SUBSET Nat, T # {}
    PROVE  Min(T) \in T
BY LeastNat DEF Min

LEMMA PageFacts == \A p \in Pages : p \in Nat /\ p > 0 /\ p <= NumPages
BY SizesAssumption DEF Pages

\* Among align pages in a row one is aligned.
LEMMA AlignedFacts ==
    ASSUME NEW s \in Nat, NEW align \in Nat \ {0, 1}
    PROVE  AlignedPage(s, align) \in s .. s + align - 1
<1> DEFINE q == s + align - 1
<1>1. q = align * (q \div align) + (q % align) /\ q % align \in 0 .. align - 1 /\ q \div align \in Nat
    OBVIOUS
<1>2. PICK k \in Nat, r \in 0 .. align - 1 : q = align * k + r  BY <1>1
<1>3. q - r = align * k  BY <1>2
<1>4. (align * k) % align = 0  OBVIOUS
<1>5. q - r \in s .. s + align - 1  BY <1>2
<1>6. \E p \in s .. s + align - 1 : p % align = 0  BY <1>3, <1>4, <1>5
<1> QED  BY <1>6 DEF AlignedPage

\* The free spans' pages are counted by adding and subtracting disjoint runs.
LEMMA AddRun ==
    ASSUME NEW T \in SUBSET Pages, NEW a \in Nat, NEW n \in Nat, T \cap (a .. a + n - 1) = {}
    PROVE  /\ IsFiniteSet(T) /\ Cardinality(T) \in Nat
           /\ Cardinality(T \cup (a .. a + n - 1)) = Cardinality(T) + n
<1>1. IsFiniteSet(Pages)  BY SizesAssumption, FS_Interval DEF Pages
<1>2. IsFiniteSet(T) /\ Cardinality(T) \in Nat  BY <1>1, FS_Subset, FS_CardinalityType
<1>3. IsFiniteSet(a .. a + n - 1) /\ Cardinality(a .. a + n - 1) = n
    <2>1. IsFiniteSet(a .. a + n - 1) /\ Cardinality(a .. a + n - 1) = IF a > a + n - 1 THEN 0 ELSE (a + n - 1) - a + 1
        BY FS_Interval
    <2> QED  BY <2>1
<1>4. Cardinality(T \cap (a .. a + n - 1)) = 0  BY FS_EmptySet
<1>5. Cardinality(T \cup (a .. a + n - 1)) = Cardinality(T) + Cardinality(a .. a + n - 1) - Cardinality(T \cap (a .. a + n - 1))
    BY <1>2, <1>3, FS_Union
<1> QED  BY <1>2, <1>3, <1>4, <1>5

-----------------------------------------------------------------------------
(* The lists of free spans.                                                  *)

Ordered(list) == \A i, j \in DOMAIN list : i < j => list[i] < list[j]

LEMMA ListFacts ==
    ASSUME NEW s \in Seq(Pages)
    PROVE  /\ ToSet(s) \subseteq Pages
           /\ (s = <<>>) <=> (ToSet(s) = {})
           /\ s # <<>> => Head(s) \in ToSet(s)
           /\ Ordered(s) => IsInjective(s)
<1>1. Len(s) \in Nat /\ s \in [1 .. Len(s) -> Pages] /\ DOMAIN s = 1 .. Len(s)  BY LenProperties
<1>2. (s = <<>>) <=> (Len(s) = 0)  BY EmptySeq
<1>3. Len(s) # 0 => s[1] \in ToSet(s)  BY <1>1 DEF ToSet
<1>4. Len(s) = 0 => ToSet(s) = {}  BY <1>1 DEF ToSet
<1>5. ASSUME Ordered(s) PROVE IsInjective(s)
    <2>1. ASSUME NEW i \in 1 .. Len(s), NEW j \in 1 .. Len(s), s[i] = s[j] PROVE i = j
        <3>1. s[i] \in Nat /\ s[j] \in Nat  BY <1>1 DEF Pages
        <3>2. ~ i < j /\ ~ j < i  BY <1>1, <1>5, <2>1, <3>1 DEF Ordered
        <3> QED  BY <3>2
    <2> QED  BY <2>1, <1>1 DEF IsInjective
<1>6. s # <<>> => Head(s) = s[1]  BY <1>1, <1>2
<1> QED  BY <1>1, <1>2, <1>3, <1>4, <1>5, <1>6 DEF ToSet

\* An element in front.
LEMMA ConsList ==
    ASSUME NEW S, NEW s \in Seq(S), NEW e \in S
    PROVE  /\ <<e>> \o s \in Seq(S)
           /\ <<e>> \o s # <<>>
           /\ Len(<<e>> \o s) = Len(s) + 1
           /\ ToSet(<<e>> \o s) = {e} \cup ToSet(s)
           /\ IsInjective(s) /\ e \notin ToSet(s) => IsInjective(<<e>> \o s)
<1> DEFINE r == <<e>> \o s
           n == Len(s)
<1>1. <<e>> \in Seq(S) /\ Len(<<e>>) = 1 /\ <<e>>[1] = e  OBVIOUS
<1>2. n \in Nat /\ DOMAIN s = 1 .. n  BY LenProperties
<1>3. /\ r \in Seq(S)
      /\ Len(r) = 1 + n
      /\ \A i \in 1 .. 1 + n : r[i] = IF i <= 1 THEN <<e>>[i] ELSE s[i - 1]
    BY <1>1, ConcatProperties
<1>4. DOMAIN r = 1 .. 1 + n  BY <1>3, LenProperties
<1> HIDE DEF r, n
<1>5. r[1] = e /\ \A i \in 2 .. 1 + n : r[i] = s[i - 1]  BY <1>1, <1>2, <1>3
<1>6. ToSet(r) = {e} \cup ToSet(s)
    <2>1. ASSUME NEW i \in 1 .. 1 + n PROVE r[i] \in {e} \cup ToSet(s)
        <3>1. CASE i = 1  BY <3>1, <1>5
        <3>2. CASE i # 1
            <4>1. i \in 2 .. 1 + n /\ i - 1 \in 1 .. n  BY <3>2, <1>2
            <4> QED  BY <4>1, <1>5, <1>2 DEF ToSet
        <3> QED  BY <3>1, <3>2
    <2>2. ASSUME NEW i \in 1 .. n PROVE s[i] \in ToSet(r)
        <3>1. i + 1 \in 2 .. 1 + n /\ i + 1 \in 1 .. 1 + n /\ (i + 1) - 1 = i  BY <1>2
        <3>2. r[i + 1] = s[i]  BY <3>1, <1>5
        <3> QED  BY <3>1, <3>2, <1>4 DEF ToSet
    <2>3. e \in ToSet(r)
        <3>1. 1 \in 1 .. 1 + n  BY <1>2
        <3> QED  BY <3>1, <1>5, <1>4 DEF ToSet
    <2> QED  BY <2>1, <2>2, <2>3, <1>2, <1>4 DEF ToSet
<1>7. ASSUME IsInjective(s), e \notin ToSet(s) PROVE IsInjective(r)
    <2>1. \A i, j \in 1 .. n : s[i] = s[j] => i = j  BY <1>7, <1>2 DEF IsInjective
    <2>2. \A i \in 1 .. n : s[i] # e  BY <1>7, <1>2 DEF ToSet
    <2>3. ASSUME NEW i \in 1 .. 1 + n, NEW j \in 1 .. 1 + n, r[i] = r[j] PROVE i = j
        <3>1. CASE i = 1 /\ j = 1  BY <3>1
        <3>2. CASE i = 1 /\ j # 1
            <4>1. j \in 2 .. 1 + n /\ j - 1 \in 1 .. n  BY <3>2, <1>2
            <4>2. r[j] = s[j - 1]  BY <4>1, <1>5
            <4> QED  BY <4>1, <4>2, <3>2, <2>3, <2>2, <1>5
        <3>3. CASE i # 1 /\ j = 1
            <4>1. i \in 2 .. 1 + n /\ i - 1 \in 1 .. n  BY <3>3, <1>2
            <4>2. r[i] = s[i - 1]  BY <4>1, <1>5
            <4> QED  BY <4>1, <4>2, <3>3, <2>3, <2>2, <1>5
        <3>4. CASE i # 1 /\ j # 1
            <4>1. i \in 2 .. 1 + n /\ j \in 2 .. 1 + n /\ i - 1 \in 1 .. n /\ j - 1 \in 1 .. n
                BY <3>4, <1>2
            <4>2. r[i] = s[i - 1] /\ r[j] = s[j - 1]  BY <4>1, <1>5
            <4>3. i - 1 = j - 1  BY <4>1, <4>2, <2>3, <2>1
            <4> QED  BY <4>1, <4>3
        <3> QED  BY <3>1, <3>2, <3>3, <3>4
    <2> QED  BY <2>3, <1>4 DEF IsInjective
<1>8. r # <<>>  BY <1>2, <1>3, EmptySeq
<1>9. Len(r) = n + 1  BY <1>2, <1>3
<1> QED  BY <1>3, <1>6, <1>7, <1>8, <1>9 DEF r, n

\* DLL_Remove takes out the element and no other.
LEMMA RemoveFromList ==
    ASSUME NEW S, NEW s \in Seq(S), NEW e, IsInjective(s)
    PROVE  /\ DLL_Remove(s, e) \in Seq(S)
           /\ ToSet(DLL_Remove(s, e)) = ToSet(s) \ {e}
           /\ IsInjective(DLL_Remove(s, e))
           /\ Ordered(s) => Ordered(DLL_Remove(s, e))
<1> DEFINE n == Len(s)
<1>1. n \in Nat /\ DOMAIN s = 1 .. n  BY LenProperties
<1>2. CASE e \notin ToSet(s)
    <2>1. DLL_Remove(s, e) = s  BY <1>2 DEF DLL_Remove
    <2> QED  BY <2>1, <1>2
<1>3. CASE e \in ToSet(s)
    <2> DEFINE k == CHOOSE i \in DOMAIN s : s[i] = e
    <2>1. k \in 1 .. n /\ s[k] = e  BY <1>1, <1>3 DEF ToSet
    <2>2. DLL_Remove(s, e) = RemoveAt(s, k)  BY <1>3 DEF DLL_Remove
    <2> DEFINE a == SubSeq(s, 1, k - 1)
               b == SubSeq(s, k + 1, n)
    <2> HIDE DEF k
    <2>3. k \in Int /\ k - 1 \in Int /\ k + 1 \in Int /\ n \in Int /\ 1 \in Int  BY <1>1, <2>1
    <2>4. /\ \A i \in 1 .. k - 1 : s[i] \in S
          /\ \A i \in k + 1 .. n : s[i] \in S
        BY <1>1, <2>1, ElementOfSeq
    <2>5. /\ a \in Seq(S) /\ Len(a) = IF 1 <= k - 1 THEN (k - 1) - 1 + 1 ELSE 0
          /\ \A i \in 1 .. (k - 1) - 1 + 1 : a[i] = s[1 + i - 1]
        BY <2>3, <2>4, SubSeqProperties
    <2>6. /\ b \in Seq(S) /\ Len(b) = IF k + 1 <= n THEN n - (k + 1) + 1 ELSE 0
          /\ \A i \in 1 .. n - (k + 1) + 1 : b[i] = s[(k + 1) + i - 1]
        BY <2>3, <2>4, SubSeqProperties
    <2> DEFINE r == a \o b
    <2>7. /\ r \in Seq(S) /\ Len(r) = Len(a) + Len(b)
          /\ \A i \in 1 .. Len(a) + Len(b) : r[i] = IF i <= Len(a) THEN a[i] ELSE b[i - Len(a)]
        BY <2>5, <2>6, ConcatProperties
    <2>8. DOMAIN r = 1 .. Len(r)  BY <2>7, LenProperties
    <2>9. DLL_Remove(s, e) = r  BY <2>2 DEF RemoveAt
    <2> HIDE DEF a, b, r, n
    <2>10. Len(a) = k - 1 /\ Len(b) = n - k /\ Len(r) = n - 1
        <3>1. k \in Nat /\ 1 <= k /\ k <= n  BY <1>1, <2>1
        <3>2. Len(a) = k - 1  BY <3>1, <2>5
        <3>3. Len(b) = n - k  BY <3>1, <2>6, <1>1
        <3> QED  BY <3>1, <3>2, <3>3, <2>7, <1>1
    <2>11. \A i \in 1 .. n - 1 : r[i] = IF i < k THEN s[i] ELSE s[i + 1]
        <3>1. ASSUME NEW i \in 1 .. n - 1, i < k PROVE r[i] = s[i]
            <4>1. i \in 1 .. (k - 1) - 1 + 1 /\ i <= Len(a) /\ i \in 1 .. Len(a) + Len(b) /\ 1 + i - 1 = i
                BY <3>1, <2>10, <1>1, <2>1
            <4> QED  BY <4>1, <2>5, <2>7
        <3>2. ASSUME NEW i \in 1 .. n - 1, ~ i < k PROVE r[i] = s[i + 1]
            <4>1. /\ i - (k - 1) \in 1 .. n - (k + 1) + 1 /\ ~ i <= Len(a) /\ i \in 1 .. Len(a) + Len(b)
                  /\ (k + 1) + (i - (k - 1)) - 1 = i + 1
                BY <3>2, <2>10, <1>1, <2>1
            <4> QED  BY <4>1, <2>6, <2>7, <2>10
        <3> QED  BY <3>1, <3>2
    <2>12. \A i, j \in 1 .. n : s[i] = s[j] => i = j  BY <1>1 DEF IsInjective
    <2> DEFINE m(i) == IF i < k THEN i ELSE i + 1
    <2>13. \A i \in 1 .. n - 1 : m(i) \in 1 .. n /\ m(i) # k /\ r[i] = s[m(i)]
        BY <1>1, <2>1, <2>11
    <2>14. \A i, j \in 1 .. n - 1 : m(i) = m(j) => i = j  BY <1>1, <2>1
    <2>15. IsInjective(r)
        <3>1. DOMAIN r = 1 .. n - 1  BY <2>8, <2>10
        <3>2. \A i, j \in 1 .. n - 1 : r[i] = r[j] => m(i) = m(j)
            <4> HIDE DEF m
            <4> QED  BY <2>12, <2>13
        <3> QED  BY <3>1, <3>2, <2>14 DEF IsInjective
    <2>16. ToSet(r) = ToSet(s) \ {e}
        <3>0. DOMAIN r = 1 .. n - 1  BY <2>8, <2>10
        <3>1. ASSUME NEW i \in 1 .. n - 1 PROVE r[i] \in ToSet(s) /\ r[i] # e
            <4> HIDE DEF m
            <4> QED  BY <2>1, <2>12, <2>13, <1>1 DEF ToSet
        <3>2. ASSUME NEW j \in 1 .. n, s[j] # e PROVE s[j] \in ToSet(r)
            <4>1. CASE j < k
                <5>1. j \in 1 .. n - 1 /\ r[j] = s[j]  BY <4>1, <1>1, <2>1, <2>11
                <5> QED  BY <5>1, <3>0 DEF ToSet
            <4>2. CASE ~ j < k
                <5>1. j # k  BY <3>2, <2>1
                <5>2. j - 1 \in 1 .. n - 1 /\ ~ j - 1 < k /\ (j - 1) + 1 = j  BY <5>1, <4>2, <1>1, <2>1
                <5>3. r[j - 1] = s[j]  BY <5>2, <2>11
                <5> QED  BY <5>2, <5>3, <3>0 DEF ToSet
            <4> QED  BY <4>1, <4>2
        <3> QED  BY <3>0, <3>1, <3>2, <1>1 DEF ToSet
    <2>17. ASSUME Ordered(s) PROVE Ordered(r)
        <3>1. DOMAIN r = 1 .. n - 1  BY <2>8, <2>10
        <3>2. \A i, j \in 1 .. n - 1 : i < j => m(i) < m(j)  BY <1>1, <2>1
        <3>3. \A i, j \in 1 .. n : i < j => s[i] < s[j]  BY <1>1, <2>17 DEF Ordered
        <3>4. \A i, j \in 1 .. n - 1 : i < j => r[i] < r[j]
            <4> HIDE DEF m
            <4> QED  BY <2>13, <3>2, <3>3
        <3> QED  BY <3>1, <3>4 DEF Ordered
    <2> QED  BY <2>7, <2>9, <2>15, <2>16, <2>17
<1> QED  BY <1>2, <1>3

\* The spans below e come first in an ordered list, so that is where their
\* number puts e.
LEMMA BelowFirst ==
    ASSUME NEW s \in Seq(Pages), Ordered(s), NEW e \in Pages
    PROVE  LET K == {i \in DOMAIN s : s[i] < e}
           IN  /\ Cardinality(K) \in 0 .. Len(s)
               /\ \A i \in 1 .. Len(s) : s[i] < e <=> i <= Cardinality(K)
<1> DEFINE K == {i \in DOMAIN s : s[i] < e}
           n == Len(s)
<1>1. /\ n \in Nat /\ DOMAIN s = 1 .. n
      /\ \A i \in 1 .. n : s[i] \in Nat
      /\ \A i, j \in 1 .. n : i < j => s[i] < s[j]
    <2>1. n \in Nat /\ DOMAIN s = 1 .. n /\ s \in [1 .. n -> Pages]  BY LenProperties
    <2> QED  BY <2>1, PageFacts DEF Ordered
<1>2. IsFiniteSet(1 .. n) /\ Cardinality(1 .. n) = n
    <2> HIDE DEF n
    <2>1. IsFiniteSet(1 .. n) /\ Cardinality(1 .. n) = IF 1 > n THEN 0 ELSE n - 1 + 1  BY <1>1, FS_Interval
    <2> QED  BY <1>1, <2>1
<1>3. IsFiniteSet(K) /\ Cardinality(K) <= n /\ Cardinality(K) \in Nat
    BY <1>1, <1>2, FS_Subset, FS_CardinalityType
<1> HIDE DEF n
<1>4. ASSUME NEW i \in 1 .. n, s[i] < e PROVE i <= Cardinality(K)
    <2>1. (1 .. i) \subseteq K
        <3>1. ASSUME NEW j \in 1 .. i PROVE j \in 1 .. n /\ s[j] < e
            <4>1. j \in 1 .. n /\ (j < i \/ j = i)  BY <1>1
            <4>2. s[j] <= s[i] /\ s[j] \in Nat /\ s[i] \in Nat  BY <1>1, <4>1
            <4> QED  BY <1>4, <4>1, <4>2 DEF Pages
        <3> QED  BY <3>1, <1>1
    <2>2. Cardinality(1 .. i) <= Cardinality(K)  BY <2>1, <1>3, FS_Subset
    <2>3. Cardinality(1 .. i) = i
        <3>1. Cardinality(1 .. i) = IF 1 > i THEN 0 ELSE i - 1 + 1  BY FS_Interval
        <3> QED  BY <3>1
    <2> QED  BY <2>2, <2>3
<1>5. ASSUME NEW i \in 1 .. n, ~ (s[i] < e) PROVE Cardinality(K) < i
    <2>1. K \subseteq 1 .. (i - 1)
        <3>1. ASSUME NEW j \in 1 .. n, s[j] < e PROVE j \in 1 .. i - 1
            <4>1. s[j] \in Nat /\ s[i] \in Nat /\ e \in Nat  BY <1>1 DEF Pages
            <4>2. ~ (i < j) /\ i # j  BY <1>1, <1>5, <3>1, <4>1
            <4> QED  BY <4>2, <1>1
        <3> QED  BY <3>1, <1>1
    <2>2. IsFiniteSet(1 .. (i - 1)) /\ Cardinality(1 .. (i - 1)) = i - 1
        <3>1. /\ IsFiniteSet(1 .. (i - 1))
              /\ Cardinality(1 .. (i - 1)) = IF 1 > i - 1 THEN 0 ELSE (i - 1) - 1 + 1
            BY FS_Interval
        <3> QED  BY <3>1
    <2>3. Cardinality(K) <= i - 1  BY <2>1, <2>2, FS_Subset
    <2> QED  BY <2>3, <1>3
<1> HIDE DEF K
<1>6. Cardinality(K) \in 0 .. n /\ \A i \in 1 .. n : s[i] < e <=> i <= Cardinality(K)
    BY <1>1, <1>3, <1>4, <1>5
<1> QED  BY <1>6 DEF n, K

\* DLL_InsertOrdered keeps the order and adds the one span.
LEMMA InsertFacts ==
    ASSUME NEW s \in Seq(Pages), Ordered(s), NEW e \in Pages, e \notin ToSet(s)
    PROVE  /\ InsertOrdered(s, e) \in Seq(Pages)
           /\ ToSet(InsertOrdered(s, e)) = ToSet(s) \cup {e}
           /\ Ordered(InsertOrdered(s, e))
<1> DEFINE n == Len(s)
<1>1. /\ n \in Nat /\ DOMAIN s = 1 .. n
      /\ \A i \in 1 .. n : s[i] \in Pages /\ s[i] \in Nat /\ s[i] # e
      /\ \A i, j \in 1 .. n : i < j => s[i] < s[j]
    <2>1. n \in Nat /\ DOMAIN s = 1 .. n /\ s \in [1 .. n -> Pages]  BY LenProperties
    <2> QED  BY <2>1, PageFacts DEF Ordered, ToSet
<1>2. PICK k \in 0 .. n : /\ k = Cardinality({i \in DOMAIN s : s[i] < e})
                          /\ \A i \in 1 .. n : s[i] < e <=> i <= k
    BY BelowFirst
<1>3. k \in Nat /\ k <= n /\ (k + 1) - 1 = k  BY <1>1, <1>2
<1> DEFINE a == SubSeq(s, 1, k)
           b == SubSeq(s, k + 1, n)
           c == a \o <<e>>
           r == c \o b
<1>4. InsertOrdered(s, e) = r  BY <1>2, <1>3 DEF InsertOrdered, InsertAt
<1>5. a \in Seq(Pages) /\ Len(a) = k /\ \A i \in 1 .. k : a[i] = s[i]
    <2>1. \A i \in 1 .. k : s[i] \in Pages  BY <1>1, <1>3
    <2>2. /\ a \in Seq(Pages) /\ Len(a) = IF 1 <= k THEN k - 1 + 1 ELSE 0
          /\ \A i \in 1 .. k - 1 + 1 : a[i] = s[1 + i - 1]
        BY <1>3, <2>1, SubSeqProperties
    <2> HIDE DEF a
    <2> QED  BY <1>3, <2>2
<1>6. b \in Seq(Pages) /\ Len(b) = n - k /\ \A i \in 1 .. n - k : b[i] = s[k + i]
    <2>1. \A i \in k + 1 .. n : s[i] \in Pages  BY <1>1, <1>3
    <2>2. /\ b \in Seq(Pages) /\ Len(b) = IF k + 1 <= n THEN n - (k + 1) + 1 ELSE 0
          /\ \A i \in 1 .. n - (k + 1) + 1 : b[i] = s[(k + 1) + i - 1]
        BY <1>1, <1>3, <2>1, SubSeqProperties
    <2> HIDE DEF b, n
    <2>3. \A i \in 1 .. n - k : i \in 1 .. n - (k + 1) + 1 /\ (k + 1) + i - 1 = k + i  BY <1>1, <1>3
    <2> QED  BY <1>1, <1>3, <2>2, <2>3
<1>7. c \in Seq(Pages) /\ Len(c) = k + 1 /\ \A i \in 1 .. k + 1 : c[i] = IF i <= k THEN s[i] ELSE e
    <2>1. <<e>> \in Seq(Pages) /\ Len(<<e>>) = 1 /\ <<e>>[1] = e  OBVIOUS
    <2> HIDE DEF a, n
    <2>2. /\ c \in Seq(Pages) /\ Len(c) = k + 1
          /\ \A i \in 1 .. k + 1 : c[i] = IF i <= k THEN a[i] ELSE <<e>>[i - k]
        BY <1>5, <2>1, ConcatProperties
    <2> HIDE DEF c
    <2>3. ASSUME NEW i \in 1 .. k + 1 PROVE c[i] = IF i <= k THEN s[i] ELSE e
        <3>1. CASE i <= k  BY <3>1, <2>2, <1>3, <1>5
        <3>2. CASE ~ i <= k
            <4>1. i - k = 1  BY <3>2, <1>3
            <4> QED  BY <3>2, <4>1, <2>1, <2>2
        <3> QED  BY <3>1, <3>2
    <2> QED  BY <2>2, <2>3
<1>8. /\ r \in Seq(Pages) /\ Len(r) = n + 1
      /\ \A i \in 1 .. n + 1 : r[i] = IF i <= k THEN s[i] ELSE IF i = k + 1 THEN e ELSE s[i - 1]
    <2> HIDE DEF c, b, n
    <2>1. /\ r \in Seq(Pages) /\ Len(r) = Len(c) + Len(b)
          /\ \A i \in 1 .. Len(c) + Len(b) : r[i] = IF i <= Len(c) THEN c[i] ELSE b[i - Len(c)]
        BY <1>6, <1>7, ConcatProperties
    <2> HIDE DEF r
    <2>2. Len(c) + Len(b) = n + 1  BY <1>1, <1>3, <1>6, <1>7
    <2>3. ASSUME NEW i \in 1 .. n + 1
          PROVE  r[i] = IF i <= k THEN s[i] ELSE IF i = k + 1 THEN e ELSE s[i - 1]
        <3>1. CASE i <= k + 1
            <4>1. i \in 1 .. k + 1  BY <3>1, <1>3
            <4> QED  BY <3>1, <4>1, <2>1, <2>2, <1>3, <1>7
        <3>2. CASE ~ i <= k + 1
            <4>1. i - (k + 1) \in 1 .. n - k /\ k + (i - (k + 1)) = i - 1  BY <3>2, <1>1, <1>3
            <4>2. r[i] = b[i - (k + 1)]  BY <3>2, <2>1, <2>2, <1>7
            <4> QED  BY <3>2, <4>1, <4>2, <1>3, <1>6
        <3> QED  BY <3>1, <3>2
    <2> QED  BY <2>1, <2>2, <2>3
<1>9. DOMAIN r = 1 .. n + 1
    <2> HIDE DEF r
    <2> QED  BY <1>8, LenProperties
<1> HIDE DEF r, n
<1>10. ToSet(r) = ToSet(s) \cup {e}
    <2>1. ASSUME NEW i \in 1 .. n + 1 PROVE r[i] \in ToSet(s) \cup {e}
        <3>1. CASE i <= k
            <4>1. i \in 1 .. n /\ r[i] = s[i]  BY <3>1, <1>1, <1>3, <1>8
            <4> QED  BY <4>1, <1>1 DEF ToSet
        <3>2. CASE i = k + 1  BY <3>2, <1>3, <1>8
        <3>3. CASE i > k + 1
            <4>1. i - 1 \in 1 .. n /\ r[i] = s[i - 1]  BY <3>3, <1>1, <1>3, <1>8
            <4> QED  BY <4>1, <1>1 DEF ToSet
        <3> QED  BY <3>1, <3>2, <3>3, <1>3
    <2>2. ASSUME NEW i \in 1 .. n PROVE s[i] \in ToSet(r)
        <3>1. CASE i <= k
            <4>1. i \in 1 .. n + 1 /\ r[i] = s[i]  BY <3>1, <1>1, <1>8
            <4> QED  BY <4>1, <1>9 DEF ToSet
        <3>2. CASE ~ i <= k
            <4>1. i + 1 \in 1 .. n + 1 /\ ~ i + 1 <= k /\ i + 1 # k + 1 /\ (i + 1) - 1 = i  BY <3>2, <1>1, <1>3
            <4>2. r[i + 1] = s[i]  BY <4>1, <1>8
            <4> QED  BY <4>1, <4>2, <1>9 DEF ToSet
        <3> QED  BY <3>1, <3>2
    <2>3. e \in ToSet(r)
        <3>1. k + 1 \in 1 .. n + 1 /\ ~ k + 1 <= k  BY <1>1, <1>3
        <3> QED  BY <3>1, <1>8, <1>9 DEF ToSet
    <2> QED  BY <2>1, <2>2, <2>3, <1>1, <1>9 DEF ToSet
<1>11. Ordered(r)
    <2>1. ASSUME NEW i \in 1 .. n + 1, NEW j \in 1 .. n + 1, i < j PROVE r[i] < r[j]
        <3>0. /\ e \in Nat
              /\ \A x \in 1 .. n : (x <= k => s[x] < e) /\ (x > k => e < s[x])
            <4>1. e \in Nat  BY PageFacts
            <4>2. ASSUME NEW x \in 1 .. n PROVE (x <= k => s[x] < e) /\ (x > k => e < s[x])
                <5>1. s[x] \in Nat /\ s[x] # e /\ (s[x] < e <=> x <= k)  BY <1>1, <1>2
                <5> QED  BY <4>1, <5>1, <1>3
            <4> QED  BY <4>1, <4>2
        <3>1. CASE j <= k
            <4>1. i \in 1 .. n /\ j \in 1 .. n /\ i <= k  BY <3>1, <2>1, <1>1, <1>3
            <4> QED  BY <3>1, <4>1, <2>1, <1>1, <1>8
        <3>2. CASE j = k + 1
            <4>1. i \in 1 .. n /\ i <= k /\ ~ j <= k  BY <3>2, <2>1, <1>1, <1>3
            <4> QED  BY <3>2, <4>1, <3>0, <1>8
        <3>3. CASE j > k + 1
            <4>1. j - 1 \in 1 .. n /\ j - 1 > k /\ r[j] = s[j - 1]  BY <3>3, <1>1, <1>3, <1>8
            <4>2. CASE i <= k
                <5>1. i \in 1 .. n /\ i < j - 1 /\ r[i] = s[i]  BY <4>2, <4>1, <1>1, <1>3, <1>8
                <5> QED  BY <4>1, <5>1, <1>1
            <4>3. CASE i = k + 1
                <5>1. r[i] = e  BY <4>3, <1>3, <1>8
                <5> QED  BY <4>1, <5>1, <3>0
            <4>4. CASE i > k + 1
                <5>1. i - 1 \in 1 .. n /\ i - 1 < j - 1 /\ r[i] = s[i - 1]  BY <4>4, <2>1, <1>1, <1>3, <1>8
                <5> QED  BY <4>1, <5>1, <1>1
            <4> QED  BY <4>2, <4>3, <4>4, <1>3
        <3> QED  BY <3>1, <3>2, <3>3, <1>3
    <2> QED  BY <2>1, <1>9 DEF Ordered
<1> QED  BY <1>4, <1>8, <1>10, <1>11

-----------------------------------------------------------------------------
(* The inductive invariant.                                                  *)

Heaps ==
    [pagemap : [MapPages -> Entries], leaves : SUBSET Int, length : [Pages -> Nat],
     free : SUBSET Pages, sized : SUBSET Pages,
     lists : [1 .. MaxPages - 1 -> Seq(Pages)], large : Seq(Pages),
     free_pages : Int, system_pages : Int, mapped : SUBSET Pages, lost : SUBSET Pages]

\* The spans are apart, and cover what the system gave and Ensure did not fail
\* for.  No span is free and has a size class.
Tiled(h) ==
    /\ \A s \in Live(h) : LastPage(h, s) \in Pages
    /\ \A s, r \in Live(h) : s < r => LastPage(h, s) < r
    /\ \A p \in Pages : p \in h.mapped \ h.lost <=> \E s \in Live(h) : p \in PagesOf(h, s)
    /\ h.lost \subseteq h.mapped
    /\ h.free \subseteq Live(h) /\ h.sized \subseteq Live(h) /\ h.free \cap h.sized = {}

\* Only pages of spans have entries, those at the ends of spans are right, and
\* there are leaves one page beyond both.
Described(h) ==
    /\ \A p \in MapPages : h.pagemap[p] # "null" => \E s \in Live(h) : p \in PagesOf(h, s)
    /\ \A s \in Live(h) : h.pagemap[s] = "right" /\ h.pagemap[LastPage(h, s)] = "right"
    /\ \A s \in h.sized : \A p \in PagesOf(h, s) : h.pagemap[p] = "right"
    /\ \A s \in Live(h) : \A p \in s - 1 .. LastPage(h, s) + 1 : LeafOf(p) \in h.leaves

Merged(h) == \A s, r \in h.free : LastPage(h, s) + 1 # r

\* The lists hold the free spans of their lengths and nothing else.
Listed(h) ==
    /\ \A k \in 1 .. MaxPages - 1 :
        /\ IsInjective(h.lists[k])
        /\ \A s \in Pages : s \in ToSet(h.lists[k]) <=> s \in h.free /\ h.length[s] = k
    /\ Ordered(h.large)
    /\ \A s \in Pages : s \in ToSet(h.large) <=> s \in h.free /\ h.length[s] >= MaxPages

FreePages(h) == {p \in Pages : \E s \in h.free : p \in PagesOf(h, s)}

Counted(h) ==
    /\ h.free_pages = Cardinality(FreePages(h))
    /\ h.system_pages = Cardinality(h.mapped)

\* What Carve, Split and the halves of Delete keep, and what New and Delete do:
\* they also count.
Sound(h) == h \in Heaps /\ Tiled(h) /\ Described(h) /\ Merged(h) /\ Listed(h)
Good(h) == Sound(h) /\ Counted(h)

IInv == Good(heap)

-----------------------------------------------------------------------------
(* What follows from it.                                                     *)

LEMMA SpanFacts ==
    ASSUME NEW h, Sound(h), NEW s \in Live(h)
    PROVE  /\ s \in Nat /\ s > 0 /\ s \in Pages /\ h.length[s] \in Nat /\ h.length[s] > 0
           /\ LastPage(h, s) \in Pages /\ LastPage(h, s) \in Nat /\ LastPage(h, s) <= NumPages
           /\ LastPage(h, s) = s + h.length[s] - 1 /\ s <= LastPage(h, s)
           /\ PagesOf(h, s) \subseteq Pages
           /\ s \in PagesOf(h, s) /\ LastPage(h, s) \in PagesOf(h, s)
           /\ s - 1 \in MapPages /\ LastPage(h, s) + 1 \in MapPages
<1>1. s \in Pages /\ h.length[s] \in Nat /\ h.length[s] > 0  BY DEF Live, Sound, Heaps
<1>2. s \in Nat /\ s > 0  BY <1>1, PageFacts
<1>3. LastPage(h, s) = s + h.length[s] - 1 /\ s <= LastPage(h, s)  BY <1>1, <1>2 DEF LastPage
<1>4. LastPage(h, s) \in Pages  BY DEF Sound, Tiled
<1>5. LastPage(h, s) \in Nat /\ LastPage(h, s) <= NumPages  BY <1>4, PageFacts
<1>6. PagesOf(h, s) \subseteq Pages  BY <1>2, <1>5, SizesAssumption DEF PagesOf, Pages
<1>7. s - 1 \in MapPages /\ LastPage(h, s) + 1 \in MapPages
    BY <1>2, <1>3, <1>5, SizesAssumption DEF MapPages
<1>8. s \in PagesOf(h, s) /\ LastPage(h, s) \in PagesOf(h, s)  BY <1>2, <1>3, <1>5 DEF PagesOf
<1> QED  BY <1>1, <1>2, <1>3, <1>4, <1>5, <1>6, <1>7, <1>8

\* A page is in at most one span.
LEMMA OneSpan ==
    ASSUME NEW h, Sound(h), NEW s \in Live(h), NEW r \in Live(h), NEW p,
           p \in PagesOf(h, s), p \in PagesOf(h, r)
    PROVE  s = r
<1>1. s < r => LastPage(h, s) < r  BY DEF Sound, Tiled
<1>2. r < s => LastPage(h, r) < s  BY DEF Sound, Tiled
<1>3. p \in Int /\ s <= p /\ p <= LastPage(h, s) /\ r <= p /\ p <= LastPage(h, r)
    BY SpanFacts DEF PagesOf
<1> QED  BY <1>1, <1>2, <1>3, SpanFacts

\* Spans do not overlap, and what is at the edge of one is the edge of another.
LEMMA Edges ==
    ASSUME NEW h, Sound(h), NEW s \in Live(h), NEW r \in Live(h)
    PROVE  /\ s - 1 \in PagesOf(h, r) => LastPage(h, r) + 1 = s
           /\ LastPage(h, s) + 1 \in PagesOf(h, r) => LastPage(h, s) + 1 = r
<1>1. /\ s < r => LastPage(h, s) < r
      /\ r < s => LastPage(h, r) < s
    BY DEF Sound, Tiled
<1>2. ASSUME s - 1 \in PagesOf(h, r) PROVE LastPage(h, r) + 1 = s
    <2>1. r <= s - 1 /\ s - 1 <= LastPage(h, r)  BY <1>2, SpanFacts DEF PagesOf
    <2>2. LastPage(h, r) < s  BY <2>1, <1>1, SpanFacts
    <2> QED  BY <2>1, <2>2, SpanFacts
<1>3. ASSUME LastPage(h, s) + 1 \in PagesOf(h, r) PROVE LastPage(h, s) + 1 = r
    <2>1. r <= LastPage(h, s) + 1 /\ LastPage(h, s) + 1 <= LastPage(h, r)  BY <1>3, SpanFacts DEF PagesOf
    <2>2. s < r \/ s = r \/ r < s  BY SpanFacts
    <2>3. s < r  BY <2>1, <2>2, <1>1, SpanFacts
    <2> QED  BY <2>1, <2>3, <1>1, SpanFacts
<1> QED  BY <1>2, <1>3

\* Delete finds the neighbour of a span, if there is one.
LEMMA Neighbours ==
    ASSUME NEW h, Sound(h), NEW s \in Live(h), NEW p \in {s - 1, LastPage(h, s) + 1}
    PROVE  /\ (\E r \in Live(h) : p \in PagesOf(h, r)) =>
                h.pagemap[p] = "right" /\ GetDescriptor(h, p) \in Live(h) /\ p \in PagesOf(h, GetDescriptor(h, p))
           /\ (~ \E r \in Live(h) : p \in PagesOf(h, r)) => h.pagemap[p] = "null" /\ GetDescriptor(h, p) = NULL
<1>1. ASSUME NEW r \in Live(h), p \in PagesOf(h, r)
      PROVE  h.pagemap[p] = "right"
    <2>1. p = LastPage(h, r) \/ p = r
        <3>1. CASE p = s - 1
            <4>1. LastPage(h, r) + 1 = s  BY <1>1, <3>1, Edges
            <4> QED  BY <3>1, <4>1, SpanFacts
        <3>2. CASE p = LastPage(h, s) + 1  BY <1>1, <3>2, Edges
        <3> QED  BY <3>1, <3>2
    <2> QED  BY <2>1 DEF Sound, Described
<1>2. ASSUME ~ \E r \in Live(h) : p \in PagesOf(h, r)
      PROVE  h.pagemap[p] = "null"
    <2>1. p \in MapPages  BY SpanFacts
    <2> QED  BY <2>1, <1>2 DEF Sound, Described
<1>3. "null" # "right"  OBVIOUS
<1> QED  BY <1>1, <1>2, <1>3 DEF GetDescriptor

LEMMA TilesFollow ==
    ASSUME Good(heap)
    PROVE  SpansTile
<1>0. Sound(heap)  BY DEF Good
<1>1. \A s, r \in Live(heap) : s # r => PagesOf(heap, s) \cap PagesOf(heap, r) = {}
    BY <1>0, OneSpan
<1>2. UNION {PagesOf(heap, s) : s \in Live(heap)} = heap.mapped \ heap.lost
    <2>1. \A s \in Live(heap) : PagesOf(heap, s) \subseteq Pages  BY <1>0, SpanFacts
    <2>2. heap.mapped \subseteq Pages  BY <1>0 DEF Sound, Heaps
    <2>3. \A p \in Pages : p \in heap.mapped \ heap.lost <=> \E s \in Live(heap) : p \in PagesOf(heap, s)
        BY <1>0 DEF Sound, Tiled
    <2> QED  BY <2>1, <2>2, <2>3
<1>3. heap.free \cup heap.sized \subseteq Live(heap)  BY <1>0 DEF Sound, Tiled
<1> QED  BY <1>1, <1>2, <1>3 DEF SpansTile

LEMMA MapFollows ==
    ASSUME Good(heap)
    PROVE  PageMapRight
<1>0. Sound(heap)  BY DEF Good
<1>1. Described(heap)  BY <1>0 DEF Sound
<1>2. DescriptorsRight
    <2> SUFFICES ASSUME NEW s \in Live(heap)
                 PROVE  /\ heap.pagemap[s] = "right"
                        /\ heap.pagemap[LastPage(heap, s)] = "right"
                        /\ \A p \in {s - 1, LastPage(heap, s) + 1} :
                             heap.pagemap[p] =
                                (IF \E r \in Live(heap) : p \in PagesOf(heap, r) THEN "right" ELSE "null")
                        /\ s \in heap.sized => \A p \in PagesOf(heap, s) : heap.pagemap[p] = "right"
        BY DEF DescriptorsRight
    <2>1. \A p \in {s - 1, LastPage(heap, s) + 1} :
             heap.pagemap[p] = (IF \E r \in Live(heap) : p \in PagesOf(heap, r) THEN "right" ELSE "null")
        BY <1>0, Neighbours
    <2> QED  BY <1>1, <2>1 DEF Described
<1>3. LeavesExist  BY <1>1 DEF Described, LeavesExist
<1> QED  BY <1>2, <1>3 DEF PageMapRight

LEMMA FreeFollows ==
    ASSUME Good(heap)
    PROVE  FreeMemoryRight
<1>0. Sound(heap) /\ heap \in Heaps  BY DEF Good, Sound
<1>1. Coalesced  BY <1>0 DEF Coalesced, Sound, Merged
<1>2. Listed(heap) /\ heap.free \subseteq Live(heap) /\ heap.free \subseteq Pages
    BY <1>0 DEF Sound, Heaps, Tiled
<1>3. FreeListsRight
    <2>1. ASSUME NEW s \in heap.free PROVE s \in ToSet(ListOf(s))
        <3>1. s \in Pages /\ heap.length[s] \in Nat /\ heap.length[s] > 0  BY <1>0, <1>2, SpanFacts
        <3>2. CASE heap.length[s] < MaxPages
            <4>1. heap.length[s] \in 1 .. MaxPages - 1  BY <3>1, <3>2, SizesAssumption
            <4> QED  BY <3>1, <3>2, <4>1, <1>2 DEF ListOf, Listed
        <3>3. CASE ~ heap.length[s] < MaxPages
            <4>1. heap.length[s] >= MaxPages  BY <3>1, <3>3, SizesAssumption
            <4> QED  BY <3>1, <3>3, <4>1, <1>2 DEF ListOf, Listed
        <3> QED  BY <3>2, <3>3
    <2>2. ASSUME NEW k \in DOMAIN heap.lists
          PROVE  /\ IsInjective(heap.lists[k])
                 /\ \A s \in ToSet(heap.lists[k]) : s \in heap.free /\ heap.length[s] = k
        <3>1. k \in 1 .. MaxPages - 1 /\ heap.lists[k] \in Seq(Pages)  BY <1>0 DEF Heaps
        <3>2. ToSet(heap.lists[k]) \subseteq Pages  BY <3>1, ListFacts
        <3> QED  BY <3>1, <3>2, <1>2 DEF Listed
    <2>3. \A s \in ToSet(heap.large) : s \in heap.free /\ heap.length[s] >= MaxPages
        <3>1. heap.large \in Seq(Pages)  BY <1>0 DEF Heaps
        <3>2. ToSet(heap.large) \subseteq Pages  BY <3>1, ListFacts
        <3> QED  BY <3>2, <1>2 DEF Listed
    <2> QED  BY <2>1, <2>2, <2>3, <1>2 DEF FreeListsRight, Listed, Ordered
<1>4. PagesCounted
    <2>1. UNION {PagesOf(heap, s) : s \in heap.free} = FreePages(heap)
        <3>1. \A s \in heap.free : PagesOf(heap, s) \subseteq Pages  BY <1>0, <1>2, SpanFacts
        <3> QED  BY <3>1 DEF FreePages
    <2> QED  BY <2>1 DEF PagesCounted, Good, Counted
<1> QED  BY <1>1, <1>3, <1>4 DEF FreeMemoryRight

-----------------------------------------------------------------------------
(* What the procedures do to the free spans, and to the spans.               *)

\* The memory and the page map stay as they are.
Kept(h, g) ==
    /\ g.leaves = h.leaves /\ g.mapped = h.mapped /\ g.lost = h.lost
    /\ g.free_pages = h.free_pages /\ g.system_pages = h.system_pages

TakeOff(h, s) == [Unlink(h, s) EXCEPT !.free = @ \ {s}]

\* A span is taken off its list.
LEMMA TakeOffFacts ==
    ASSUME NEW h, Sound(h), NEW s \in h.free
    PROVE  LET g == TakeOff(h, s)
           IN  /\ Sound(g) /\ Kept(h, g)
               /\ g.length = h.length /\ g.pagemap = h.pagemap /\ g.sized = h.sized
               /\ g.free = h.free \ {s}
               /\ s \in Used(g) \ g.sized
<1> DEFINE g == TakeOff(h, s)
<1>0. h \in Heaps /\ s \in Live(h) /\ s \in Pages /\ s \notin h.sized  BY SpanFacts DEF Sound, Tiled
<1>1. /\ \A k \in 1 .. MaxPages - 1 : h.lists[k] \in Seq(Pages) /\ IsInjective(h.lists[k])
      /\ h.large \in Seq(Pages) /\ Ordered(h.large) /\ IsInjective(h.large)
    BY <1>0, ListFacts DEF Sound, Heaps, Listed
<1>2. /\ \A k \in 1 .. MaxPages - 1 :
            /\ DLL_Remove(h.lists[k], s) \in Seq(Pages)
            /\ ToSet(DLL_Remove(h.lists[k], s)) = ToSet(h.lists[k]) \ {s}
            /\ IsInjective(DLL_Remove(h.lists[k], s))
      /\ DLL_Remove(h.large, s) \in Seq(Pages)
      /\ ToSet(DLL_Remove(h.large, s)) = ToSet(h.large) \ {s}
      /\ Ordered(DLL_Remove(h.large, s))
    BY <1>1, RemoveFromList
<1>3. /\ g \in Heaps
      /\ g.length = h.length /\ g.pagemap = h.pagemap /\ g.sized = h.sized /\ g.free = h.free \ {s}
      /\ g.lists = [k \in 1 .. MaxPages - 1 |-> DLL_Remove(h.lists[k], s)]
      /\ g.large = DLL_Remove(h.large, s)
      /\ Kept(h, g)
    <2>1. PICK l \in [1 .. MaxPages - 1 -> Seq(Pages)] : l = [k \in 1 .. MaxPages - 1 |-> DLL_Remove(h.lists[k], s)]
        BY <1>2
    <2>2. PICK q \in Seq(Pages) : q = DLL_Remove(h.large, s)  BY <1>2
    <2>3. DOMAIN h.lists = 1 .. MaxPages - 1  BY <1>0 DEF Heaps
    <2>4. [k \in DOMAIN h.lists |-> DLL_Remove(h.lists[k], s)] = l  BY <2>1, <2>3
    <2>5. g = [h EXCEPT !.lists = l, !.large = q, !.free = h.free \ {s}]
        <3>1. Unlink(h, s) = [h EXCEPT !.lists = l, !.large = q]  BY <2>2, <2>4, <1>0 DEF Unlink, Heaps
        <3> QED  BY <3>1, <1>0 DEF TakeOff, Heaps
    <2> HIDE DEF g
    <2>6. h.free \ {s} \in SUBSET Pages  BY <1>0 DEF Heaps
    <2>7. g \in Heaps  BY <2>5, <2>6, <1>0 DEF Heaps
    <2>8. /\ g.length = h.length /\ g.pagemap = h.pagemap /\ g.sized = h.sized /\ g.free = h.free \ {s}
          /\ g.lists = l /\ g.large = q
          /\ Kept(h, g)
        BY <2>5, <1>0 DEF Heaps, Kept
    <2> QED  BY <2>1, <2>2, <2>7, <2>8
<1> HIDE DEF g
<1>4. Live(g) = Live(h) /\ \A r : PagesOf(g, r) = PagesOf(h, r) /\ LastPage(g, r) = LastPage(h, r)
    BY <1>3 DEF Live, PagesOf, LastPage
<1>5. Tiled(g)  BY <1>3, <1>4 DEF Sound, Tiled, Kept
<1>6. Described(g)  BY <1>3, <1>4 DEF Sound, Described, Kept
<1>7. Merged(g)  BY <1>3, <1>4 DEF Sound, Merged
<1>8. Listed(g)
    <2>1. ASSUME NEW k \in 1 .. MaxPages - 1
          PROVE  /\ IsInjective(g.lists[k])
                 /\ \A r \in Pages : r \in ToSet(g.lists[k]) <=> r \in g.free /\ g.length[r] = k
        BY <1>2, <1>3 DEF Sound, Listed
    <2>2. \A r \in Pages : r \in ToSet(g.large) <=> r \in g.free /\ g.length[r] >= MaxPages
        BY <1>2, <1>3 DEF Sound, Listed
    <2> QED  BY <2>1, <2>2, <1>2, <1>3 DEF Listed
<1>9. s \in Used(g) \ g.sized  BY <1>0, <1>3, <1>4 DEF Used
<1> QED  BY <1>3, <1>5, <1>6, <1>7, <1>8, <1>9 DEF Sound, g

\* A span none of whose neighbours is free is put on its list.
LEMMA ToListFacts ==
    ASSUME NEW h, Sound(h), NEW s \in Used(h) \ h.sized,
           \A r \in h.free : LastPage(h, r) + 1 # s /\ LastPage(h, s) + 1 # r
    PROVE  LET g == ToList(h, s)
           IN  /\ Sound(g) /\ Kept(h, g)
               /\ g.length = h.length /\ g.pagemap = h.pagemap /\ g.sized = h.sized
               /\ g.free = h.free \cup {s}
<1> DEFINE g == ToList(h, s)
           n == h.length[s]
<1>0. /\ h \in Heaps /\ s \in Live(h) /\ s \in Pages /\ s \notin h.sized /\ s \notin h.free
      /\ n \in Nat /\ n > 0 /\ LastPage(h, s) + 1 # s /\ MaxPages \in Nat
    BY SpanFacts, SizesAssumption DEF Sound, Used
<1>1. n < MaxPages =>
        /\ n \in 1 .. MaxPages - 1 /\ h.lists[n] \in Seq(Pages) /\ IsInjective(h.lists[n])
        /\ s \notin ToSet(h.lists[n])
    BY <1>0 DEF Sound, Heaps, Listed
<1>2. n < MaxPages => /\ <<s>> \o h.lists[n] \in Seq(Pages)
                      /\ ToSet(<<s>> \o h.lists[n]) = {s} \cup ToSet(h.lists[n])
                      /\ IsInjective(<<s>> \o h.lists[n])
    BY <1>0, <1>1, ConsList
<1>3. /\ InsertOrdered(h.large, s) \in Seq(Pages)
      /\ ToSet(InsertOrdered(h.large, s)) = ToSet(h.large) \cup {s}
      /\ Ordered(InsertOrdered(h.large, s))
    <2>1. h.large \in Seq(Pages) /\ Ordered(h.large) /\ s \notin ToSet(h.large)
        BY <1>0 DEF Sound, Heaps, Listed
    <2> QED  BY <2>1, <1>0, InsertFacts
<1>4. /\ g \in Heaps
      /\ g.length = h.length /\ g.pagemap = h.pagemap /\ g.sized = h.sized /\ g.free = h.free \cup {s}
      /\ g.lists = IF n < MaxPages THEN [h.lists EXCEPT ![n] = <<s>> \o h.lists[n]] ELSE h.lists
      /\ g.large = IF n < MaxPages THEN h.large ELSE InsertOrdered(h.large, s)
      /\ Kept(h, g)
    <2>1. CASE n < MaxPages  BY <2>1, <1>0, <1>1, <1>2 DEF ToList, Heaps, Kept
    <2>2. CASE ~ n < MaxPages
        <3>1. PICK l \in Seq(Pages) : l = InsertOrdered(h.large, s)  BY <1>3
        <3> QED  BY <2>2, <3>1, <1>0 DEF ToList, Heaps, Kept
    <2> QED  BY <2>1, <2>2
<1> HIDE DEF g, n
<1>5. Live(g) = Live(h) /\ \A r : PagesOf(g, r) = PagesOf(h, r) /\ LastPage(g, r) = LastPage(h, r)
    BY <1>4 DEF Live, PagesOf, LastPage
<1>6. Tiled(g)  BY <1>0, <1>4, <1>5 DEF Sound, Tiled, Kept
<1>7. Described(g)  BY <1>4, <1>5 DEF Sound, Described, Kept
<1>8. Merged(g)  BY <1>0, <1>4, <1>5 DEF Sound, Merged
<1>9. Listed(g)
    <2>0. n = h.length[s]  BY DEF n
    <2>1. ASSUME NEW k \in 1 .. MaxPages - 1
          PROVE  /\ IsInjective(g.lists[k])
                 /\ \A r \in Pages : r \in ToSet(g.lists[k]) <=> r \in g.free /\ g.length[r] = k
        <3>1. /\ IsInjective(h.lists[k])
              /\ \A r \in Pages : r \in ToSet(h.lists[k]) <=> r \in h.free /\ h.length[r] = k
            BY DEF Sound, Listed
        <3>2. CASE k = n
            <4>1. n < MaxPages  BY <3>2, <1>0
            <4>2. g.lists[k] = <<s>> \o h.lists[n]  BY <3>2, <4>1, <1>0, <1>4 DEF Heaps
            <4> QED  BY <2>0, <3>1, <3>2, <4>1, <4>2, <1>2, <1>4
        <3>3. CASE k # n
            <4>1. g.lists[k] = h.lists[k]  BY <3>3, <1>0, <1>4 DEF Heaps
            <4> QED  BY <2>0, <3>1, <3>3, <4>1, <1>4
        <3> QED  BY <3>2, <3>3
    <2>2. \A r \in Pages : r \in ToSet(g.large) <=> r \in g.free /\ g.length[r] >= MaxPages
        <3>1. \A r \in Pages : r \in ToSet(h.large) <=> r \in h.free /\ h.length[r] >= MaxPages
            BY DEF Sound, Listed
        <3>2. CASE n < MaxPages
            <4>1. g.large = h.large /\ ~ h.length[s] >= MaxPages  BY <2>0, <3>2, <1>0, <1>4
            <4> QED  BY <3>1, <4>1, <1>4
        <3>3. CASE ~ n < MaxPages
            <4>1. ToSet(g.large) = ToSet(h.large) \cup {s} /\ h.length[s] >= MaxPages
                BY <2>0, <3>3, <1>0, <1>3, <1>4
            <4> QED  BY <3>1, <4>1, <1>4
        <3> QED  BY <3>2, <3>3
    <2>3. Ordered(g.large)  BY <1>3, <1>4 DEF Sound, Listed
    <2> QED  BY <2>1, <2>2, <2>3 DEF Listed
<1> QED  BY <1>4, <1>6, <1>7, <1>8, <1>9 DEF Sound, g

\* A span loses its size class.
LEMMA UnsizeFacts ==
    ASSUME NEW h, Sound(h), NEW s \in Used(h)
    PROVE  LET g == [h EXCEPT !.sized = @ \ {s}]
           IN  /\ Sound(g) /\ Kept(h, g)
               /\ g.length = h.length /\ g.pagemap = h.pagemap /\ g.free = h.free
               /\ g.sized = h.sized \ {s} /\ s \in Used(g) \ g.sized
<1> DEFINE g == [h EXCEPT !.sized = @ \ {s}]
<1>1. /\ g \in Heaps /\ Kept(h, g) /\ g.lists = h.lists /\ g.large = h.large
      /\ g.length = h.length /\ g.pagemap = h.pagemap /\ g.free = h.free /\ g.sized = h.sized \ {s}
    BY DEF Sound, Heaps, Kept
<1> HIDE DEF g
<1>2. Live(g) = Live(h) /\ \A r : PagesOf(g, r) = PagesOf(h, r) /\ LastPage(g, r) = LastPage(h, r)
    BY <1>1 DEF Live, PagesOf, LastPage
<1>3. Tiled(g)  BY <1>1, <1>2 DEF Sound, Tiled, Kept
<1>4. Described(g)  BY <1>1, <1>2 DEF Sound, Described, Kept
<1>5. Merged(g) /\ Listed(g)  BY <1>1, <1>2 DEF Sound, Merged, Listed
<1>6. s \in Used(g) \ g.sized  BY <1>1, <1>2 DEF Used
<1> QED  BY <1>1, <1>3, <1>4, <1>5, <1>6 DEF Sound, g

-----------------------------------------------------------------------------
(* A span is cut in two, and two spans become one.                           *)

\* Only the page map and the lengths change.
OnlySpans(h, g) ==
    /\ Kept(h, g) /\ g.free = h.free /\ g.sized = h.sized
    /\ g.lists = h.lists /\ g.large = h.large

LEMMA EnterFacts ==
    ASSUME NEW h \in Heaps, NEW P
    PROVE  LET g == Enter(h, P)
           IN  /\ g \in Heaps /\ OnlySpans(h, g) /\ g.length = h.length
               /\ \A p \in MapPages : g.pagemap[p] = IF p \in P THEN "right" ELSE h.pagemap[p]
<1>1. PICK m \in [MapPages -> Entries] :
            m = [p \in MapPages |-> IF p \in P THEN "right" ELSE h.pagemap[p]]
    BY DEF Heaps, Entries
<1>2. PICK g : g = Enter(h, P)  OBVIOUS
<1>3. g = [h EXCEPT !.pagemap = m]  BY <1>1, <1>2 DEF Enter, Heaps
<1>4. g \in Heaps /\ OnlySpans(h, g) /\ g.length = h.length /\ g.pagemap = m
    BY <1>3 DEF Heaps, OnlySpans, Kept
<1> QED  BY <1>1, <1>2, <1>4

LEMMA OutdateFacts ==
    ASSUME NEW h \in Heaps, NEW P
    PROVE  LET g == Outdate(h, P)
           IN  /\ g \in Heaps /\ OnlySpans(h, g) /\ g.length = h.length
               /\ \A p \in MapPages : /\ p \notin P => g.pagemap[p] = h.pagemap[p]
                                      /\ g.pagemap[p] # "null" => h.pagemap[p] # "null"
<1>1. PICK m \in [MapPages -> Entries] :
            m = [p \in MapPages |-> IF p \in P /\ h.pagemap[p] = "right" THEN "stale" ELSE h.pagemap[p]]
    BY DEF Heaps, Entries
<1>2. PICK g : g = Outdate(h, P)  OBVIOUS
<1>3. g = [h EXCEPT !.pagemap = m]  BY <1>1, <1>2 DEF Outdate, Heaps
<1>4. g \in Heaps /\ OnlySpans(h, g) /\ g.length = h.length /\ g.pagemap = m
    BY <1>3 DEF Heaps, OnlySpans, Kept
<1> QED  BY <1>1, <1>2, <1>4

LEMMA NewSpanFacts ==
    ASSUME NEW h \in Heaps, NEW s \in Pages, NEW n \in Nat
    PROVE  LET g == NewSpan(h, s, n)
           IN  /\ g \in Heaps /\ OnlySpans(h, g) /\ g.length = [h.length EXCEPT ![s] = n]
               /\ \A p \in MapPages : /\ p \notin s .. s + n - 1 => g.pagemap[p] = h.pagemap[p]
                                      /\ g.pagemap[p] # "null" => h.pagemap[p] # "null"
<1> DEFINE P == s .. s + n - 1
<1> HIDE DEF P
<1>1. PICK o \in Heaps :
            /\ o = Outdate(h, P) /\ OnlySpans(h, o) /\ o.length = h.length
            /\ \A p \in MapPages : /\ p \notin P => o.pagemap[p] = h.pagemap[p]
                                   /\ o.pagemap[p] # "null" => h.pagemap[p] # "null"
    <2>1. PICK o : o = Outdate(h, P)  OBVIOUS
    <2> QED  BY <2>1, OutdateFacts
<1>2. NewSpan(h, s, n) = [o EXCEPT !.length = [o.length EXCEPT ![s] = n]]  BY <1>1 DEF NewSpan, Heaps, P
<1>3. PICK l \in [Pages -> Nat] : l = [o.length EXCEPT ![s] = n]  BY DEF Heaps
<1>4. PICK g : g = NewSpan(h, s, n)  OBVIOUS
<1>5. g = [o EXCEPT !.length = l]  BY <1>2, <1>3, <1>4
<1>6. g \in Heaps /\ OnlySpans(o, g) /\ g.length = l /\ g.pagemap = o.pagemap
    BY <1>5 DEF Heaps, OnlySpans, Kept
<1>7. OnlySpans(h, g)  BY <1>1, <1>6 DEF OnlySpans, Kept
<1> QED  BY <1>1, <1>3, <1>4, <1>6, <1>7 DEF P

\* What follows for a heap whose other spans and their lists stay as they are.
LEMMA ListedFacts ==
    ASSUME NEW h, Sound(h), NEW g,
           g.free = h.free, g.lists = h.lists, g.large = h.large,
           \A r \in h.free : g.length[r] = h.length[r]
    PROVE  /\ Merged(g) /\ Listed(g)
           /\ \A r \in h.free : LastPage(g, r) = LastPage(h, r) /\ PagesOf(g, r) = PagesOf(h, r)
           /\ FreePages(g) = FreePages(h)
<1>1. \A r \in h.free : LastPage(g, r) = LastPage(h, r) /\ PagesOf(g, r) = PagesOf(h, r)
    BY DEF LastPage, PagesOf
<1>2. Merged(g)  BY <1>1 DEF Sound, Merged
<1>3. Listed(g)  BY DEF Sound, Listed
<1> QED  BY <1>1, <1>2, <1>3 DEF FreePages

LEMMA CutFacts ==
    ASSUME NEW h, Sound(h), NEW s \in Used(h) \ h.sized, NEW n \in 1 .. h.length[s] - 1
    PROVE  LET g == Cut(h, s, n)
           IN  /\ Sound(g) /\ OnlySpans(h, g) /\ FreePages(g) = FreePages(h)
               /\ s + n \in Pages
               /\ g.length = [h.length EXCEPT ![s] = n, ![s + n] = h.length[s] - n]
               /\ s \in Used(g) \ g.sized /\ s + n \in Used(g) \ g.sized /\ s + n \notin Live(h)
<1> DEFINE g == Cut(h, s, n)
           t == s + n
           last == LastPage(h, s)
           m == h.length[s] - n
<1>0. /\ h \in Heaps /\ s \in Live(h) /\ s \notin h.free /\ s \notin h.sized
      /\ s \in Nat /\ s > 0 /\ s \in Pages /\ h.length[s] \in Nat /\ n \in Nat /\ n > 0
      /\ last \in Nat /\ last \in Pages /\ last = s + h.length[s] - 1
      /\ m \in Nat /\ m > 0 /\ t \in Nat /\ s < t /\ t <= last /\ t + m - 1 = last
    BY SpanFacts DEF Sound, Used
<1>1. t \in PagesOf(h, s) /\ t \in Pages /\ t - 1 \in PagesOf(h, s) /\ t # s
    <2>1. t \in PagesOf(h, s) /\ t - 1 \in PagesOf(h, s)  BY <1>0 DEF PagesOf
    <2> QED  BY <2>1, <1>0, SpanFacts
<1>2. t \notin Live(h)
    <2>1. ASSUME t \in Live(h) PROVE FALSE
        <3>1. t \in PagesOf(h, t)  BY <2>1, SpanFacts
        <3> QED  BY <3>1, <2>1, <1>0, <1>1, OneSpan
    <2> QED  BY <2>1
<1>3. PICK h1 \in Heaps : /\ h1 = [h EXCEPT !.length[s] = n] /\ OnlySpans(h, h1) /\ h1.pagemap = h.pagemap
                          /\ h1.length = [h.length EXCEPT ![s] = n]
    <2>1. PICK l \in [Pages -> Nat] : l = [h.length EXCEPT ![s] = n]  BY <1>0 DEF Heaps
    <2>2. [h EXCEPT !.length[s] = n] = [h EXCEPT !.length = l]  BY <2>1, <1>0 DEF Heaps
    <2> QED  BY <2>1, <2>2, <1>0 DEF Heaps, OnlySpans, Kept
<1> HIDE DEF t, m, last
<1>4. PICK h2 \in Heaps :
            /\ h2 = NewSpan(h1, t, m) /\ OnlySpans(h1, h2) /\ h2.length = [h1.length EXCEPT ![t] = m]
            /\ \A p \in MapPages : /\ p \notin t .. last => h2.pagemap[p] = h1.pagemap[p]
                                   /\ h2.pagemap[p] # "null" => h1.pagemap[p] # "null"
    <2>1. t .. t + m - 1 = t .. last  BY <1>0
    <2> QED  BY <2>1, <1>0, <1>1, NewSpanFacts
<1>5. h2.length = [h.length EXCEPT ![s] = n, ![t] = m] /\ OnlySpans(h, h2)
    BY <1>3, <1>4 DEF OnlySpans, Kept
<1>6. LastPage(h2, t) = last  BY <1>0, <1>1, <1>5 DEF LastPage, Heaps
<1>7. PICK h3 \in Heaps :
            /\ h3 = RecordSpan(h2, t) /\ OnlySpans(h2, h3) /\ h3.length = h2.length
            /\ \A p \in MapPages : h3.pagemap[p] = IF p \in {t, last} THEN "right" ELSE h2.pagemap[p]
    BY <1>6, EnterFacts DEF RecordSpan
<1>8. g = Enter(h3, {t - 1})
    <2>0. s + n - 1 = t - 1  BY <1>0 DEF t
    <2>1. g = Enter(RecordSpan(NewSpan([h EXCEPT !.length[s] = n], t, m), t), {t - 1})
        BY <2>0 DEF Cut, g, t, m
    <2> HIDE DEF g
    <2> QED  BY <2>1, <1>3, <1>4, <1>7
<1>9. /\ g \in Heaps /\ OnlySpans(h3, g) /\ g.length = h3.length
      /\ \A p \in MapPages : g.pagemap[p] = IF p \in {t - 1} THEN "right" ELSE h3.pagemap[p]
    BY <1>8, EnterFacts
<1> HIDE DEF g
<1>10. OnlySpans(h, g)  BY <1>5, <1>7, <1>9 DEF OnlySpans, Kept
<1>11. g.length = [h.length EXCEPT ![s] = n, ![t] = m]  BY <1>5, <1>7, <1>9
<1>12. \A p \in MapPages :
          /\ p \in {t - 1, t, last} => g.pagemap[p] = "right"
          /\ p \notin {t - 1} \cup t .. last => g.pagemap[p] = h.pagemap[p]
          /\ p \notin {t - 1, t, last} /\ g.pagemap[p] # "null" => h.pagemap[p] # "null"
    <2>1. t \in t .. last /\ last \in t .. last  BY <1>0
    <2> QED  BY <2>1, <1>3, <1>4, <1>7, <1>9
<1>13. Live(g) = Live(h) \cup {t}
    <2>1. \A p \in Pages : g.length[p] = IF p = t THEN m ELSE IF p = s THEN n ELSE h.length[p]
        BY <1>0, <1>1, <1>11 DEF Heaps
    <2> QED  BY <2>1, <1>0, <1>1 DEF Live
<1>14. /\ \A r \in Live(h) \ {s} : LastPage(g, r) = LastPage(h, r) /\ PagesOf(g, r) = PagesOf(h, r)
       /\ LastPage(g, s) = t - 1 /\ LastPage(g, t) = last
       /\ PagesOf(g, s) = s .. t - 1 /\ PagesOf(g, t) = t .. last
    <2>1. \A r \in Live(h) \ {s} : g.length[r] = h.length[r]
        BY <1>0, <1>1, <1>2, <1>11 DEF Live, Heaps
    <2>2. g.length[s] = n /\ g.length[t] = m  BY <1>0, <1>1, <1>11 DEF Heaps
    <2>3. LastPage(g, s) = t - 1 /\ LastPage(g, t) = last  BY <2>2, <1>0 DEF LastPage, t
    <2> QED  BY <2>1, <2>3 DEF LastPage, PagesOf
<1>15. PagesOf(h, s) = s .. last  BY DEF PagesOf, last
<1>16. PagesOf(h, s) = PagesOf(g, s) \cup PagesOf(g, t)  BY <1>0, <1>14, <1>15
<1>17. \A p : (\E r \in Live(g) : p \in PagesOf(g, r)) <=> \E r \in Live(h) : p \in PagesOf(h, r)
    <2>1. Live(g) = (Live(h) \ {s}) \cup {s, t}  BY <1>0, <1>13
    <2> QED  BY <2>1, <1>0, <1>14, <1>16
<1>18. Tiled(g)
    <2>1. \A r \in Live(g) : LastPage(g, r) \in Pages
        <3>1. t - 1 \in Pages  BY <1>0, <1>1, SpanFacts
        <3>2. \A r \in Live(h) : LastPage(h, r) \in Pages  BY SpanFacts
        <3> QED  BY <3>1, <3>2, <1>0, <1>13, <1>14
    <2>2. ASSUME NEW r \in Live(g), NEW q \in Live(g), r < q PROVE LastPage(g, r) < q
        <3>1. /\ \A a, b \in Live(h) : a < b => LastPage(h, a) < b
              /\ \A a \in Live(h) : a \in Nat /\ LastPage(h, a) \in Nat /\ a <= LastPage(h, a)
            BY SpanFacts DEF Sound, Tiled
        <3>2. CASE r \in Live(h) \ {s}
            <4>1. LastPage(g, r) = LastPage(h, r)  BY <3>2, <1>14
            <4>2. CASE q = t
                <5>1. ~ s < r
                    <6>1. s < r => last < r  BY <3>1, <3>2, <1>0 DEF last
                    <6>2. r \in Nat /\ r < t  BY <4>2, <3>1, <3>2, <2>2
                    <6> QED  BY <6>1, <6>2, <1>0
                <5>2. r \in Nat /\ LastPage(h, r) \in Nat /\ r # s  BY <3>1, <3>2
                <5>3. r < s  BY <5>1, <5>2, <1>0
                <5>4. LastPage(h, r) < s  BY <5>3, <3>1, <3>2, <1>0
                <5>5. LastPage(h, r) < t  BY <5>2, <5>4, <1>0
                <5> QED  BY <5>5, <4>1, <4>2
            <4>3. CASE q \in Live(h)  BY <4>1, <4>3, <3>1, <3>2, <2>2
            <4> QED  BY <4>2, <4>3, <1>13
        <3>3. CASE r = s
            <4>1. LastPage(g, r) = t - 1  BY <3>3, <1>14
            <4>2. CASE q = t  BY <4>1, <4>2, <1>0
            <4>3. CASE q \in Live(h)
                <5>1. last < q  BY <4>3, <3>1, <3>3, <2>2, <1>0 DEF last
                <5> QED  BY <5>1, <4>1, <4>3, <3>1, <1>0
            <4> QED  BY <4>2, <4>3, <1>13
        <3>4. CASE r = t
            <4>1. LastPage(g, r) = last  BY <3>4, <1>14
            <4>2. q \in Live(h)  BY <3>4, <2>2, <1>0, <1>13
            <4>3. s < q  BY <4>2, <3>1, <3>4, <2>2, <1>0
            <4> QED  BY <4>1, <4>2, <4>3, <3>1, <1>0 DEF last
        <3> QED  BY <3>2, <3>3, <3>4, <1>13
    <2>3. \A p \in Pages : p \in g.mapped \ g.lost <=> \E r \in Live(g) : p \in PagesOf(g, r)
        BY <1>10, <1>17 DEF OnlySpans, Kept, Sound, Tiled
    <2>4. /\ g.lost \subseteq g.mapped
          /\ g.free \subseteq Live(g) /\ g.sized \subseteq Live(g) /\ g.free \cap g.sized = {}
        BY <1>10, <1>13 DEF OnlySpans, Kept, Sound, Tiled
    <2> QED  BY <2>1, <2>2, <2>3, <2>4 DEF Tiled
<1>19. Described(g)
    <2>0. Described(h) /\ g.sized = h.sized /\ g.leaves = h.leaves /\ h.sized \subseteq Live(h)
        BY <1>10 DEF Sound, Tiled, OnlySpans, Kept
    <2>1. ASSUME NEW p \in MapPages, g.pagemap[p] # "null" PROVE \E r \in Live(g) : p \in PagesOf(g, r)
        <3>1. CASE p \in {t - 1, t, last}
            <4>1. p \in PagesOf(h, s)  BY <3>1, <1>0, <1>1, SpanFacts DEF last
            <4> QED  BY <4>1, <1>0, <1>17
        <3>2. CASE p \notin {t - 1, t, last}  BY <3>2, <2>0, <2>1, <1>12, <1>17 DEF Described
        <3> QED  BY <3>1, <3>2
    <2>2. ASSUME NEW r \in Live(h) \ {s}, NEW p \in PagesOf(h, r)
          PROVE  p \in MapPages /\ g.pagemap[p] = h.pagemap[p]
        <3>1. p \notin PagesOf(h, s)  BY <1>0, OneSpan
        <3>2. p \notin {t - 1} \cup t .. last  BY <3>1, <1>0, <1>1, <1>15
        <3>3. p \in Pages  BY SpanFacts
        <3>4. p \in MapPages  BY <3>3, SizesAssumption DEF Pages, MapPages
        <3> QED  BY <3>2, <3>4, <1>12
    <2>3. ASSUME NEW r \in Live(g)
          PROVE  /\ g.pagemap[r] = "right" /\ g.pagemap[LastPage(g, r)] = "right"
                 /\ \A p \in r - 1 .. LastPage(g, r) + 1 : LeafOf(p) \in g.leaves
        <3>1. CASE r \in Live(h) \ {s}
            <4>1. r \in PagesOf(h, r) /\ LastPage(h, r) \in PagesOf(h, r)  BY <3>1, SpanFacts
            <4>2. h.pagemap[r] = "right" /\ h.pagemap[LastPage(h, r)] = "right"
                  /\ \A p \in r - 1 .. LastPage(h, r) + 1 : LeafOf(p) \in h.leaves
                BY <3>1, <2>0 DEF Described
            <4> QED  BY <4>1, <4>2, <3>1, <2>0, <2>2, <1>14
        <3>2. CASE r \in {s, t}
            <4>1. s \in MapPages /\ t - 1 \in MapPages /\ t \in MapPages /\ last \in MapPages
                <5>1. {s, t - 1, t, last} \subseteq Pages  BY <1>0, <1>1, SpanFacts
                <5> QED  BY <5>1, SizesAssumption DEF Pages, MapPages
            <4>2. g.pagemap[t - 1] = "right" /\ g.pagemap[t] = "right" /\ g.pagemap[last] = "right"
                BY <4>1, <1>12
            <4>3. g.pagemap[s] = "right"
                <5>1. CASE s = t - 1  BY <5>1, <4>2
                <5>2. CASE s # t - 1
                    <6>1. s \notin {t - 1} \cup t .. last  BY <5>2, <1>0
                    <6>2. h.pagemap[s] = "right"  BY <2>0, <1>0 DEF Described
                    <6> QED  BY <6>1, <6>2, <4>1, <1>12
                <5> QED  BY <5>1, <5>2
            <4>4. ASSUME NEW p \in r - 1 .. LastPage(g, r) + 1 PROVE LeafOf(p) \in g.leaves
                <5>1. p \in s - 1 .. last + 1  BY <3>2, <1>0, <1>14
                <5> QED  BY <5>1, <2>0, <1>0 DEF Described, last
            <4> QED  BY <4>2, <4>3, <4>4, <3>2, <1>14
        <3> QED  BY <3>1, <3>2, <1>13
    <2>4. ASSUME NEW r \in g.sized, NEW p \in PagesOf(g, r) PROVE g.pagemap[p] = "right"
        <3>1. r \in Live(h) \ {s} /\ r \in h.sized /\ PagesOf(g, r) = PagesOf(h, r)  BY <2>0, <1>0, <1>14
        <3> QED  BY <3>1, <2>0, <2>2 DEF Described
    <2> QED  BY <2>1, <2>3, <2>4 DEF Described
<1>20. Merged(g) /\ Listed(g) /\ FreePages(g) = FreePages(h)
    <2>1. ASSUME NEW r \in h.free PROVE g.length[r] = h.length[r]
        <3>1. r \in Live(h) /\ r # s /\ r # t  BY <1>0, <1>2 DEF Sound, Tiled
        <3> QED  BY <3>1, <1>0, <1>1, <1>11 DEF Heaps, Live
    <2>2. g.free = h.free /\ g.lists = h.lists /\ g.large = h.large  BY <1>10 DEF OnlySpans
    <2> QED  BY <2>1, <2>2, ListedFacts
<1>21. s \in Used(g) \ g.sized /\ t \in Used(g) \ g.sized
    <2>1. g.free = h.free /\ g.sized = h.sized /\ h.free \subseteq Live(h) /\ h.sized \subseteq Live(h)
        BY <1>10 DEF OnlySpans, Sound, Tiled
    <2> QED  BY <2>1, <1>0, <1>2, <1>13 DEF Used
<1> QED  BY <1>1, <1>2, <1>9, <1>10, <1>11, <1>18, <1>19, <1>20, <1>21 DEF Sound, g, t, m

\* Two adjacent spans that are in use become one, whose ends are entered.
LEMMA JoinFacts ==
    ASSUME NEW h, Sound(h), NEW g \in Heaps, OnlySpans(h, g),
           NEW s \in Used(h) \ h.sized, NEW t \in Used(h) \ h.sized, LastPage(h, s) + 1 = t,
           g.length = [h.length EXCEPT ![s] = h.length[s] + h.length[t], ![t] = 0],
           g.pagemap[s] = "right", g.pagemap[LastPage(h, t)] = "right",
           \A p \in MapPages :
                p \notin PagesOf(h, s) \cup PagesOf(h, t) => g.pagemap[p] = h.pagemap[p]
    PROVE  /\ Sound(g) /\ FreePages(g) = FreePages(h)
           /\ s \in Used(g) \ g.sized /\ Live(g) = Live(h) \ {t}
           /\ LastPage(g, s) = LastPage(h, t) /\ PagesOf(g, s) = PagesOf(h, s) \cup PagesOf(h, t)
<1> DEFINE last == LastPage(h, t)
<1>0. /\ h \in Heaps /\ s \in Live(h) /\ s \notin h.free /\ s \notin h.sized
      /\ t \in Live(h) /\ t \notin h.free /\ t \notin h.sized
      /\ s \in Nat /\ s \in Pages /\ h.length[s] \in Nat /\ h.length[s] > 0
      /\ t \in Nat /\ t \in Pages /\ h.length[t] \in Nat /\ h.length[t] > 0
      /\ last \in Nat /\ last \in Pages /\ last = t + h.length[t] - 1
      /\ t = s + h.length[s] /\ s < t /\ t <= last /\ LastPage(h, s) = t - 1
    BY SpanFacts DEF Sound, Used
<1> HIDE DEF last
<1>1. \A p \in Pages : g.length[p] = IF p = s THEN h.length[s] + h.length[t]
                                     ELSE IF p = t THEN 0 ELSE h.length[p]
    <2>1. h.length \in [Pages -> Nat]  BY <1>0 DEF Heaps
    <2> QED  BY <2>1, <1>0
<1>2. Live(g) = Live(h) \ {t}  BY <1>0, <1>1 DEF Live
<1>3. /\ \A r \in Live(g) \ {s} : LastPage(g, r) = LastPage(h, r) /\ PagesOf(g, r) = PagesOf(h, r)
      /\ LastPage(g, s) = last /\ PagesOf(g, s) = s .. last
    <2>1. \A r \in Live(g) \ {s} : g.length[r] = h.length[r]  BY <1>1, <1>2 DEF Live
    <2>2. LastPage(g, s) = last  BY <1>0, <1>1 DEF LastPage
    <2> QED  BY <2>1, <2>2 DEF LastPage, PagesOf
<1>4. PagesOf(h, s) = s .. t - 1 /\ PagesOf(h, t) = t .. last  BY <1>0 DEF PagesOf, last
<1>5. PagesOf(g, s) = PagesOf(h, s) \cup PagesOf(h, t)
    <2>1. s .. last = (s .. t - 1) \cup (t .. last)  BY <1>0
    <2> QED  BY <2>1, <1>3, <1>4
<1>6. \A p : (\E r \in Live(g) : p \in PagesOf(g, r)) <=> \E r \in Live(h) : p \in PagesOf(h, r)
    <2>1. Live(h) = (Live(g) \ {s}) \cup {s, t} /\ s \in Live(g)  BY <1>0, <1>2
    <2> QED  BY <2>1, <1>3, <1>5
<1>7. Tiled(g)
    <2>0. /\ \A a, b \in Live(h) : a < b => LastPage(h, a) < b
          /\ \A a \in Live(h) : a \in Nat /\ LastPage(h, a) \in Nat /\ a <= LastPage(h, a)
        BY SpanFacts DEF Sound, Tiled
    <2>1. \A r \in Live(g) : LastPage(g, r) \in Pages
        <3>1. \A r \in Live(h) : LastPage(h, r) \in Pages  BY SpanFacts
        <3> QED  BY <3>1, <1>0, <1>2, <1>3
    <2>2. ASSUME NEW r \in Live(g), NEW q \in Live(g), r < q PROVE LastPage(g, r) < q
        <3>0. r \in Live(h) /\ q \in Live(h) /\ q # t  BY <1>2
        <3>1. CASE r = s
            <4>1. t - 1 < q  BY <3>0, <3>1, <2>0, <2>2, <1>0
            <4>2. t < q  BY <4>1, <3>0, <2>0, <1>0
            <4>3. last < q  BY <4>2, <3>0, <2>0, <1>0 DEF last
            <4> QED  BY <4>3, <3>1, <1>3
        <3>2. CASE r # s
            <4>1. LastPage(h, r) < q  BY <3>0, <2>0, <2>2
            <4> QED  BY <4>1, <3>2, <1>3
        <3> QED  BY <3>1, <3>2
    <2>3. \A p \in Pages : p \in g.mapped \ g.lost <=> \E r \in Live(g) : p \in PagesOf(g, r)
        BY <1>6 DEF OnlySpans, Kept, Sound, Tiled
    <2>4. /\ g.lost \subseteq g.mapped
          /\ g.free \subseteq Live(g) /\ g.sized \subseteq Live(g) /\ g.free \cap g.sized = {}
        BY <1>0, <1>2 DEF OnlySpans, Kept, Sound, Tiled
    <2> QED  BY <2>1, <2>2, <2>3, <2>4 DEF Tiled
<1>8. Described(g)
    <2>0. Described(h) /\ g.sized = h.sized /\ g.leaves = h.leaves /\ h.sized \subseteq Live(h)
        BY DEF Sound, Tiled, OnlySpans, Kept
    <2>1. ASSUME NEW p \in MapPages, g.pagemap[p] # "null" PROVE \E r \in Live(g) : p \in PagesOf(g, r)
        <3>1. CASE p \in PagesOf(h, s) \cup PagesOf(h, t)  BY <3>1, <1>0, <1>2, <1>5
        <3>2. CASE p \notin PagesOf(h, s) \cup PagesOf(h, t)
            <4>1. h.pagemap[p] # "null"  BY <3>2, <2>1
            <4> QED  BY <4>1, <2>0, <1>6 DEF Described
        <3> QED  BY <3>1, <3>2
    <2>2. ASSUME NEW r \in Live(g) \ {s}, NEW p \in PagesOf(h, r)
          PROVE  p \in MapPages /\ g.pagemap[p] = h.pagemap[p]
        <3>0. r \in Live(h) /\ r # t  BY <1>2
        <3>1. p \notin PagesOf(h, s) \cup PagesOf(h, t)  BY <3>0, <1>0, OneSpan
        <3>3. p \in Pages  BY <3>0, SpanFacts
        <3>4. p \in MapPages  BY <3>3, SizesAssumption DEF Pages, MapPages
        <3> QED  BY <3>1, <3>4
    <2>3. ASSUME NEW r \in Live(g)
          PROVE  /\ g.pagemap[r] = "right" /\ g.pagemap[LastPage(g, r)] = "right"
                 /\ \A p \in r - 1 .. LastPage(g, r) + 1 : LeafOf(p) \in g.leaves
        <3>0. r \in Live(h)  BY <1>2
        <3>1. CASE r # s
            <4>1. r \in PagesOf(h, r) /\ LastPage(h, r) \in PagesOf(h, r)  BY <3>0, SpanFacts
            <4>2. h.pagemap[r] = "right" /\ h.pagemap[LastPage(h, r)] = "right"
                  /\ \A p \in r - 1 .. LastPage(h, r) + 1 : LeafOf(p) \in h.leaves
                BY <3>0, <2>0 DEF Described
            <4> QED  BY <4>1, <4>2, <3>1, <2>0, <2>2, <1>3
        <3>2. CASE r = s
            <4>1. \A p \in s - 1 .. t : LeafOf(p) \in h.leaves
                <5>1. t = LastPage(h, s) + 1  BY <1>0
                <5> QED  BY <5>1, <2>0, <1>0 DEF Described
            <4>2. \A p \in t - 1 .. last + 1 : LeafOf(p) \in h.leaves  BY <2>0, <1>0 DEF Described, last
            <4>3. ASSUME NEW p \in s - 1 .. last + 1 PROVE LeafOf(p) \in g.leaves
                <5>1. p \in s - 1 .. t \/ p \in t - 1 .. last + 1  BY <1>0
                <5> QED  BY <5>1, <4>1, <4>2, <2>0
            <4> QED  BY <4>3, <3>2, <1>3 DEF last
        <3> QED  BY <3>1, <3>2
    <2>4. ASSUME NEW r \in g.sized, NEW p \in PagesOf(g, r) PROVE g.pagemap[p] = "right"
        <3>1. r \in Live(g) \ {s} /\ r \in h.sized /\ PagesOf(g, r) = PagesOf(h, r)
            BY <2>0, <1>0, <1>2, <1>3
        <3> QED  BY <3>1, <2>0, <2>2 DEF Described
    <2> QED  BY <2>1, <2>3, <2>4 DEF Described
<1>9. Merged(g) /\ Listed(g) /\ FreePages(g) = FreePages(h)
    <2>1. ASSUME NEW r \in h.free PROVE g.length[r] = h.length[r]
        <3>1. r \in Pages /\ r # s /\ r # t  BY <1>0 DEF Heaps
        <3> QED  BY <3>1, <1>1
    <2>2. g.free = h.free /\ g.lists = h.lists /\ g.large = h.large  BY DEF OnlySpans
    <2> QED  BY <2>1, <2>2, ListedFacts
<1>10. s \in Used(g) \ g.sized  BY <1>0, <1>2 DEF OnlySpans, Used
<1> QED  BY <1>2, <1>3, <1>5, <1>7, <1>8, <1>9, <1>10 DEF Sound, last

-----------------------------------------------------------------------------
(* Delete.                                                                   *)

\* A free span goes away: off its list, and its pages change their span.
LEMMA DeleteSpanFacts ==
    ASSUME NEW h, Sound(h), NEW f \in h.free
    PROVE  LET g == DeleteSpan(Unlink(h, f), f)
           IN  /\ g \in Heaps /\ OnlySpans(TakeOff(h, f), g)
               /\ g.length = [h.length EXCEPT ![f] = 0]
               /\ \A p \in MapPages : p \notin PagesOf(h, f) => g.pagemap[p] = h.pagemap[p]
<1> DEFINE A == [n \in DOMAIN h.lists |-> DLL_Remove(h.lists[n], f)]
           B == DLL_Remove(h.large, f)
<1>1. Unlink(h, f) = [h EXCEPT !.lists = A, !.large = B]  BY DEF Unlink, Sound, Heaps
<1> HIDE DEF A, B
<1>2. PICK u : u = Unlink(h, f)  OBVIOUS
<1>3. PICK o \in Heaps : o = TakeOff(h, f)  BY TakeOffFacts DEF Sound
<1>4. o = [u EXCEPT !.free = u.free \ {f}]  BY <1>2, <1>3 DEF TakeOff
<1>0. h \in Heaps /\ f \in Pages  BY DEF Sound, Heaps
<1>5. /\ u.lists = o.lists /\ u.large = o.large /\ u.length = h.length /\ u.pagemap = h.pagemap
      /\ u.free = h.free /\ o.free = u.free \ {f} /\ u.sized = o.sized /\ Kept(o, u) /\ u \in Heaps
    <2>1. u = [h EXCEPT !.lists = A, !.large = B]  BY <1>1, <1>2
    <2>2. o = [h EXCEPT !.lists = A, !.large = B, !.free = h.free \ {f}]  BY <2>1, <1>0, <1>4 DEF Heaps
    <2>3. A = o.lists /\ B = o.large  BY <2>2, <1>0 DEF Heaps
    <2>4. A \in [1 .. MaxPages - 1 -> Seq(Pages)] /\ B \in Seq(Pages)  BY <2>3, <1>3 DEF Heaps
    <2>5. u \in Heaps  BY <2>1, <2>4, <1>0 DEF Heaps
    <2> QED  BY <2>1, <2>2, <2>5, <1>0 DEF Heaps, Kept
<1>6. PICK w \in Heaps :
          /\ w = Outdate(u, PagesOf(u, f)) /\ OnlySpans(u, w) /\ w.length = u.length
          /\ \A p \in MapPages : p \notin PagesOf(u, f) => w.pagemap[p] = u.pagemap[p]
    BY <1>5, OutdateFacts
<1>7. PICK g : g = DeleteSpan(u, f)  OBVIOUS
<1>8. g = [w EXCEPT !.length[f] = 0, !.free = @ \ {f}]  BY <1>6, <1>7 DEF DeleteSpan
<1>9. /\ g \in Heaps /\ Kept(w, g) /\ g.sized = w.sized /\ g.lists = w.lists /\ g.large = w.large
      /\ g.free = w.free \ {f} /\ g.length = [w.length EXCEPT ![f] = 0] /\ g.pagemap = w.pagemap
    <2>1. PICK l \in [Pages -> Nat] : l = [w.length EXCEPT ![f] = 0]  BY <1>0 DEF Heaps
    <2>2. PICK v \in SUBSET Pages : v = w.free \ {f}  BY DEF Heaps
    <2>3. g = [w EXCEPT !.length = l, !.free = v]  BY <2>1, <2>2, <1>8 DEF Heaps
    <2> QED  BY <2>1, <2>2, <2>3 DEF Heaps, Kept
<1>10. PagesOf(u, f) = PagesOf(h, f)  BY <1>5 DEF PagesOf, LastPage
<1>11. OnlySpans(o, g)  BY <1>5, <1>6, <1>9 DEF OnlySpans, Kept
<1> QED  BY <1>2, <1>3, <1>5, <1>6, <1>7, <1>9, <1>10, <1>11

\* The pages of the free spans and of one that is in use.
Spare(h, s) == FreePages(h) \cup PagesOf(h, s)

\* What both halves of Delete do: the span s becomes the span f, with the pages
\* of a free neighbour, and the other spans in use stay as they are.
Absorbed(h, s, g, f) ==
    /\ Sound(g) /\ Kept(h, g) /\ g.sized = h.sized
    /\ f \in Used(g) \ g.sized
    /\ \A r \in Used(h) \ {s} : r \in Used(g) /\ g.length[r] = h.length[r]
    /\ \A r \in g.free : r \in h.free /\ LastPage(g, r) = LastPage(h, r)
    /\ Spare(g, f) = Spare(h, s)

LEMMA AbsorbFacts ==
    ASSUME NEW h, Sound(h), NEW s \in Used(h) \ h.sized, NEW f \in h.free,
           NEW g \in Heaps, OnlySpans(TakeOff(h, f), g),
           NEW a, NEW b, {a, b} = {s, f}, LastPage(h, a) + 1 = b,
           g.length = [h.length EXCEPT ![a] = h.length[a] + h.length[b], ![b] = 0],
           g.pagemap[a] = "right", g.pagemap[LastPage(h, b)] = "right",
           \A p \in MapPages : p \notin PagesOf(h, f) => g.pagemap[p] = h.pagemap[p]
    PROVE  Absorbed(h, s, g, a) /\ LastPage(g, a) = LastPage(h, b)
<1>0. /\ h \in Heaps /\ s \in Live(h) /\ s \notin h.free /\ s \notin h.sized
      /\ f \in Live(h) /\ f \notin h.sized /\ s # f /\ f \in Pages
    BY DEF Sound, Used, Tiled, Heaps
<1>1. PICK o : /\ o = TakeOff(h, f) /\ Sound(o) /\ Kept(h, o) /\ o.length = h.length
               /\ o.pagemap = h.pagemap /\ o.sized = h.sized /\ o.free = h.free \ {f}
               /\ f \in Used(o) \ o.sized
    BY TakeOffFacts
<1>2. Live(o) = Live(h) /\ \A r : PagesOf(o, r) = PagesOf(h, r) /\ LastPage(o, r) = LastPage(h, r)
    BY <1>1 DEF Live, PagesOf, LastPage
<1>3. a \in Used(o) \ o.sized /\ b \in Used(o) \ o.sized
    <2>1. s \in Used(o) \ o.sized  BY <1>0, <1>1, <1>2 DEF Used
    <2> QED  BY <2>1, <1>1
<1>4. OnlySpans(o, g)  BY <1>1
<1>5. \A p \in MapPages : p \notin PagesOf(o, a) \cup PagesOf(o, b) => g.pagemap[p] = o.pagemap[p]
    <2>1. PagesOf(h, f) \subseteq PagesOf(o, a) \cup PagesOf(o, b)  BY <1>2
    <2> QED  BY <2>1, <1>1
<1>6. LastPage(o, a) + 1 = b /\ g.pagemap[LastPage(o, b)] = "right"  BY <1>2
<1>7. g.length = [o.length EXCEPT ![a] = o.length[a] + o.length[b], ![b] = 0]  BY <1>1
<1>8. /\ Sound(g) /\ FreePages(g) = FreePages(o)
      /\ a \in Used(g) \ g.sized /\ Live(g) = Live(o) \ {b}
      /\ LastPage(g, a) = LastPage(o, b) /\ PagesOf(g, a) = PagesOf(o, a) \cup PagesOf(o, b)
    BY <1>1, <1>3, <1>4, <1>5, <1>6, <1>7, JoinFacts
<1>9. Kept(h, g) /\ g.sized = h.sized /\ g.free = h.free \ {f}  BY <1>1, <1>4 DEF OnlySpans, Kept
<1>10. \A r \in Live(h) \ {s, f} : r \in Live(g) /\ g.length[r] = h.length[r]
    <2>1. h.length \in [Pages -> Nat] /\ s \in Pages  BY <1>0 DEF Heaps, Live
    <2>2. \A r \in Pages \ {a, b} : g.length[r] = h.length[r]
        <3>1. a \in Pages /\ b \in Pages  BY <2>1, <1>0
        <3> QED  BY <3>1, <2>1
    <2> QED  BY <2>2, <1>2, <1>8 DEF Live
<1>11. \A r \in Used(h) \ {s} : r \in Used(g) /\ g.length[r] = h.length[r]
    BY <1>0, <1>9, <1>10 DEF Used
<1>12. \A r \in g.free : r \in h.free /\ LastPage(g, r) = LastPage(h, r)
    <2>1. \A r \in g.free : r \in Live(h) \ {s, f}  BY <1>0, <1>9 DEF Sound, Tiled
    <2> QED  BY <2>1, <1>9, <1>10 DEF LastPage
<1>13. Spare(g, a) = Spare(h, s)
    <2>1. FreePages(h) = FreePages(o) \cup PagesOf(h, f)
        <3>1. PagesOf(h, f) \subseteq Pages  BY <1>0, SpanFacts
        <3>2. h.free = o.free \cup {f}  BY <1>1
        <3> QED  BY <3>1, <3>2, <1>2 DEF FreePages
    <2> QED  BY <2>1, <1>2, <1>8 DEF Spare
<1> QED  BY <1>2, <1>8, <1>9, <1>11, <1>12, <1>13 DEF Absorbed

LEMMA MergePrevFacts ==
    ASSUME NEW h, Sound(h), NEW s \in Used(h) \ h.sized
    PROVE  LET g == MergePrev(h, s)
               f == MergedPrev(h, s)
           IN  /\ Absorbed(h, s, g, f) /\ LastPage(g, f) = LastPage(h, s)
               /\ \A r \in g.free : LastPage(g, r) + 1 # f
<1> DEFINE prev == GetDescriptor(h, s - 1)
           f == MergedPrev(h, s)
           g == MergePrev(h, s)
<1>0. /\ h \in Heaps /\ s \in Live(h) /\ s \notin h.free /\ s \notin h.sized
      /\ s \in Pages /\ s \in Nat /\ h.free \subseteq Live(h)
    BY SpanFacts DEF Sound, Used, Tiled
<1>1. CASE prev \notin h.free
    <2>1. f = s /\ g = h  BY <1>1 DEF MergedPrev, MergePrev
    <2>2. ASSUME NEW r \in h.free, LastPage(h, r) + 1 = s PROVE FALSE
        <3>0. r \in Live(h)  BY <1>0
        <3>1. r \in Live(h) /\ s - 1 = LastPage(h, r)
            <4>1. LastPage(h, r) \in Nat  BY <3>0, SpanFacts
            <4> QED  BY <3>0, <4>1, <2>2
        <3>2. s - 1 \in PagesOf(h, r)  BY <3>1, SpanFacts
        <3>3. prev \in Live(h) /\ s - 1 \in PagesOf(h, prev)  BY <3>1, <3>2, <1>0, Neighbours
        <3>4. prev = r  BY <3>1, <3>2, <3>3, OneSpan
        <3> QED  BY <3>4, <1>1
    <2>3. Absorbed(h, s, h, s)  BY DEF Absorbed, Kept
    <2> QED  BY <2>1, <2>2, <2>3
<1>2. CASE prev \in h.free
    <2>0. f = prev /\ prev # s  BY <1>0, <1>2 DEF MergedPrev
    <2>1. f \in h.free /\ f \in Live(h) /\ f \in Pages /\ f # s  BY <2>0, <1>0, <1>2 DEF Heaps
    <2>2. LastPage(h, f) + 1 = s
        <3>1. prev # NULL
            <4>1. NULL \notin Pages  BY PageFacts DEF NULL
            <4> QED  BY <4>1, <2>0, <2>1
        <3>2. s - 1 \in PagesOf(h, prev)  BY <3>1, <1>0, Neighbours
        <3> QED  BY <3>2, <2>0, <2>1, <1>0, Edges
    <2>3. g = Enter([DeleteSpan(Unlink(h, f), f)
                       EXCEPT !.length[f] = h.length[f] + h.length[s], !.length[s] = 0], {f})
        BY <2>0 DEF MergePrev
    <2> HIDE DEF f, g, prev
    <2>4. PICK d \in Heaps :
            /\ d = DeleteSpan(Unlink(h, f), f) /\ OnlySpans(TakeOff(h, f), d)
            /\ d.length = [h.length EXCEPT ![f] = 0]
            /\ \A p \in MapPages : p \notin PagesOf(h, f) => d.pagemap[p] = h.pagemap[p]
        BY <2>1, DeleteSpanFacts
    <2>5. PICK n \in Nat : n = h.length[f] + h.length[s]  BY <2>1, <1>0, SpanFacts
    <2>6. PICK l \in [Pages -> Nat] : l = [d.length EXCEPT ![f] = n, ![s] = 0]  BY <2>1, <1>0 DEF Heaps
    <2>7. PICK e : e = [d EXCEPT !.length = l]  OBVIOUS
    <2>8. g = Enter(e, {f})  BY <2>3, <2>4, <2>5, <2>6, <2>7 DEF Heaps
    <2>9. e \in Heaps /\ OnlySpans(d, e) /\ e.pagemap = d.pagemap /\ e.length = l
        BY <2>7 DEF Heaps, OnlySpans, Kept
    <2>10. /\ g \in Heaps /\ OnlySpans(e, g) /\ g.length = l
           /\ \A p \in MapPages : g.pagemap[p] = IF p \in {f} THEN "right" ELSE e.pagemap[p]
        BY <2>8, <2>9, EnterFacts
    <2>11. OnlySpans(TakeOff(h, f), g)  BY <2>4, <2>9, <2>10 DEF OnlySpans, Kept
    <2>12. l = [h.length EXCEPT ![f] = n, ![s] = 0]  BY <2>1, <2>4, <2>6, <1>0 DEF Heaps
    <2>13. f \in MapPages /\ f \in PagesOf(h, f)
        <3>1. f \in MapPages  BY <2>1, SizesAssumption DEF Pages, MapPages
        <3> QED  BY <3>1, <2>1, SpanFacts
    <2>14. g.pagemap[LastPage(h, s)] = "right"
        <3>1. LastPage(h, s) \in PagesOf(h, s) /\ LastPage(h, s) \in Pages  BY <1>0, SpanFacts
        <3>2. LastPage(h, s) \in MapPages  BY <3>1, SizesAssumption DEF Pages, MapPages
        <3>3. LastPage(h, s) \notin PagesOf(h, f)  BY <3>1, <2>1, <1>0, OneSpan
        <3>4. h.pagemap[LastPage(h, s)] = "right"  BY <1>0 DEF Sound, Described
        <3> QED  BY <3>2, <3>3, <3>4, <2>4, <2>9, <2>10
    <2>15. \A p \in MapPages : p \notin PagesOf(h, f) => g.pagemap[p] = h.pagemap[p]
        BY <2>4, <2>9, <2>10, <2>13
    <2>16. Absorbed(h, s, g, f) /\ LastPage(g, f) = LastPage(h, s)
        <3>1. {f, s} = {s, f}  OBVIOUS
        <3>2. g.pagemap[f] = "right"  BY <2>10, <2>13
        <3>3. g.length = [h.length EXCEPT ![f] = h.length[f] + h.length[s], ![s] = 0]
            BY <2>5, <2>10, <2>12
        <3> QED  BY <3>1, <3>2, <3>3, <2>1, <2>2, <2>10, <2>11, <2>14, <2>15, AbsorbFacts
    <2>17. ASSUME NEW r \in g.free PROVE LastPage(g, r) + 1 # f
        <3>1. r \in h.free /\ LastPage(g, r) = LastPage(h, r)  BY <2>16 DEF Absorbed
        <3> QED  BY <3>1, <2>1 DEF Sound, Merged
    <2> QED  BY <2>16, <2>17 DEF f, g
<1> QED  BY <1>1, <1>2

LEMMA MergeNextFacts ==
    ASSUME NEW h, Sound(h), NEW s \in Used(h) \ h.sized
    PROVE  LET g == MergeNext(h, s)
           IN  /\ Absorbed(h, s, g, s)
               /\ \A r \in g.free : LastPage(g, s) + 1 # r
<1> DEFINE t == LastPage(h, s) + 1
           f == GetDescriptor(h, t)
           g == MergeNext(h, s)
<1>0. /\ h \in Heaps /\ s \in Live(h) /\ s \notin h.free /\ s \notin h.sized
      /\ s \in Pages /\ s \in Nat /\ h.free \subseteq Live(h)
    BY SpanFacts DEF Sound, Used, Tiled
<1>1. CASE f \notin h.free
    <2>1. g = h  BY <1>1 DEF MergeNext
    <2>2. ASSUME NEW r \in h.free, LastPage(h, s) + 1 = r PROVE FALSE
        <3>1. r \in Live(h)  BY <1>0
        <3>2. t \in PagesOf(h, r)  BY <3>1, <2>2, SpanFacts
        <3>3. f \in Live(h) /\ t \in PagesOf(h, f)  BY <3>1, <3>2, <1>0, Neighbours
        <3>4. f = r  BY <3>1, <3>2, <3>3, OneSpan
        <3> QED  BY <3>4, <1>1
    <2>3. Absorbed(h, s, h, s)  BY DEF Absorbed, Kept
    <2> QED  BY <2>1, <2>2, <2>3
<1>2. CASE f \in h.free
    <2>1. f \in h.free /\ f \in Live(h) /\ f \in Pages /\ f # s  BY <1>0, <1>2 DEF Heaps
    <2>2. t = f
        <3>1. f # NULL
            <4>1. NULL \notin Pages  BY PageFacts DEF NULL
            <4> QED  BY <4>1, <2>1
        <3>2. t \in PagesOf(h, f)  BY <3>1, <1>0, Neighbours
        <3> QED  BY <3>2, <2>1, <1>0, Edges
    <2>3. g = Enter([DeleteSpan(Unlink(h, f), f) EXCEPT !.length[s] = h.length[s] + h.length[f]],
                    {LastPage(h, f)})
        BY <1>2 DEF MergeNext
    <2> DEFINE last == LastPage(h, f)
    <2> HIDE DEF f, g, t, last
    <2>4. PICK d \in Heaps :
            /\ d = DeleteSpan(Unlink(h, f), f) /\ OnlySpans(TakeOff(h, f), d)
            /\ d.length = [h.length EXCEPT ![f] = 0]
            /\ \A p \in MapPages : p \notin PagesOf(h, f) => d.pagemap[p] = h.pagemap[p]
        BY <2>1, DeleteSpanFacts
    <2>5. PICK n \in Nat : n = h.length[s] + h.length[f]  BY <2>1, <1>0, SpanFacts
    <2>6. PICK l \in [Pages -> Nat] : l = [d.length EXCEPT ![s] = n]  BY <1>0 DEF Heaps
    <2>7. PICK e : e = [d EXCEPT !.length = l]  OBVIOUS
    <2>8. g = Enter(e, {last})  BY <2>3, <2>4, <2>5, <2>6, <2>7 DEF Heaps, last
    <2>9. e \in Heaps /\ OnlySpans(d, e) /\ e.pagemap = d.pagemap /\ e.length = l
        BY <2>7 DEF Heaps, OnlySpans, Kept
    <2>10. /\ g \in Heaps /\ OnlySpans(e, g) /\ g.length = l
           /\ \A p \in MapPages : g.pagemap[p] = IF p \in {last} THEN "right" ELSE e.pagemap[p]
        BY <2>8, <2>9, EnterFacts
    <2>11. OnlySpans(TakeOff(h, f), g)  BY <2>4, <2>9, <2>10 DEF OnlySpans, Kept
    <2>12. l = [h.length EXCEPT ![s] = n, ![f] = 0]
        <3>1. h.length \in [Pages -> Nat]  BY <1>0 DEF Heaps
        <3> QED  BY <3>1, <2>1, <2>4, <2>6, <1>0
    <2>13. last \in MapPages /\ last \in PagesOf(h, f)
        <3>1. last \in Pages /\ last \in PagesOf(h, f)  BY <2>1, SpanFacts DEF last
        <3> QED  BY <3>1, SizesAssumption DEF Pages, MapPages
    <2>14. g.pagemap[s] = "right"
        <3>1. s \in PagesOf(h, s)  BY <1>0, SpanFacts
        <3>2. s \in MapPages  BY <1>0, SizesAssumption DEF Pages, MapPages
        <3>3. s \notin PagesOf(h, f)  BY <3>1, <2>1, <1>0, OneSpan
        <3>4. h.pagemap[s] = "right"  BY <1>0 DEF Sound, Described
        <3> QED  BY <3>2, <3>3, <3>4, <2>4, <2>9, <2>10
    <2>15. \A p \in MapPages : p \notin PagesOf(h, f) => g.pagemap[p] = h.pagemap[p]
        BY <2>4, <2>9, <2>10, <2>13
    <2>16. Absorbed(h, s, g, s) /\ LastPage(g, s) = LastPage(h, f)
        <3>1. {s, f} = {s, f} /\ LastPage(h, s) + 1 = f  BY <2>2 DEF t
        <3>2. g.pagemap[LastPage(h, f)] = "right"  BY <2>10, <2>13 DEF last
        <3>3. g.length = [h.length EXCEPT ![s] = h.length[s] + h.length[f], ![f] = 0]
            BY <2>5, <2>10, <2>12
        <3> QED  BY <3>1, <3>2, <3>3, <2>1, <2>10, <2>11, <2>14, <2>15, AbsorbFacts
    <2>17. ASSUME NEW r \in g.free PROVE LastPage(g, s) + 1 # r
        <3>1. r \in h.free  BY <2>16 DEF Absorbed
        <3> QED  BY <3>1, <2>1, <2>16 DEF Sound, Merged
    <2> QED  BY <2>16, <2>17 DEF g
<1> QED  BY <1>1, <1>2

\* Delete looks the neighbour up before and after it clears the size class.
LEMMA SameNeighbour ==
    ASSUME NEW h, Sound(h), NEW g, Sound(g), g.length = h.length, g.pagemap = h.pagemap,
           g.free = h.free, NEW s \in Live(h)
    PROVE  MergedPrev(g, s) = MergedPrev(h, s)
<1>1. Live(g) = Live(h) /\ \A r : PagesOf(g, r) = PagesOf(h, r)
    BY DEF Live, PagesOf, LastPage
<1>2. GetDescriptor(g, s - 1) = GetDescriptor(h, s - 1)
    <2>1. CASE \E r \in Live(h) : s - 1 \in PagesOf(h, r)
        <3>1. /\ GetDescriptor(h, s - 1) \in Live(h) /\ s - 1 \in PagesOf(h, GetDescriptor(h, s - 1))
              /\ GetDescriptor(g, s - 1) \in Live(h) /\ s - 1 \in PagesOf(h, GetDescriptor(g, s - 1))
            BY <2>1, <1>1, Neighbours
        <3> QED  BY <3>1, OneSpan
    <2>2. CASE ~ \E r \in Live(h) : s - 1 \in PagesOf(h, r)
        BY <2>2, <1>1, Neighbours
    <2> QED  BY <2>1, <2>2
<1> QED  BY <1>2 DEF MergedPrev

\* The spans in use, but for s, stay as they are.
Untouched(h, s, g) == \A r \in Used(h) \ {s} : r \in Used(g) /\ g.length[r] = h.length[r]

LEMMA DeleteFacts ==
    ASSUME NEW h, Sound(h), NEW s \in Used(h)
    PROVE  LET g == Delete(h, s)
           IN  /\ Sound(g) /\ g.leaves = h.leaves /\ g.mapped = h.mapped /\ g.lost = h.lost
               /\ g.free_pages = h.free_pages + h.length[s] /\ g.system_pages = h.system_pages
               /\ g.sized = h.sized \ {s} /\ FreePages(g) = Spare(h, s)
               /\ Untouched(h, s, g)
<1> DEFINE g == Delete(h, s)
           f == MergedPrev(h, s)
<1>0. s \in Live(h) /\ h \in Heaps  BY DEF Used, Sound
<1>1. PICK h0 : /\ h0 = [h EXCEPT !.sized = @ \ {s}] /\ Sound(h0) /\ Kept(h, h0)
                /\ h0.length = h.length /\ h0.pagemap = h.pagemap /\ h0.free = h.free
                /\ h0.sized = h.sized \ {s} /\ s \in Used(h0) \ h0.sized
    BY UnsizeFacts
<1>2. Live(h0) = Live(h) /\ Used(h0) = Used(h) /\ Spare(h0, s) = Spare(h, s)
    BY <1>1 DEF Live, Used, Spare, FreePages, PagesOf, LastPage
<1>3. MergedPrev(h0, s) = f
    <2>1. MergedPrev(h0, s) = MergedPrev(h, s)
        <3>1. /\ Sound(h0) /\ h0.length = h.length /\ h0.pagemap = h.pagemap /\ h0.free = h.free
            BY <1>1
        <3> QED  BY <3>1, <1>0, SameNeighbour
    <2> QED  BY <2>1
<1> HIDE DEF f, g
<1>4. PICK h1 : /\ h1 = MergePrev(h0, s) /\ Absorbed(h0, s, h1, f)
                /\ \A r \in h1.free : LastPage(h1, r) + 1 # f
    <2>1. PICK h1 : h1 = MergePrev(h0, s)  OBVIOUS
    <2> QED  BY <2>1, <1>1, <1>3, MergePrevFacts
<1>5. Sound(h1) /\ f \in Used(h1) \ h1.sized  BY <1>4 DEF Absorbed
<1>6. PICK h2 : /\ h2 = MergeNext(h1, f) /\ Absorbed(h1, f, h2, f)
                /\ \A r \in h2.free : LastPage(h2, f) + 1 # r
    BY <1>5, MergeNextFacts
<1>7. Sound(h2) /\ f \in Used(h2) \ h2.sized  BY <1>6 DEF Absorbed
<1>8. \A r \in h2.free : LastPage(h2, r) + 1 # f
    <2>1. \A r \in h2.free : r \in h1.free /\ LastPage(h2, r) = LastPage(h1, r)  BY <1>6 DEF Absorbed
    <2> QED  BY <2>1, <1>4
<1>9. PICK h3 : /\ h3 = ToList(h2, f) /\ Sound(h3) /\ Kept(h2, h3) /\ h3.length = h2.length
                /\ h3.pagemap = h2.pagemap /\ h3.sized = h2.sized /\ h3.free = h2.free \cup {f}
    BY <1>6, <1>7, <1>8, ToListFacts
<1>10. g = [h3 EXCEPT !.free_pages = @ + h.length[s]]
    BY <1>1, <1>4, <1>6, <1>9 DEF Delete, f, g
<1>11. h.length[s] \in Nat  BY <1>0, SpanFacts
<1>12. /\ g \in Heaps /\ g.leaves = h3.leaves /\ g.mapped = h3.mapped /\ g.lost = h3.lost
       /\ g.free_pages = h3.free_pages + h.length[s] /\ g.system_pages = h3.system_pages
       /\ g.length = h3.length /\ g.pagemap = h3.pagemap /\ g.sized = h3.sized /\ g.free = h3.free
       /\ g.lists = h3.lists /\ g.large = h3.large
    <2>1. h3 \in Heaps  BY <1>9 DEF Sound
    <2>2. PICK n \in Int : n = h3.free_pages + h.length[s]  BY <2>1, <1>11 DEF Heaps
    <2>3. g = [h3 EXCEPT !.free_pages = n]  BY <2>1, <2>2, <1>10 DEF Heaps
    <2> QED  BY <2>1, <2>2, <2>3 DEF Heaps
<1>13. Live(g) = Live(h3) /\ \A r : PagesOf(g, r) = PagesOf(h3, r) /\ LastPage(g, r) = LastPage(h3, r)
    BY <1>12 DEF Live, PagesOf, LastPage
<1>14. Sound(g)
    <2>1. Tiled(g)  BY <1>9, <1>12, <1>13 DEF Sound, Tiled
    <2>2. Described(g)  BY <1>9, <1>12, <1>13 DEF Sound, Described
    <2>3. Merged(g) /\ Listed(g)  BY <1>9, <1>12, <1>13 DEF Sound, Merged, Listed
    <2> QED  BY <2>1, <2>2, <2>3, <1>12 DEF Sound
<1>15. /\ Kept(h, h1) /\ Kept(h, h2) /\ Kept(h, h3)
       /\ h1.sized = h0.sized /\ h2.sized = h0.sized /\ h3.sized = h0.sized
    <2>1. Kept(h, h0) /\ Kept(h0, h1) /\ Kept(h1, h2) /\ Kept(h2, h3)  BY <1>1, <1>4, <1>6, <1>9 DEF Absorbed
    <2>2. h1.sized = h0.sized /\ h2.sized = h1.sized /\ h3.sized = h2.sized
        BY <1>4, <1>6, <1>9 DEF Absorbed
    <2> QED  BY <2>1, <2>2 DEF Kept
<1>16. FreePages(g) = Spare(h, s)
    <2>1. Spare(h2, f) = Spare(h, s)  BY <1>2, <1>4, <1>6 DEF Absorbed
    <2>2. \A r : PagesOf(h3, r) = PagesOf(h2, r)  BY <1>9 DEF PagesOf, LastPage
    <2>3. PagesOf(h2, f) \subseteq Pages
        <3>1. f \in Live(h2)  BY <1>7 DEF Used
        <3> QED  BY <3>1, <1>7, SpanFacts
    <2>4. g.free = h2.free \cup {f} /\ \A r : PagesOf(g, r) = PagesOf(h2, r)  BY <2>2, <1>9, <1>12, <1>13
    <2> QED  BY <2>1, <2>3, <2>4 DEF Spare, FreePages
<1>17. Untouched(h, s, g)
    <2> SUFFICES ASSUME NEW r \in Used(h) \ {s} PROVE r \in Used(g) /\ g.length[r] = h.length[r]
        BY DEF Untouched
    <2>1. r \in Used(h1) /\ h1.length[r] = h.length[r]  BY <1>1, <1>2, <1>4 DEF Absorbed
    <2>2. r # f
        <3>1. CASE f = s  BY <3>1
        <3>2. CASE f # s
            <4>1. f \in h.free  BY <3>2 DEF f, MergedPrev
            <4> QED  BY <4>1 DEF Used
        <3> QED  BY <3>1, <3>2
    <2>3. r \in Used(h2) /\ h2.length[r] = h.length[r]  BY <2>1, <2>2, <1>6 DEF Absorbed
    <2>4. Live(h3) = Live(h2)  BY <1>9 DEF Live
    <2>5. r \in Used(h3) /\ h3.length[r] = h.length[r]  BY <2>2, <2>3, <2>4, <1>9 DEF Used
    <2> QED  BY <2>5, <1>12, <1>13 DEF Used
<1> QED  BY <1>1, <1>12, <1>14, <1>15, <1>16, <1>17 DEF g, Kept

\* A span in use has no free page.
LEMMA UsedApart ==
    ASSUME NEW h, Sound(h), NEW s \in Used(h)
    PROVE  FreePages(h) \cap PagesOf(h, s) = {}
<1>1. s \in Live(h) /\ s \notin h.free /\ h.free \subseteq Live(h)  BY DEF Used, Sound, Tiled
<1> QED  BY <1>1, OneSpan DEF FreePages

LEMMA DeleteGood ==
    ASSUME NEW h, Good(h), NEW s \in Used(h)
    PROVE  /\ Good(Delete(h, s)) /\ Untouched(h, s, Delete(h, s))
           /\ Delete(h, s).sized = h.sized \ {s}
<1> DEFINE g == Delete(h, s)
<1>1. /\ Sound(g) /\ g.mapped = h.mapped
      /\ g.free_pages = h.free_pages + h.length[s] /\ g.system_pages = h.system_pages
      /\ FreePages(g) = Spare(h, s) /\ Untouched(h, s, g) /\ g.sized = h.sized \ {s}
    BY DeleteFacts DEF Good
<1> HIDE DEF g
<1>2. FreePages(h) \cap PagesOf(h, s) = {}  BY UsedApart DEF Good
<1>3. PagesOf(h, s) = s .. s + h.length[s] - 1 /\ s \in Nat /\ h.length[s] \in Nat
    <2>1. s \in Live(h)  BY DEF Used
    <2> QED  BY <2>1, SpanFacts DEF Good, PagesOf
<1>4. FreePages(h) \subseteq Pages  BY DEF FreePages
<1>5. Cardinality(FreePages(g)) = Cardinality(FreePages(h)) + h.length[s]
    <2>1. FreePages(h) \cap (s .. s + h.length[s] - 1) = {}  BY <1>2, <1>3
    <2>2. FreePages(g) = FreePages(h) \cup (s .. s + h.length[s] - 1)  BY <1>1, <1>3 DEF Spare
    <2>3. PICK a \in Nat, n \in Nat, T \in SUBSET Pages : a = s /\ n = h.length[s] /\ T = FreePages(h)
        BY <1>3, <1>4
    <2>4. Cardinality(T \cup (a .. a + n - 1)) = Cardinality(T) + n  BY <2>1, <2>3, AddRun
    <2> QED  BY <2>2, <2>3, <2>4
<1>6. Counted(g)  BY <1>1, <1>5 DEF Good, Counted
<1> QED  BY <1>1, <1>6 DEF Good, g

-----------------------------------------------------------------------------
(* Carve and Take.                                                           *)

LEMMA CarveFacts ==
    ASSUME NEW h, Sound(h), NEW s \in h.free, NEW n \in 1 .. h.length[s]
    PROVE  LET g == Carve(h, s, n)
           IN  /\ Sound(g) /\ Kept(h, g)
               /\ s \in Used(g) \ g.sized /\ g.length[s] = n
               /\ s .. s + n - 1 \subseteq FreePages(h)
               /\ FreePages(g) = FreePages(h) \ (s .. s + n - 1)
<1> DEFINE g == Carve(h, s, n)
<1>0. /\ h \in Heaps /\ s \in Live(h) /\ s \in Nat /\ s \in Pages /\ s > 0 /\ h.free \subseteq Live(h)
      /\ h.length[s] \in Nat /\ n \in Nat /\ n > 0 /\ n <= h.length[s]
      /\ LastPage(h, s) = s + h.length[s] - 1 /\ LastPage(h, s) \in Nat
    BY SpanFacts DEF Sound, Tiled
<1>1. PICK h1 : /\ h1 = TakeOff(h, s) /\ Sound(h1) /\ Kept(h, h1) /\ h1.length = h.length
                /\ h1.pagemap = h.pagemap /\ h1.sized = h.sized /\ h1.free = h.free \ {s}
                /\ s \in Used(h1) \ h1.sized
    BY TakeOffFacts
<1>2. Live(h1) = Live(h) /\ \A r : PagesOf(h1, r) = PagesOf(h, r) /\ LastPage(h1, r) = LastPage(h, r)
    BY <1>1 DEF Live, PagesOf, LastPage
<1>3. FreePages(h1) = FreePages(h) \ PagesOf(h, s)
    <2>1. \A r \in h1.free : r \in Live(h) /\ r # s  BY <1>0, <1>1
    <2>2. \A r \in h1.free : PagesOf(h, r) \cap PagesOf(h, s) = {}  BY <2>1, <1>0, OneSpan
    <2> QED  BY <2>2, <1>1, <1>2 DEF FreePages
<1>4. PagesOf(h, s) \subseteq FreePages(h) /\ PagesOf(h, s) = s .. LastPage(h, s)
    <2>1. PagesOf(h, s) \subseteq Pages  BY <1>0, SpanFacts
    <2> QED  BY <2>1 DEF FreePages, PagesOf
<1>5. s .. s + n - 1 \subseteq FreePages(h)
    <2>1. s .. s + n - 1 \subseteq s .. LastPage(h, s)  BY <1>0
    <2> QED  BY <2>1, <1>4
<1>6. CASE h.length[s] = n
    <2>1. g = h1  BY <1>1, <1>6 DEF Carve, TakeOff
    <2>2. PagesOf(h, s) = s .. s + n - 1  BY <1>0, <1>4, <1>6
    <2> QED  BY <2>1, <2>2, <1>1, <1>3, <1>5, <1>6
<1>7. CASE h.length[s] # n
    <2> DEFINE t == s + n
    <2>1. n \in 1 .. h1.length[s] - 1  BY <1>0, <1>1, <1>7
    <2>2. PICK h2 : /\ h2 = Cut(h1, s, n) /\ Sound(h2) /\ OnlySpans(h1, h2) /\ FreePages(h2) = FreePages(h1)
                    /\ t \in Pages /\ h2.length = [h1.length EXCEPT ![s] = n, ![t] = h1.length[s] - n]
                    /\ s \in Used(h2) \ h2.sized /\ t \in Used(h2) \ h2.sized /\ t \notin Live(h1)
        <3>1. PICK h2 : h2 = Cut(h1, s, n)  OBVIOUS
        <3> QED  BY <3>1, <2>1, <1>1, CutFacts
    <2>3. g = ToList(h2, t)  BY <2>2, <1>1, <1>7 DEF Carve, TakeOff
    <2>4. t \in Nat /\ t # s /\ s < t /\ t <= LastPage(h, s)  BY <1>0, <1>7
    <2> HIDE DEF t, g
    <2>5. /\ h2.length[s] = n /\ h2.length[t] = h.length[s] - n
          /\ \A r \in Pages \ {s, t} : h2.length[r] = h.length[r]
        <3>1. h.length \in [Pages -> Nat]  BY <1>0 DEF Heaps
        <3> QED  BY <3>1, <2>2, <2>4, <1>0, <1>1
    <2>6. LastPage(h2, t) = LastPage(h, s)  BY <2>5, <1>0 DEF LastPage, t
    <2>7. ASSUME NEW r \in h2.free
          PROVE  LastPage(h2, r) + 1 # t /\ LastPage(h2, t) + 1 # r
        <3>1. r \in h.free /\ r # s /\ r # t  BY <2>2, <1>0, <1>1, <1>2 DEF OnlySpans
        <3>2. r \in Live(h) /\ r \in Pages  BY <3>1, <1>0 DEF Heaps
        <3>3. LastPage(h2, r) = LastPage(h, r)  BY <3>1, <3>2, <2>5 DEF LastPage
        <3>4. LastPage(h, r) + 1 # t
            <4>1. LastPage(h, r) \in Nat /\ LastPage(h, r) \in PagesOf(h, r)  BY <3>2, SpanFacts
            <4>2. LastPage(h, r) \notin PagesOf(h, s)  BY <4>1, <3>1, <3>2, <1>0, OneSpan
            <4>3. t - 1 \in PagesOf(h, s)  BY <2>4, <1>0, <1>4
            <4> QED  BY <4>1, <4>2, <4>3, <2>4
        <3>5. LastPage(h, s) + 1 # r  BY <3>1 DEF Sound, Merged
        <3> QED  BY <3>3, <3>4, <3>5, <2>6
    <2>8. /\ Sound(g) /\ Kept(h2, g) /\ g.length = h2.length /\ g.sized = h2.sized
          /\ g.free = h2.free \cup {t}
        BY <2>2, <2>3, <2>7, ToListFacts
    <2>9. Kept(h, g)  BY <2>2, <2>8, <1>1 DEF Kept, OnlySpans
    <2>10. s \in Used(g) \ g.sized  BY <2>2, <2>4, <2>8 DEF Used, Live
    <2>11. FreePages(g) = FreePages(h) \ (s .. s + n - 1)
        <3>1. \A r : PagesOf(g, r) = PagesOf(h2, r)  BY <2>8 DEF PagesOf, LastPage
        <3>2. PagesOf(h2, t) = t .. LastPage(h, s)  BY <2>6 DEF PagesOf
        <3>3. t .. LastPage(h, s) \subseteq PagesOf(h, s)  BY <2>4, <1>0, <1>4
        <3>4. PagesOf(h, s) \subseteq Pages  BY <1>0, SpanFacts
        <3>5. FreePages(g) = FreePages(h2) \cup t .. LastPage(h, s)
            <4>1. \A p : (\E r \in g.free : p \in PagesOf(g, r)) <=>
                            (\E r \in h2.free : p \in PagesOf(h2, r)) \/ p \in t .. LastPage(h, s)
                BY <3>1, <3>2, <2>8
            <4>2. t .. LastPage(h, s) \subseteq Pages  BY <3>3, <3>4
            <4> QED  BY <4>1, <4>2 DEF FreePages
        <3>6. FreePages(g) = (FreePages(h) \ (s .. LastPage(h, s))) \cup t .. LastPage(h, s)
            BY <3>5, <2>2, <1>3, <1>4
        <3>7. s .. LastPage(h, s) \subseteq FreePages(h)  BY <1>4
        <3>8. (s .. LastPage(h, s)) \ (t .. LastPage(h, s)) = s .. s + n - 1  BY <2>4, <1>0 DEF t
        <3>9. t .. LastPage(h, s) \subseteq s .. LastPage(h, s)  BY <2>4, <1>0
        <3> QED  BY <3>6, <3>7, <3>8, <3>9
    <2> QED  BY <2>5, <2>8, <2>9, <2>10, <2>11, <1>5 DEF g
<1> QED  BY <1>6, <1>7

\* A heap that differs in what is counted only.
LEMMA CountFacts ==
    ASSUME NEW h, Sound(h), NEW g, NEW n \in Int, g = [h EXCEPT !.free_pages = n]
    PROVE  /\ Sound(g) /\ g.free_pages = n /\ g.system_pages = h.system_pages /\ g.mapped = h.mapped
           /\ g.length = h.length /\ g.sized = h.sized
           /\ Used(g) = Used(h) /\ FreePages(g) = FreePages(h)
<1>1. /\ g \in Heaps /\ g.leaves = h.leaves /\ g.mapped = h.mapped /\ g.lost = h.lost
      /\ g.free_pages = n /\ g.system_pages = h.system_pages
      /\ g.length = h.length /\ g.pagemap = h.pagemap /\ g.sized = h.sized /\ g.free = h.free
      /\ g.lists = h.lists /\ g.large = h.large
    BY DEF Sound, Heaps
<1>2. Live(g) = Live(h) /\ \A r : PagesOf(g, r) = PagesOf(h, r) /\ LastPage(g, r) = LastPage(h, r)
    BY <1>1 DEF Live, PagesOf, LastPage
<1>3. Tiled(g)  BY <1>1, <1>2 DEF Sound, Tiled
<1>4. Described(g)  BY <1>1, <1>2 DEF Sound, Described
<1>5. Merged(g) /\ Listed(g)  BY <1>1, <1>2 DEF Sound, Merged, Listed
<1>6. Used(g) = Used(h) /\ FreePages(g) = FreePages(h)  BY <1>1, <1>2 DEF Used, FreePages
<1> QED  BY <1>1, <1>3, <1>4, <1>5, <1>6 DEF Sound

LEMMA TakeGood ==
    ASSUME NEW h, Good(h), NEW s \in h.free, NEW n \in 1 .. h.length[s]
    PROVE  LET g == Take(h, s, n)
           IN  Good(g) /\ s \in Used(g) \ g.sized /\ g.length[s] = n
<1> DEFINE g == Take(h, s, n)
<1>1. PICK c : /\ c = Carve(h, s, n) /\ Sound(c) /\ Kept(h, c)
               /\ s \in Used(c) \ c.sized /\ c.length[s] = n
               /\ s .. s + n - 1 \subseteq FreePages(h)
               /\ FreePages(c) = FreePages(h) \ (s .. s + n - 1)
    BY CarveFacts DEF Good
<1>2. s \in Nat /\ n \in Nat /\ h.free_pages \in Int /\ h.length[s] \in Nat
    <2>1. s \in Live(h) /\ Sound(h)  BY DEF Good, Sound, Tiled
    <2>2. h.free_pages \in Int  BY <2>1 DEF Sound, Heaps
    <2> QED  BY <2>1, <2>2, SpanFacts
<1>3. PICK k \in Int : k = c.free_pages - n  BY <1>1, <1>2 DEF Kept
<1>4. g = [c EXCEPT !.free_pages = k]  BY <1>1, <1>3 DEF Take, Sound, Heaps
<1> HIDE DEF g
<1>5. /\ Sound(g) /\ g.free_pages = k /\ g.system_pages = c.system_pages /\ g.mapped = c.mapped
      /\ g.length = c.length /\ g.sized = c.sized
      /\ Used(g) = Used(c) /\ FreePages(g) = FreePages(c)
    BY <1>1, <1>4, CountFacts
<1>6. Cardinality(FreePages(h)) = Cardinality(FreePages(c)) + n /\ Cardinality(FreePages(c)) \in Nat
    <2>1. PICK T \in SUBSET Pages : T = FreePages(c)  BY DEF FreePages
    <2>2. T \cap (s .. s + n - 1) = {} /\ FreePages(h) = T \cup (s .. s + n - 1)  BY <2>1, <1>1
    <2>3. Cardinality(T \cup (s .. s + n - 1)) = Cardinality(T) + n /\ Cardinality(T) \in Nat
        BY <2>2, <1>2, AddRun
    <2> QED  BY <2>1, <2>2, <2>3
<1>7. h.free_pages = Cardinality(FreePages(h)) /\ h.system_pages = Cardinality(h.mapped)
    BY DEF Good, Counted
<1>8. c.free_pages = h.free_pages /\ c.system_pages = h.system_pages /\ c.mapped = h.mapped
    BY <1>1 DEF Kept
<1>9. k = Cardinality(FreePages(c))  BY <1>2, <1>3, <1>6, <1>7, <1>8
<1>10. Counted(g)  BY <1>5, <1>7, <1>8, <1>9 DEF Counted
<1> QED  BY <1>1, <1>5, <1>10 DEF Good, g

-----------------------------------------------------------------------------
(* GrowHeap.                                                                 *)

LEMMA LeafFacts ==
    ASSUME NEW p \in Nat, NEW ask \in Nat
    PROVE  EnsuredLeaves(p, ask) \subseteq Int
<1>1. \A q \in Int : LeafOf(q) \in Int  BY SizesAssumption DEF LeafOf
<1>2. \A q \in p - 1 .. p + ask : q \in Int  OBVIOUS
<1> QED  BY <1>1, <1>2 DEF EnsuredLeaves

LEMMA RegionFacts ==
    ASSUME NEW h, Sound(h), NEW ask \in Nat \ {0}, NEW p \in Regions(h, ask)
    PROVE  /\ p \in Pages /\ p \in Nat /\ p + ask - 1 \in Pages /\ p + ask - 1 \in Nat
           /\ p .. p + ask - 1 \subseteq Pages /\ (p .. p + ask - 1) \cap h.mapped = {}
           /\ \A r \in Live(h) : PagesOf(h, r) \cap (p .. p + ask - 1) = {}
<1>1. p \in Pages /\ p .. p + ask - 1 \subseteq Pages \ h.mapped  BY DEF Regions
<1>2. p \in Nat /\ p + ask - 1 \in p .. p + ask - 1  BY <1>1, PageFacts
<1>3. p + ask - 1 \in Pages  BY <1>1, <1>2
<1>4. ASSUME NEW r \in Live(h) PROVE PagesOf(h, r) \subseteq h.mapped
    <2>1. PagesOf(h, r) \subseteq Pages  BY SpanFacts
    <2> QED  BY <2>1 DEF Sound, Tiled
<1> QED  BY <1>1, <1>2, <1>3, <1>4, PageFacts

\* A heap with one more span, on pages from the system.
LEMMA AddSpanFacts ==
    ASSUME NEW h, Sound(h), NEW ask \in Nat \ {0}, NEW p \in Regions(h, ask), NEW g \in Heaps,
           g.free = h.free, g.sized = h.sized, g.lists = h.lists, g.large = h.large,
           g.leaves = h.leaves \cup EnsuredLeaves(p, ask), g.lost = h.lost,
           g.mapped = h.mapped \cup p .. p + ask - 1,
           g.length = [h.length EXCEPT ![p] = ask],
           g.pagemap[p] = "right", g.pagemap[p + ask - 1] = "right",
           \A q \in MapPages : q \notin p .. p + ask - 1 => g.pagemap[q] = h.pagemap[q]
    PROVE  Sound(g) /\ p \in Used(g) /\ FreePages(g) = FreePages(h)
<1> DEFINE last == p + ask - 1
<1>0. /\ p \in Pages /\ p \in Nat /\ last \in Pages /\ last \in Nat /\ p <= last
      /\ p .. last \subseteq Pages /\ (p .. last) \cap h.mapped = {}
      /\ \A r \in Live(h) : PagesOf(h, r) \cap (p .. last) = {}
      /\ h \in Heaps
    BY RegionFacts DEF Sound
<1> HIDE DEF last
<1>1. \A q \in Pages : g.length[q] = IF q = p THEN ask ELSE h.length[q]
    <2>1. h.length \in [Pages -> Nat]  BY <1>0 DEF Heaps
    <2> QED  BY <2>1, <1>0
<1>2. Live(g) = Live(h) \cup {p}  BY <1>0, <1>1 DEF Live
<1>3. p \notin Live(h)
    <2>1. p \in Live(h) => p \in PagesOf(h, p)  BY SpanFacts
    <2> QED  BY <2>1, <1>0
<1>4. /\ \A r \in Live(h) : g.length[r] = h.length[r] /\ LastPage(g, r) = LastPage(h, r) /\ PagesOf(g, r) = PagesOf(h, r)
      /\ LastPage(g, p) = last /\ PagesOf(g, p) = p .. last
    <2>1. \A r \in Live(h) : g.length[r] = h.length[r]  BY <1>1, <1>3 DEF Live
    <2>2. LastPage(g, p) = last  BY <1>0, <1>1 DEF LastPage, last
    <2> QED  BY <2>1, <2>2 DEF LastPage, PagesOf
<1>5. /\ \A a, b \in Live(h) : a < b => LastPage(h, a) < b
      /\ \A a \in Live(h) : a \in Nat /\ LastPage(h, a) \in Nat /\ a <= LastPage(h, a) /\ LastPage(h, a) \in Pages
      /\ \A a \in Live(h) : a \in PagesOf(h, a) /\ PagesOf(h, a) = a .. LastPage(h, a)
    BY SpanFacts DEF Sound, Tiled, PagesOf
<1>6. Tiled(g)
    <2>1. \A r \in Live(g) : LastPage(g, r) \in Pages  BY <1>0, <1>2, <1>4, <1>5
    <2>2. ASSUME NEW r \in Live(g), NEW q \in Live(g), r < q PROVE LastPage(g, r) < q
        <3>1. CASE r \in Live(h) /\ q \in Live(h)  BY <3>1, <2>2, <1>4, <1>5
        <3>2. CASE r \in Live(h) /\ q = p
            <4>1. p \notin r .. LastPage(h, r)
                <5>1. p \in p .. last  BY <1>0
                <5> QED  BY <5>1, <3>2, <1>0, <1>5
            <4>2. LastPage(h, r) < p
                <5>1. r \in Nat /\ LastPage(h, r) \in Nat /\ r < p  BY <3>2, <2>2, <1>5
                <5> QED  BY <5>1, <4>1, <1>0
            <4> QED  BY <4>2, <3>2, <1>4
        <3>3. CASE r = p /\ q \in Live(h)
            <4>1. q \notin p .. last  BY <3>3, <1>0, <1>5
            <4>2. last < q  BY <4>1, <3>3, <2>2, <1>0, <1>5
            <4> QED  BY <4>2, <3>3, <1>4
        <3>4. CASE r = p /\ q = p  BY <3>4, <2>2, <1>0
        <3> QED  BY <3>1, <3>2, <3>3, <3>4, <1>2
    <2>3. ASSUME NEW q \in Pages PROVE q \in g.mapped \ g.lost <=> \E r \in Live(g) : q \in PagesOf(g, r)
        <3>1. q \in h.mapped \ h.lost <=> \E r \in Live(h) : q \in PagesOf(h, r)  BY DEF Sound, Tiled
        <3>2. (\E r \in Live(g) : q \in PagesOf(g, r)) <=>
                 (\E r \in Live(h) : q \in PagesOf(h, r)) \/ q \in p .. last
            BY <1>2, <1>4
        <3>3. h.lost \subseteq h.mapped  BY DEF Sound, Tiled
        <3> QED  BY <3>1, <3>2, <3>3, <1>0 DEF last
    <2>4. /\ g.lost \subseteq g.mapped
          /\ g.free \subseteq Live(g) /\ g.sized \subseteq Live(g) /\ g.free \cap g.sized = {}
        BY <1>2 DEF Sound, Tiled
    <2> QED  BY <2>1, <2>2, <2>3, <2>4 DEF Tiled
<1>7. Described(g)
    <2>0. Described(h) /\ h.sized \subseteq Live(h)  BY DEF Sound, Tiled
    <2>1. ASSUME NEW q \in MapPages, g.pagemap[q] # "null" PROVE \E r \in Live(g) : q \in PagesOf(g, r)
        <3>1. CASE q \in p .. last  BY <3>1, <1>2, <1>4
        <3>2. CASE q \notin p .. last
            <4>1. h.pagemap[q] # "null"  BY <3>2, <2>1 DEF last
            <4>2. PICK r \in Live(h) : q \in PagesOf(h, r)  BY <4>1, <2>0 DEF Described
            <4> QED  BY <4>2, <1>2, <1>4
        <3> QED  BY <3>1, <3>2
    <2>2. ASSUME NEW r \in Live(h), NEW q \in PagesOf(h, r)
          PROVE  q \in MapPages /\ g.pagemap[q] = h.pagemap[q]
        <3>1. q \in Pages  BY SpanFacts
        <3>2. q \in MapPages  BY <3>1, SizesAssumption DEF Pages, MapPages
        <3> QED  BY <3>2, <1>0 DEF last
    <2>3. ASSUME NEW r \in Live(g)
          PROVE  /\ g.pagemap[r] = "right" /\ g.pagemap[LastPage(g, r)] = "right"
                 /\ \A q \in r - 1 .. LastPage(g, r) + 1 : LeafOf(q) \in g.leaves
        <3>1. CASE r \in Live(h)
            <4>1. r \in PagesOf(h, r) /\ LastPage(h, r) \in PagesOf(h, r)  BY <3>1, SpanFacts
            <4>2. h.pagemap[r] = "right" /\ h.pagemap[LastPage(h, r)] = "right"
                  /\ \A q \in r - 1 .. LastPage(h, r) + 1 : LeafOf(q) \in h.leaves
                BY <3>1, <2>0 DEF Described
            <4> QED  BY <4>1, <4>2, <3>1, <2>2, <1>4
        <3>2. CASE r = p
            <4>1. ASSUME NEW q \in p - 1 .. last + 1 PROVE LeafOf(q) \in g.leaves
                <5>1. q \in p - 1 .. p + ask  BY <1>0 DEF last
                <5> QED  BY <5>1 DEF EnsuredLeaves
            <4> QED  BY <4>1, <3>2, <1>4 DEF last
        <3> QED  BY <3>1, <3>2, <1>2
    <2>4. ASSUME NEW r \in g.sized, NEW q \in PagesOf(g, r) PROVE g.pagemap[q] = "right"
        <3>1. r \in Live(h) /\ r \in h.sized /\ PagesOf(g, r) = PagesOf(h, r)  BY <2>0, <1>4
        <3> QED  BY <3>1, <2>0, <2>2 DEF Described
    <2> QED  BY <2>1, <2>3, <2>4 DEF Described
<1>8. Merged(g) /\ Listed(g) /\ FreePages(g) = FreePages(h)
    <2>1. \A r \in h.free : g.length[r] = h.length[r]  BY <1>4 DEF Sound, Tiled
    <2> QED  BY <2>1, ListedFacts
<1>9. p \in Used(g)  BY <1>2, <1>3 DEF Used, Sound, Tiled
<1> QED  BY <1>6, <1>7, <1>8, <1>9 DEF Sound

\* More pages from the system are counted as such, and as nothing else.
LEMMA AddCounted ==
    ASSUME NEW h, Good(h), NEW ask \in Nat \ {0}, NEW p \in Regions(h, ask), NEW g,
           g.mapped = h.mapped \cup p .. p + ask - 1, g.system_pages = h.system_pages + ask,
           g.free_pages = h.free_pages, FreePages(g) = FreePages(h)
    PROVE  Counted(g)
<1>1. p \in Nat /\ (p .. p + ask - 1) \cap h.mapped = {} /\ h.mapped \subseteq Pages
    BY RegionFacts DEF Good, Sound, Heaps
<1>2. PICK T \in SUBSET Pages : T = h.mapped  BY <1>1
<1>3. Cardinality(T \cup p .. p + ask - 1) = Cardinality(T) + ask  BY <1>1, <1>2, AddRun
<1> QED  BY <1>2, <1>3 DEF Good, Counted

LEMMA GrowGood ==
    ASSUME NEW h, Good(h), NEW ask \in Nat \ {0}, NEW p \in Regions(h, ask)
    PROVE  Good(Grow(h, p, ask))
<1> DEFINE last == p + ask - 1
<1>0. /\ p \in Pages /\ p \in Nat /\ last \in Pages /\ last \in Nat /\ p <= last
      /\ p .. last \subseteq Pages /\ h \in Heaps /\ Sound(h)
    BY RegionFacts DEF Good, Sound
<1>1. PICK M \in SUBSET Pages : M = h.mapped \cup p .. p + ask - 1  BY <1>0 DEF Heaps
<1>2. PICK L \in SUBSET Int : L = h.leaves \cup EnsuredLeaves(p, ask)
    <2>1. EnsuredLeaves(p, ask) \subseteq Int  BY <1>0, LeafFacts
    <2> QED  BY <2>1, <1>0 DEF Heaps
<1>3. PICK c \in Int : c = h.system_pages + ask  BY <1>0 DEF Heaps
<1>4. PICK h1 : h1 = [SystemAlloc(h, p, ask) EXCEPT !.leaves = @ \cup EnsuredLeaves(p, ask)]  OBVIOUS
<1>5. h1 = [h EXCEPT !.mapped = M, !.system_pages = c, !.leaves = L]
    BY <1>0, <1>1, <1>2, <1>3, <1>4 DEF SystemAlloc, Heaps
<1>6. /\ h1 \in Heaps /\ h1.free = h.free /\ h1.sized = h.sized /\ h1.lists = h.lists /\ h1.large = h.large
      /\ h1.leaves = L /\ h1.lost = h.lost /\ h1.mapped = M /\ h1.system_pages = c
      /\ h1.free_pages = h.free_pages /\ h1.length = h.length /\ h1.pagemap = h.pagemap
    BY <1>0, <1>5 DEF Heaps
<1>7. PICK h2 \in Heaps :
          /\ h2 = NewSpan(h1, p, ask) /\ OnlySpans(h1, h2) /\ h2.length = [h1.length EXCEPT ![p] = ask]
          /\ \A q \in MapPages : q \notin p .. last => h2.pagemap[q] = h1.pagemap[q]
    <2>1. PICK h2 : h2 = NewSpan(h1, p, ask)  OBVIOUS
    <2> QED  BY <2>1, <1>0, <1>6, NewSpanFacts
<1>8. LastPage(h2, p) = last
    <2>1. h1.length \in [Pages -> Nat]  BY <1>6 DEF Heaps
    <2> QED  BY <2>1, <1>0, <1>7 DEF LastPage
<1> HIDE DEF last
<1>9. PICK g \in Heaps :
          /\ g = RecordSpan(h2, p) /\ OnlySpans(h2, g) /\ g.length = h2.length
          /\ \A q \in MapPages : g.pagemap[q] = IF q \in {p, last} THEN "right" ELSE h2.pagemap[q]
    <2>1. PICK g : g = Enter(h2, {p, last})  OBVIOUS
    <2> QED  BY <2>1, <1>7, <1>8, EnterFacts DEF RecordSpan
<1>10. Grow(h, p, ask) = Delete(g, p)  BY <1>4, <1>7, <1>9 DEF Grow
<1>11. /\ g.free = h.free /\ g.sized = h.sized /\ g.lists = h.lists /\ g.large = h.large
       /\ g.leaves = L /\ g.lost = h.lost /\ g.mapped = M /\ g.system_pages = c
       /\ g.free_pages = h.free_pages /\ g.length = [h.length EXCEPT ![p] = ask]
    BY <1>6, <1>7, <1>9 DEF OnlySpans, Kept
<1>12. p \in MapPages /\ last \in MapPages  BY <1>0, SizesAssumption DEF Pages, MapPages
<1>13. g.pagemap[p] = "right" /\ g.pagemap[p + ask - 1] = "right"  BY <1>9, <1>12 DEF last
<1>14. \A q \in MapPages : q \notin p .. p + ask - 1 => g.pagemap[q] = h.pagemap[q]
    <2>1. p \in p .. last /\ last \in p .. last  BY <1>0
    <2> QED  BY <2>1, <1>6, <1>7, <1>9 DEF last
<1>15. Sound(g) /\ p \in Used(g) /\ FreePages(g) = FreePages(h)
    BY <1>0, <1>1, <1>2, <1>11, <1>13, <1>14, AddSpanFacts
<1>16. Counted(g)  BY <1>1, <1>3, <1>11, <1>15, AddCounted
<1> QED  BY <1>10, <1>15, <1>16, DeleteGood DEF Good

LEMMA GrowFailsGood ==
    ASSUME NEW h, Good(h), NEW ask \in Nat \ {0}, NEW p \in Regions(h, ask),
           NEW made \in SUBSET EnsuredLeaves(p, ask)
    PROVE  Good(GrowFails(h, p, ask, made))
<1> DEFINE P == p .. p + ask - 1
           g == GrowFails(h, p, ask, made)
<1>0. p \in Nat /\ P \subseteq Pages /\ P \cap h.mapped = {} /\ h \in Heaps /\ Sound(h)
    BY RegionFacts DEF Good, Sound
<1>1. PICK M \in SUBSET Pages : M = h.mapped \cup P  BY <1>0 DEF Heaps
<1>2. PICK L \in SUBSET Int : L = h.leaves \cup made
    <2>1. EnsuredLeaves(p, ask) \subseteq Int  BY <1>0, LeafFacts
    <2> QED  BY <2>1, <1>0 DEF Heaps
<1>3. PICK c \in Int : c = h.system_pages + ask  BY <1>0 DEF Heaps
<1>4. PICK O \in SUBSET Pages : O = h.lost \cup P  BY <1>0 DEF Heaps
<1>5. g = [h EXCEPT !.mapped = M, !.system_pages = c, !.leaves = L, !.lost = O]
    BY <1>0, <1>1, <1>2, <1>3, <1>4 DEF GrowFails, SystemAlloc, Heaps
<1> HIDE DEF g, P
<1>6. /\ g \in Heaps /\ g.free = h.free /\ g.sized = h.sized /\ g.lists = h.lists /\ g.large = h.large
      /\ g.leaves = L /\ g.lost = O /\ g.mapped = M /\ g.system_pages = c
      /\ g.free_pages = h.free_pages /\ g.length = h.length /\ g.pagemap = h.pagemap
    BY <1>0, <1>5 DEF Heaps
<1>7. Live(g) = Live(h) /\ \A r : PagesOf(g, r) = PagesOf(h, r) /\ LastPage(g, r) = LastPage(h, r)
    BY <1>6 DEF Live, PagesOf, LastPage
<1>8. Tiled(g)
    <2>1. g.mapped \ g.lost = h.mapped \ h.lost /\ g.lost \subseteq g.mapped
        BY <1>0, <1>1, <1>4, <1>6 DEF Sound, Tiled
    <2> QED  BY <2>1, <1>0, <1>6, <1>7 DEF Sound, Tiled
<1>9. Described(g)  BY <1>0, <1>2, <1>6, <1>7 DEF Sound, Described
<1>10. Merged(g) /\ Listed(g) /\ FreePages(g) = FreePages(h)  BY <1>0, <1>6, ListedFacts
<1>11. Counted(g)  BY <1>1, <1>3, <1>6, <1>10, AddCounted DEF P
<1> QED  BY <1>6, <1>8, <1>9, <1>10, <1>11 DEF Good, Sound, g

-----------------------------------------------------------------------------
(* New.                                                                      *)

\* A list of at least n pages that is not empty has a span of its length.
LEMMA SmallFacts ==
    ASSUME NEW h, Sound(h), NEW n \in Nat \ {0}, SmallFits(h, n) # {}
    PROVE  LET s == Head(h.lists[Min(SmallFits(h, n))])
           IN  s \in h.free /\ h.length[s] >= n
<1>1. SmallFits(h, n) \in SUBSET Nat /\ \A k \in SmallFits(h, n) : k \in 1 .. MaxPages - 1 /\ k >= n
    BY SizesAssumption DEF SmallFits
<1>2. PICK k \in SmallFits(h, n) : k = Min(SmallFits(h, n))  BY <1>1, MinFacts
<1>3. k \in 1 .. MaxPages - 1 /\ k >= n /\ h.lists[k] # <<>>  BY <1>1 DEF SmallFits
<1>4. h.lists[k] \in Seq(Pages)  BY <1>3 DEF Sound, Heaps
<1>5. Head(h.lists[k]) \in ToSet(h.lists[k]) /\ ToSet(h.lists[k]) \subseteq Pages
    BY <1>3, <1>4, ListFacts
<1>6. Head(h.lists[k]) \in h.free /\ h.length[Head(h.lists[k])] = k
    BY <1>3, <1>5 DEF Sound, Listed
<1> QED  BY <1>2, <1>3, <1>6

\* Among the large spans that are long enough there is a best one.
LEMMA BestFitFacts ==
    ASSUME NEW h, Sound(h), NEW n \in Nat \ {0}, LargeFits(h, n) # {}
    PROVE  BestFit(h, n) \in h.free /\ h.length[BestFit(h, n)] >= n
<1> DEFINE F == LargeFits(h, n)
<1>1. h.large \in Seq(Pages) /\ ToSet(h.large) \subseteq Pages  BY ListFacts DEF Sound, Heaps
<1>2. \A s \in F : /\ s \in Pages /\ s \in Nat /\ s \in h.free /\ h.length[s] \in Nat /\ h.length[s] >= n
    <2>1. \A s \in F : s \in Pages /\ s \in h.free /\ h.length[s] >= n
        BY <1>1 DEF LargeFits, Sound, Listed
    <2>2. \A s \in F : h.length[s] \in Nat  BY <2>1 DEF Sound, Heaps
    <2> QED  BY <2>1, <2>2, PageFacts
<1>3. F # {}  OBVIOUS
<1> HIDE DEF F
<1>4. PICK m \in {h.length[s] : s \in F} : \A y \in {h.length[s] : s \in F} : m <= y
    <2>1. {h.length[s] : s \in F} \in SUBSET Nat /\ {h.length[s] : s \in F} # {}  BY <1>2, <1>3
    <2> QED  BY <2>1, LeastNat
<1>5. PICK b \in {s \in F : h.length[s] = m} : \A y \in {s \in F : h.length[s] = m} : b <= y
    <2>1. {s \in F : h.length[s] = m} \in SUBSET Nat /\ {s \in F : h.length[s] = m} # {}  BY <1>2, <1>4
    <2> QED  BY <2>1, LeastNat
<1>6. b \in F /\ \A r \in F \ {b} : h.length[b] < h.length[r] \/ (h.length[b] = h.length[r] /\ b < r)
    <2> SUFFICES ASSUME NEW r \in F \ {b}
                 PROVE  h.length[b] < h.length[r] \/ (h.length[b] = h.length[r] /\ b < r)
        BY <1>5
    <2>1. m <= h.length[r] /\ h.length[b] = m /\ b \in F  BY <1>4, <1>5
    <2>2. CASE h.length[r] = m
        <3>1. b <= r  BY <2>2, <1>5
        <3> QED  BY <3>1, <2>1, <2>2, <1>2
    <2>3. CASE h.length[r] # m  BY <2>1, <2>3, <1>2
    <2> QED  BY <2>2, <2>3
<1>7. BestFit(h, n) \in F  BY <1>6 DEF BestFit, F
<1> QED  BY <1>2, <1>7

\* An outcome of New: a good heap, and a span that is in use and of the length
\* asked for, or none.
Served(out, n) ==
    /\ Good(out.heap)
    /\ out.span # NULL =>
         out.span \in Used(out.heap) \ out.heap.sized /\ out.heap.length[out.span] = n

LEMMA TakeServed ==
    ASSUME NEW h, Good(h), NEW n \in Nat \ {0}, NEW s \in h.free, h.length[s] >= n
    PROVE  Served([heap |-> Take(h, s, n), span |-> s], n)
<1>1. h.length[s] \in Nat
    <2>1. s \in Live(h)  BY DEF Good, Sound, Tiled
    <2> QED  BY <2>1, SpanFacts DEF Good
<1>2. n \in 1 .. h.length[s]  BY <1>1
<1> QED  BY <1>2, TakeGood DEF Served

LEMMA OutcomesFacts ==
    ASSUME NEW h, Good(h), NEW n \in Nat \ {0}, NEW out \in Outcomes(h, n)
    PROVE  Served(out, n)
<1>0. Sound(h)  BY DEF Good
<1>1. CASE FromLists(h, n) # {}
    <2>1. PICK s \in FromLists(h, n) : out = [heap |-> Take(h, s, n), span |-> s]
        BY <1>1 DEF Outcomes
    <2>2. s \in h.free /\ h.length[s] >= n
        <3>1. CASE SmallFits(h, n) # {}
            <4>1. s = Head(h.lists[Min(SmallFits(h, n))])  BY <3>1 DEF FromLists
            <4> QED  BY <4>1, <3>1, <1>0, SmallFacts
        <3>2. CASE SmallFits(h, n) = {}
            <4>1. LargeFits(h, n) # {} /\ s = BestFit(h, n)  BY <3>2, <1>1 DEF FromLists
            <4> QED  BY <4>1, <1>0, BestFitFacts
        <3> QED  BY <3>1, <3>2
    <2> QED  BY <2>1, <2>2, TakeServed
<1>2. CASE FromLists(h, n) = {}
    <2> DEFINE Grown(p, ask) ==
                   IF LargeFits(Grow(h, p, ask), n) = {}
                   THEN [heap |-> Grow(h, p, ask), span |-> NULL]
                   ELSE LET s == BestFit(Grow(h, p, ask), n)
                        IN  [heap |-> Take(Grow(h, p, ask), s, n), span |-> s]
               Failed(p, ask, m) ==
                   [heap |-> GrowFails(h, p, ask, {l \in EnsuredLeaves(p, ask) : l < m}), span |-> NULL]
    <2>0. \A ask \in Asks(n) : ask \in Nat \ {0}  BY SizesAssumption DEF Asks
    <2>1. \/ out = [heap |-> h, span |-> NULL]
          \/ \E ask \in Asks(n) : \E p \in Regions(h, ask) : out = Grown(p, ask)
          \/ \E ask \in Asks(n) : \E p \in Regions(h, ask) : \E m \in EnsuredLeaves(p, ask) \ h.leaves :
                out = Failed(p, ask, m)
        BY <1>2 DEF Outcomes
    <2>2. CASE out = [heap |-> h, span |-> NULL]  BY <2>2 DEF Served
    <2>3. ASSUME NEW ask \in Asks(n), NEW p \in Regions(h, ask), out = Grown(p, ask)
          PROVE  Served(out, n)
        <3>1. PICK g : g = Grow(h, p, ask) /\ Good(g)  BY <2>0, GrowGood
        <3>2. CASE LargeFits(g, n) = {}
            <4>1. out = [heap |-> g, span |-> NULL]  BY <3>1, <3>2, <2>3
            <4> QED  BY <4>1, <3>1 DEF Served
        <3>3. CASE LargeFits(g, n) # {}
            <4>1. PICK s : s = BestFit(g, n) /\ s \in g.free /\ g.length[s] >= n
                BY <3>1, <3>3, BestFitFacts DEF Good
            <4>2. out = [heap |-> Take(g, s, n), span |-> s]  BY <4>1, <3>1, <3>3, <2>3
            <4> QED  BY <4>1, <4>2, <3>1, TakeServed
        <3> QED  BY <3>2, <3>3
    <2>4. ASSUME NEW ask \in Asks(n), NEW p \in Regions(h, ask),
                 NEW m \in EnsuredLeaves(p, ask) \ h.leaves, out = Failed(p, ask, m)
          PROVE  Served(out, n)
        <3>1. PICK made \in SUBSET EnsuredLeaves(p, ask) : made = {l \in EnsuredLeaves(p, ask) : l < m}
            OBVIOUS
        <3>2. out = [heap |-> GrowFails(h, p, ask, made), span |-> NULL]  BY <3>1, <2>4
        <3>3. Good(GrowFails(h, p, ask, made))  BY <2>0, GrowFailsGood
        <3> QED  BY <3>2, <3>3 DEF Served
    <2> QED  BY <2>1, <2>2, <2>3, <2>4
<1> QED  BY <1>1, <1>2

-----------------------------------------------------------------------------
(* What is done with a span from New.                                        *)

LEMMA RegisterGood ==
    ASSUME NEW h, Good(h), NEW s \in Used(h)
    PROVE  Good(RegisterSizeClass(h, s))
<1> DEFINE last == LastPage(h, s)
<1>0. /\ Sound(h) /\ h \in Heaps /\ s \in Live(h) /\ s \in Pages /\ s \in Nat /\ s \notin h.free
      /\ last \in Nat /\ PagesOf(h, s) \subseteq Pages
    <2>1. Sound(h) /\ s \in Live(h) /\ s \notin h.free  BY DEF Good, Used
    <2> QED  BY <2>1, SpanFacts DEF Sound
<1>1. PICK Z \in SUBSET Pages : Z = h.sized \cup {s}  BY <1>0 DEF Heaps
<1>2. PICK e : e = [h EXCEPT !.sized = Z]  OBVIOUS
<1>3. /\ e \in Heaps /\ Kept(h, e) /\ e.free = h.free /\ e.lists = h.lists /\ e.large = h.large
      /\ e.length = h.length /\ e.pagemap = h.pagemap /\ e.sized = Z
    BY <1>0, <1>2 DEF Heaps, Kept
<1>4. PICK g : g = RegisterSizeClass(h, s)  OBVIOUS
<1>5. g = Enter(e, s + 1 .. last - 1)  BY <1>0, <1>1, <1>2, <1>4 DEF RegisterSizeClass, Heaps
<1> HIDE DEF last
<1>6. /\ g \in Heaps /\ OnlySpans(e, g) /\ g.length = e.length
      /\ \A p \in MapPages : g.pagemap[p] = IF p \in s + 1 .. last - 1 THEN "right" ELSE e.pagemap[p]
    <2>1. PICK P : P = s + 1 .. last - 1  OBVIOUS
    <2>2. g = Enter(e, P)  BY <2>1, <1>5
    <2>3. /\ g \in Heaps /\ OnlySpans(e, g) /\ g.length = e.length
          /\ \A p \in MapPages : g.pagemap[p] = IF p \in P THEN "right" ELSE e.pagemap[p]
        BY <2>2, <1>3, EnterFacts
    <2> QED  BY <2>1, <2>3
<1>7. /\ Kept(h, g) /\ g.free = h.free /\ g.sized = h.sized \cup {s} /\ g.length = h.length
      /\ g.lists = h.lists /\ g.large = h.large
    BY <1>1, <1>3, <1>6 DEF Kept, OnlySpans
<1>8. Live(g) = Live(h) /\ \A r : PagesOf(g, r) = PagesOf(h, r) /\ LastPage(g, r) = LastPage(h, r)
    BY <1>7 DEF Live, PagesOf, LastPage
<1>9. \A p \in MapPages : g.pagemap[p] = "right" \/ g.pagemap[p] = h.pagemap[p]  BY <1>3, <1>6
<1>10. \A p \in MapPages : p \in PagesOf(h, s) => g.pagemap[p] = "right"
    <2> SUFFICES ASSUME NEW p \in MapPages, p \in PagesOf(h, s) PROVE g.pagemap[p] = "right"
        OBVIOUS
    <2>1. h.pagemap[s] = "right" /\ h.pagemap[last] = "right"  BY <1>0 DEF Sound, Described, last
    <2>2. p \in s .. last  BY DEF PagesOf, last
    <2>3. p = s \/ p = last \/ p \in s + 1 .. last - 1  BY <2>2, <1>0 DEF last
    <2> QED  BY <2>1, <2>3, <1>3, <1>6
<1>11. Tiled(g)  BY <1>0, <1>7, <1>8 DEF Sound, Tiled, Kept
<1>12. Described(g)
    <2>0. Described(h) /\ g.leaves = h.leaves  BY <1>0, <1>7 DEF Sound, Kept
    <2>1. ASSUME NEW p \in MapPages, g.pagemap[p] # "null" PROVE \E r \in Live(g) : p \in PagesOf(g, r)
        <3>1. CASE p \in s + 1 .. last - 1
            <4>1. p \in PagesOf(h, s)  BY <3>1, <1>0 DEF PagesOf, last
            <4> QED  BY <4>1, <1>0, <1>8
        <3>2. CASE p \notin s + 1 .. last - 1
            <4>1. h.pagemap[p] # "null"  BY <3>2, <2>1, <1>3, <1>6
            <4> QED  BY <4>1, <2>0, <1>8 DEF Described
        <3> QED  BY <3>1, <3>2
    <2>2. \A r \in Live(h) : \A p \in PagesOf(h, r) : p \in MapPages
        <3>1. \A r \in Live(h) : PagesOf(h, r) \subseteq Pages  BY <1>0, SpanFacts
        <3> QED  BY <3>1, SizesAssumption DEF Pages, MapPages
    <2>3. ASSUME NEW r \in Live(h)
          PROVE  /\ g.pagemap[r] = "right" /\ g.pagemap[LastPage(h, r)] = "right"
                 /\ \A p \in r - 1 .. LastPage(h, r) + 1 : LeafOf(p) \in h.leaves
        <3>1. r \in PagesOf(h, r) /\ LastPage(h, r) \in PagesOf(h, r)  BY <1>0, SpanFacts
        <3>2. r \in MapPages /\ LastPage(h, r) \in MapPages  BY <3>1, <2>2
        <3>3. h.pagemap[r] = "right" /\ h.pagemap[LastPage(h, r)] = "right"
              /\ \A p \in r - 1 .. LastPage(h, r) + 1 : LeafOf(p) \in h.leaves
            BY <2>0 DEF Described
        <3> QED  BY <3>2, <3>3, <1>9
    <2>4. ASSUME NEW r \in g.sized, NEW p \in PagesOf(h, r) PROVE g.pagemap[p] = "right"
        <3>1. r \in Live(h)  BY <1>0, <1>7 DEF Sound, Tiled
        <3>2. p \in MapPages  BY <3>1, <2>2
        <3>3. CASE r = s  BY <3>2, <3>3, <1>10
        <3>4. CASE r # s
            <4>1. h.pagemap[p] = "right"  BY <3>4, <2>0, <1>7 DEF Described
            <4> QED  BY <4>1, <3>2, <1>9
        <3> QED  BY <3>3, <3>4
    <2> QED  BY <2>0, <2>1, <2>3, <2>4, <1>8 DEF Described
<1>13. Merged(g) /\ Listed(g) /\ FreePages(g) = FreePages(h)  BY <1>0, <1>7, ListedFacts
<1>14. Counted(g)  BY <1>7, <1>13 DEF Good, Counted, Kept
<1> QED  BY <1>4, <1>6, <1>11, <1>12, <1>13, <1>14 DEF Good, Sound

\* A span is split, and one of the halves is deleted at once.
LEMMA SplitGood ==
    ASSUME NEW h, Good(h), NEW s \in Used(h) \ h.sized, NEW n \in 1 .. h.length[s] - 1,
           NEW gone, NEW kept, {gone, kept} = {s, s + n}
    PROVE  LET g == Delete(Split(h, s, n), gone)
           IN  /\ Good(g) /\ kept \in Used(g) \ g.sized
               /\ g.length[kept] = IF kept = s THEN n ELSE h.length[s] - n
<1>1. PICK c : /\ c = Split(h, s, n) /\ Sound(c) /\ OnlySpans(h, c) /\ FreePages(c) = FreePages(h)
               /\ s + n \in Pages /\ c.length = [h.length EXCEPT ![s] = n, ![s + n] = h.length[s] - n]
               /\ s \in Used(c) \ c.sized /\ s + n \in Used(c) \ c.sized
    <2>1. PICK c : c = Cut(h, s, n)  OBVIOUS
    <2> QED  BY <2>1, CutFacts DEF Good, Split
<1>2. Good(c)  BY <1>1 DEF Good, Counted, OnlySpans, Kept
<1>3. gone \in Used(c) /\ kept \in Used(c) \ c.sized  BY <1>1
<1>4. s \in Pages /\ s \in Nat /\ h.length[s] \in Nat /\ h.length \in [Pages -> Nat]
    <2>1. s \in Live(h)  BY DEF Used
    <2> QED  BY <2>1, SpanFacts DEF Good, Sound, Heaps
<1>5. s # s + n  BY <1>4
<1>6. gone # kept  BY <1>5
<1>7. c.length[kept] = IF kept = s THEN n ELSE h.length[s] - n
    <2>1. c.length[s] = n /\ c.length[s + n] = h.length[s] - n  BY <1>1, <1>4, <1>5
    <2> QED  BY <2>1, <1>5
<1> DEFINE g == Delete(c, gone)
<1>8. Good(g) /\ Untouched(c, gone, g) /\ g.sized = c.sized \ {gone}  BY <1>2, <1>3, DeleteGood
<1> HIDE DEF g
<1>9. kept \in Used(g) \ g.sized /\ g.length[kept] = c.length[kept]
    BY <1>3, <1>6, <1>8 DEF Untouched
<1> QED  BY <1>1, <1>7, <1>8, <1>9 DEF g

LEMMA AlignedGood ==
    ASSUME NEW h, Good(h), NEW align \in Nat \ {0, 1}, NEW n \in Nat \ {0},
           NEW s \in Used(h) \ h.sized, h.length[s] = n + align
    PROVE  LET p == AlignedPage(s, align)
           IN  Good(TrimBack(TrimFront(h, s, p), p, n))
<1>1. s \in Nat
    <2>1. s \in Live(h)  BY DEF Used
    <2> QED  BY <2>1, SpanFacts DEF Good
<1>2. PICK p \in s .. s + align - 1 : p = AlignedPage(s, align)  BY <1>1, AlignedFacts
<1>3. PICK f : /\ f = TrimFront(h, s, p) /\ Good(f) /\ p \in Used(f) \ f.sized
               /\ f.length[p] \in Nat /\ f.length[p] >= n
    <2>1. CASE p = s
        <3>1. TrimFront(h, s, p) = h  BY <2>1 DEF TrimFront
        <3> QED  BY <3>1, <2>1
    <2>2. CASE p # s
        <3>1. PICK k \in 1 .. h.length[s] - 1 : k = p - s  BY <2>2, <1>1
        <3>2. p = s + k /\ k <= align - 1  BY <3>1, <1>1
        <3>3. PICK f : f = Delete(Split(h, s, k), s)  OBVIOUS
        <3>4. {s, p} = {s, s + k}  BY <3>2
        <3>5. Good(f) /\ p \in Used(f) \ f.sized /\ f.length[p] = h.length[s] - k
            BY <3>3, <3>4, <2>2, SplitGood
        <3>6. TrimFront(h, s, p) = f  BY <3>1, <3>3, <2>2 DEF TrimFront
        <3> QED  BY <3>2, <3>5, <3>6
    <2> QED  BY <2>1, <2>2
<1>4. Good(TrimBack(f, p, n))
    <2>1. CASE f.length[p] = n  BY <2>1, <1>3 DEF TrimBack
    <2>2. CASE f.length[p] # n
        <3>1. n \in 1 .. f.length[p] - 1  BY <2>2, <1>3
        <3>2. {p + n, p} = {p, p + n}  OBVIOUS
        <3>3. Good(Delete(Split(f, p, n), p + n))  BY <3>1, <3>2, <1>3, SplitGood
        <3> QED  BY <3>3, <2>2 DEF TrimBack
    <2> QED  BY <2>1, <2>2
<1> QED  BY <1>2, <1>3, <1>4

-----------------------------------------------------------------------------
(* The theorems.                                                             *)

LEMMA Initially ==
    ASSUME Init
    PROVE  IInv
<1>1. heap \in Heaps
    <2>1. [p \in MapPages |-> "null"] \in [MapPages -> Entries]  BY DEF Entries
    <2>2. [p \in Pages |-> 0] \in [Pages -> Nat]  OBVIOUS
    <2>3. [n \in 1 .. MaxPages - 1 |-> <<>>] \in [1 .. MaxPages - 1 -> Seq(Pages)]  OBVIOUS
    <2>4. <<>> \in Seq(Pages)  OBVIOUS
    <2> QED  BY <2>1, <2>2, <2>3, <2>4 DEF Init, Heaps
<1>2. /\ \A p \in MapPages : heap.pagemap[p] = "null"
      /\ \A p \in Pages : heap.length[p] = 0
      /\ \A k \in 1 .. MaxPages - 1 : heap.lists[k] = <<>>
      /\ heap.large = <<>> /\ heap.free = {} /\ heap.sized = {} /\ heap.mapped = {} /\ heap.lost = {}
      /\ heap.free_pages = 0 /\ heap.system_pages = 0
    BY DEF Init
<1>3. Live(heap) = {}  BY <1>2 DEF Live
<1>4. Tiled(heap) /\ Described(heap) /\ Merged(heap)  BY <1>2, <1>3 DEF Tiled, Described, Merged
<1>5. Listed(heap)
    <2>1. ToSet(<<>>) = {} /\ IsInjective(<<>>) /\ Ordered(<<>>)
        BY DEF ToSet, IsInjective, Ordered
    <2> QED  BY <2>1, <1>2 DEF Listed
<1>6. Counted(heap)
    <2>1. FreePages(heap) = {}  BY <1>2 DEF FreePages
    <2> QED  BY <2>1, <1>2, FS_EmptySet DEF Counted
<1> QED  BY <1>1, <1>4, <1>5, <1>6 DEF IInv, Good, Sound

LEMMA Inductively ==
    ASSUME IInv, [Next]_heap
    PROVE  IInv'
<1>0. Good(heap)  BY DEF IInv
<1>1. SUFFICES Good(heap')  BY DEF IInv, Good, Sound, Heaps, Tiled, Described, Merged, Listed, Counted, FreePages, Live, PagesOf, LastPage
<1>2. \A n \in 1 .. NumPages : n \in Nat \ {0}  BY SizesAssumption
<1>3. CASE AllocatePages
    <2>1. PICK n \in 1 .. NumPages : \E out \in Outcomes(heap, n) : heap' = out.heap
        BY <1>3 DEF AllocatePages
    <2>2. PICK out \in Outcomes(heap, n) : heap' = out.heap  BY <2>1
    <2>3. Served(out, n)  BY <1>0, <1>2, OutcomesFacts
    <2> QED  BY <2>2, <2>3 DEF Served
<1>4. CASE AllocateForClass
    <2>1. PICK n \in 1 .. NumPages : \E out \in Outcomes(heap, n) :
                out.span # NULL /\ heap' = RegisterSizeClass(out.heap, out.span)
        BY <1>4 DEF AllocateForClass
    <2>2. PICK out \in Outcomes(heap, n) :
                out.span # NULL /\ heap' = RegisterSizeClass(out.heap, out.span)
        BY <2>1
    <2>3. Served(out, n)  BY <1>0, <1>2, OutcomesFacts
    <2>4. Good(out.heap) /\ out.span \in Used(out.heap)  BY <2>2, <2>3 DEF Served
    <2> QED  BY <2>2, <2>4, RegisterGood
<1>5. CASE AllocateAligned
    <2>1. PICK align \in Alignments, n \in 1 .. NumPages :
                \E out \in Outcomes(heap, n + align) :
                    /\ out.span # NULL
                    /\ LET p == AlignedPage(out.span, align)
                       IN  heap' = TrimBack(TrimFront(out.heap, out.span, p), p, n)
        BY <1>5 DEF AllocateAligned
    <2>2. PICK out \in Outcomes(heap, n + align) :
                    /\ out.span # NULL
                    /\ LET p == AlignedPage(out.span, align)
                       IN  heap' = TrimBack(TrimFront(out.heap, out.span, p), p, n)
        BY <2>1
    <2>3. align \in Nat \ {0, 1} /\ n \in Nat \ {0} /\ n + align \in Nat \ {0}
        BY <1>2, SizesAssumption
    <2>4. Served(out, n + align)  BY <1>0, <2>3, OutcomesFacts
    <2>5. /\ Good(out.heap) /\ out.span \in Used(out.heap) \ out.heap.sized
          /\ out.heap.length[out.span] = n + align
        BY <2>2, <2>4 DEF Served
    <2> QED  BY <2>2, <2>3, <2>5, AlignedGood
<1>6. CASE Free
    <2>1. PICK s \in Used(heap) : heap' = Delete(heap, s)  BY <1>6 DEF Free
    <2> QED  BY <2>1, <1>0, DeleteGood
<1>7. CASE heap' = heap  BY <1>0, <1>7
<1> QED  BY <1>3, <1>4, <1>5, <1>6, <1>7 DEF Next

\* The inductive invariant holds.
THEOREM PageHeapInvariance == Spec => []IInv
<1>1. Init => IInv  BY Initially
<1>2. IInv /\ [Next]_heap => IInv'  BY Inductively
<1> QED  BY <1>1, <1>2, PTL DEF Spec

\* Spans never overlap, and cover the memory the heap was given, however they
\* are carved, split, aligned and coalesced (New, Carve, Split, Delete).
THEOREM SpansTileHolds == Spec => []SpansTile
<1>1. IInv => SpansTile  BY TilesFollow DEF IInv
<1> QED  BY <1>1, PageHeapInvariance, PTL

\* What Delete, do_free and ReleaseToSpans find in the page map is the span
\* that has the page, and the leaf they look in exists.
THEOREM PageMapRightHolds == Spec => []PageMapRight
<1>1. IInv => PageMapRight  BY MapFollows DEF IInv
<1> QED  BY <1>1, PageHeapInvariance, PTL

\* Free memory is coalesced, on the lists New looks at, and counted, as
\* Check, CheckList and free_pages_ have it.
THEOREM FreeMemoryRightHolds == Spec => []FreeMemoryRight
<1>1. IInv => FreeMemoryRight  BY FreeFollows DEF IInv
<1> QED  BY <1>1, PageHeapInvariance, PTL

=============================================================================
