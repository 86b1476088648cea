--------------------------- MODULE CpuProfilerProofs ---------------------------
(***************************************************************************)
(* Theorems about CpuProfiler, for any number of threads, traces, buckets  *)
(* and entries: a handler never interrupts the thread that holds           *)
(* table_lock, no sample is lost or counted twice, and a finished profile  *)
(* can be read.                                                            *)
(***************************************************************************)
EXTENDS CpuProfiler, FiniteSetTheorems, SequenceTheorems, WellFoundedInduction, TLAPS

Labels == {"run", "start", "start_table", "started", "stop", "stopping", "stop_table",
           "flush", "flushing", "flush_table", "flushed", "ready"}
HoldsTable == {"start_table", "stop_table", "flush_table"}

\* Where the handler is not installed.
Quiet == {"start", "start_table", "started", "stopping", "stop_table",
          "flushing", "flush_table", "flushed"}

\* Where the code relies on what it looked at when it took state_lock.
On == {"started", "flush", "flushing", "flush_table", "flushed", "ready"}

TypeInv ==
    /\ handler \in {"ignore", "prof"}
    /\ out \in BOOLEAN
    /\ hash \in Tables \cup {None}
    /\ state_lock \in Threads \cup {NoThread}
    /\ table_lock \in Threads \cup {NoThread}
    /\ pc \in [Threads -> Labels]
    /\ sample \in [Threads -> Stacks \cup {None}]

\* Which thread holds what: one thread at a time is in Start, Stop or FlushTable.
LocksOK ==
    \A t \in Threads :
        /\ pc[t] # "run" <=> state_lock = t
        /\ pc[t] \in HoldsTable <=> table_lock = t

\* What the thread that holds state_lock knows.
HandlerOK ==
    /\ out <=> hash # None
    /\ handler = "prof" => out
    /\ \A t \in Threads :
         /\ pc[t] \in Quiet => handler = "ignore"
         /\ pc[t] \in On => out
         /\ pc[t] \in HoldsTable => sample[t] = None

IInv == TypeInv /\ LocksOK /\ HandlerOK

-----------------------------------------------------------------------------

\* A nonempty set of naturals has a least element.
LEMMA LeastNat ==
    ASSUME NEW T \in SUBSET Nat, T # {}
    PROVE  \E x \in T : \A y \in T : x <= y
<1> DEFINE R == {ss \in Nat \X Nat : ss[1] < ss[2]}
<1>1. IsWellFoundedOn(R, Nat)  BY NatLessThanWellFounded DEF OpToRel
<1>2. PICK x \in T : \A y \in T : ~ (<<y, x>> \in R)
    <2> HIDE DEF R
    <2> QED  BY <1>1, WFMin
<1>3. ASSUME NEW y \in T PROVE x <= y
    <2>1. ~ (y < x)  BY <1>2
    <2> QED  BY <2>1
<1> QED  BY <1>3

\* The table of free entries is a table.
LEMMA EmptyTableType == EmptyTable \in Tables /\ EmptyTable # None
BY CpuProfilerAssumption DEF EmptyTable, Tables, Free

LEMMA InitIInv == Init => IInv
BY CpuProfilerAssumption DEF Init, IInv, TypeInv, LocksOK, HandlerOK, Labels, HoldsTable, Quiet, On

\* Induction, with a set in the place of a predicate: nothing is the first to fail.
LEMMA NoLeast ==
    ASSUME NEW Bad \in SUBSET Nat, 0 \notin Bad,
           \A m \in Nat : m \notin Bad => m + 1 \notin Bad
    PROVE  Bad = {}
<1>1. ASSUME Bad # {} PROVE FALSE
  <2>1. PICK m \in Bad : \A k \in Bad : m <= k
    BY <1>1, LeastNat
  <2>2. m \in Nat /\ m # 0
    BY <2>1
  <2>3. m - 1 \in Nat /\ m - 1 \notin Bad
    BY <2>1, <2>2
  <2>4. (m - 1) + 1 \notin Bad
    BY <2>3
  <2>. QED BY <2>1, <2>2, <2>4
<1>. QED BY <1>1

\* The bucket of a trace lies in the table.
LEMMA BucketFacts ==
    ASSUME NEW s \in Stacks
    PROVE  Bucket(s) \subseteq 1 .. NumEntries /\ Bucket(s) # {} /\ NumEntries \in Nat
<1> DEFINE b == BucketOf[s]
           k == kAssociativity
<1>1. b \in 1 .. kBuckets /\ k \in Nat \ {0} /\ kBuckets \in Nat
  BY CpuProfilerAssumption
<1>. HIDE DEF b, k
<1>2. kBuckets * k \in Nat /\ b * k \in Int /\ (b - 1) * k \in Int
  BY <1>1
<1>3. b * k = (b - 1) * k + k
  BY <1>1
<1>4. (b - 1) * k >= 0
  BY <1>1
<1>5. kBuckets * k - b * k = (kBuckets - b) * k
  BY <1>1
<1>6. (kBuckets - b) * k >= 0
  BY <1>1
<1>7. b * k <= kBuckets * k
  BY <1>2, <1>5, <1>6
<1>8. Bucket(s) = (b - 1) * k + 1 .. b * k /\ NumEntries = kBuckets * k
  BY DEF Bucket, NumEntries, b, k
<1>9. ASSUME NEW x \in Int, NEW y \in Int, NEW z \in Int, y = x + k, x >= 0, y <= z
      PROVE  x + 1 .. y \subseteq 1 .. z /\ x + 1 .. y # {} /\ z \in Nat
  <2>1. x + 1 \in x + 1 .. y
    BY <1>1, <1>9
  <2>. QED BY <1>1, <1>9, <2>1
<1>. QED BY <1>2, <1>3, <1>4, <1>7, <1>8, <1>9

\* The least used entry is one of the bucket.
LEMMA VictimFacts ==
    ASSUME NEW s \in Stacks, hash \in Tables
    PROVE  Victim(s) \in Bucket(s)
<1> DEFINE Counts == {hash[a].count : a \in Bucket(s)}
<1>1. Counts \in SUBSET Nat /\ Counts # {}
  BY BucketFacts DEF Tables
<1>2. PICK c \in Counts : \A d \in Counts : c <= d
  <2>. HIDE DEF Counts
  <2>. QED BY <1>1, LeastNat
<1> DEFINE Least == {a \in Bucket(s) : hash[a].count = c}
<1>3. Least \in SUBSET Nat /\ Least # {}
  BY <1>2, BucketFacts
<1>4. PICK a \in Least : \A i \in Least : a <= i
  <2>. HIDE DEF Least
  <2>. QED BY <1>3, LeastNat
<1>5. ASSUME NEW i \in Bucket(s)
      PROVE  hash[a].count < hash[i].count \/ (hash[a].count = hash[i].count /\ a <= i)
  <2>1. hash[i].count \in Counts
    OBVIOUS
  <2>2. c \in Nat /\ hash[i].count \in Nat /\ c <= hash[i].count
    <3>. HIDE DEF Counts
    <3>. QED BY <1>1, <1>2, <2>1
  <2>3. hash[i].count = c => a <= i
    BY <1>4
  <2>4. hash[a].count = c
    BY <1>4
  <2>. QED BY <2>2, <2>3, <2>4
<1>6. a \in Bucket(s)
  BY <1>4
<1>. HIDE DEF Counts, Least
<1>. QED BY <1>5, <1>6 DEF Victim

\* Counting a sample keeps the table, whatever entry it goes to.
LEMMA AddTable ==
    ASSUME IInv, NEW t \in Threads, Add(t)
    PROVE  hash' \in Tables
<1>1. hash \in Tables
  BY DEF IInv, TypeInv, Add
<1>2. sample[t] \in Stacks
  BY DEF IInv, TypeInv, Add, Runs
<1>3. ASSUME NEW a \in Bucket(sample[t]), CountIn(a) PROVE hash' \in Tables
  BY <1>1, <1>2, <1>3, BucketFacts DEF CountIn, Tables
<1>4. ASSUME NEW a, Replace(a, sample[t]) PROVE hash' \in Tables
  BY <1>1, <1>2, <1>4 DEF Replace, Tables
<1>. QED BY <1>3, <1>4 DEF Add

-----------------------------------------------------------------------------
(* One lemma per kind of step.                                               *)

LEMMA HandlerSteps ==
    ASSUME IInv, NEW t \in Threads, Signal(t) \/ Add(t) \/ AddAfterStop(t)
    PROVE  IInv'
<1> USE DEF IInv, TypeInv, LocksOK, HandlerOK, Labels, HoldsTable, Quiet, On, Runs, locks, table, output
<1>1. CASE Signal(t)
  BY <1>1 DEF Signal
<1>2. CASE Add(t)
  <2>1. hash' \in Tables /\ hash' # None
    BY <1>2, AddTable, CpuProfilerAssumption
  <2>2. /\ sample' = [sample EXCEPT ![t] = None]
        /\ UNCHANGED <<locks, handler, out, pc>>
        /\ hash # None
    BY <1>2 DEF Add
  <2>. QED BY <2>1, <2>2
<1>3. CASE AddAfterStop(t)
  BY <1>3 DEF AddAfterStop
<1>. QED BY <1>1, <1>2, <1>3

LEMMA Entering ==
    ASSUME IInv, NEW t \in Threads, Start(t) \/ Stop(t) \/ FlushTable(t)
    PROVE  IInv'
<1> USE CpuProfilerAssumption
    DEF IInv, TypeInv, LocksOK, HandlerOK, Labels, HoldsTable, Quiet, On, Runs, Goes, LockState,
        locks, table, output
<1>1. CASE Start(t)
  BY <1>1 DEF Start
<1>2. CASE Stop(t)
  BY <1>2 DEF Stop
<1>3. CASE FlushTable(t)
  BY <1>3 DEF FlushTable
<1>. QED BY <1>1, <1>2, <1>3

LEMMA Switching ==
    ASSUME IInv, NEW t \in Threads, Ignore(t) \/ Handle(t) \/ LockTable(t) \/ UnlockState(t)
    PROVE  IInv'
<1> USE CpuProfilerAssumption
    DEF IInv, TypeInv, LocksOK, HandlerOK, Labels, HoldsTable, Quiet, On, Runs, Goes,
        locks, table, output
<1>1. CASE Ignore(t)
  BY <1>1 DEF Ignore
<1>2. CASE Handle(t)
  BY <1>2 DEF Handle
<1>3. CASE LockTable(t)
  BY <1>3 DEF LockTable
<1>4. CASE UnlockState(t)
  BY <1>4 DEF UnlockState
<1>. QED BY <1>1, <1>2, <1>3, <1>4

LEMMA Tabling ==
    ASSUME IInv, NEW t \in Threads, StartTable(t) \/ StopTable(t) \/ FlushAll(t)
    PROVE  IInv'
<1> USE CpuProfilerAssumption, EmptyTableType
    DEF IInv, TypeInv, LocksOK, HandlerOK, Labels, HoldsTable, Quiet, On, Runs, Goes
<1>1. CASE StartTable(t)
  BY <1>1 DEF StartTable
<1>2. CASE StopTable(t)
  <2>1. hash' = None /\ out' = FALSE
    BY <1>2 DEF StopTable
  <2>2. /\ pc[t] = "stop_table" /\ pc' = [pc EXCEPT ![t] = "run"]
        /\ table_lock' = NoThread /\ state_lock' = NoThread
        /\ UNCHANGED <<handler, sample>>
    BY <1>2 DEF StopTable
  <2>. QED BY <2>1, <2>2
<1>3. CASE FlushAll(t)
  BY <1>3 DEF FlushAll
<1>. QED BY <1>1, <1>2, <1>3

-----------------------------------------------------------------------------

\* The inductive invariant: one thread at a time is in Start, Stop or FlushTable,
\* and from SetHandler(SIG_IGN), or the start, until the handler is set again it
\* holds table_lock only with signals ignored; the table exists while out_ is set.
THEOREM CpuProfilerInvariance == Spec => []IInv
<1>1. Init => IInv
  BY InitIInv
<1>2. IInv /\ [Next]_vars => IInv'
  <2> SUFFICES ASSUME IInv, [Next]_vars PROVE IInv'
    OBVIOUS
  <2>1. CASE UNCHANGED vars
    BY <2>1 DEF vars, locks, table, output, IInv, TypeInv, LocksOK, HandlerOK
  <2>2. CASE Next
    <3>1. PICK t \in Threads :
            \/ Signal(t) \/ Add(t) \/ AddAfterStop(t)
            \/ Start(t) \/ Stop(t) \/ FlushTable(t)
            \/ Ignore(t) \/ Handle(t) \/ LockTable(t) \/ UnlockState(t)
            \/ StartTable(t) \/ StopTable(t) \/ FlushAll(t)
      BY <2>2 DEF Next
    <3>. QED BY <3>1, HandlerSteps, Entering, Switching, Tabling
  <2>. QED BY <2>1, <2>2
<1>. QED BY <1>1, <1>2, PTL DEF Spec

\* A signal never finds its thread with table_lock, for which the handler would
\* wait forever, and finds a table wherever the handler is installed.
THEOREM SignalsSafeHolds == Spec => []SignalsSafe
<1>1. IInv => SignalsSafe
  BY DEF IInv, TypeInv, LocksOK, HandlerOK, SignalsSafe
<1>. QED BY <1>1, CpuProfilerInvariance, PTL

-----------------------------------------------------------------------------
(* The loops over the table.                                                 *)

Step(f, n, o) ==
    IF n = 0 THEN o
    ELSE IF hash[n].count > 0 THEN Evict(f[n - 1], hash[n])
    ELSE f[n - 1]

Upto(f, m, o) == f = [n \in 0 .. m |-> Step(f, n, o)]

LEMMA LoopExists ==
    ASSUME NEW o, NEW N \in Nat
    PROVE  \E f : Upto(f, N, o)
<1> DEFINE Bad == {m \in Nat : ~ \E f : Upto(f, m, o)}
<1>1. 0 \notin Bad
  <2> DEFINE f == [n \in 0 .. 0 |-> o]
  <2>1. f = [n \in 0 .. 0 |-> Step(f, n, o)]
    BY DEF Step
  <2>. QED BY <2>1 DEF Upto
<1>2. ASSUME NEW m \in Nat, m \notin Bad PROVE m + 1 \notin Bad
  <2>1. PICK f : Upto(f, m, o)
    BY <1>2
  <2> DEFINE g == [n \in 0 .. m + 1 |-> IF n = m + 1 THEN Step(f, n, o) ELSE f[n]]
  <2>2. \A n \in 0 .. m : n = 0 \/ n - 1 \in 0 .. m
    OBVIOUS
  <2>3. \A n \in 0 .. m + 1 : Step(g, n, o) = g[n]
    <3> SUFFICES ASSUME NEW n \in 0 .. m + 1 PROVE Step(g, n, o) = g[n]
      OBVIOUS
    <3>1. CASE n = 0
      <4>1. f[0] = o
        BY <2>1 DEF Upto, Step
      <4>. QED BY <3>1, <4>1 DEF Step
    <3>2. CASE n # 0
      <4>1. n - 1 \in 0 .. m /\ g[n - 1] = f[n - 1]
        BY <3>2
      <4>2. Step(g, n, o) = Step(f, n, o)
        BY <3>2, <4>1 DEF Step
      <4>3. n # m + 1 => f[n] = Step(f, n, o)
        BY <2>1 DEF Upto
      <4>. QED BY <4>2, <4>3
    <3>. QED BY <3>1, <3>2
  <2>4. g = [n \in 0 .. m + 1 |-> Step(g, n, o)]
    <3>1. g = [n \in 0 .. m + 1 |-> g[n]]
      OBVIOUS
    <3>. HIDE DEF g
    <3>. QED BY <2>3, <3>1
  <2>. HIDE DEF g
  <2>. QED BY <2>4 DEF Upto
<1>3. Bad = {}
  <2>1. Bad \in SUBSET Nat
    OBVIOUS
  <2>. HIDE DEF Bad
  <2>. QED BY <1>1, <1>2, <2>1, NoLeast
<1>. QED BY <1>3

LEMMA LoopFacts ==
    ASSUME NEW o
    PROVE  Upto(Evictions(o), NumEntries, o)
<1>1. NumEntries \in Nat
  BY CpuProfilerAssumption DEF NumEntries
<1>2. \E f : Upto(f, NumEntries, o)
  BY <1>1, LoopExists
<1>3. Evictions(o) = CHOOSE f : Upto(f, NumEntries, o)
  BY DEF Evictions, Upto, Step
<1>. QED BY <1>2, <1>3

-----------------------------------------------------------------------------
(* The samples that entries and records count.                               *)

Weight(e, s) == IF e.stack = s THEN e.count ELSE 0
Rest(f, i, s) ==
    UNION {{j} \X (1 .. f[j].count) : j \in {k \in DOMAIN f : f[k].stack = s /\ k # i}}

LEMMA RestFinite ==
    ASSUME NEW f, NEW s, NEW i, IsFiniteSet(SamplesOf(f, s))
    PROVE  IsFiniteSet(Rest(f, i, s))
<1>1. Rest(f, i, s) \in SUBSET SamplesOf(f, s)
  BY DEF Rest, SamplesOf
<1>. QED BY <1>1, FS_Subset

SameBut(f, g, i) == DOMAIN f = DOMAIN g /\ \A j \in DOMAIN f : j # i => f[j] = g[j]

LEMMA RestSame ==
    ASSUME NEW f, NEW g, NEW s, NEW i, SameBut(f, g, i)
    PROVE  Rest(f, i, s) = Rest(g, i, s)
<1>. USE DEF SameBut
<1>1. {k \in DOMAIN f : f[k].stack = s /\ k # i} = {k \in DOMAIN g : g[k].stack = s /\ k # i}
  OBVIOUS
<1>2. \A j \in {k \in DOMAIN f : f[k].stack = s /\ k # i} : f[j] = g[j]
  OBVIOUS
<1>. QED BY <1>1, <1>2 DEF Rest

\* Those of one entry, and the rest.
LEMMA CountSplit ==
    ASSUME NEW f, NEW s, NEW i \in DOMAIN f, f[i].count \in Nat, IsFiniteSet(Rest(f, i, s))
    PROVE  /\ IsFiniteSet(SamplesOf(f, s))
           /\ CountOf(f, s) = Cardinality(Rest(f, i, s)) + Weight(f[i], s)
           /\ CountOf(f, s) \in Nat /\ Cardinality(Rest(f, i, s)) \in Nat
<1> DEFINE R == Rest(f, i, s)
           n == f[i].count
           P == {i} \X (1 .. n)
<1>1. f[i].stack = s => SamplesOf(f, s) = R \cup P
  <2> SUFFICES ASSUME f[i].stack = s PROVE SamplesOf(f, s) = R \cup P
    OBVIOUS
  <2>1. ASSUME NEW x \in SamplesOf(f, s) PROVE x \in R \cup P
    <3>1. PICK j \in {k \in DOMAIN f : f[k].stack = s} : x \in {j} \X (1 .. f[j].count)
      BY DEF SamplesOf
    <3>. QED BY <3>1 DEF Rest
  <2>2. ASSUME NEW x \in R PROVE x \in SamplesOf(f, s)
    BY DEF Rest, SamplesOf
  <2>3. ASSUME NEW x \in P PROVE x \in SamplesOf(f, s)
    BY DEF SamplesOf
  <2>. QED BY <2>1, <2>2, <2>3
<1>2. f[i].stack # s => SamplesOf(f, s) = R
  <2> SUFFICES ASSUME f[i].stack # s PROVE SamplesOf(f, s) = R
    OBVIOUS
  <2>1. {k \in DOMAIN f : f[k].stack = s} = {k \in DOMAIN f : f[k].stack = s /\ k # i}
    OBVIOUS
  <2>. QED BY <2>1 DEF SamplesOf, Rest
<1>3. R \cap P = {}
  BY DEF Rest
<1>4. IsFiniteSet(P) /\ Cardinality(P) = n
  <2>1. IsFiniteSet({i}) /\ Cardinality({i}) = 1
    BY FS_Singleton
  <2>2. IsFiniteSet(1 .. n) /\ Cardinality(1 .. n) = n
    <3>1. ASSUME NEW k \in Nat PROVE IsFiniteSet(1 .. k) /\ Cardinality(1 .. k) = k
      <4>1. 1 \in Int /\ k \in Int
        OBVIOUS
      <4>2. IsFiniteSet(1 .. k) /\ Cardinality(1 .. k) = IF 1 > k THEN 0 ELSE k - 1 + 1
        BY <4>1, FS_Interval
      <4>. QED BY <4>2
    <3>. QED BY <3>1
  <2>3. IsFiniteSet(P) /\ Cardinality(P) = Cardinality({i}) * Cardinality(1 .. n)
    BY <2>1, <2>2, FS_Product
  <2>. QED BY <2>1, <2>2, <2>3
<1>5. IsFiniteSet(R) /\ Cardinality(R) \in Nat
  BY FS_CardinalityType
<1>6. n \in Nat
  OBVIOUS
<1>. HIDE DEF P, R, n
<1>7. IsFiniteSet(R \cup P) /\ Cardinality(R \cup P) = Cardinality(R) + n
  <2>1. Cardinality({}) = 0
    BY FS_EmptySet
  <2>2. IsFiniteSet(R \cup P) /\ Cardinality(R \cup P) = Cardinality(R) + Cardinality(P) - Cardinality(R \cap P)
    BY <1>4, <1>5, FS_Union
  <2>3. Cardinality(R \cap P) = 0
    BY <1>3, <2>1
  <2>4. Cardinality(P) = n /\ Cardinality(R) \in Nat
    BY <1>4, <1>5
  <2>. QED BY <1>6, <2>2, <2>3, <2>4
<1>8. CASE f[i].stack = s
  <2>1. SamplesOf(f, s) = R \cup P /\ Weight(f[i], s) = n
    BY <1>1, <1>8 DEF Weight, n
  <2>. QED BY <1>5, <1>6, <1>7, <2>1 DEF CountOf, R
<1>9. CASE f[i].stack # s
  <2>1. SamplesOf(f, s) = R /\ Weight(f[i], s) = 0
    BY <1>2, <1>9 DEF Weight
  <2>. QED BY <1>5, <2>1 DEF CountOf, R
<1>. QED BY <1>8, <1>9

\* An entry is replaced.
LEMMA CountUpdate ==
    ASSUME NEW f, NEW g, NEW i \in DOMAIN f, SameBut(f, g, i),
           NEW d, f[i] = d, d.count \in Nat, NEW e, g[i] = e, e.count \in Nat,
           NEW s, IsFiniteSet(SamplesOf(f, s))
    PROVE  /\ IsFiniteSet(SamplesOf(g, s)) /\ CountOf(g, s) \in Nat /\ CountOf(f, s) \in Nat
           /\ CountOf(g, s) + Weight(d, s) = CountOf(f, s) + Weight(e, s)
<1>1. i \in DOMAIN g
  BY DEF SameBut
<1>2. Rest(f, i, s) = Rest(g, i, s)
  BY RestSame
<1>3. IsFiniteSet(Rest(f, i, s))
  BY RestFinite
<1>4. /\ IsFiniteSet(SamplesOf(g, s)) /\ CountOf(g, s) \in Nat
      /\ CountOf(g, s) = Cardinality(Rest(g, i, s)) + Weight(g[i], s)
  BY <1>1, <1>2, <1>3, CountSplit
<1>5. /\ CountOf(f, s) \in Nat /\ Cardinality(Rest(f, i, s)) \in Nat
      /\ CountOf(f, s) = Cardinality(Rest(f, i, s)) + Weight(f[i], s)
  BY <1>3, CountSplit
<1>6. Weight(f[i], s) \in Nat /\ Weight(g[i], s) \in Nat
  BY DEF Weight
<1>. QED BY <1>2, <1>4, <1>5, <1>6

\* One more entry is looked at, or a record is appended.
Extends(g, f, i) ==
    /\ i \in DOMAIN g /\ \A j : j \in DOMAIN f <=> j \in DOMAIN g /\ j # i
    /\ \A j \in DOMAIN f : g[j] = f[j]

LEMMA CountExtended ==
    ASSUME NEW f, NEW g, NEW i, Extends(g, f, i), g[i].count \in Nat,
           NEW s, IsFiniteSet(SamplesOf(f, s))
    PROVE  /\ IsFiniteSet(SamplesOf(g, s))
           /\ CountOf(f, s) \in Nat /\ CountOf(g, s) \in Nat
           /\ CountOf(g, s) = CountOf(f, s) + Weight(g[i], s)
<1>1. Rest(g, i, s) = SamplesOf(f, s)
  <2>1. {k \in DOMAIN g : g[k].stack = s /\ k # i} = {k \in DOMAIN f : f[k].stack = s}
    BY DEF Extends
  <2>2. \A j \in {k \in DOMAIN f : f[k].stack = s} : g[j] = f[j]
    BY DEF Extends
  <2>. QED BY <2>1, <2>2 DEF Rest, SamplesOf
<1>2. i \in DOMAIN g
  BY DEF Extends
<1>3. /\ IsFiniteSet(SamplesOf(g, s)) /\ CountOf(g, s) \in Nat
      /\ CountOf(g, s) = Cardinality(Rest(g, i, s)) + Weight(g[i], s)
      /\ Cardinality(Rest(g, i, s)) \in Nat
  BY <1>1, <1>2, CountSplit
<1>4. CountOf(f, s) = Cardinality(Rest(g, i, s))
  BY <1>1 DEF CountOf
<1>. QED BY <1>3, <1>4

LEMMA CountAppend ==
    ASSUME NEW S, NEW q \in Seq(S), NEW r \in S, r.count \in Nat,
           NEW s, IsFiniteSet(SamplesOf(q, s))
    PROVE  /\ IsFiniteSet(SamplesOf(Append(q, r), s))
           /\ CountOf(q, s) \in Nat /\ CountOf(Append(q, r), s) \in Nat
           /\ CountOf(Append(q, r), s) = CountOf(q, s) + Weight(r, s)
<1> DEFINE g == Append(q, r)
           i == Len(q) + 1
<1>1. g[i] = r /\ Extends(g, q, i)
  BY AppendProperties DEF Extends
<1>. HIDE DEF g, i
<1>2. g[i].count \in Nat
  BY <1>1
<1>3. /\ IsFiniteSet(SamplesOf(g, s)) /\ CountOf(q, s) \in Nat /\ CountOf(g, s) \in Nat
      /\ CountOf(g, s) = CountOf(q, s) + Weight(g[i], s)
  BY <1>1, <1>2, CountExtended
<1>. QED BY <1>1, <1>3 DEF g

LEMMA CountNothing ==
    ASSUME NEW f, NEW s, \A i \in DOMAIN f : f[i].count = 0
    PROVE  IsFiniteSet(SamplesOf(f, s)) /\ CountOf(f, s) = 0
<1>1. SamplesOf(f, s) = {}
  BY DEF SamplesOf
<1>. QED BY <1>1, FS_EmptySet DEF CountOf

-----------------------------------------------------------------------------
(* The eviction buffer and the file.                                         *)

Records == [kind : {"header", "sample", "trailer"}, stack : Stacks \cup {None}, count : Nat]
Outputs == [evict : Seq(Records), num_evicted : Nat, file : Seq(Records), overrun : BOOLEAN]

Written(o) == o.file \o o.evict

LEMMA AppendToConcat ==
    ASSUME NEW S, NEW q \in Seq(S), NEW w \in Seq(S), NEW r \in S
    PROVE  Append(w, r) \in Seq(S) /\ q \o Append(w, r) = Append(q \o w, r)
<1> DEFINE x == q \o Append(w, r)
           y == Append(q \o w, r)
<1>1. /\ Append(w, r) \in Seq(S) /\ Len(Append(w, r)) = Len(w) + 1 /\ Len(w) \in Nat /\ Len(q) \in Nat
      /\ q \o w \in Seq(S) /\ Len(q \o w) = Len(q) + Len(w)
  BY ConcatProperties
<1>2. x \in Seq(S) /\ y \in Seq(S) /\ Len(x) = Len(y) /\ Len(y) = Len(q) + Len(w) + 1
  BY <1>1, ConcatProperties
<1>3. ASSUME NEW i \in 1 .. Len(x) PROVE x[i] = y[i]
  <2>1. CASE i <= Len(q)
    BY <1>1, <1>2, <1>3, <2>1, ConcatProperties
  <2>2. CASE Len(q) < i /\ i <= Len(q) + Len(w)
    <3>1. x[i] = Append(w, r)[i - Len(q)] /\ i - Len(q) \in 1 .. Len(w)
      BY <1>1, <1>2, <1>3, <2>2, ConcatProperties
    <3>2. y[i] = (q \o w)[i]
      BY <1>1, <1>2, <1>3, <2>2
    <3>. QED BY <1>1, <1>3, <2>2, <3>1, <3>2, ConcatProperties
  <2>3. CASE i = Len(q) + Len(w) + 1
    <3>1. x[i] = Append(w, r)[i - Len(q)] /\ i - Len(q) = Len(w) + 1
      BY <1>1, <1>2, <1>3, <2>3, ConcatProperties
    <3>. QED BY <1>1, <2>3, <3>1
  <2>. QED BY <1>1, <1>2, <2>1, <2>2, <2>3
<1>. HIDE DEF x, y
<1>4. x = y
  BY <1>2, <1>3, SeqEqual
<1>. QED BY <1>1, <1>4 DEF x, y

LEMMA WrittenType ==
    ASSUME NEW o \in Outputs
    PROVE  Written(o) \in Seq(Records)
BY DEF Written, Outputs

LEMMA FlushFacts ==
    ASSUME NEW o \in Outputs
    PROVE  /\ FlushEvicted(o) \in Outputs /\ Written(FlushEvicted(o)) = Written(o)
           /\ FlushEvicted(o).num_evicted = 0 /\ FlushEvicted(o).overrun = o.overrun
           /\ FlushEvicted(o).evict = <<>> /\ FlushEvicted(o).file = Written(o)
<1>1. /\ o.file \in Seq(Records) /\ o.evict \in Seq(Records) /\ o.overrun \in BOOLEAN
      /\ <<>> \in Seq(Records)
  BY DEF Outputs
<1>2. o.file \o o.evict \in Seq(Records) /\ (o.file \o o.evict) \o <<>> = o.file \o o.evict
  BY <1>1
<1>. QED BY <1>1, <1>2 DEF FlushEvicted, Outputs, Written

LEMMA RoomFacts ==
    ASSUME NEW o \in Outputs, NEW n \in Nat, n <= kBufferLength
    PROVE  /\ MakeRoom(o, n) \in Outputs /\ Written(MakeRoom(o, n)) = Written(o)
           /\ MakeRoom(o, n).overrun = o.overrun
           /\ MakeRoom(o, n).num_evicted + n <= kBufferLength
<1>1. kBufferLength \in Nat /\ o.num_evicted \in Nat
  BY CpuProfilerAssumption DEF Outputs
<1>2. CASE o.num_evicted + n > kBufferLength
  <2>1. MakeRoom(o, n) = FlushEvicted(o)
    BY <1>2 DEF MakeRoom
  <2>. QED BY <2>1, <1>1, FlushFacts
<1>3. CASE ~ (o.num_evicted + n > kBufferLength)
  <2>1. MakeRoom(o, n) = o
    BY <1>3 DEF MakeRoom
  <2>. QED BY <2>1, <1>1, <1>3
<1>. QED BY <1>2, <1>3

LEMMA PutFacts ==
    ASSUME NEW o \in Outputs, NEW r \in Records, Slots(r) \in Nat,
           o.num_evicted + Slots(r) <= kBufferLength
    PROVE  /\ Put(o, r) \in Outputs /\ Written(Put(o, r)) = Append(Written(o), r)
           /\ Put(o, r).overrun = o.overrun
<1>1. kBufferLength \in Nat /\ o.num_evicted \in Nat
  BY CpuProfilerAssumption DEF Outputs
<1>2. /\ o.file \in Seq(Records) /\ o.evict \in Seq(Records) /\ o.overrun \in BOOLEAN
      /\ o.num_evicted + Slots(r) \in Nat /\ ~ (o.num_evicted + Slots(r) > kBufferLength)
  BY <1>1 DEF Outputs
<1>3. Append(o.evict, r) \in Seq(Records) /\ o.file \o Append(o.evict, r) = Append(o.file \o o.evict, r)
  <2>1. ASSUME NEW q \in Seq(Records), NEW w \in Seq(Records)
        PROVE  Append(w, r) \in Seq(Records) /\ q \o Append(w, r) = Append(q \o w, r)
    BY AppendToConcat
  <2>. QED BY <1>2, <2>1
<1>. QED BY <1>2, <1>3 DEF Put, Outputs, Written

LEMMA SlotsFacts ==
    /\ Header \in Records /\ Slots(Header) = 5
    /\ Trailer \in Records /\ Slots(Trailer) = 3
    /\ \A e \in [stack : Stacks \cup {None}, count : Nat] :
         /\ Record(e) \in Records /\ Record(e).kind = "sample"
         /\ Record(e).stack = e.stack /\ Record(e).count = e.count
         /\ Slots(Record(e)) = Depth[e.stack] + 2
BY DEF Header, Trailer, Record, Records, Slots

LEMMA EvictFacts ==
    ASSUME NEW o \in Outputs, NEW e \in [stack : Stacks \cup {None}, count : Nat], e.stack \in Stacks
    PROVE  /\ Evict(o, e) \in Outputs /\ Written(Evict(o, e)) = Append(Written(o), Record(e))
           /\ Evict(o, e).overrun = o.overrun
<1> DEFINE n == Depth[e.stack] + 2
<1>1. n \in Nat /\ n <= kBufferLength
  BY CpuProfilerAssumption
<1>2. Record(e) \in Records /\ Slots(Record(e)) = n
  BY SlotsFacts
<1>3. Evict(o, e) = Put(MakeRoom(o, n), Record(e))
  BY DEF Evict
<1>. HIDE DEF n
<1> DEFINE m == MakeRoom(o, n)
<1>4. m \in Outputs /\ Written(m) = Written(o) /\ m.overrun = o.overrun /\ m.num_evicted + n <= kBufferLength
  BY <1>1, RoomFacts
<1>. HIDE DEF m
<1>5. /\ Put(m, Record(e)) \in Outputs /\ Written(Put(m, Record(e))) = Append(Written(m), Record(e))
      /\ Put(m, Record(e)).overrun = m.overrun
  BY <1>1, <1>2, <1>4, PutFacts
<1>. QED BY <1>3, <1>4, <1>5 DEF m

-----------------------------------------------------------------------------
(* What is in the table, the buffer and the file while the profiler is on.   *)

Filled(h) == \A i \in 1 .. NumEntries : h[i].count > 0 => h[i].stack \in Stacks
AllFinite(f) == \A s \in Stacks : IsFiniteSet(SamplesOf(f, s))

IsSample(r) == r.kind = "sample" /\ r.count > 0

\* A header and samples, and the same with a trailer.
Opened(w) ==
    /\ w \in Seq(Records) /\ Len(w) >= 1 /\ w[1] = Header
    /\ \A i \in 2 .. Len(w) : IsSample(w[i])
Closed(w) ==
    /\ w \in Seq(Records) /\ Len(w) >= 2 /\ w[1] = Header /\ w[Len(w)] = Trailer
    /\ \A i \in 2 .. Len(w) - 1 : IsSample(w[i])

Underway(o) == o \in Outputs /\ ~ o.overrun /\ Opened(Written(o)) /\ AllFinite(Written(o))

LEMMA OpenedAppend ==
    ASSUME NEW w, Opened(w), NEW r \in Records
    PROVE  /\ IsSample(r) => Opened(Append(w, r))
           /\ r = Trailer => Closed(Append(w, r))
<1>1. /\ Append(w, r) \in Seq(Records) /\ Len(Append(w, r)) = Len(w) + 1 /\ Len(w) \in Nat /\ Len(w) >= 1
      /\ Append(w, r)[Len(w) + 1] = r /\ \A i \in 1 .. Len(w) : Append(w, r)[i] = w[i]
      /\ w[1] = Header /\ \A i \in 2 .. Len(w) : IsSample(w[i])
  BY AppendProperties DEF Opened
<1>2. Append(w, r)[1] = Header /\ \A i \in 2 .. Len(w) : IsSample(Append(w, r)[i])
  BY <1>1
<1>3. ASSUME IsSample(r) PROVE Opened(Append(w, r))
  <2>1. \A i \in 2 .. Len(w) + 1 : i \in 2 .. Len(w) \/ i = Len(w) + 1
    BY <1>1
  <2>2. \A i \in 2 .. Len(w) + 1 : IsSample(Append(w, r)[i])
    BY <1>1, <1>2, <1>3, <2>1
  <2>. QED BY <1>1, <1>2, <2>2 DEF Opened
<1>4. ASSUME r = Trailer PROVE Closed(Append(w, r))
  BY <1>1, <1>2, <1>4 DEF Closed
<1>. QED BY <1>3, <1>4

\* Evicting an entry moves its samples to what is written.
LEMMA EvictMoves ==
    ASSUME NEW o, Underway(o), NEW e \in [stack : Stacks \cup {None}, count : Nat],
           e.stack \in Stacks, e.count > 0
    PROVE  /\ Underway(Evict(o, e))
           /\ \A s \in Stacks : /\ CountOf(Written(o), s) \in Nat
                                /\ CountOf(Written(Evict(o, e)), s) = CountOf(Written(o), s) + Weight(e, s)
<1> DEFINE v == Evict(o, e)
           w == Written(o)
           r == Record(e)
<1>1. v \in Outputs /\ Written(v) = Append(w, r) /\ v.overrun = o.overrun
  BY EvictFacts DEF Underway
<1>2. r \in Records /\ IsSample(r) /\ r.count \in Nat /\ r.stack = e.stack /\ r.count = e.count
  <2>1. r \in Records /\ r.kind = "sample" /\ r.stack = e.stack /\ r.count = e.count /\ e.count \in Nat
    BY SlotsFacts
  <2>. HIDE DEF r
  <2>. QED BY <2>1 DEF IsSample
<1>3. Opened(w) /\ w \in Seq(Records) /\ AllFinite(w) /\ ~ o.overrun
  BY DEF Underway, Opened
<1>. HIDE DEF v, w, r
<1>4. Opened(Append(w, r))
  BY <1>2, <1>3, OpenedAppend
<1>5. ASSUME NEW s \in Stacks
      PROVE  /\ IsFiniteSet(SamplesOf(Append(w, r), s)) /\ CountOf(w, s) \in Nat
             /\ CountOf(Append(w, r), s) = CountOf(w, s) + Weight(e, s)
  <2>1. IsFiniteSet(SamplesOf(w, s))
    BY <1>3 DEF AllFinite
  <2>2. /\ IsFiniteSet(SamplesOf(Append(w, r), s)) /\ CountOf(w, s) \in Nat
        /\ CountOf(Append(w, r), s) = CountOf(w, s) + Weight(r, s)
    BY <1>2, <1>3, <2>1, CountAppend
  <2>3. Weight(r, s) = Weight(e, s)
    BY <1>2 DEF Weight
  <2>. QED BY <2>2, <2>3
<1>6. Underway(v)
  BY <1>1, <1>3, <1>4, <1>5 DEF Underway, AllFinite
<1>. QED BY <1>1, <1>5, <1>6 DEF v, w

\* The samples of the first n entries.
Part(n) == [i \in 1 .. n |-> hash[i]]

LEMMA PartFacts ==
    ASSUME hash \in Tables
    PROVE  /\ \A n \in Nat : n + 1 <= NumEntries => Extends(Part(n + 1), Part(n), n + 1)
           /\ \A n \in Nat : n + 1 <= NumEntries => Part(n + 1)[n + 1] = hash[n + 1]
           /\ \A s : IsFiniteSet(SamplesOf(Part(0), s)) /\ CountOf(Part(0), s) = 0
           /\ Part(NumEntries) = hash
<1>1. \A s : IsFiniteSet(SamplesOf(Part(0), s)) /\ CountOf(Part(0), s) = 0
  <2>1. \A i \in DOMAIN Part(0) : Part(0)[i].count = 0
    BY DEF Part
  <2>. QED BY <2>1, CountNothing
<1>2. Part(NumEntries) = hash
  BY DEF Part, Tables
<1>3. \A n \in Nat : n + 1 <= NumEntries => Extends(Part(n + 1), Part(n), n + 1)
  BY DEF Part, Extends
<1>4. \A n \in Nat : n + 1 <= NumEntries => Part(n + 1)[n + 1] = hash[n + 1]
  BY DEF Part
<1>. QED BY <1>1, <1>2, <1>3, <1>4

MovedUpto(o, n) ==
    /\ Underway(Evictions(o)[n])
    /\ \A s \in Stacks :
         /\ IsFiniteSet(SamplesOf(Part(n), s))
         /\ CountOf(Written(Evictions(o)[n]), s) = CountOf(Written(o), s) + CountOf(Part(n), s)

LEMMA MovedNext ==
    ASSUME NEW o, Underway(o), hash \in Tables, Filled(hash),
           NEW n \in Nat, n + 1 <= NumEntries, MovedUpto(o, n),
           \A s \in Stacks : CountOf(Written(o), s) \in Nat
    PROVE  MovedUpto(o, n + 1)
<1> DEFINE E == Evictions(o)
           e == hash[n + 1]
<1>0. NumEntries \in Nat
  BY CpuProfilerAssumption DEF NumEntries
<1>1. E[n + 1] = IF e.count > 0 THEN Evict(E[n], e) ELSE E[n]
  <2>1. E = [k \in 0 .. NumEntries |-> Step(E, k, o)]
    BY LoopFacts DEF Upto
  <2>. HIDE DEF E
  <2>2. E[n + 1] = Step(E, n + 1, o) /\ n + 1 # 0 /\ (n + 1) - 1 = n
    BY <1>0, <2>1
  <2>. QED BY <2>2 DEF Step
<1>2. /\ e \in [stack : Stacks \cup {None}, count : Nat]
      /\ e.count > 0 => e.stack \in Stacks
  BY <1>0 DEF Tables, Filled
<1>3. Underway(E[n])
  BY DEF MovedUpto
<1>4. /\ Extends(Part(n + 1), Part(n), n + 1) /\ Part(n + 1)[n + 1] = e /\ e.count \in Nat
  BY <1>2, PartFacts
<1>. HIDE DEF E, e
<1>5. ASSUME NEW s \in Stacks
      PROVE  /\ IsFiniteSet(SamplesOf(Part(n + 1), s)) /\ CountOf(Part(n), s) \in Nat
             /\ CountOf(Part(n + 1), s) = CountOf(Part(n), s) + Weight(e, s)
  <2>1. IsFiniteSet(SamplesOf(Part(n), s))
    BY DEF MovedUpto
  <2>2. Part(n + 1)[n + 1].count \in Nat
    BY <1>4
  <2>. QED BY <1>4, <2>1, <2>2, CountExtended
<1>6. \A s \in Stacks : CountOf(Written(E[n]), s) = CountOf(Written(o), s) + CountOf(Part(n), s)
  BY DEF MovedUpto, E
<1>7. CASE e.count > 0
  <2>1. E[n + 1] = Evict(E[n], e)
    BY <1>1, <1>7
  <2>2. /\ Underway(E[n + 1])
        /\ \A s \in Stacks : CountOf(Written(E[n + 1]), s) = CountOf(Written(E[n]), s) + Weight(e, s)
    BY <1>2, <1>3, <1>7, <2>1, EvictMoves
  <2>3. ASSUME NEW s \in Stacks
        PROVE  CountOf(Written(E[n + 1]), s) = CountOf(Written(o), s) + CountOf(Part(n + 1), s)
    <3>1. Weight(e, s) \in Nat
      BY <1>2 DEF Weight
    <3>. QED BY <1>5, <1>6, <2>2, <3>1
  <2>. QED BY <1>5, <2>2, <2>3 DEF MovedUpto, E
<1>8. CASE ~ (e.count > 0)
  <2>1. E[n + 1] = E[n] /\ e.count = 0
    BY <1>1, <1>2, <1>8
  <2>2. ASSUME NEW s \in Stacks
        PROVE  CountOf(Written(E[n + 1]), s) = CountOf(Written(o), s) + CountOf(Part(n + 1), s)
    <3>1. Weight(e, s) = 0
      BY <2>1 DEF Weight
    <3>. QED BY <1>5, <1>6, <2>1, <3>1
  <2>. QED BY <1>3, <1>5, <2>1, <2>2 DEF MovedUpto, E
<1>. QED BY <1>7, <1>8

\* EvictAll moves all samples of the table to what is written.
LEMMA EvictAllMoves ==
    ASSUME NEW o, Underway(o), hash \in Tables, Filled(hash),
           \A s \in Stacks : CountOf(Written(o), s) \in Nat
    PROVE  /\ Underway(EvictAll(o))
           /\ \A s \in Stacks : CountOf(Written(EvictAll(o)), s) = CountOf(Written(o), s) + CountOf(hash, s)
<1>0. NumEntries \in Nat
  BY CpuProfilerAssumption DEF NumEntries
<1> DEFINE Bad == {n \in Nat : n <= NumEntries /\ ~ MovedUpto(o, n)}
<1>1. 0 \notin Bad
  <2>1. Evictions(o)[0] = o
    BY <1>0, LoopFacts DEF Upto, Step
  <2>2. \A s \in Stacks : CountOf(Written(o), s) = CountOf(Written(o), s) + CountOf(Part(0), s)
    BY PartFacts
  <2>3. MovedUpto(o, 0)
    BY <2>1, <2>2, PartFacts DEF MovedUpto
  <2>. QED BY <2>3
<1>2. ASSUME NEW n \in Nat, n \notin Bad PROVE n + 1 \notin Bad
  <2>1. CASE n + 1 <= NumEntries
    <3>1. MovedUpto(o, n)
      BY <1>0, <1>2, <2>1
    <3>2. MovedUpto(o, n + 1)
      BY <2>1, <3>1, MovedNext
    <3>. QED BY <3>2
  <2>2. CASE ~ (n + 1 <= NumEntries)
    BY <2>2
  <2>. QED BY <2>1, <2>2
<1>3. Bad = {}
  <2>1. Bad \in SUBSET Nat
    OBVIOUS
  <2>. HIDE DEF Bad
  <2>. QED BY <1>1, <1>2, <2>1, NoLeast
<1>4. MovedUpto(o, NumEntries)
  BY <1>0, <1>3
<1>5. Part(NumEntries) = hash
  BY PartFacts
<1>. QED BY <1>4, <1>5 DEF MovedUpto, EvictAll

-----------------------------------------------------------------------------
(* The samples' invariant.                                                   *)

\* Every counted sample is in the table or written, while the profiler is on.
Books(o, h, a) ==
    /\ h \in Tables /\ Filled(h) /\ AllFinite(h)
    /\ Underway(o)
    /\ a \in [Stacks -> Nat]
    /\ \A s \in Stacks : a[s] = CountOf(h, s) + CountOf(Written(o), s)

\* Start has emptied the file and has not begun with the table.
Starting == \E t \in Threads : pc[t] \in {"start", "start_table"}

DataInv ==
    /\ Output \in Outputs /\ ~ overrun /\ added \in [Stacks -> Nat]
    /\ out => Books(Output, hash, added)
    /\ ~ out => evict = <<>> /\ (file = <<>> \/ Closed(file))
    /\ ~ out /\ ~ Starting => \A s \in Stacks : added[s] = CountOf(file, s)
    /\ Starting => ~ out /\ file = <<>>

LEMMA OutputFacts ==
    /\ \A o \in Outputs : OutputIs(o) => Output' = o
    /\ Output.evict = evict /\ Output.file = file /\ Output.overrun = overrun
    /\ Output.num_evicted = num_evicted
    /\ Written(Output) = file \o evict
<1>1. \A o \in Outputs : OutputIs(o) => Output' = o
  <2> SUFFICES ASSUME NEW o \in Outputs, OutputIs(o) PROVE Output' = o
    OBVIOUS
  <2>1. o = [evict |-> o.evict, num_evicted |-> o.num_evicted, file |-> o.file, overrun |-> o.overrun]
    BY DEF Outputs
  <2>. QED BY <2>1 DEF OutputIs, Output
<1>. QED BY <1>1 DEF Output, Written

LEMMA CountsNat ==
    ASSUME NEW f, AllFinite(f)
    PROVE  \A s \in Stacks : CountOf(f, s) \in Nat
BY FS_CardinalityType DEF AllFinite, CountOf

LEMMA CountIsNat ==
    ASSUME NEW f, NEW s, IsFiniteSet(SamplesOf(f, s))
    PROVE  CountOf(f, s) \in Nat
BY FS_CardinalityType DEF CountOf

Becomes(g, h, i, e) == g = [h EXCEPT ![i] = e]

\* One more sample in an entry of the table.
LEMMA BooksCount ==
    ASSUME NEW h, NEW a, NEW o, Books(o, h, a), NEW i \in 1 .. NumEntries, NEW s \in Stacks, h[i].stack = s,
           NEW g, Becomes(g, h, i, [stack |-> h[i].stack, count |-> h[i].count + 1])
    PROVE  Books(o, g, [a EXCEPT ![s] = @ + 1])
<1> DEFINE old == h[i]
           e == [stack |-> h[i].stack, count |-> h[i].count + 1]
           b == [a EXCEPT ![s] = @ + 1]
<1>1. /\ h \in Tables /\ i \in DOMAIN h /\ h[i] = old /\ old.count \in Nat /\ Underway(o)
      /\ e \in [stack : Stacks \cup {None}, count : Nat] /\ e.count = old.count + 1 /\ e.stack = s
      /\ a \in [Stacks -> Nat] /\ Filled(h) /\ AllFinite(h) /\ e.count \in Nat /\ old.stack = s
  BY DEF Books, Tables
<1>2. Becomes(g, h, i, e)
  OBVIOUS
<1>. HIDE DEF e, old
<1>3. g \in Tables /\ Filled(g) /\ SameBut(h, g, i) /\ g[i] = e
  BY <1>1, <1>2 DEF Tables, Filled, SameBut, Becomes
<1>4. ASSUME NEW z \in Stacks
      PROVE  IsFiniteSet(SamplesOf(g, z)) /\ b[z] = CountOf(g, z) + CountOf(Written(o), z)
  <2>1. /\ IsFiniteSet(SamplesOf(g, z)) /\ CountOf(g, z) \in Nat /\ CountOf(h, z) \in Nat
        /\ CountOf(g, z) + Weight(old, z) = CountOf(h, z) + Weight(e, z)
    <3>1. IsFiniteSet(SamplesOf(h, z))
      BY <1>1 DEF AllFinite
    <3>. QED BY <1>1, <1>3, <3>1, CountUpdate
  <2>2. a[z] = CountOf(h, z) + CountOf(Written(o), z) /\ a[z] \in Nat /\ CountOf(Written(o), z) \in Nat
    BY <1>1, CountsNat DEF Books, Underway
  <2>3. Weight(old, z) = IF z = s THEN old.count ELSE 0
    BY <1>1 DEF Weight
  <2>4. Weight(e, z) = IF z = s THEN old.count + 1 ELSE 0
    BY <1>1 DEF Weight
  <2>5. b[z] = IF z = s THEN a[z] + 1 ELSE a[z]
    BY <1>1
  <2>. HIDE DEF b
  <2>. QED BY <1>1, <2>1, <2>2, <2>3, <2>4, <2>5
<1>5. b \in [Stacks -> Nat]
  BY <1>1
<1>. HIDE DEF b
<1>6. AllFinite(g) /\ \A z \in Stacks : b[z] = CountOf(g, z) + CountOf(Written(o), z)
  BY <1>4 DEF AllFinite
<1>7. Books(o, g, b)
  BY <1>1, <1>3, <1>5, <1>6 DEF Books
<1>. QED BY <1>7 DEF b

\* The first sample in an entry, after what was there has been evicted.
LEMMA BooksReplace ==
    ASSUME NEW h, NEW a, NEW o, Books(o, h, a), NEW i \in 1 .. NumEntries, NEW s \in Stacks,
           NEW g, Becomes(g, h, i, [stack |-> s, count |-> 1]),
           NEW v, v = IF h[i].count > 0 THEN Evict(o, h[i]) ELSE o
    PROVE  Books(v, g, [a EXCEPT ![s] = @ + 1]) /\ v \in Outputs
<1> DEFINE e == [stack |-> s, count |-> 1]
           b == [a EXCEPT ![s] = @ + 1]
           old == h[i]
<1>1. /\ h \in Tables /\ i \in DOMAIN h /\ old.count \in Nat /\ Underway(o)
      /\ old \in [stack : Stacks \cup {None}, count : Nat] /\ h[i] = old
      /\ old.count > 0 => old.stack \in Stacks
  BY DEF Books, Tables, Filled
<1>2. /\ e \in [stack : Stacks \cup {None}, count : Nat] /\ e.count = 1 /\ e.stack = s
      /\ a \in [Stacks -> Nat] /\ Filled(h) /\ AllFinite(h) /\ e.count \in Nat
  BY DEF Books
<1>3. /\ Becomes(g, h, i, e)
      /\ old.count > 0 => v = Evict(o, old)
      /\ ~ (old.count > 0) => v = o
  OBVIOUS
<1>. HIDE DEF e, old
<1>4. g \in Tables /\ Filled(g) /\ SameBut(h, g, i) /\ g[i] = e
  BY <1>1, <1>2, <1>3 DEF Tables, Filled, SameBut, Becomes
<1>5. /\ Underway(v)
      /\ \A z \in Stacks : /\ CountOf(Written(o), z) \in Nat
                           /\ CountOf(Written(v), z) = CountOf(Written(o), z) + Weight(old, z)
  <2>1. CASE old.count > 0
    <3>1. v = Evict(o, old) /\ old.stack \in Stacks
      BY <1>1, <1>3, <2>1
    <3>2. /\ Underway(Evict(o, old))
          /\ \A z \in Stacks :
               /\ CountOf(Written(o), z) \in Nat
               /\ CountOf(Written(Evict(o, old)), z) = CountOf(Written(o), z) + Weight(old, z)
      BY <1>1, <2>1, <3>1, EvictMoves
    <3>. QED BY <3>1, <3>2
  <2>2. CASE ~ (old.count > 0)
    <3>1. v = o /\ old.count = 0
      BY <1>1, <1>3, <2>2
    <3>2. \A z \in Stacks : Weight(old, z) = 0 /\ CountOf(Written(o), z) \in Nat
      BY <1>1, <3>1, CountsNat DEF Weight, Underway
    <3>. QED BY <1>1, <3>1, <3>2
  <2>. QED BY <2>1, <2>2
<1>6. ASSUME NEW z \in Stacks
      PROVE  IsFiniteSet(SamplesOf(g, z)) /\ b[z] = CountOf(g, z) + CountOf(Written(v), z)
  <2>1. /\ IsFiniteSet(SamplesOf(g, z)) /\ CountOf(g, z) \in Nat /\ CountOf(h, z) \in Nat
        /\ CountOf(g, z) + Weight(old, z) = CountOf(h, z) + Weight(e, z)
    <3>1. IsFiniteSet(SamplesOf(h, z))
      BY <1>2 DEF AllFinite
    <3>. QED BY <1>1, <1>2, <1>4, <3>1, CountUpdate
  <2>2. a[z] = CountOf(h, z) + CountOf(Written(o), z) /\ a[z] \in Nat
    BY <1>2 DEF Books
  <2>3. Weight(old, z) \in Nat
    BY <1>1 DEF Weight
  <2>4. Weight(e, z) = IF z = s THEN 1 ELSE 0
    BY <1>2 DEF Weight
  <2>5. b[z] = IF z = s THEN a[z] + 1 ELSE a[z]
    BY <1>2
  <2>6. CountOf(Written(o), z) \in Nat /\ CountOf(Written(v), z) = CountOf(Written(o), z) + Weight(old, z)
    BY <1>5
  <2>. HIDE DEF b
  <2>. QED BY <2>1, <2>2, <2>3, <2>4, <2>5, <2>6
<1>7. b \in [Stacks -> Nat]
  BY <1>2
<1>. HIDE DEF b
<1>8. AllFinite(g) /\ \A z \in Stacks : b[z] = CountOf(g, z) + CountOf(Written(v), z)
  BY <1>6 DEF AllFinite
<1>9. Books(v, g, b)
  BY <1>4, <1>5, <1>7, <1>8 DEF Books
<1>. QED BY <1>5, <1>9 DEF b, Underway

\* Counting a sample keeps the books, whatever entry it goes to.
LEMMA AddBooks ==
    ASSUME IInv, NEW t \in Threads, Add(t), Books(Output, hash, added)
    PROVE  Books(Output', hash', added')
<1> DEFINE s == sample[t]
<1>1. s \in Stacks /\ hash \in Tables
  BY DEF Add, Runs, IInv, TypeInv
<1>2. /\ added' = [added EXCEPT ![s] = @ + 1]
      /\ \/ \E a \in Bucket(s) : hash[a].stack = s /\ CountIn(a)
         \/ Replace(Victim(s), s)
  BY DEF Add
<1>. HIDE DEF s
<1>3. ASSUME NEW a \in Bucket(s), hash[a].stack = s, CountIn(a)
      PROVE  Books(Output', hash', added')
  <2>1. Output' = Output /\ Becomes(hash', hash, a, [stack |-> hash[a].stack, count |-> hash[a].count + 1])
    BY <1>3 DEF CountIn, output, Output, Becomes
  <2>2. a \in 1 .. NumEntries
    BY <1>1, BucketFacts
  <2>3. Books(Output, hash', [added EXCEPT ![s] = @ + 1])
    BY <1>1, <1>3, <2>1, <2>2, BooksCount
  <2>. QED BY <1>2, <2>1, <2>3
<1>4. ASSUME Replace(Victim(s), s)
      PROVE  Books(Output', hash', added')
  <2> DEFINE a == Victim(s)
             v == IF hash[a].count > 0 THEN Evict(Output, hash[a]) ELSE Output
  <2>1. a \in 1 .. NumEntries
    BY <1>1, VictimFacts, BucketFacts
  <2>2. Becomes(hash', hash, a, [stack |-> s, count |-> 1]) /\ OutputIs(v)
    BY <1>4 DEF Replace, Becomes
  <2>3. v = IF hash[a].count > 0 THEN Evict(Output, hash[a]) ELSE Output
    OBVIOUS
  <2>. HIDE DEF a, v
  <2>4. Books(v, hash', [added EXCEPT ![s] = @ + 1]) /\ v \in Outputs
    BY <1>1, <2>1, <2>2, <2>3, BooksReplace
  <2>5. Output' = v
    BY <2>2, <2>4, OutputFacts
  <2>. QED BY <1>2, <2>4, <2>5
<1>. QED BY <1>2, <1>3, <1>4

\* A new table and a header.
LEMMA BooksBegin ==
    ASSUME NEW o \in Outputs, ~ o.overrun, Written(o) = <<>>, o.num_evicted = 0
    PROVE  Put(o, Header) \in Outputs /\ Books(Put(o, Header), EmptyTable, [s \in Stacks |-> 0])
<1> DEFINE v == Put(o, Header)
           h == EmptyTable
           b == [s \in Stacks |-> 0]
<1>1. v \in Outputs /\ ~ v.overrun /\ Written(v) = Append(<<>>, Header) /\ Header \in Records
  <2>1. Slots(Header) \in Nat /\ Header \in Records /\ o.num_evicted + Slots(Header) <= kBufferLength
    BY SlotsFacts, CpuProfilerAssumption
  <2>2. v \in Outputs /\ Written(v) = Append(Written(o), Header) /\ v.overrun = o.overrun
    BY <2>1, PutFacts
  <2>. HIDE DEF v
  <2>. QED BY <2>1, <2>2
<1>2. h \in Tables /\ Filled(h) /\ \A i \in DOMAIN h : h[i].count = 0
  BY EmptyTableType DEF EmptyTable, Free, Filled
<1>3. b \in [Stacks -> Nat] /\ \A s \in Stacks : b[s] = 0
  OBVIOUS
<1>. HIDE DEF v, h, b
<1> DEFINE w == Written(v)
<1>4. /\ w \in Seq(Records) /\ Len(w) = 1 /\ w[1] = Header
      /\ \A i \in DOMAIN w : w[i].count = 0
  BY <1>1 DEF Header
<1>. HIDE DEF w
<1>5. Opened(w)
  BY <1>4 DEF Opened
<1>6. ASSUME NEW s \in Stacks
      PROVE  /\ IsFiniteSet(SamplesOf(h, s)) /\ IsFiniteSet(SamplesOf(w, s))
             /\ b[s] = CountOf(h, s) + CountOf(w, s)
  <2>1. IsFiniteSet(SamplesOf(h, s)) /\ CountOf(h, s) = 0
    BY <1>2, CountNothing
  <2>2. IsFiniteSet(SamplesOf(w, s)) /\ CountOf(w, s) = 0
    BY <1>4, CountNothing
  <2>. QED BY <1>3, <2>1, <2>2
<1>7. AllFinite(h) /\ AllFinite(w)
  BY <1>6 DEF AllFinite
<1>8. Books(v, h, b)
  BY <1>1, <1>2, <1>3, <1>5, <1>6, <1>7 DEF Books, Underway, w
<1>. QED BY <1>1, <1>8 DEF v, h, b

\* After EvictAll everything is written, and an empty table has no samples.
LEMMA BooksEvicted ==
    ASSUME NEW o, NEW a, Books(o, hash, a)
    PROVE  /\ EvictAll(o) \in Outputs /\ Underway(EvictAll(o))
           /\ \A s \in Stacks : a[s] = CountOf(Written(EvictAll(o)), s) /\ a[s] \in Nat
<1>1. hash \in Tables /\ Filled(hash) /\ AllFinite(hash) /\ Underway(o) /\ a \in [Stacks -> Nat]
  BY DEF Books
<1>2. \A s \in Stacks : CountOf(Written(o), s) \in Nat /\ CountOf(hash, s) \in Nat
  BY <1>1, CountsNat DEF Underway
<1>3. /\ Underway(EvictAll(o))
      /\ \A s \in Stacks : CountOf(Written(EvictAll(o)), s) = CountOf(Written(o), s) + CountOf(hash, s)
  BY <1>1, <1>2, EvictAllMoves
<1>4. \A s \in Stacks : a[s] = CountOf(hash, s) + CountOf(Written(o), s) /\ a[s] \in Nat
  BY <1>1 DEF Books
<1>. QED BY <1>2, <1>3, <1>4 DEF Underway

LEMMA BooksFlushed ==
    ASSUME NEW o, NEW a, Books(o, hash, a)
    PROVE  /\ FlushEvicted(EvictAll(o)) \in Outputs
           /\ Books(FlushEvicted(EvictAll(o)), EmptyTable, a)
<1> DEFINE e == EvictAll(o)
           v == FlushEvicted(e)
           h == EmptyTable
<1>1. e \in Outputs /\ Underway(e) /\ \A s \in Stacks : a[s] = CountOf(Written(e), s) /\ a[s] \in Nat
  BY BooksEvicted
<1>2. h \in Tables /\ Filled(h) /\ \A i \in DOMAIN h : h[i].count = 0
  BY EmptyTableType DEF EmptyTable, Free, Filled
<1>. HIDE DEF e, h
<1>3. v \in Outputs /\ Written(v) = Written(e) /\ v.overrun = e.overrun
  BY <1>1, FlushFacts
<1>. HIDE DEF v
<1>4. Underway(v)
  BY <1>1, <1>3 DEF Underway
<1>5. \A s \in Stacks : IsFiniteSet(SamplesOf(h, s)) /\ CountOf(h, s) = 0
  BY <1>2, CountNothing
<1>6. Books(v, h, a)
  BY <1>1, <1>2, <1>3, <1>4, <1>5 DEF Books, AllFinite
<1>. QED BY <1>3, <1>6 DEF v, h, e

\* The profile is complete when Stop has written the trailer.
LEMMA BooksClosed ==
    ASSUME NEW o, NEW a, Books(o, hash, a),
           NEW v, v = FlushEvicted(Put(MakeRoom(EvictAll(o), 3), Trailer))
    PROVE  /\ v \in Outputs /\ ~ v.overrun /\ v.evict = <<>> /\ Closed(v.file)
           /\ \A s \in Stacks : a[s] = CountOf(v.file, s)
<1> DEFINE e == EvictAll(o)
           m == MakeRoom(e, 3)
           p == Put(m, Trailer)
           w == Written(e)
<1>1. e \in Outputs /\ Underway(e) /\ \A s \in Stacks : a[s] = CountOf(w, s) /\ a[s] \in Nat
  BY BooksEvicted
<1>2. kBufferLength \in Nat /\ 3 <= kBufferLength
  BY CpuProfilerAssumption
<1>3. Trailer \in Records /\ Slots(Trailer) = 3
  BY SlotsFacts
<1>4. v = FlushEvicted(p)
  OBVIOUS
<1>. HIDE DEF e
<1>5. m \in Outputs /\ Written(m) = w /\ m.overrun = e.overrun /\ m.num_evicted + 3 <= kBufferLength
  BY <1>1, <1>2, RoomFacts
<1>. HIDE DEF m
<1>6. p \in Outputs /\ Written(p) = Append(w, Trailer) /\ p.overrun = m.overrun
  BY <1>3, <1>5, PutFacts
<1>. HIDE DEF p, w
<1>7. v \in Outputs /\ v.overrun = p.overrun /\ v.evict = <<>> /\ v.file = Written(p)
  BY <1>4, <1>6, FlushFacts
<1>8. Opened(w) /\ w \in Seq(Records) /\ AllFinite(w) /\ ~ e.overrun
  BY <1>1 DEF Underway, Opened, w
<1>9. Closed(v.file)
  BY <1>3, <1>6, <1>7, <1>8, OpenedAppend
<1>10. ASSUME NEW s \in Stacks PROVE a[s] = CountOf(v.file, s)
  <2>1. IsFiniteSet(SamplesOf(w, s))
    BY <1>8 DEF AllFinite
  <2>2. Trailer.count \in Nat /\ Weight(Trailer, s) = 0
    BY DEF Trailer, Weight
  <2>3. CountOf(Append(w, Trailer), s) = CountOf(w, s) + Weight(Trailer, s) /\ CountOf(w, s) \in Nat
    BY <1>3, <1>8, <2>1, <2>2, CountAppend
  <2>4. CountOf(Append(w, Trailer), s) = CountOf(w, s)
    BY <2>2, <2>3
  <2>5. v.file = Append(w, Trailer)
    BY <1>6, <1>7
  <2>. QED BY <1>1, <2>4, <2>5
<1>. QED BY <1>5, <1>6, <1>7, <1>8, <1>9, <1>10

-----------------------------------------------------------------------------
(* One lemma per kind of step.                                               *)

LEMMA InitDataInv == Init => DataInv
<1> SUFFICES ASSUME Init PROVE DataInv
  OBVIOUS
<1>1. Output = [evict |-> <<>>, num_evicted |-> 0, file |-> <<>>, overrun |-> FALSE]
  BY DEF Init, Output
<1>2. Output \in Outputs
  BY <1>1 DEF Outputs
<1>3. \A s \in Stacks : added[s] = CountOf(file, s)
  <2>1. file = <<>> /\ \A s \in Stacks : added[s] = 0
    BY DEF Init
  <2>2. \A s : CountOf(<<>>, s) = 0
    BY CountNothing
  <2>. QED BY <2>1, <2>2
<1>. QED BY <1>2, <1>3 DEF Init, DataInv, Starting

\* What leaves the samples and Start alone.
LEMMA DataKept ==
    ASSUME DataInv, UNCHANGED <<out, table, output>>, Starting' <=> Starting
    PROVE  DataInv'
<1>1. Output' = Output
  BY DEF Output, output
<1>2. UNCHANGED <<out, hash, added, evict, file, overrun>>
  BY DEF table, output
<1>3. Books(Output, hash, added) => Books(Output', hash', added')
  BY <1>1, <1>2
<1>. QED BY <1>1, <1>2, <1>3 DEF DataInv

LEMMA QuietSteps ==
    ASSUME IInv, DataInv, NEW t \in Threads,
           \/ Signal(t) \/ AddAfterStop(t) \/ Stop(t) \/ FlushTable(t)
           \/ Ignore(t) \/ Handle(t) \/ LockTable(t) \/ UnlockState(t)
    PROVE  DataInv'
<1>1. UNCHANGED <<out, table, output>>
  BY DEF Signal, AddAfterStop, Stop, FlushTable, Ignore, Handle, LockTable, UnlockState
<1>2. pc \in [Threads -> Labels]
  BY DEF IInv, TypeInv
<1>3. pc'[t] \in {"start", "start_table"} <=> pc[t] \in {"start", "start_table"}
  BY <1>2 DEF Signal, AddAfterStop, Stop, FlushTable, Ignore, Handle, LockTable, UnlockState, Goes
<1>4. \A u \in Threads : u # t => pc'[u] = pc[u]
  BY <1>2 DEF Signal, AddAfterStop, Stop, FlushTable, Ignore, Handle, LockTable, UnlockState, Goes
<1>5. Starting' <=> Starting
  BY <1>3, <1>4 DEF Starting
<1>. QED BY <1>1, <1>5, DataKept

LEMMA AddStep ==
    ASSUME IInv, DataInv, NEW t \in Threads, Add(t)
    PROVE  DataInv'
<1>1. hash # None /\ UNCHANGED <<out, pc>>
  BY DEF Add
<1>2. out /\ out'
  BY <1>1 DEF IInv, HandlerOK
<1>3. Books(Output', hash', added')
  BY <1>2, AddBooks DEF DataInv
<1>4. Output' \in Outputs /\ ~ overrun'
  <2>1. Output' \in Outputs /\ ~ (Output').overrun
    BY <1>3 DEF Books, Underway
  <2>. QED BY <2>1 DEF Output
<1>5. ~ Starting'
  BY <1>1, <1>2 DEF DataInv, Starting
<1>6. added' \in [Stacks -> Nat]
  BY <1>3 DEF Books
<1>. QED BY <1>2, <1>3, <1>4, <1>5, <1>6 DEF DataInv

\* One thread at a time is in Start, Stop or FlushTable.
LEMMA OnlyOne ==
    ASSUME IInv, NEW t \in Threads, pc[t] # "run"
    PROVE  /\ \A u \in Threads : u # t => pc[u] = "run"
           /\ pc[t] \in {"start", "start_table"} <=> Starting
BY DEF IInv, LocksOK, Starting

LEMMA StartStep ==
    ASSUME IInv, DataInv, NEW t \in Threads, Start(t)
    PROVE  DataInv'
<1>1. /\ ~ out /\ ~ out' /\ file' = <<>> /\ UNCHANGED <<evict, num_evicted, overrun, added>>
      /\ pc' = [pc EXCEPT ![t] = "start"]
  BY DEF Start, Goes, table
<1>2. Starting'
  BY <1>1 DEF Starting, IInv, TypeInv
<1>3. Output' = [evict |-> evict, num_evicted |-> num_evicted, file |-> <<>>, overrun |-> overrun]
  BY <1>1 DEF Output
<1>4. evict \in Seq(Records) /\ num_evicted \in Nat /\ overrun \in BOOLEAN /\ ~ overrun /\ evict = <<>>
  BY <1>1, OutputFacts DEF DataInv, Outputs
<1>5. Output' \in Outputs
  BY <1>3, <1>4 DEF Outputs
<1>. QED BY <1>1, <1>2, <1>4, <1>5 DEF DataInv

LEMMA StartTableStep ==
    ASSUME IInv, DataInv, NEW t \in Threads, StartTable(t)
    PROVE  DataInv'
<1> DEFINE o == [evict |-> <<>>, num_evicted |-> 0, file |-> file, overrun |-> overrun]
           v == Put(o, Header)
<1>1. /\ pc[t] = "start_table" /\ pc' = [pc EXCEPT ![t] = "started"]
      /\ out' = TRUE /\ hash' = EmptyTable /\ added' = [s \in Stacks |-> 0] /\ OutputIs(v)
  BY DEF StartTable, Goes
<1>2. file = <<>> /\ ~ overrun
  BY <1>1, OnlyOne DEF DataInv
<1>3. o = [evict |-> <<>>, num_evicted |-> 0, file |-> <<>>, overrun |-> overrun]
  BY <1>2
<1>4. o \in Outputs /\ ~ o.overrun /\ Written(o) = <<>> /\ o.num_evicted = 0
  <2>1. overrun \in BOOLEAN
    BY OutputFacts DEF DataInv, Outputs
  <2>. QED BY <1>2, <1>3, <2>1 DEF Outputs, Written
<1>. HIDE DEF o
<1>5. v \in Outputs /\ Books(v, hash', added')
  BY <1>1, <1>4, BooksBegin
<1>. HIDE DEF v
<1>6. Output' = v
  BY <1>1, <1>5, OutputFacts
<1>7. ~ v.overrun /\ overrun' = v.overrun
  BY <1>1, <1>5 DEF Books, Underway, OutputIs
<1>8. ~ Starting'
  BY <1>1, OnlyOne DEF IInv, TypeInv, Starting
<1>9. added' \in [Stacks -> Nat]
  BY <1>1
<1>. QED BY <1>1, <1>5, <1>6, <1>7, <1>8, <1>9 DEF DataInv

LEMMA FlushAllStep ==
    ASSUME IInv, DataInv, NEW t \in Threads, FlushAll(t)
    PROVE  DataInv'
<1> DEFINE v == FlushEvicted(EvictAll(Output))
<1>1. /\ pc[t] = "flush_table" /\ pc' = [pc EXCEPT ![t] = "flushed"]
      /\ UNCHANGED <<out, added>> /\ hash' = EmptyTable /\ OutputIs(v)
  BY DEF FlushAll, Goes
<1>2. out
  BY <1>1 DEF IInv, HandlerOK, On
<1>3. v \in Outputs /\ Books(v, hash', added')
  BY <1>1, <1>2, BooksFlushed DEF DataInv
<1>. HIDE DEF v
<1>4. Output' = v
  BY <1>1, <1>3, OutputFacts
<1>5. ~ v.overrun /\ overrun' = v.overrun
  BY <1>1, <1>3 DEF Books, Underway, OutputIs
<1>6. ~ Starting'
  BY <1>1, OnlyOne DEF IInv, TypeInv, Starting
<1>. QED BY <1>1, <1>2, <1>3, <1>4, <1>5, <1>6 DEF DataInv

LEMMA StopTableStep ==
    ASSUME IInv, DataInv, NEW t \in Threads, StopTable(t)
    PROVE  DataInv'
<1>1. pc[t] = "stop_table" /\ pc' = [pc EXCEPT ![t] = "run"] /\ added' = added
  BY DEF StopTable, Goes
<1>2. ~ Starting /\ ~ Starting'
  BY <1>1, OnlyOne DEF IInv, TypeInv, Starting
<1>3. CASE out
  <2> DEFINE v == FlushEvicted(Put(MakeRoom(EvictAll(Output), 3), Trailer))
  <2>1. OutputIs(v) /\ out' = FALSE
    BY <1>3 DEF StopTable
  <2>2. /\ v \in Outputs /\ ~ v.overrun /\ v.evict = <<>> /\ Closed(v.file)
        /\ \A s \in Stacks : added[s] = CountOf(v.file, s)
    <3>1. Books(Output, hash, added)
      BY <1>3 DEF DataInv
    <3>. QED BY <3>1, BooksClosed
  <2>. HIDE DEF v
  <2>3. Output' = v /\ evict' = v.evict /\ file' = v.file /\ overrun' = v.overrun
    BY <2>1, <2>2, OutputFacts DEF OutputIs
  <2>. QED BY <1>1, <1>2, <2>1, <2>2, <2>3 DEF DataInv
<1>4. CASE ~ out
  <2>1. UNCHANGED <<out, hash, output>>
    BY <1>4 DEF StopTable
  <2>2. UNCHANGED <<out, added, evict, file, overrun>> /\ Output' = Output
    BY <1>1, <2>1 DEF output, Output
  <2>. QED BY <1>2, <1>4, <2>2 DEF DataInv
<1>. QED BY <1>3, <1>4

-----------------------------------------------------------------------------

\* The inductive invariant of the samples: while the profiler is on, the table is
\* filled with traces, a header and samples are written or in the buffer, within its
\* end, and each sample is counted in one place; while it is off, the file is empty or
\* closed by a trailer, and has them all.
THEOREM SamplesInvariance == Spec => [](IInv /\ DataInv)
<1>1. Init => DataInv
  BY InitDataInv
<1>2. IInv /\ DataInv /\ [Next]_vars => DataInv'
  <2> SUFFICES ASSUME IInv, DataInv, [Next]_vars PROVE DataInv'
    OBVIOUS
  <2>1. CASE UNCHANGED vars
    <3>1. UNCHANGED <<out, table, output>> /\ (Starting' <=> Starting)
      BY <2>1 DEF vars, Starting
    <3>. QED BY <3>1, DataKept
  <2>2. CASE Next
    <3>1. PICK t \in Threads :
            \/ Signal(t) \/ Add(t) \/ AddAfterStop(t)
            \/ Start(t) \/ Stop(t) \/ FlushTable(t)
            \/ Ignore(t) \/ Handle(t) \/ LockTable(t) \/ UnlockState(t)
            \/ StartTable(t) \/ StopTable(t) \/ FlushAll(t)
      BY <2>2 DEF Next
    <3>. QED BY <3>1, QuietSteps, AddStep, StartStep, StartTableStep, StopTableStep, FlushAllStep
  <2>. QED BY <2>1, <2>2
<1>. QED BY <1>1, <1>2, CpuProfilerInvariance, PTL DEF Spec

\* Every sample a handler counted is in the table, the buffer or the file, once,
\* through evictions, flushes and a full buffer, and after Stop in the file.
THEOREM SamplesConservedHolds == Spec => []SamplesConserved
<1>1. IInv /\ DataInv => SamplesConserved
  <2> SUFFICES ASSUME IInv, DataInv, table_lock = NoThread, out \/ state_lock = NoThread
               PROVE  /\ \A s \in Stacks :
                           added[s] = (IF out THEN CountOf(hash, s) ELSE 0) + CountOf(file \o evict, s)
                      /\ ~ out => evict = <<>>
    BY DEF SamplesConserved
  <2>1. CASE out
    <3>1. \A s \in Stacks : added[s] = CountOf(hash, s) + CountOf(file \o evict, s)
      BY <2>1, OutputFacts DEF DataInv, Books
    <3>. QED BY <2>1, <3>1
  <2>2. CASE ~ out
    <3>1. state_lock = NoThread
      BY <2>2
    <3>2. ~ Starting
      BY <3>1, CpuProfilerAssumption DEF Starting, IInv, LocksOK
    <3>3. evict = <<>> /\ file \in Seq(Records)
      BY <2>2, OutputFacts DEF DataInv, Outputs
    <3>4. file \o evict = file
      BY <3>3, ConcatEmptySeq
    <3>5. \A s \in Stacks : added[s] = CountOf(file, s)
      BY <2>2, <3>2 DEF DataInv
    <3>6. ASSUME NEW s \in Stacks
          PROVE  added[s] = (IF out THEN CountOf(hash, s) ELSE 0) + CountOf(file \o evict, s)
      <4>1. added[s] \in Nat /\ added[s] = CountOf(file \o evict, s)
        BY <3>4, <3>5 DEF DataInv
      <4>2. (IF out THEN CountOf(hash, s) ELSE 0) = 0
        BY <2>2
      <4>. QED BY <4>1, <4>2
    <3>. QED BY <3>3, <3>6
  <2>. QED BY <2>1, <2>2
<1>. QED BY <1>1, SamplesInvariance, PTL

\* A finished profile is a header, samples that have counts, and a trailer; and no
\* record was ever written past the end of the buffer.
THEOREM ProfileReadableHolds == Spec => []ProfileReadable
<1>1. IInv /\ DataInv => ProfileReadable
  <2> SUFFICES ASSUME DataInv, ~ out, file # <<>>
               PROVE  /\ Len(file) >= 2 /\ Head(file) = Header /\ Last(file) = Trailer
                      /\ \A i \in 2 .. Len(file) - 1 : file[i].kind = "sample" /\ file[i].count > 0
    BY DEF ProfileReadable, DataInv
  <2>1. Closed(file)
    BY DEF DataInv
  <2>. QED BY <2>1 DEF Closed, IsSample, Last
<1>. QED BY <1>1, SamplesInvariance, PTL
=============================================================================
