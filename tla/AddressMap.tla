------------------------------ MODULE AddressMap ------------------------------
(***************************************************************************)
(* The heap profiler's map of live objects (addressmap.hpp): a hash table  *)
(* of clusters of addresses, each an array of blocks, each a list of       *)
(* entries.  Entries are made ALLOC_COUNT at a time and kept on a list     *)
(* when they are free; nothing is given back before the map is destroyed.  *)
(* It has no lock of its own: its users hold heap_lock.                    *)
(***************************************************************************)
EXTENDS Arithmetic, Sequences, FiniteSets, SequencesExt

CONSTANTS Keys,             \* addresses of objects
          Values,
          kBlockBits, kClusterBits, kHashBits, ALLOC_COUNT,
          kHashMultiplier,
          WordBits,         \* 32: the bits of the product that HashInt keeps
          NoValue

ASSUME BitsOfAddressAssumption ==
    /\ Keys \subseteq Nat
    /\ {kBlockBits, kClusterBits, kHashBits, WordBits, kHashMultiplier} \subseteq Nat
    /\ kHashBits <= WordBits /\ ALLOC_COUNT \in Nat \ {0}
    /\ NoValue \notin Values

VARIABLES
    hashtable,  \* hashtable_: of each bucket, its list of clusters, with the
                \* lists of entries of their blocks: which entry, key and value
    made,       \* the entries 1 .. made were allocated
    free        \* the list free_

vars_A == <<hashtable, made, free>>

kHashSize == Pow2[kHashBits]
kClusterBlocks == Pow2[kClusterBits]
kClusterSize == Pow2[kBlockBits + kClusterBits]
BlockSize == Pow2[kBlockBits]
WordRange == Pow2[WordBits]
HashShift == Pow2[WordBits - kHashBits]

HashInt(x) == ((x * kHashMultiplier) % WordRange) \div HashShift
ClusterID(address) == address \div kClusterSize
BlockID(address) == (address \div BlockSize) % kClusterBlocks

NewCluster(id) == [id |-> id, blocks |-> [b \in 0 .. kClusterBlocks - 1 |-> <<>>]]

Init_A ==
    /\ hashtable = [h \in 0 .. kHashSize - 1 |-> <<>>]
    /\ made = 0
    /\ free = <<>>

-----------------------------------------------------------------------------

Bucket(key) == hashtable[HashInt(ClusterID(key))]

\* FindCluster: its place in the bucket's list, or 0.
FindCluster(list, key) == SelectInSeq(list, LAMBDA c : c.id = ClusterID(key))

\* The list the key would be in, and its place there, or 0.
BlockOf(key) ==
    LET list == Bucket(key)
        c    == FindCluster(list, key)
    IN  IF c = 0 THEN <<>> ELSE list[c].blocks[BlockID(key)]
PlaceIn(block, key) == SelectInSeq(block, LAMBDA e : e.key = key)
Place(key) == PlaceIn(BlockOf(key), key)
\* Find: the value, or NoValue.
Find(key) ==
    LET block == BlockOf(key)
        place == PlaceIn(block, key)
    IN  IF place = 0 THEN NoValue ELSE block[place].value

\* Insert, of a key that is there: its value is replaced.
InsertAgain(key, value) ==
    LET c == FindCluster(Bucket(key), key)
    IN  /\ Place(key) # 0
        /\ hashtable' = [hashtable EXCEPT ![HashInt(ClusterID(key))][c]
                           .blocks[BlockID(key)][Place(key)].value = value]
        /\ UNCHANGED <<made, free>>

\* Insert, of a key that is not there: the first free entry, of ALLOC_COUNT more
\* if there was none, goes to the front of the key's block, in a cluster that is
\* put in front of the bucket's list if it was not there.
Free == IF free = <<>> THEN [i \in 1 .. ALLOC_COUNT |-> made + i] ELSE free
Rest == Tail(Free)

InsertNew(key, value) ==
    LET list == (IF FindCluster(Bucket(key), key) = 0 THEN <<NewCluster(ClusterID(key))>> ELSE <<>>)
                \o Bucket(key)
        new  == [e |-> Head(Free), key |-> key, value |-> value]
    IN  /\ Place(key) = 0
        /\ free' = Rest
        /\ made' = made + IF free = <<>> THEN ALLOC_COUNT ELSE 0
        /\ hashtable' = [hashtable EXCEPT ![HashInt(ClusterID(key))] =
                           [list EXCEPT ![FindCluster(list, key)].blocks[BlockID(key)] = <<new>> \o @]]

Insert(key, value) == InsertAgain(key, value) \/ InsertNew(key, value)

\* The entry leaves its block for the free list.
UnlinkedWithRest(block, i) == SubSeq(block, 1, i - 1)
Unlinked(block, i) == RemoveAt(block, i)
FindAndRemove(key) ==
    LET c == FindCluster(Bucket(key), key)
    IN  /\ Place(key) # 0
        /\ free' = <<BlockOf(key)[Place(key)].e>> \o free
        /\ hashtable' = [hashtable EXCEPT ![HashInt(ClusterID(key))][c].blocks[BlockID(key)]
                           = Unlinked(@, Place(key))]
        /\ UNCHANGED made

Next_A == \E key \in Keys :
            FindAndRemove(key) \/ \E value \in Values : Insert(key, value)

-----------------------------------------------------------------------------
(* Iterate: every bucket's clusters, every cluster's blocks, every block's list *)

Visits ==
    UNION {UNION {{<<h, c, b, i>> : i \in DOMAIN hashtable[h][c].blocks[b]} :
                    c \in DOMAIN hashtable[h], b \in 0 .. kClusterBlocks - 1} :
             h \in 0 .. kHashSize - 1}
Visited(p) == hashtable[p[1]][p[2]].blocks[p[3]][p[4]]

-----------------------------------------------------------------------------
(* Properties                                                                *)

\* Find gives what was inserted last and not removed: Insert and FindAndRemove
\* change it for their own key and no other, although clusters share buckets,
\* addresses share blocks and entries are used again.
AddressesMap == INSTANCE KeyMap WITH Null <- NoValue, contents <- [k \in Keys |-> Find(k)]
AddressMapIsMap == AddressesMap!Spec

\* Iterate visits every key that Find would find, once, and no other; and every
\* entry that was allocated is visited or free, and only one of them, once.
EntriesOnce ==
    LET visits  == Visits
        entries == {Visited(p).e : p \in visits}
    IN  /\ \A p \in visits : Visited(p).key \in Keys
        /\ \A key \in Keys :
             Cardinality({p \in visits : Visited(p).key = key}) = IF Find(key) = NoValue THEN 0 ELSE 1
        /\ entries \cap ToSet(free) = {} /\ entries \cup ToSet(free) = 1 .. made
        /\ Cardinality(entries) = Cardinality(visits)
        /\ Cardinality(ToSet(free)) = Len(free)
=============================================================================
