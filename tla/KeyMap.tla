------------------------------- MODULE KeyMap -------------------------------
(***************************************************************************)
(* What the radix trees of pagemap.hpp and the hash table of addressmap.hpp*)
(* promise those who use them: a map from keys to values, in which a key   *)
(* without a value has Null, and of which a call changes one key.          *)
(***************************************************************************)
CONSTANTS Keys, Values, Null

VARIABLE contents  \* what get or Find gives for each key

Init == contents = [k \in Keys |-> Null]

\* set, Insert: a value there was is replaced.
Put(k, v) == contents' = [contents EXCEPT ![k] = v]

\* FindAndRemove.
Remove(k) == contents' = [contents EXCEPT ![k] = Null]

Next == \E k \in Keys : Remove(k) \/ \E v \in Values : Put(k, v)

Spec == Init /\ [][Next]_contents
=============================================================================
