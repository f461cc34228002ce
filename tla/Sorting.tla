------------------------------- MODULE Sorting -------------------------------
(***************************************************************************)
(* The stable sorts of the code (sort_by), on keys that compare.           *)
(***************************************************************************)
EXTENDS Integers, Sequences, FiniteSets

(* The items of s at the places that are kept, by descending key, those    *)
(* with equal keys in their order.  An item's place in the result is one   *)
(* after as many as go before it.                                          *)
Ordered(s, kept, keys) ==
  LET Before(i, j) == keys[i] > keys[j] \/ (keys[i] = keys[j] /\ i < j)
      place == [i \in kept |-> Cardinality({j \in kept : Before(j, i)}) + 1]
  IN  [k \in 1..Cardinality(kept) |-> s[CHOOSE i \in kept : place[i] = k]]

Sorted(s, keys) == Ordered(s, DOMAIN s, keys)
=============================================================================
