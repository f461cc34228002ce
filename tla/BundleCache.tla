----------------------------- MODULE BundleCache -----------------------------
(***************************************************************************)
(* BundleCache (cache.rs): context bundles kept by the embedding of the    *)
(* query they answered, the least recently used one first.  Embeddings are *)
(* points of a line and two are similar when they are at most Reach apart; *)
(* of a bundle no more is kept than whether the local tenant has changed   *)
(* since the query behind it ran.  Ages are cut off just above Ttl.        *)
(***************************************************************************)
EXTENDS Integers, SequencesExt

CONSTANTS
  Point,        (* embeddings                                              *)
  Misfit,       (* an embedding of another dimension, or of norm zero      *)
  Capacity,     (* how many bundles the cache holds                        *)
  Ttl,          (* time to live                                            *)
  Reach         (* how far apart similar embeddings are                    *)

ASSUME CacheAssumption ==
  /\ Point \subseteq Int /\ Misfit \notin Point
  /\ Capacity \in Nat \ {0}
  /\ Ttl \in Nat /\ Reach \in Nat

Age == 0..Ttl + 1

(* Besides centre_unit and inserted_at (here an age): how long ago the     *)
(* entry was last inserted or hit, whether its bundle is out of date, and  *)
(* whether the cache was invalidated while its bundle was made.            *)
Entry == [at : Point, age : Age, idle : Age, old : BOOLEAN, late : BOOLEAN]

Older(entries) ==
  [i \in DOMAIN entries |->
     [entries[i] EXCEPT !.age = Min({@ + 1, Ttl + 1}), !.idle = Min({@ + 1, Ttl + 1})]]

(* Mutant: it looks for expired entries from the back.                     *)
ExpiredMutant(entries) ==
  LET live == {i \in DOMAIN entries : entries[i].age <= Ttl}
  IN  IF live = {} THEN <<>> ELSE SubSeq(entries, 1, Max(live))

(* expire: entries go from the front, up to the first that is alive.       *)
Expired(entries) ==
  LET live == {i \in DOMAIN entries : entries[i].age <= Ttl}
  IN  IF live = {} THEN <<>> ELSE SubSeq(entries, Min(live), Len(entries))

Apart(x, y) == Max({x - y, y - x})

(* The entries similar to x, and the first of the closest among them.      *)
Similar(entries, x) == {i \in DOMAIN entries : Apart(entries[i].at, x) <= Reach}

Best(entries, x) ==
  CHOOSE i \in Similar(entries, x) : \A j \in Similar(entries, x) :
    LET near == Apart(entries[i].at, x)
        far  == Apart(entries[j].at, x)
    IN  near < far \/ (near = far /\ i <= j)

(* A hit moves to the back.                                                *)
Touched(entries, i) == Append(RemoveAt(entries, i), [entries[i] EXCEPT !.idle = 0])

(* insert, into a cache that has been expired.                             *)
Inserted(entries, x, old, late) ==
  Append(SubSeq(entries, Max({1, Len(entries) - Capacity + 2}), Len(entries)),
         [at |-> x, age |-> 0, idle |-> 0, old |-> old, late |-> late])
=============================================================================
