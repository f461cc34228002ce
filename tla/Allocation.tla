----------------------------- MODULE Allocation -----------------------------
(***************************************************************************)
(* proportional_allocation (allocation.rs): how many records each peer of  *)
(* a membrane query may return.  Scores are integers in units of the       *)
(* code's epsilon, 1e-3, and a peer is its position in the sorted list.    *)
(***************************************************************************)
EXTENDS Integers, Sequences, FiniteSetsExt, Folds

(* How the caller sorts the scores.                                        *)
Descending(s) == \A i, j \in DOMAIN s : i < j => s[i] >= s[j]

Total(shares) == MapThenFoldSet(+, 0, LAMBDA i : shares[i], Max, DOMAIN shares)

(* Each peer's distance from the lowest score, never zero.                 *)
Shifted(scores) ==
  [i \in DOMAIN scores |-> scores[i] - Min({scores[j] : j \in DOMAIN scores}) + 1]

Proportional(scores, total, minPerPeer) ==
  LET shifted == Shifted(scores)
  IN  [i \in DOMAIN scores |->
         Max({(shifted[i] * total) \div Total(shifted), minPerPeer})]

(* Over budget: take from the last share above the minimum; when there is  *)
(* none, drop the last peer.                                               *)
Trimmed(shares, total, minPerPeer) ==
  LET above(s) == {i \in DOMAIN s : s[i] > minPerPeer}
      trim[s \in Seq(Nat)] ==
        IF Total(s) <= total THEN s
        ELSE IF above(s) # {} THEN trim[[s EXCEPT ![Max(above(s))] = @ - 1]]
        ELSE trim[SubSeq(s, 1, Len(s) - 1)]
  IN  trim[shares]

(* Mutant: all of what is left over goes to the first.                     *)
SpreadMutant(shares, total) ==
  IF shares = <<>> THEN shares
                   ELSE [shares EXCEPT ![1] = @ + total - Total(shares)]

(* Under budget: one more each, from the front, round and round.           *)
Spread(shares, total) ==
  LET n == Len(shares)
      left == total - Total(shares)
  IN  [i \in 1..n |-> shares[i] + (left + n - i) \div n]

(* Mutant: minimums that do not fit the budget are handed out all the same. *)
SharesMutant(scores, total, minPerPeer, maxPeers) ==
  IF scores = <<>> \/ total = 0 \/ maxPeers = 0 THEN <<>>
  ELSE LET kept  == SubSeq(scores, 1, Min({maxPeers, Len(scores)}))
           first == Proportional(kept, total, minPerPeer)
       IN  IF Total(first) > total THEN first ELSE Spread(first, total)

Shares(scores, total, minPerPeer, maxPeers) ==
  IF scores = <<>> \/ total = 0 \/ maxPeers = 0 THEN <<>>
  ELSE LET kept == SubSeq(scores, 1, Min({maxPeers, Len(scores)}))
       IN  Spread(Trimmed(Proportional(kept, total, minPerPeer), total, minPerPeer),
                  total)
=============================================================================
