--------------------------- MODULE Membrane_proofs ---------------------------
(***************************************************************************)
(* Theorems about Membrane, for any peers, records, scores and budgets, of *)
(* any size.  Two facts carry them.  The peers sent for are distinct, and  *)
(* each is one that was asked: so what was gathered fits the budgets that  *)
(* were handed out.  And the hits gathered are laid out one batch after    *)
(* the other, each hit in a place of its own: so hits can be counted by    *)
(* matching places, whatever order the answers came in.                    *)
(*                                                                         *)
(* Then about AllocationLoop, for any scores, peers, budget, floor and     *)
(* cap: its loops return the shares Membrane hands out, and what they      *)
(* return is sound.                                                        *)
(*                                                                         *)
(* Then about Lifecycle, the handle that queries go through: for any       *)
(* growth threshold, any number of readers and records, and every way in   *)
(* which the member's two threads, other skippers, peers and crashes       *)
(* interleave.                                                             *)
(***************************************************************************)
EXTENDS Membrane, AllocationLoop, Lifecycle, DataLemmas

LOCAL INSTANCE SequencesExt


(* What the operators of the query return.                                 *)

Hit == [origin : Peer \cup {Local}, similarity : Int, shareable : BOOLEAN]

LEMMA RequestIs ==
  ASSUME request \in Requests
  PROVE  /\ request.mode \in {"threads", "tasks", "local"}
         /\ request.deadline \in BOOLEAN /\ request.topK \in Nat
         /\ request.minSimilarity \in Int
         /\ request.maxRemote \in Nat /\ request.maxTotal \in Nat
  BY MembraneAssumption DEF ThreadQuery, TaskQuery, Built

LEMMA PrefixIs ==
  ASSUME NEW V, NEW s \in Seq(V), NEW n \in Nat
  PROVE  /\ Prefix(s, n) \in Seq(V)
         /\ Len(Prefix(s, n)) \in Nat
         /\ Len(Prefix(s, n)) <= n /\ Len(Prefix(s, n)) <= Len(s)
         /\ Len(Prefix(s, n)) = IF n < Len(s) THEN n ELSE Len(s)
         /\ \A i \in 1..Len(Prefix(s, n)) : Prefix(s, n)[i] = s[i]
<1>. DEFINE m == IF n < Len(s) THEN n ELSE Len(s)
<1>1. m \in Nat /\ m <= n /\ m <= Len(s) /\ Len(s) \in Nat
  OBVIOUS
<1>2. Prefix(s, n) = SubSeq(s, 1, m)
  BY DEF Prefix
<1>. HIDE DEF m
<1>3. /\ SubSeq(s, 1, m) \in Seq(V) /\ Len(SubSeq(s, 1, m)) = m
      /\ \A i \in 1..m : SubSeq(s, 1, m)[i] = s[i]
  BY <1>1
<1>. QED BY <1>1, <1>2, <1>3 DEF m

(* The kept items of a sequence, in descending order.                      *)
LEMMA OrderedItems ==
  ASSUME NEW V, NEW s \in Seq(V), NEW kept \in SUBSET DOMAIN s, NEW keys \in [kept -> Int]
  PROVE  /\ Ordered(s, kept, keys) \in Seq(V)
         /\ Len(Ordered(s, kept, keys)) = Cardinality(kept)
         /\ Cardinality(kept) <= Len(s)
         /\ \E at : /\ Arranges(at, kept, keys)
                    /\ \A k \in 1..Cardinality(kept) : Ordered(s, kept, keys)[k] = s[at[k]]
<1>. DEFINE c == Cardinality(kept)
<1>1. Len(s) \in Nat /\ kept \in SUBSET (1..Len(s)) /\ \A i \in kept : s[i] \in V
  OBVIOUS
<1>2. c \in Nat /\ c <= Len(s)
  BY <1>1, CountKept
<1>. HIDE DEF c
<1>3. PICK at : /\ Arranges(at, kept, keys)
                /\ Ordered(s, kept, keys) = [k \in 1..c |-> s[at[k]]]
  <2>. DEFINE n == Len(s)
  <2>1. n \in Nat /\ kept \in SUBSET (1..n)
    BY <1>1
  <2>. HIDE DEF n
  <2>2. Sorts(Ordered(s, kept, keys), s, kept, keys)
    BY <2>1, OrderedIs
  <2>. QED BY <2>2 DEF Sorts, c
<1>4. \A k \in 1..c : at[k] \in kept
  BY <1>3 DEF Arranges, c
<1>. HIDE DEF c
<1>5. [k \in 1..c |-> s[at[k]]] \in Seq(V)
  BY <1>1, <1>2, <1>4
<1>6. Len([k \in 1..c |-> s[at[k]]]) = c
  BY <1>2
<1>. QED BY <1>2, <1>3, <1>5, <1>6 DEF c

LEMMA QueryIs ==
  ASSUME NEW tenant \in Peer \cup {Local}, NEW k \in Nat, NEW filter
  PROVE  /\ QueryFiltered(tenant, k, filter) \in Seq(Hit)
         /\ Len(QueryFiltered(tenant, k, filter)) \in Nat
         /\ Len(QueryFiltered(tenant, k, filter)) <= k
         /\ \A i \in 1..Len(QueryFiltered(tenant, k, filter)) :
              /\ QueryFiltered(tenant, k, filter)[i].origin = tenant
              /\ QueryFiltered(tenant, k, filter)[i].shareable \in filter
<1>. DEFINE records == Records[tenant]
            accepted == {i \in DOMAIN records : records[i].shareable \in filter}
            keys == [i \in accepted |-> records[i].similarity]
            best == Ordered(records, accepted, keys)
            W == {r \in Record : r.shareable \in filter}
            top == Prefix(best, k)
<1>1. records \in Seq(Record)
  BY MembraneAssumption
<1>2. accepted \in SUBSET DOMAIN records /\ keys \in [accepted -> Int]
  <2>. HIDE DEF records
  <2>1. \A i \in DOMAIN records : records[i] \in Record
    BY <1>1
  <2>2. \A i \in accepted : records[i].similarity \in Int
    BY <2>1 DEF Record
  <2>. HIDE DEF accepted
  <2>3. keys \in [accepted -> Int]
    BY <2>2
  <2>. QED BY <2>3 DEF accepted
<1>3. QueryFiltered(tenant, k, filter) = HitsOf(tenant, top)
  BY DEF QueryFiltered
<1>4. /\ best \in Seq(Record) /\ Len(best) = Cardinality(accepted)
      /\ \E at : /\ Arranges(at, accepted, keys)
                 /\ \A j \in 1..Cardinality(accepted) : best[j] = records[at[j]]
  <2>. HIDE DEF records, accepted, keys
  <2>. QED BY <1>1, <1>2, OrderedItems
<1>5. best \in Seq(W)
  <2>1. PICK at : /\ Arranges(at, accepted, keys)
                  /\ \A j \in 1..Cardinality(accepted) : best[j] = records[at[j]]
    BY <1>4
  <2>2. \A j \in 1..Len(best) : at[j] \in accepted /\ best[j] = records[at[j]]
    <3>. HIDE DEF records, accepted, keys, best
    <3>. QED BY <1>4, <2>1 DEF Arranges
  <2>3. \A i \in accepted : records[i] \in W
    BY <1>1
  <2>. HIDE DEF records, accepted, keys, best, W
  <2>4. \A j \in 1..Len(best) : best[j] \in W
    BY <2>2, <2>3
  <2>. QED BY <1>4, <2>4
<1>6. top \in Seq(W) /\ Len(top) <= k /\ Len(top) \in Nat
  <2>. HIDE DEF best, W
  <2>. QED BY <1>5, PrefixIs
<1>. HIDE DEF records, accepted, keys, best, top
<1>7. \A i \in 1..Len(top) : top[i] \in W
  BY <1>6
<1>8. HitsOf(tenant, top) = [i \in 1..Len(top) |->
           [origin |-> tenant, similarity |-> top[i].similarity, shareable |-> top[i].shareable]]
  BY <1>6 DEF HitsOf
<1>9. HitsOf(tenant, top) \in Seq(Hit) /\ Len(HitsOf(tenant, top)) = Len(top)
  BY <1>6, <1>7, <1>8 DEF Hit, Record
<1>. QED BY <1>3, <1>6, <1>7, <1>8, <1>9

LEMMA LocalIs ==
  ASSUME request \in Requests
  PROVE  LocalHits \in Seq(Hit) /\ \A i \in DOMAIN LocalHits : LocalHits[i].origin = Local
<1>1. request.topK \in Nat /\ Local \in Peer \cup {Local}
  BY RequestIs
<1>. QED BY <1>1, QueryIs DEF LocalHits

LEMMA SortedHits ==
  ASSUME NEW hits \in Seq(Hit)
  PROVE  /\ BySimilarity(hits) \in Seq(Hit)
         /\ Len(BySimilarity(hits)) = Len(hits)
         /\ \E at : /\ Arranges(at, DOMAIN hits, [i \in DOMAIN hits |-> hits[i].similarity])
                    /\ \A k \in 1..Len(hits) : BySimilarity(hits)[k] = hits[at[k]]
<1>. DEFINE keys == [i \in DOMAIN hits |-> hits[i].similarity]
<1>1. keys \in [DOMAIN hits -> Int] /\ DOMAIN hits = 1..Len(hits) /\ Len(hits) \in Nat
  <2>1. \A i \in DOMAIN hits : hits[i] \in Hit
    OBVIOUS
  <2>2. \A i \in DOMAIN hits : hits[i].similarity \in Int
    BY <2>1 DEF Hit
  <2>. QED BY <2>2
<1>2. Cardinality(DOMAIN hits) = Len(hits)
  BY <1>1, CountPlaces
<1>3. BySimilarity(hits) = Ordered(hits, DOMAIN hits, keys)
  BY DEF BySimilarity, Sorted
<1>. HIDE DEF keys
<1>4. /\ Ordered(hits, DOMAIN hits, keys) \in Seq(Hit)
      /\ Len(Ordered(hits, DOMAIN hits, keys)) = Cardinality(DOMAIN hits)
      /\ \E at : /\ Arranges(at, DOMAIN hits, keys)
                 /\ \A k \in 1..Cardinality(DOMAIN hits) :
                      Ordered(hits, DOMAIN hits, keys)[k] = hits[at[k]]
  <2>. DEFINE D == DOMAIN hits
  <2>1. D \in SUBSET DOMAIN hits /\ keys \in [D -> Int]
    BY <1>1
  <2>. HIDE DEF D
  <2>2. /\ Ordered(hits, D, keys) \in Seq(Hit)
        /\ Len(Ordered(hits, D, keys)) = Cardinality(D)
        /\ \E at : /\ Arranges(at, D, keys)
                   /\ \A k \in 1..Cardinality(D) : Ordered(hits, D, keys)[k] = hits[at[k]]
    BY <2>1, OrderedItems
  <2>. QED BY <2>2 DEF D
<1>. QED BY <1>2, <1>3, <1>4 DEF keys
----------------------------------------------------------------------------
(* The inductive invariant.                                                *)

Early == {"load", "read", "local", "aborted", "failed"}

Distinct(s) == \A i, j \in DOMAIN s : s[i] = s[j] => i = j

Among(p, s) == \E i \in DOMAIN s : s[i] = p

(* Everything that was sent, in that order.                                *)
Sent == gathered \o channel

Fanned == pc \notin Early /\ request.mode # "local"

(* Sagas are loaded of peers the cursor has passed, each once.             *)
LoadInv ==
  /\ Distinct(loaded) /\ Len(loaded) <= Len(Peers)
  /\ pc \in {"load", "read"} =>
       /\ Len(loaded) < cursor
       /\ \A i \in DOMAIN loaded : \E k \in 1..cursor - 1 : loaded[i] = Peers[k]
  /\ pc = "read" => cursor <= Len(Peers)

ModeInv ==
  /\ expired => request.deadline
  /\ pc \in {"check", "receive"} => request.mode = "threads"
  /\ pc = "await" => request.mode = "tasks"
  /\ pc = "merge" => request.mode # "local"

(* Before it fans out, a query has asked nobody.                           *)
IdleInv ==
  ~Fanned =>
    /\ asked = <<>> /\ gathered = <<>> /\ channel = <<>>
    /\ worker = [p \in Peer |-> "none"]
    /\ totalHits = [p \in Peer |-> 0] /\ stats = NoStats

(* The peers asked are distinct and within both caps, and they are those   *)
(* with a worker.                                                          *)
AskedInv ==
  /\ \A i, j \in DOMAIN asked : asked[i].peer = asked[j].peer => i = j
  /\ Len(asked) <= MaxPeers /\ Len(asked) <= Len(Peers)
  /\ Total([i \in DOMAIN asked |-> asked[i].budget]) <= request.maxRemote
  /\ \A p \in Peer : worker[p] # "none" <=> \E i \in DOMAIN asked : asked[i].peer = p

(* A peer is sent for once, after its worker ended without a panic; and    *)
(* every worker thread that ended so has sent.                             *)
SentInv ==
  /\ Distinct(Sent)
  /\ \A i \in DOMAIN Sent : worker[Sent[i]] \in {"answered", "refused"}
  /\ request.mode = "threads" =>
       \A p \in Peer : worker[p] \in {"answered", "refused"} => Among(p, Sent)
  /\ request.mode # "threads" => channel = <<>>

(* The handles before the cursor were awaited, and no others.              *)
TasksInv ==
  Fanned /\ request.mode = "tasks" =>
    /\ cursor <= Len(asked) + 1
    /\ \A k \in 1..cursor - 1 :
         worker[asked[k].peer] = "panicked" \/ Among(asked[k].peer, gathered)
    /\ \A j \in DOMAIN gathered : \E k \in 1..cursor - 1 : asked[k].peer = gathered[j]

(* Without a deadline the collector stops when nobody is left to wait for. *)
EndInv ==
  pc \in {"merge", "done"} /\ ~request.deadline =>
    \A k \in DOMAIN asked :
      worker[asked[k].peer] = "panicked" \/ Among(asked[k].peer, gathered)

OutcomeInv ==
  /\ Fanned /\ pc # "done" =>
       /\ stats = [attempted |-> Len(asked), completed |-> 0, dropped |-> 0]
       /\ totalHits = [p \in Peer |-> 0]
  /\ Fanned /\ pc = "done" =>
       /\ stats = [attempted |-> Len(asked), completed |-> Len(gathered),
                   dropped |-> Len(asked) - Len(gathered)]
       /\ totalHits = [p \in Peer |-> HitsFrom(p, RemoteHits)]
       /\ result = Prefix(BySimilarity(LocalHits \o RemoteHits), request.maxTotal)
  /\ pc = "done" /\ request.mode = "local" =>
       result = Prefix(LocalHits, request.maxTotal)
  /\ pc # "done" => result = <<>>

IInv ==
  /\ TypeOK /\ LoadInv /\ ModeInv /\ IdleInv /\ AskedInv /\ SentInv /\ TasksInv
  /\ EndInv /\ OutcomeInv

LEMMA PeersAre ==
  /\ Len(Peers) \in Nat /\ DOMAIN Peers = 1..Len(Peers)
  /\ \A i \in 1..Len(Peers) : Peers[i] \in Peer
  /\ \A i, j \in 1..Len(Peers) : Peers[i] = Peers[j] => i = j
<1>1. Peers \in Seq(Peer)
  BY MembraneAssumption
<1>2. Len(Peers) \in Nat /\ DOMAIN Peers = 1..Len(Peers)
  BY <1>1
<1>3. \A i, j \in DOMAIN Peers : Peers[i] = Peers[j] => i = j
  BY MembraneAssumption
<1>. HIDE DEF Peer
<1>4. \A i \in 1..Len(Peers) : Peers[i] \in Peer
  BY <1>1, <1>2
<1>. QED BY <1>2, <1>3, <1>4

LEMMA AskedIs ==
  ASSUME TypeOK
  PROVE  /\ Len(asked) \in Nat /\ DOMAIN asked = 1..Len(asked)
         /\ \A k \in DOMAIN asked : /\ asked[k].peer \in Peer /\ asked[k].budget \in Nat
                                   /\ asked[k] \in [peer : Peer, budget : Nat]
<1>. DEFINE V == [peer : Peer, budget : Nat]
<1>1. asked \in Seq(V)
  BY DEF TypeOK
<1>2. \A v \in V : v.peer \in Peer /\ v.budget \in Nat
  OBVIOUS
<1>. HIDE DEF V
<1>3. Len(asked) \in Nat /\ DOMAIN asked = 1..Len(asked) /\ \A k \in DOMAIN asked : asked[k] \in V
  BY <1>1
<1>. QED BY <1>2, <1>3 DEF V

LEMMA Starts == ASSUME Init PROVE IInv
<1>1. request.maxRemote \in Nat /\ Total(<<>>) = 0 /\ MaxPeers \in Nat
  BY RequestIs, TotalEmpty, MembraneAssumption DEF Init
<1>2. TypeOK
  <2>1. /\ request \in Requests /\ pc = "load" /\ cursor = 1 /\ expired = FALSE
        /\ loaded = <<>> /\ asked = <<>> /\ channel = <<>> /\ gathered = <<>>
        /\ result = <<>> /\ stats = NoStats
        /\ worker = [p \in Peer |-> "none"] /\ totalHits = [p \in Peer |-> 0]
    BY DEF Init
  <2>2. stats \in Stats
    BY <2>1 DEF NoStats, Stats
  <2>3. cursor \in 1..Len(Peers) + 1
    BY <2>1, PeersAre
  <2>4. /\ loaded \in Seq(Peer) /\ channel \in Seq(Peer) /\ gathered \in Seq(Peer)
        /\ asked \in Seq([peer : Peer, budget : Nat]) /\ result \in Seq(Hit)
    BY <2>1
  <2>5. /\ worker \in [Peer -> {"none", "running", "answered", "refused", "panicked"}]
        /\ totalHits \in [Peer -> Nat]
    BY <2>1
  <2>6. pc \in {"load", "read", "local", "score", "check", "receive", "await",
              "merge", "done", "aborted", "failed"} /\ expired \in BOOLEAN
    BY <2>1
  <2>. QED BY <2>1, <2>2, <2>3, <2>4, <2>5, <2>6 DEF TypeOK, Hit
<1>3. LoadInv /\ ModeInv /\ IdleInv
  BY PeersAre DEF Init, LoadInv, ModeInv, IdleInv, Distinct
<1>4. AskedInv
  <2>1. [i \in DOMAIN asked |-> asked[i].budget] = <<>>
    BY DEF Init
  <2>. QED BY <1>1, <2>1, PeersAre DEF Init, AskedInv
<1>5. SentInv
  <2>1. Sent = <<>>
    BY DEF Sent, Init
  <2>. QED BY <2>1 DEF Init, SentInv, Distinct, Among
<1>6. TasksInv /\ EndInv /\ OutcomeInv
  BY DEF Init, TasksInv, EndInv, OutcomeInv, Fanned, Early
<1>. QED BY <1>2, <1>3, <1>4, <1>5, <1>6 DEF IInv
----------------------------------------------------------------------------
(* It is kept by the steps before the fan-out, which ask nobody.           *)

LEMMA KeptEarly ==
  ASSUME IInv, pc \in Early, pc' \in Early,
         UNCHANGED <<request, asked, workers, expired, gathered, outcome>>,
         cursor' \in 1..Len(Peers) + 1, loaded' \in Seq(Peer), LoadInv'
  PROVE  IInv'
<1>. USE DEF IInv, workers, outcome
<1>1. TypeOK'
  BY DEF TypeOK, Early
<1>2. ModeInv' /\ EndInv'
  BY DEF ModeInv, EndInv, Early
<1>3. ~Fanned /\ ~Fanned' /\ IdleInv'
  BY DEF IdleInv, Fanned
<1>4. AskedInv'
  BY DEF AskedInv
<1>5. SentInv'
  BY DEF SentInv, Sent, Distinct, Among
<1>6. TasksInv'
  BY <1>3 DEF TasksInv
<1>7. OutcomeInv'
  BY <1>3 DEF OutcomeInv, Early
<1>. QED BY <1>1, <1>2, <1>3, <1>4, <1>5, <1>6, <1>7

LEMMA EarlyStep ==
  ASSUME IInv,
         LoadFinds \/ LoadSkips \/ ReadSaga \/ ReadFails \/ LoadDone \/ LocalFails
  PROVE  IInv'
<1>. USE DEF Early
<1>1. /\ cursor \in 1..Len(Peers) + 1 /\ cursor \in Nat /\ loaded \in Seq(Peer)
      /\ Len(Peers) \in Nat
  BY PeersAre DEF IInv, TypeOK
<1>2. LoadInv
  BY DEF IInv
<1>3. CASE LoadFinds
  <2>1. pc = "load" /\ cursor <= Len(Peers) /\ pc' = "read" /\ cursor' = cursor /\ loaded' = loaded
    BY <1>3 DEF LoadFinds
  <2>2. LoadInv'
    BY <1>2, <2>1 DEF LoadInv, Distinct
  <2>. QED BY <1>1, <1>3, <2>1, <2>2, KeptEarly DEF LoadFinds
<1>4. CASE LoadSkips
  <2>1. /\ pc = "load" /\ cursor <= Len(Peers) /\ pc' = pc /\ cursor' = cursor + 1
        /\ loaded' = loaded
    BY <1>4 DEF LoadSkips
  <2>2. cursor' \in 1..Len(Peers) + 1 /\ cursor - 1 \in Nat /\ cursor' - 1 = cursor
        /\ Len(loaded) \in Nat
    BY <1>1, <2>1
  <2>3. \A i \in DOMAIN loaded : \E k \in 1..cursor : loaded[i] = Peers[k]
    BY <1>1, <1>2, <2>1 DEF LoadInv
  <2>4. LoadInv'
    BY <1>1, <1>2, <2>1, <2>2, <2>3 DEF LoadInv, Distinct
  <2>. QED BY <1>1, <1>4, <2>1, <2>2, <2>4, KeptEarly DEF LoadSkips
<1>5. CASE ReadSaga
  <2>1. /\ pc = "read" /\ cursor <= Len(Peers) /\ pc' = "load" /\ cursor' = cursor + 1
        /\ loaded' = Append(loaded, Peers[cursor])
    BY <1>2, <1>5 DEF ReadSaga, LoadInv
  <2>2. cursor' \in 1..Len(Peers) + 1 /\ cursor - 1 \in Nat /\ cursor' - 1 = cursor
        /\ cursor \in 1..Len(Peers) /\ cursor \notin 1..cursor - 1
    BY <1>1, <2>1
  <2>. DEFINE p == Peers[cursor]
  <2>3. p \in Peer
    BY <2>2, PeersAre
  <2>4. /\ \A i \in DOMAIN loaded : \E k \in 1..cursor - 1 : loaded[i] = Peers[k]
        /\ Distinct(loaded) /\ Len(loaded) < cursor
    BY <1>2, <2>1 DEF LoadInv
  <2>5. \A k \in 1..cursor - 1 : k \in 1..Len(Peers) /\ k # cursor /\ k \in 1..cursor
    BY <1>1, <2>1
  <2>6. \A i \in DOMAIN loaded : loaded[i] # p
    BY <2>2, <2>4, <2>5, PeersAre
  <2>7. \A i \in DOMAIN loaded : \E k \in 1..cursor : loaded[i] = Peers[k]
    BY <2>4, <2>5
  <2>8. p = Peers[cursor] /\ cursor \in 1..cursor
    BY <1>1
  <2>. HIDE DEF p
  <2>9. /\ loaded' \in Seq(Peer) /\ Len(loaded') = Len(loaded) + 1 /\ Len(loaded) \in Nat
        /\ DOMAIN loaded' = DOMAIN loaded \cup {Len(loaded) + 1}
        /\ Len(loaded) + 1 \notin DOMAIN loaded
        /\ \A i \in DOMAIN loaded : loaded'[i] = loaded[i]
        /\ loaded'[Len(loaded) + 1] = p
    BY <1>1, <2>1, <2>3, <2>8
  <2>10. Distinct(loaded')
    BY <2>4, <2>6, <2>9 DEF Distinct
  <2>11. \A i \in DOMAIN loaded' : \E k \in 1..cursor : loaded'[i] = Peers[k]
    BY <2>7, <2>8, <2>9
  <2>12. Len(loaded') <= Len(Peers) /\ Len(loaded') < cursor'
    BY <1>1, <2>1, <2>4, <2>9
  <2>13. LoadInv'
    BY <2>1, <2>2, <2>10, <2>11, <2>12 DEF LoadInv
  <2>. QED BY <1>5, <2>1, <2>2, <2>9, <2>13, KeptEarly DEF ReadSaga
<1>6. CASE ReadFails
  <2>1. pc = "read" /\ pc' = "aborted" /\ cursor' = cursor /\ loaded' = loaded
    BY <1>6 DEF ReadFails
  <2>2. LoadInv'
    BY <1>2, <2>1 DEF LoadInv, Distinct
  <2>. QED BY <1>1, <1>6, <2>1, <2>2, KeptEarly DEF ReadFails
<1>7. CASE LoadDone
  <2>1. pc = "load" /\ pc' = "local" /\ cursor' = cursor /\ loaded' = loaded
    BY <1>7 DEF LoadDone
  <2>2. LoadInv'
    BY <1>2, <2>1 DEF LoadInv, Distinct
  <2>. QED BY <1>1, <1>7, <2>1, <2>2, KeptEarly DEF LoadDone
<1>8. CASE LocalFails
  <2>1. pc = "local" /\ pc' = "failed" /\ cursor' = cursor /\ loaded' = loaded
    BY <1>8 DEF LocalFails
  <2>2. LoadInv'
    BY <1>2, <2>1 DEF LoadInv, Distinct
  <2>. QED BY <1>1, <1>8, <2>1, <2>2, KeptEarly DEF LocalFails
<1>. QED BY <1>3, <1>4, <1>5, <1>6, <1>7, <1>8
----------------------------------------------------------------------------
(* It is kept while the collector waits and the workers end.               *)

Waiting == {"check", "receive", "await"}

LEMMA WaitingFanned == ASSUME ModeInv, pc \in Waiting \cup {"merge"} PROVE Fanned
  BY DEF ModeInv, Waiting, Fanned, Early

LEMMA KeptWaiting ==
  ASSUME IInv, pc \in Waiting, pc' \in Waiting \cup {"merge"},
         UNCHANGED <<request, cursor, loaded, asked, workers, gathered, outcome>>,
         expired' \in BOOLEAN, ModeInv', EndInv'
  PROVE  IInv'
<1>. USE DEF IInv, workers, outcome
<1>1. TypeOK'
  BY DEF TypeOK, Waiting
<1>2. LoadInv'
  BY DEF LoadInv, Waiting, Distinct
<1>3. Fanned /\ Fanned'
  BY WaitingFanned DEF Fanned, Early, Waiting
<1>4. IdleInv' /\ AskedInv'
  BY <1>3 DEF IdleInv, AskedInv
<1>5. SentInv'
  BY DEF SentInv, Sent, Distinct, Among
<1>6. TasksInv'
  BY <1>3 DEF TasksInv, Among
<1>7. OutcomeInv'
  BY <1>3 DEF OutcomeInv, Waiting
<1>. QED BY <1>1, <1>2, <1>4, <1>5, <1>6, <1>7

LEMMA ExpireStep == ASSUME IInv, Expire PROVE IInv'
<1>1. /\ pc \in Waiting /\ pc' = pc /\ expired' = TRUE /\ request.deadline
      /\ UNCHANGED <<request, cursor, loaded, asked, workers, gathered, outcome>>
  BY DEF Expire, Waiting
<1>2. ModeInv'
  BY <1>1 DEF IInv, ModeInv
<1>3. EndInv'
  BY <1>1 DEF EndInv, Waiting
<1>. QED BY <1>1, <1>2, <1>3, KeptWaiting

(* The peers gathered are peers that were asked.                           *)
LEMMA GatheredAsked ==
  ASSUME IInv, NEW j \in DOMAIN gathered
  PROVE  /\ gathered[j] \in Peer /\ worker[gathered[j]] \in {"answered", "refused"}
         /\ \E i \in DOMAIN asked : asked[i].peer = gathered[j]
<1>1. gathered \in Seq(Peer) /\ channel \in Seq(Peer)
  BY DEF IInv, TypeOK
<1>2. gathered[j] \in Peer /\ j \in 1..Len(gathered) /\ DOMAIN Sent = 1..Len(Sent)
  BY <1>1 DEF Sent
<1>3. Sent[j] = gathered[j] /\ j \in DOMAIN Sent
  <2>1. /\ Len(Sent) = Len(gathered) + Len(channel)
        /\ \A x \in 1..Len(gathered) : Sent[x] = gathered[x]
    BY <1>1, Joined DEF Sent
  <2>2. Len(gathered) \in Nat /\ Len(channel) \in Nat
    BY <1>1
  <2>. QED BY <1>2, <2>1, <2>2
<1>4. worker[gathered[j]] \in {"answered", "refused"}
  BY <1>3 DEF IInv, SentInv
<1>. QED BY <1>2, <1>4 DEF IInv, AskedInv

LEMMA GatheredDistinct ==
  ASSUME IInv
  PROVE  Distinct(gathered)
<1>1. gathered \in Seq(Peer) /\ channel \in Seq(Peer)
  BY DEF IInv, TypeOK
<1>2. /\ DOMAIN Sent = 1..Len(Sent) /\ Len(Sent) = Len(gathered) + Len(channel)
      /\ \A x \in 1..Len(gathered) : Sent[x] = gathered[x]
  <2>1. Sent \in Seq(Peer)
    BY <1>1, Joined DEF Sent
  <2>. QED BY <1>1, <2>1, Joined DEF Sent
<1>3. Len(gathered) \in Nat /\ Len(channel) \in Nat /\ DOMAIN gathered = 1..Len(gathered)
  BY <1>1
<1>4. \A x \in DOMAIN gathered : x \in DOMAIN Sent /\ Sent[x] = gathered[x]
  BY <1>2, <1>3
<1>5. Distinct(Sent)
  BY DEF IInv, SentInv
<1>. QED BY <1>4, <1>5 DEF Distinct

(* Which asked peer each gathered one is.                                  *)
AskedAt == [j \in DOMAIN gathered |-> CHOOSE i \in DOMAIN asked : asked[i].peer = gathered[j]]

LEMMA GatheredAt ==
  ASSUME IInv
  PROVE  /\ AskedAt \in [DOMAIN gathered -> DOMAIN asked]
         /\ OneToOne(AskedAt, DOMAIN gathered)
         /\ \A j \in DOMAIN gathered : asked[AskedAt[j]].peer = gathered[j]
         /\ Len(gathered) \in Nat /\ Len(asked) \in Nat
         /\ DOMAIN gathered = 1..Len(gathered) /\ DOMAIN asked = 1..Len(asked)
         /\ Len(gathered) <= Len(asked)
<1>1. \A j \in DOMAIN gathered : AskedAt[j] \in DOMAIN asked /\ asked[AskedAt[j]].peer = gathered[j]
  BY GatheredAsked DEF AskedAt
<1>2. AskedAt \in [DOMAIN gathered -> DOMAIN asked]
  BY <1>1 DEF AskedAt
<1>3. OneToOne(AskedAt, DOMAIN gathered)
  BY <1>1, GatheredDistinct DEF OneToOne, Distinct
<1>4. /\ Len(gathered) \in Nat /\ Len(asked) \in Nat
      /\ DOMAIN gathered = 1..Len(gathered) /\ DOMAIN asked = 1..Len(asked)
  BY DEF IInv, TypeOK
<1>5. /\ Cardinality(DOMAIN gathered) = Len(gathered)
      /\ IsFiniteSet(DOMAIN asked) /\ Cardinality(DOMAIN asked) = Len(asked)
  BY <1>4, CountPlaces
<1>6. Cardinality(DOMAIN gathered) <= Cardinality(DOMAIN asked)
  BY <1>2, <1>3, <1>5, CountAtMost
<1>. QED BY <1>1, <1>2, <1>3, <1>4, <1>5, <1>6

(* As many as were asked are all that were asked.                          *)
LEMMA AllGathered ==
  ASSUME IInv, Len(gathered) = Len(asked)
  PROVE  \A i \in DOMAIN asked : Among(asked[i].peer, gathered)
<1>. DEFINE S == DOMAIN gathered
            T == DOMAIN asked
<1>1. /\ AskedAt \in [S -> T] /\ OneToOne(AskedAt, S)
      /\ \A j \in S : asked[AskedAt[j]].peer = gathered[j]
      /\ Len(gathered) \in Nat /\ S = 1..Len(gathered) /\ T = 1..Len(asked)
  BY GatheredAt
<1>2. IsFiniteSet(T) /\ Cardinality(S) = Cardinality(T)
  BY <1>1, CountPlaces
<1>. HIDE DEF S, T
<1>3. AskedAt \in Injection(S, T)
  BY <1>1 DEF Injection, IsInjective, OneToOne
<1>4. AskedAt \in Surjection(S, T)
  BY <1>2, <1>3, FS_Injection
<1>5. \A i \in T : \E j \in S : AskedAt[j] = i
  BY <1>4 DEF Surjection
<1>. QED BY <1>1, <1>5 DEF S, T, Among
LEMMA StopStep ==
  ASSUME IInv, CheckStops \/ CheckWaits \/ ReceiveStops \/ AwaitStops
  PROVE  IInv'
<1>. USE DEF Waiting
<1>1. /\ ModeInv /\ expired \in BOOLEAN /\ asked \in Seq([peer : Peer, budget : Nat])
      /\ worker \in [Peer -> {"none", "running", "answered", "refused", "panicked"}]
      /\ gathered \in Seq(Peer) /\ channel \in Seq(Peer) /\ cursor \in Nat
  BY PeersAre DEF IInv, TypeOK
<1>2. CASE CheckStops
  <2>1. /\ pc = "check" /\ pc' = "merge" /\ expired' = expired
        /\ Len(gathered) = Len(asked) \/ expired
        /\ UNCHANGED <<request, cursor, loaded, asked, workers, gathered, outcome>>
    BY <1>2 DEF CheckStops
  <2>2. ModeInv'
    BY <1>1, <2>1 DEF ModeInv
  <2>3. EndInv'
    <3>1. CASE expired
      BY <1>1, <2>1, <3>1 DEF EndInv, ModeInv
    <3>2. CASE ~expired
      BY <2>1, <3>2, AllGathered DEF EndInv, Among
    <3>. QED BY <3>1, <3>2
  <2>. QED BY <1>1, <2>1, <2>2, <2>3, KeptWaiting
<1>3. CASE CheckWaits
  <2>1. /\ pc = "check" /\ pc' = "receive" /\ expired' = expired
        /\ UNCHANGED <<request, cursor, loaded, asked, workers, gathered, outcome>>
    BY <1>3 DEF CheckWaits
  <2>2. ModeInv' /\ EndInv'
    BY <1>1, <2>1 DEF ModeInv, EndInv
  <2>. QED BY <1>1, <2>1, <2>2, KeptWaiting
<1>4. CASE ReceiveStops
  <2>1. /\ pc = "receive" /\ pc' = "merge" /\ expired' = expired /\ channel = <<>>
        /\ expired \/ \A p \in Peer : worker[p] # "running"
        /\ UNCHANGED <<request, cursor, loaded, asked, workers, gathered, outcome>>
    BY <1>4 DEF ReceiveStops
  <2>2. ModeInv'
    BY <1>1, <2>1 DEF ModeInv
  <2>3. EndInv'
    <3>1. CASE expired
      BY <1>1, <2>1, <3>1 DEF EndInv, ModeInv
    <3>2. CASE \A p \in Peer : worker[p] # "running"
      <4>1. Sent = gathered
        BY <1>1, <2>1 DEF Sent
      <4>2. \A p \in Peer : worker[p] \in {"answered", "refused"} => Among(p, gathered)
        BY <1>1, <2>1, <4>1 DEF IInv, SentInv, ModeInv
      <4>3. \A k \in DOMAIN asked : /\ asked[k].peer \in Peer
                                    /\ worker[asked[k].peer] # "none"
        <5>1. \A k \in DOMAIN asked : asked[k].peer \in Peer
          BY AskedIs DEF IInv
        <5>2. \A k \in DOMAIN asked : worker[asked[k].peer] # "none"
          BY <5>1 DEF IInv, AskedInv
        <5>. QED BY <5>1, <5>2
      <4>4. \A k \in DOMAIN asked :
               worker[asked[k].peer] = "panicked" \/ Among(asked[k].peer, gathered)
        BY <1>1, <3>2, <4>2, <4>3
      <4>. QED BY <2>1, <4>4 DEF EndInv, Among, workers
    <3>. QED BY <2>1, <3>1, <3>2
  <2>. QED BY <1>1, <2>1, <2>2, <2>3, KeptWaiting
<1>5. CASE AwaitStops
  <2>1. /\ pc = "await" /\ pc' = "merge" /\ expired' = expired
        /\ cursor > Len(asked) \/ expired
        /\ UNCHANGED <<request, cursor, loaded, asked, workers, gathered, outcome>>
    BY <1>5 DEF AwaitStops
  <2>2. ModeInv'
    BY <1>1, <2>1 DEF ModeInv
  <2>3. EndInv'
    <3>1. CASE expired
      BY <1>1, <2>1, <3>1 DEF EndInv, ModeInv
    <3>2. CASE cursor > Len(asked)
      <4>1. DOMAIN asked = 1..Len(asked) /\ \A k \in DOMAIN asked : k \in 1..cursor - 1
        BY <1>1, <3>2
      <4>2. \A k \in DOMAIN asked :
               worker[asked[k].peer] = "panicked" \/ Among(asked[k].peer, gathered)
        BY <1>1, <2>1, <4>1, WaitingFanned DEF IInv, TasksInv, ModeInv
      <4>. QED BY <2>1, <4>2 DEF EndInv, Among, workers
    <3>. QED BY <2>1, <3>1, <3>2
  <2>. QED BY <1>1, <2>1, <2>2, <2>3, KeptWaiting
<1>. QED BY <1>2, <1>3, <1>4, <1>5

LEMMA AppendJoin ==
  ASSUME NEW V, NEW a \in Seq(V), NEW b \in Seq(V), NEW v \in V
  PROVE  a \o Append(b, v) = Append(a \o b, v)
OBVIOUS

LEMMA MoveHead ==
  ASSUME NEW V, NEW a \in Seq(V), NEW b \in Seq(V), b # <<>>
  PROVE  /\ Append(a, Head(b)) \o Tail(b) = a \o b
         /\ Head(b) \in V /\ Tail(b) \in Seq(V) /\ Append(a, Head(b)) \in Seq(V)
OBVIOUS

LEMMA Appended ==
  ASSUME NEW V, NEW s \in Seq(V), NEW v \in V
  PROVE  /\ Append(s, v) \in Seq(V) /\ Len(Append(s, v)) = Len(s) + 1
         /\ DOMAIN Append(s, v) = DOMAIN s \cup {Len(s) + 1}
         /\ Len(s) \in Nat /\ Len(s) + 1 \notin DOMAIN s
         /\ \A i \in DOMAIN s : Append(s, v)[i] = s[i]
         /\ Append(s, v)[Len(s) + 1] = v
OBVIOUS

LEMMA ReceiveStep == ASSUME IInv, Receive PROVE IInv'
<1>1. /\ pc = "receive" /\ pc' = "check" /\ channel # <<>>
      /\ gathered' = Append(gathered, Head(channel)) /\ channel' = Tail(channel)
      /\ UNCHANGED <<request, cursor, loaded, asked, worker, expired, outcome>>
  BY DEF Receive
<1>2. gathered \in Seq(Peer) /\ channel \in Seq(Peer)
  BY DEF IInv, TypeOK
<1>3. gathered' \in Seq(Peer) /\ channel' \in Seq(Peer) /\ Sent' = Sent
  BY <1>1, <1>2, MoveHead DEF Sent
<1>4. TypeOK'
  BY <1>1, <1>3 DEF IInv, TypeOK, outcome
<1>5. LoadInv' /\ ModeInv' /\ AskedInv'
  BY <1>1 DEF IInv, LoadInv, ModeInv, AskedInv, Distinct
<1>6. Fanned /\ Fanned' /\ request.mode = "threads"
  BY <1>1 DEF IInv, ModeInv, Fanned, Early
<1>7. IdleInv' /\ TasksInv' /\ EndInv'
  BY <1>1, <1>6 DEF IdleInv, TasksInv, EndInv
<1>8. SentInv'
  BY <1>1, <1>3, <1>6 DEF IInv, SentInv, Distinct, Among
<1>9. OutcomeInv'
  BY <1>1, <1>6 DEF IInv, OutcomeInv, outcome
<1>. QED BY <1>4, <1>5, <1>7, <1>8, <1>9 DEF IInv
LEMMA AwaitStep == ASSUME IInv, AwaitEnds PROVE IInv'
<1>1. /\ pc = "await" /\ pc' = "await" /\ cursor <= Len(asked) /\ cursor' = cursor + 1
      /\ worker[Awaited] # "running"
      /\ gathered' = IF worker[Awaited] = "panicked" THEN gathered
                                                     ELSE Append(gathered, Awaited)
      /\ UNCHANGED <<request, loaded, asked, worker, channel, expired, outcome>>
  BY DEF AwaitEnds, workers
<1>2. /\ gathered \in Seq(Peer) /\ asked \in Seq([peer : Peer, budget : Nat])
      /\ worker \in [Peer -> {"none", "running", "answered", "refused", "panicked"}]
      /\ cursor \in 1..Len(asked) /\ Len(asked) \in Nat /\ Len(asked) <= Len(Peers)
      /\ Len(Peers) \in Nat /\ DOMAIN asked = 1..Len(asked)
  BY <1>1, PeersAre DEF IInv, TypeOK, AskedInv
<1>3. Awaited \in Peer /\ worker[Awaited] \in {"answered", "refused", "panicked"}
  <2>2. Awaited \in Peer
    BY <1>2, AskedIs DEF IInv, Awaited
  <2>3. worker[Awaited] # "none"
    BY <1>2, <2>2 DEF IInv, AskedInv, Awaited
  <2>. QED BY <1>1, <1>2, <2>2, <2>3
<1>4. Fanned /\ Fanned' /\ request.mode = "tasks" /\ channel = <<>>
  BY <1>1 DEF IInv, ModeInv, SentInv, Fanned, Early
<1>5. /\ \A k \in 1..cursor - 1 :
            worker[asked[k].peer] = "panicked" \/ Among(asked[k].peer, gathered)
      /\ \A j \in DOMAIN gathered : \E k \in 1..cursor - 1 : asked[k].peer = gathered[j]
  BY <1>4 DEF IInv, TasksInv
<1>6. ~Among(Awaited, gathered)
  <2>1. \A k \in 1..cursor - 1 : k \in DOMAIN asked /\ k # cursor
    BY <1>2
  <2>2. \A k \in 1..cursor - 1 : asked[k].peer # Awaited
    BY <1>2, <2>1 DEF IInv, AskedInv, Awaited
  <2>. QED BY <1>5, <2>2 DEF Among
<1>7. Sent = gathered /\ Sent' = gathered'
  <2>1. gathered' \in Seq(Peer)
    BY <1>1, <1>2, <1>3
  <2>. QED BY <1>1, <1>2, <1>4, <2>1 DEF Sent
<1>8. Distinct(gathered) /\ \A i \in DOMAIN gathered : worker[gathered[i]] \in {"answered", "refused"}
  BY <1>7 DEF IInv, SentInv
<1>9. /\ gathered' \in Seq(Peer) /\ Distinct(gathered')
      /\ \A i \in DOMAIN gathered' : worker[gathered'[i]] \in {"answered", "refused"}
      /\ \A p : Among(p, gathered) => Among(p, gathered')
      /\ \A i \in DOMAIN gathered' : Among(gathered'[i], gathered) \/ gathered'[i] = Awaited
      /\ worker[Awaited] = "panicked" \/ Among(Awaited, gathered')
  <2>1. CASE worker[Awaited] = "panicked"
    BY <1>1, <1>2, <1>8, <2>1 DEF Among
  <2>2. CASE worker[Awaited] # "panicked"
    <3>1. gathered' = Append(gathered, Awaited)
      BY <1>1, <2>2
    <3>. DEFINE n == Len(gathered) + 1
    <3>2. /\ gathered' \in Seq(Peer) /\ DOMAIN gathered' = DOMAIN gathered \cup {n}
          /\ n \notin DOMAIN gathered /\ gathered'[n] = Awaited
          /\ \A i \in DOMAIN gathered : gathered'[i] = gathered[i]
      BY <1>2, <1>3, <3>1, Appended
    <3>. HIDE DEF n
    <3>3. Distinct(gathered')
      BY <1>6, <1>8, <3>2 DEF Distinct, Among
    <3>4. \A i \in DOMAIN gathered' : worker[gathered'[i]] \in {"answered", "refused"}
      BY <1>3, <1>8, <2>2, <3>2
    <3>. QED BY <3>2, <3>3, <3>4 DEF Among
  <2>. QED BY <2>1, <2>2
<1>10. cursor' - 1 = cursor /\ cursor' \in 1..Len(Peers) + 1 /\ cursor' <= Len(asked) + 1
       /\ \A k \in 1..cursor : k \in 1..cursor - 1 \/ k = cursor
  BY <1>1, <1>2
<1>11. TypeOK'
  BY <1>1, <1>9, <1>10 DEF IInv, TypeOK, outcome
<1>12. LoadInv' /\ ModeInv' /\ AskedInv'
  BY <1>1 DEF IInv, LoadInv, ModeInv, AskedInv, Distinct
<1>13. IdleInv' /\ EndInv'
  BY <1>1, <1>4 DEF IdleInv, EndInv
<1>14. SentInv'
  BY <1>1, <1>4, <1>7, <1>9 DEF SentInv, Distinct
<1>15. TasksInv'
  <2>1. \A k \in 1..cursor : worker[asked[k].peer] = "panicked" \/ Among(asked[k].peer, gathered')
    BY <1>5, <1>9, <1>10 DEF Awaited
  <2>2. \A j \in DOMAIN gathered' : \E k \in 1..cursor : asked[k].peer = gathered'[j]
    <3>1. \A p : Among(p, gathered) => \E k \in 1..cursor - 1 : asked[k].peer = p
      BY <1>5 DEF Among
    <3>2. cursor \in 1..cursor /\ \A k \in 1..cursor - 1 : k \in 1..cursor
      BY <1>2
    <3>. QED BY <1>9, <3>1, <3>2 DEF Awaited
  <2>3. \A p : Among(p, gathered)' <=> Among(p, gathered')
    BY DEF Among
  <2>. QED BY <1>1, <1>10, <2>1, <2>2 DEF TasksInv, Among
<1>16. OutcomeInv'
  BY <1>1, <1>4 DEF IInv, OutcomeInv, outcome
<1>. QED BY <1>11, <1>12, <1>13, <1>14, <1>15, <1>16 DEF IInv

(* What was gathered is not changed by a worker that ends later.           *)
LEMMA RemoteKept ==
  ASSUME IInv, NEW p \in Peer, worker[p] = "running", NEW how,
         worker' = [worker EXCEPT ![p] = how], UNCHANGED <<asked, gathered>>
  PROVE  RemoteHits' = RemoteHits
<1>1. \A i \in DOMAIN gathered : gathered[i] \in Peer /\ gathered[i] # p
  BY GatheredAsked
<1>2. \A q \in Peer : q # p => worker'[q] = worker[q]
  BY DEF IInv, TypeOK
<1>3. \A q : BudgetOf(q)' = BudgetOf(q)
  BY DEF BudgetOf
<1>4. \A i \in DOMAIN gathered : Batch(gathered[i])' = Batch(gathered[i])
  BY <1>1, <1>2, <1>3 DEF Batch
<1>. QED BY <1>4 DEF RemoteHits
LEMMA WorkStep == ASSUME IInv, NEW p \in Peer, Work(p) PROVE IInv'
<1>1. PICK how \in Endings :
        /\ worker[p] = "running" /\ worker' = [worker EXCEPT ![p] = how]
        /\ \/ /\ request.mode = "threads"
              /\ channel' = IF how = "panicked" THEN channel ELSE Append(channel, p)
           \/ request.mode = "tasks" /\ channel' = channel
  BY DEF Work, ThreadEnds, TaskEnds
<1>2. UNCHANGED <<request, pc, cursor, loaded, asked, expired, gathered, outcome>>
  BY DEF Work, ThreadEnds, TaskEnds
<1>3. /\ gathered \in Seq(Peer) /\ channel \in Seq(Peer)
      /\ worker \in [Peer -> {"none", "running", "answered", "refused", "panicked"}]
  BY DEF IInv, TypeOK
<1>4. /\ how \in {"answered", "refused", "panicked"} /\ worker'[p] = how
      /\ \A q \in Peer : q # p => worker'[q] = worker[q]
      /\ worker' \in [Peer -> {"none", "running", "answered", "refused", "panicked"}]
  BY <1>1, <1>3 DEF Endings
<1>5. PICK m \in DOMAIN asked : asked[m].peer = p
  BY <1>1 DEF IInv, AskedInv
<1>6. Fanned /\ Fanned'
  <2>1. Fanned
    BY <1>1 DEF IInv, IdleInv
  <2>. QED BY <1>2, <2>1 DEF Fanned
<1>7. Sent \in Seq(Peer) /\ \A i \in DOMAIN Sent : Sent[i] \in Peer
  <2>1. Sent \in Seq(Peer)
    BY <1>3 DEF Sent
  <2>. QED BY <2>1
<1>8. /\ Distinct(Sent) /\ \A i \in DOMAIN Sent : worker[Sent[i]] \in {"answered", "refused"}
  BY DEF IInv, SentInv
<1>9. \A i \in DOMAIN Sent : Sent[i] # p
  BY <1>1, <1>8
<1>10. \A i \in DOMAIN Sent : worker'[Sent[i]] \in {"answered", "refused"}
  BY <1>4, <1>7, <1>8, <1>9
<1>11. TypeOK' /\ LoadInv' /\ ModeInv' /\ IdleInv'
  <2>1. channel' \in Seq(Peer)
    BY <1>1, <1>3, Appended
  <2>. QED BY <1>2, <1>4, <1>6, <2>1
           DEF IInv, TypeOK, LoadInv, ModeInv, IdleInv, Distinct, outcome
<1>12. AskedInv'
  <2>1. \A q \in Peer : worker'[q] # "none" <=> worker[q] # "none"
    BY <1>1, <1>4
  <2>. QED BY <1>2, <2>1 DEF IInv, AskedInv
<1>13. SentInv'
  <2>1. CASE channel' = channel
    <3>1. Sent' = Sent
      BY <1>2, <2>1 DEF Sent
    <3>2. request.mode = "threads" =>
            \A q \in Peer : worker'[q] \in {"answered", "refused"} => Among(q, Sent)
      <4>1. ASSUME request.mode = "threads" PROVE how = "panicked"
        <5>1. channel # Append(channel, p)
          BY <1>3, Appended
        <5>. QED BY <1>1, <2>1, <4>1, <5>1
      <4>. QED BY <1>4, <4>1 DEF IInv, SentInv
    <3>. QED BY <1>2, <1>8, <1>10, <2>1, <3>1, <3>2 DEF IInv, SentInv, Distinct, Among
  <2>2. CASE channel' # channel
    <3>1. /\ request.mode = "threads" /\ channel' = Append(channel, p)
          /\ how \in {"answered", "refused"}
      BY <1>1, <1>4, <2>2
    <3>. DEFINE n == Len(Sent) + 1
    <3>2. Sent' = Append(Sent, p)
      BY <1>2, <1>3, <3>1, AppendJoin DEF Sent
    <3>3. /\ DOMAIN Sent' = DOMAIN Sent \cup {n} /\ n \notin DOMAIN Sent /\ Sent'[n] = p
          /\ \A i \in DOMAIN Sent : Sent'[i] = Sent[i]
      BY <1>7, <3>2, Appended
    <3>. HIDE DEF n
    <3>4. Distinct(Sent')
      BY <1>8, <1>9, <3>3 DEF Distinct
    <3>5. \A i \in DOMAIN Sent' : worker'[Sent'[i]] \in {"answered", "refused"}
      BY <1>4, <1>10, <3>1, <3>3
    <3>6. \A q \in Peer : worker'[q] \in {"answered", "refused"} => Among(q, Sent')
      <4>1. \A q \in Peer : worker[q] \in {"answered", "refused"} => Among(q, Sent)
        BY <3>1 DEF IInv, SentInv
      <4>. QED BY <1>4, <3>3, <4>1 DEF Among
    <3>7. \A q : Among(q, Sent)' <=> Among(q, Sent')
      BY DEF Among
    <3>. QED BY <1>2, <3>1, <3>4, <3>5, <3>6, <3>7 DEF SentInv, Distinct
  <2>. QED BY <2>1, <2>2
<1>14. TasksInv'
  <2>1. ASSUME request.mode = "tasks"
        PROVE  /\ cursor <= Len(asked) + 1
               /\ \A k \in 1..cursor - 1 :
                    worker[asked[k].peer] = "panicked" \/ Among(asked[k].peer, gathered)
               /\ \A j \in DOMAIN gathered :
                    \E k \in 1..cursor - 1 : asked[k].peer = gathered[j]
    BY <1>6, <2>1 DEF IInv, TasksInv
  <2>2. ASSUME request.mode = "tasks", NEW k \in 1..cursor - 1
        PROVE  worker'[asked[k].peer] = "panicked" \/ Among(asked[k].peer, gathered)
    <3>1. asked[k].peer \in Peer
      <4>1. k \in DOMAIN asked
        BY <2>1, <2>2, AskedIs, PeersAre DEF IInv, TypeOK
      <4>. QED BY <4>1, AskedIs DEF IInv
    <3>. QED BY <1>1, <1>4, <2>1, <2>2, <3>1
  <2>. QED BY <1>2, <2>1, <2>2 DEF TasksInv, Among
<1>15. EndInv'
  <2>1. ASSUME pc \in {"merge", "done"}, ~request.deadline PROVE FALSE
    <3>1. worker[p] = "panicked" \/ Among(p, gathered)
      BY <1>5, <2>1 DEF IInv, EndInv
    <3>. QED BY <1>1, <3>1, GatheredAsked DEF Among
  <2>. QED BY <1>2, <2>1 DEF EndInv
<1>16. OutcomeInv'
  <2>1. RemoteHits' = RemoteHits
    BY <1>1, <1>2, RemoteKept
  <2>2. LocalHits' = LocalHits
    BY <1>2 DEF LocalHits
  <2>. QED BY <1>2, <1>6, <2>1, <2>2 DEF IInv, OutcomeInv, outcome
<1>. QED BY <1>11, <1>12, <1>13, <1>14, <1>15, <1>16 DEF IInv

LEMMA LocalStep == ASSUME IInv, LocalOnly PROVE IInv'
<1>1. /\ pc = "local" /\ pc' = "done" /\ request.mode = "local"
      /\ result' = Prefix(LocalHits, request.maxTotal)
      /\ UNCHANGED <<request, cursor, loaded, asked, workers, expired, gathered,
                     totalHits, stats>>
  BY DEF LocalOnly
<1>2. ~Fanned /\ ~Fanned'
  BY <1>1 DEF Fanned
<1>3. TypeOK'
  <2>1. request.maxTotal \in Nat /\ LocalHits \in Seq(Hit)
    BY RequestIs, LocalIs DEF IInv, TypeOK
  <2>2. result' \in Seq(Hit)
    BY <1>1, <2>1, PrefixIs
  <2>. QED BY <1>1, <2>2 DEF IInv, TypeOK, Hit, workers
<1>4. LoadInv' /\ ModeInv' /\ AskedInv' /\ IdleInv'
  BY <1>1, <1>2 DEF IInv, LoadInv, ModeInv, AskedInv, IdleInv, Distinct, workers
<1>5. SentInv'
  BY <1>1 DEF IInv, SentInv, Sent, Distinct, Among, workers
<1>6. EndInv' /\ TasksInv'
  <2>1. asked = <<>>
    BY <1>2 DEF IInv, IdleInv
  <2>. QED BY <1>1, <1>2, <2>1 DEF EndInv, TasksInv
<1>7. OutcomeInv'
  <2>1. LocalHits' = LocalHits
    BY <1>1 DEF LocalHits
  <2>. QED BY <1>1, <1>2, <2>1 DEF OutcomeInv
<1>. QED BY <1>3, <1>4, <1>5, <1>6, <1>7 DEF IInv
LEMMA FanOutStep == ASSUME IInv, FanOut PROVE IInv'
<1>1. PICK score \in [Peer -> Score] :
        LET scored == {i \in DOMAIN loaded : score[loaded[i]] >= request.minSimilarity}
            ranked == Ordered(loaded, scored, [i \in scored |-> score[loaded[i]]])
            shares == Shares([i \in DOMAIN ranked |-> score[ranked[i]]],
                             request.maxRemote, MinPerPeer, MaxPeers)
        IN  asked' = [i \in DOMAIN shares |->
                        [peer |-> ranked[i], budget |-> shares[i]]]
  BY DEF FanOut
<1>. DEFINE scored == {i \in DOMAIN loaded : score[loaded[i]] >= request.minSimilarity}
            keys == [i \in scored |-> score[loaded[i]]]
            ranked == Ordered(loaded, scored, keys)
            s == [i \in DOMAIN ranked |-> score[ranked[i]]]
            shares == Shares(s, request.maxRemote, MinPerPeer, MaxPeers)
            c == Cardinality(scored)
<1>2. asked' = [i \in DOMAIN shares |-> [peer |-> ranked[i], budget |-> shares[i]]]
  BY <1>1
<1>3. /\ pc = "local" /\ pc' \in {"check", "await"} /\ cursor' = 1
      /\ request.mode # "local"
      /\ pc' = "check" => request.mode = "threads"
      /\ pc' = "await" => request.mode # "threads"
      /\ UNCHANGED <<request, loaded, channel, expired, gathered, totalHits, result>>
      /\ stats' = [NoStats EXCEPT !.attempted = Len(asked')]
      /\ worker' = [p \in Peer |-> IF \E i \in DOMAIN asked' : asked'[i].peer = p
                                     THEN "running" ELSE "none"]
  BY DEF FanOut
<1>4. /\ request.maxRemote \in Nat /\ MinPerPeer \in Nat /\ MaxPeers \in Nat
      /\ request.mode \in {"threads", "tasks", "local"}
      /\ \A p \in Peer : score[p] \in Int
  BY RequestIs, MembraneAssumption DEF IInv, TypeOK
<1>5. /\ loaded \in Seq(Peer) /\ \A i \in DOMAIN loaded : loaded[i] \in Peer
      /\ Len(loaded) \in Nat
  BY DEF IInv, TypeOK
<1>6. Distinct(loaded) /\ Len(loaded) <= Len(Peers) /\ Len(Peers) \in Nat
  BY PeersAre DEF IInv, LoadInv
<1>7. scored \in SUBSET DOMAIN loaded /\ keys \in [scored -> Int]
  <2>1. \A i \in scored : score[loaded[i]] \in Int
    BY <1>4, <1>5
  <2>. HIDE DEF scored
  <2>2. keys \in [scored -> Int]
    BY <2>1
  <2>. QED BY <2>2 DEF scored
<1>8. \A i \in scored : keys[i] = score[loaded[i]] /\ i \in DOMAIN loaded
  OBVIOUS
<1>. HIDE DEF scored, keys
<1>9. /\ ranked \in Seq(Peer) /\ Len(ranked) = c /\ c <= Len(loaded)
      /\ \E at : /\ Arranges(at, scored, keys) /\ \A k \in 1..c : ranked[k] = loaded[at[k]]
  BY <1>5, <1>7, OrderedItems
<1>10. PICK at : Arranges(at, scored, keys) /\ \A k \in 1..c : ranked[k] = loaded[at[k]]
  BY <1>9
<1>. HIDE DEF ranked
<1>11. /\ c \in Nat /\ DOMAIN ranked = 1..c /\ \A k \in 1..c : at[k] \in scored
       /\ \A k \in 1..c : ranked[k] \in Peer
       /\ \A j, k \in 1..c : at[j] = at[k] => j = k
       /\ \A j, k \in 1..c : j < k => GoesBefore(keys, at[j], at[k])
  <2>1. c \in Nat
    BY <1>9
  <2>. QED BY <1>9, <1>10, <2>1 DEF Arranges, OneToOne
<1>. HIDE DEF c
<1>12. s \in Seq(Int) /\ Len(s) = c /\ \A k \in 1..c : s[k] = keys[at[k]] /\ keys[at[k]] \in Int
  <2>1. \A k \in 1..c : score[ranked[k]] \in Int /\ score[ranked[k]] = keys[at[k]]
    BY <1>4, <1>8, <1>10, <1>11
  <2>. QED BY <1>11, <2>1
<1>. HIDE DEF s
<1>13. Descending(s)
  <2>1. DOMAIN s = 1..c
    BY <1>11, <1>12
  <2>2. \A j, k \in 1..c : j < k => keys[at[j]] >= keys[at[k]]
    <3>1. ASSUME NEW j \in 1..c, NEW k \in 1..c, j < k PROVE keys[at[j]] >= keys[at[k]]
      <4>1. keys[at[j]] \in Int /\ keys[at[k]] \in Int /\ GoesBefore(keys, at[j], at[k])
        BY <1>11, <1>12, <3>1
      <4>. QED BY <4>1 DEF GoesBefore
    <3>. QED BY <3>1
  <2>. QED BY <1>12, <2>1, <2>2 DEF Descending
<1>14. /\ shares \in Seq(Nat) /\ Len(shares) <= MaxPeers /\ Len(shares) <= c
       /\ Total(shares) <= request.maxRemote
  BY <1>4, <1>12, <1>13, SharesSound
<1>. HIDE DEF shares
<1>15. /\ Len(shares) \in Nat /\ DOMAIN shares = 1..Len(shares)
       /\ \A i \in DOMAIN shares : i \in 1..c /\ shares[i] \in Nat
  BY <1>11, <1>14
<1>16. /\ asked' \in Seq([peer : Peer, budget : Nat]) /\ Len(asked') = Len(shares)
       /\ DOMAIN asked' = DOMAIN shares
       /\ \A i \in DOMAIN shares : asked'[i].peer = ranked[i] /\ asked'[i].budget = shares[i]
  BY <1>2, <1>11, <1>15
<1>17. \A i, j \in DOMAIN asked' : asked'[i].peer = asked'[j].peer => i = j
  <2>1. \A i, j \in 1..c : ranked[i] = ranked[j] => i = j
    BY <1>6, <1>8, <1>10, <1>11 DEF Distinct
  <2>. SUFFICES ASSUME NEW i \in DOMAIN shares, NEW j \in DOMAIN shares,
                       asked'[i].peer = asked'[j].peer
                PROVE  i = j
    BY <1>16
  <2>2. i \in 1..c /\ j \in 1..c /\ ranked[i] = ranked[j]
    BY <1>15, <1>16
  <2>. QED BY <2>1, <2>2
<1>18. Total([i \in DOMAIN asked' |-> asked'[i].budget]) <= request.maxRemote
  <2>1. shares = [i \in DOMAIN shares |-> shares[i]]
    BY <1>14
  <2>2. [i \in DOMAIN asked' |-> asked'[i].budget] = [i \in DOMAIN shares |-> shares[i]]
    BY <1>16
  <2>. QED BY <1>14, <2>1, <2>2
<1>19. ~Fanned /\ Fanned'
  BY <1>3 DEF Fanned, Early
<1>20. /\ gathered = <<>> /\ channel = <<>> /\ totalHits = [p \in Peer |-> 0]
       /\ result = <<>> /\ expired \in BOOLEAN
  BY <1>3, <1>19 DEF IInv, IdleInv, OutcomeInv, TypeOK
<1>21. \A p \in Peer : /\ worker'[p] \in {"running", "none"}
                       /\ worker'[p] # "none" <=> \E i \in DOMAIN asked' : asked'[i].peer = p
  BY <1>3
<1>22. TypeOK'
  <2>1. stats' \in Stats
    BY <1>3, <1>15, <1>16 DEF NoStats, Stats
  <2>2. cursor' \in 1..Len(Peers) + 1
    BY <1>3, <1>6
  <2>3. worker' \in [Peer -> {"none", "running", "answered", "refused", "panicked"}]
    BY <1>3
  <2>. QED BY <1>3, <1>16, <2>1, <2>2, <2>3 DEF IInv, TypeOK
<1>23. LoadInv' /\ ModeInv' /\ IdleInv'
  BY <1>3, <1>4, <1>19 DEF IInv, LoadInv, ModeInv, IdleInv, Distinct
<1>24. AskedInv'
  <2>1. Len(asked') <= MaxPeers /\ Len(asked') <= Len(Peers)
    BY <1>5, <1>6, <1>9, <1>11, <1>14, <1>15, <1>16
  <2>. QED BY <1>3, <1>17, <1>18, <1>21, <2>1 DEF AskedInv
<1>25. SentInv'
  <2>1. Sent' = <<>>
    BY <1>3, <1>20 DEF Sent
  <2>. QED BY <1>3, <1>20, <1>21, <2>1 DEF SentInv, Distinct
<1>26. TasksInv' /\ EndInv'
  BY <1>3, <1>15, <1>16, <1>20 DEF TasksInv, EndInv
<1>27. OutcomeInv'
  BY <1>3, <1>19, <1>20 DEF OutcomeInv, NoStats
<1>. QED BY <1>22, <1>23, <1>24, <1>25, <1>26, <1>27 DEF IInv

----------------------------------------------------------------------------
(* What the peers bring: for each peer gathered its batch.                 *)

Batches == [i \in DOMAIN gathered |-> Batch(gathered[i])]

LEMMA BatchIs ==
  ASSUME IInv, NEW j \in DOMAIN gathered
  PROVE  /\ Batch(gathered[j]) \in Seq(Hit)
         /\ Len(Batch(gathered[j])) \in Nat
         /\ Len(Batch(gathered[j])) <= asked[AskedAt[j]].budget
         /\ \A i \in 1..Len(Batch(gathered[j])) :
              Batch(gathered[j])[i].origin = gathered[j] /\ Batch(gathered[j])[i].shareable
<1>. DEFINE p == gathered[j]
            m == AskedAt[j]
            batch == QueryFiltered(p, BudgetOf(p), ShareableOnly)
<1>1. p \in Peer /\ m \in DOMAIN asked /\ asked[m].peer = p
  BY GatheredAsked, GatheredAt
<1>. HIDE DEF p, m
<1>2. BudgetOf(p) = asked[m].budget
  <2>1. \A i \in DOMAIN asked : asked[i].peer = p => i = m
    BY <1>1 DEF IInv, AskedInv
  <2>2. (CHOOSE i \in DOMAIN asked : asked[i].peer = p) = m
    BY <1>1, <2>1
  <2>. QED BY <2>2 DEF BudgetOf
<1>3. asked[m].budget \in Nat
  BY <1>1, AskedIs DEF IInv
<1>4. CASE worker[p] = "answered"
  <2>1. Batch(p) = batch
    BY <1>4 DEF Batch
  <2>2. BudgetOf(p) \in Nat /\ p \in Peer \cup {Local}
    BY <1>1, <1>2, <1>3
  <2>3. /\ batch \in Seq(Hit) /\ Len(batch) \in Nat /\ Len(batch) <= BudgetOf(p)
        /\ \A i \in 1..Len(batch) : batch[i].origin = p /\ batch[i].shareable \in ShareableOnly
    BY <2>2, QueryIs
  <2>. HIDE DEF batch
  <2>. QED BY <1>2, <2>1, <2>3 DEF ShareableOnly, p, m
<1>5. CASE worker[p] # "answered"
  <2>1. Batch(p) = <<>>
    BY <1>5 DEF Batch
  <2>. QED BY <1>3, <2>1 DEF p, m
<1>. QED BY <1>4, <1>5

LEMMA RemoteIs ==
  ASSUME IInv
  PROVE  /\ RemoteHits \in Seq(Hit) /\ Batches \in Seq(Seq(Hit))
         /\ Len(Batches) = Len(gathered)
         /\ Lengths(Batches) \in Seq(Nat) /\ Len(Lengths(Batches)) = Len(gathered)
         /\ Len(RemoteHits) = Total(Lengths(Batches))
         /\ \E at : Lays(at, Batches, RemoteHits)
<1>1. Len(gathered) \in Nat /\ DOMAIN gathered = 1..Len(gathered)
  BY GatheredAt
<1>2. Batches \in Seq(Seq(Hit)) /\ Len(Batches) = Len(gathered)
  <2>1. \A j \in DOMAIN gathered : Batch(gathered[j]) \in Seq(Hit)
    BY BatchIs
  <2>. QED BY <1>1, <2>1 DEF Batches
<1>3. RemoteHits = Flattened(Batches)
  BY DEF RemoteHits, Batches, FlattenSeq, Flattened
<1>. QED BY <1>2, <1>3, FlattenIs

LEMMA MergeStep == ASSUME IInv, Merge PROVE IInv'
<1>1. /\ pc = "merge" /\ pc' = "done" /\ stats' = Counted
      /\ totalHits' = [p \in Peer |-> totalHits[p] + HitsFrom(p, RemoteHits)]
      /\ result' = Prefix(BySimilarity(LocalHits \o RemoteHits), request.maxTotal)
      /\ UNCHANGED <<request, cursor, loaded, asked, workers, expired, gathered>>
  BY DEF Merge
<1>2. Fanned /\ Fanned' /\ request.mode # "local"
  BY <1>1, WaitingFanned DEF IInv, Fanned, Early
<1>3. /\ stats = [attempted |-> Len(asked), completed |-> 0, dropped |-> 0]
      /\ totalHits = [p \in Peer |-> 0]
  BY <1>1, <1>2 DEF IInv, OutcomeInv
<1>4. /\ Len(gathered) \in Nat /\ Len(asked) \in Nat /\ Len(gathered) <= Len(asked)
      /\ RemoteHits \in Seq(Hit) /\ LocalHits \in Seq(Hit) /\ request.maxTotal \in Nat
  BY GatheredAt, RemoteIs, LocalIs, RequestIs DEF IInv, TypeOK
<1>5. \A p : HitsFrom(p, RemoteHits) \in Nat
  <2>1. Len(RemoteHits) \in Nat /\ DOMAIN RemoteHits = 1..Len(RemoteHits)
    BY <1>4
  <2>. QED BY <2>1, CountKept DEF HitsFrom
<1>6. totalHits' = [p \in Peer |-> HitsFrom(p, RemoteHits)]
  BY <1>1, <1>3, <1>5
<1>7. stats' = [attempted |-> Len(asked), completed |-> Len(gathered),
                dropped |-> Len(asked) - Len(gathered)]
  BY <1>1, <1>3 DEF Counted
<1>8. TypeOK'
  <2>1. totalHits' \in [Peer -> Nat]
    BY <1>5, <1>6
  <2>2. stats' \in Stats
    BY <1>4, <1>7 DEF Stats
  <2>3. result' \in Seq(Hit)
    <3>1. LocalHits \o RemoteHits \in Seq(Hit)
      BY <1>4
    <3>2. BySimilarity(LocalHits \o RemoteHits) \in Seq(Hit)
      BY <3>1, SortedHits
    <3>. QED BY <1>1, <1>4, <3>2, PrefixIs
  <2>. QED BY <1>1, <2>1, <2>2, <2>3 DEF IInv, TypeOK, workers, Hit
<1>9. LoadInv' /\ ModeInv' /\ IdleInv' /\ AskedInv'
  BY <1>1, <1>2 DEF IInv, LoadInv, ModeInv, IdleInv, AskedInv, Distinct, workers
<1>10. SentInv'
  BY <1>1 DEF IInv, SentInv, Sent, Distinct, Among, workers
<1>11. TasksInv' /\ EndInv'
  BY <1>1, <1>2 DEF IInv, TasksInv, EndInv, Among, workers
<1>12. OutcomeInv'
  <2>1. RemoteHits' = RemoteHits /\ LocalHits' = LocalHits
    BY <1>1 DEF RemoteHits, LocalHits, Batch, BudgetOf, workers
  <2>. QED BY <1>1, <1>2, <1>6, <1>7, <2>1 DEF OutcomeInv
<1>. QED BY <1>8, <1>9, <1>10, <1>11, <1>12 DEF IInv

(* The invariant holds in every reachable state.                           *)
THEOREM Invariant == Spec => []IInv
<1>1. Init => IInv
  BY Starts
<1>2. IInv /\ [Next]_vars => IInv'
  <2>. SUFFICES ASSUME IInv, [Next]_vars PROVE IInv'
    OBVIOUS
  <2>1. CASE Collect
    BY <2>1, EarlyStep, LocalStep, FanOutStep, StopStep, ReceiveStep, AwaitStep, MergeStep
       DEF Collect
  <2>2. CASE Expire
    BY <2>2, ExpireStep
  <2>3. CASE \E p \in Peer : Work(p)
    BY <2>3, WorkStep
  <2>4. CASE UNCHANGED vars
    <3>. USE <2>4 DEF vars, IInv
    <3>1. RemoteHits' = RemoteHits /\ LocalHits' = LocalHits
      BY DEF RemoteHits, LocalHits, Batch, BudgetOf
    <3>2. TypeOK' /\ LoadInv' /\ ModeInv' /\ AskedInv'
      BY DEF TypeOK, LoadInv, ModeInv, AskedInv, Distinct
    <3>3. IdleInv' /\ OutcomeInv' /\ (Fanned' <=> Fanned)
      BY <3>1 DEF IdleInv, OutcomeInv, Fanned
    <3>4. SentInv' /\ TasksInv' /\ EndInv'
      BY DEF SentInv, Sent, TasksInv, EndInv, Distinct, Among, Fanned
    <3>. QED BY <3>2, <3>3, <3>4
  <2>. QED BY <2>1, <2>2, <2>3, <2>4 DEF Next
<1>. QED BY <1>1, <1>2, PTL DEF Spec
----------------------------------------------------------------------------
(* The properties follow.                                                  *)

LEMMA NobodyLost == ASSUME IInv PROVE NobodyElseLost
<1>. SUFFICES ASSUME pc = "done", ~request.deadline
              PROVE  NobodyElseLost
  BY DEF NobodyElseLost
<1>. DEFINE panicked == {i \in DOMAIN asked : worker[asked[i].peer] = "panicked"}
            S == DOMAIN gathered
            D == DOMAIN asked
            T == D \ panicked
<1>1. \A i \in T : \E j \in S : gathered[j] = asked[i].peer
  BY DEF IInv, EndInv, Among
<1>2. /\ AskedAt \in [S -> D] /\ OneToOne(AskedAt, S)
      /\ \A j \in S : asked[AskedAt[j]].peer = gathered[j]
      /\ Len(gathered) \in Nat /\ Len(asked) \in Nat
      /\ S = 1..Len(gathered) /\ D = 1..Len(asked)
  BY GatheredAt
<1>3. \A j \in S : AskedAt[j] \in T
  BY <1>2, GatheredAsked
<1>4. \A i \in T : \E j \in S : AskedAt[j] = i
  BY <1>1, <1>2 DEF IInv, AskedInv
<1>5. /\ IsFiniteSet(D) /\ Cardinality(D) = Len(asked)
      /\ IsFiniteSet(S) /\ Cardinality(S) = Len(gathered)
  BY <1>2, CountPlaces
<1>6. panicked \subseteq D
  OBVIOUS
<1>. HIDE DEF panicked
<1>7. /\ IsFiniteSet(panicked) /\ IsFiniteSet(T)
      /\ Cardinality(T) = Cardinality(D) - Cardinality(panicked)
      /\ Cardinality(panicked) \in Nat
  <2>1. D \cap panicked = panicked
    BY <1>6
  <2>. HIDE DEF D
  <2>2. /\ IsFiniteSet(D \ panicked)
        /\ Cardinality(D \ panicked) = Cardinality(D) - Cardinality(D \cap panicked)
    BY <1>5, FS_Difference
  <2>3. IsFiniteSet(panicked) /\ Cardinality(panicked) \in Nat
    BY <1>5, <1>6, FS_Subset, FS_CardinalityType
  <2>. QED BY <2>1, <2>2, <2>3
<1>8. Cardinality(S) = Cardinality(T)
  <2>. HIDE DEF S, T
  <2>1. AskedAt \in [S -> T]
    BY <1>2, <1>3
  <2>2. OneToOne(AskedAt, S) /\ IsFiniteSet(T) /\ \A i \in T : \E j \in S : AskedAt[j] = i
    BY <1>2, <1>4, <1>7
  <2>. QED BY <2>1, <2>2, CountSame
<1>9. stats = [attempted |-> Len(asked), dropped |-> Cardinality(panicked),
               completed |-> Len(asked) - Cardinality(panicked)]
  <2>1. /\ Len(gathered) = Len(asked) - Cardinality(panicked)
        /\ Len(asked) - Len(gathered) = Cardinality(panicked)
    BY <1>2, <1>5, <1>7, <1>8
  <2>2. CASE Fanned
    BY <2>1, <2>2 DEF IInv, OutcomeInv
  <2>3. CASE ~Fanned
    <3>1. asked = <<>> /\ gathered = <<>> /\ stats = NoStats
      BY <2>3 DEF IInv, IdleInv
    <3>2. Len(asked) = 0 /\ Len(gathered) = 0
      BY <3>1
    <3>. QED BY <2>1, <3>1, <3>2 DEF NoStats
  <2>. QED BY <2>2, <2>3
<1>. QED BY <1>1, <1>9 DEF NobodyElseLost, panicked

(* A sorted and truncated sequence of hits.                                *)
IsCut(r, all, n) ==
  /\ Len(r) \in Nat /\ Len(all) \in Nat /\ Len(r) <= Len(all)
  /\ DOMAIN r = 1..Len(r) /\ DOMAIN all = 1..Len(all)
  /\ Len(r) = Len(Prefix(all, n))
  /\ \E at : /\ at \in [1..Len(all) -> 1..Len(all)]
             /\ OneToOne(at, 1..Len(all))
             /\ \A y \in 1..Len(all) : \E k \in 1..Len(all) : at[k] = y
             /\ \A j, k \in 1..Len(all) :
                  j < k => all[at[j]].similarity >= all[at[k]].similarity
             /\ \A k \in 1..Len(r) : r[k] = all[at[k]]

LEMMA CutHits ==
  ASSUME NEW all \in Seq(Hit), NEW n \in Nat
  PROVE  IsCut(Prefix(BySimilarity(all), n), all, n)
<1>. DEFINE D == DOMAIN all
            keys == [i \in D |-> all[i].similarity]
            best == BySimilarity(all)
            r == Prefix(best, n)
            N == Len(all)
<1>1. /\ best \in Seq(Hit) /\ Len(best) = N
      /\ \E at : Arranges(at, D, keys) /\ \A k \in 1..N : best[k] = all[at[k]]
  BY SortedHits
<1>2. /\ N \in Nat /\ D = 1..N
      /\ \A i \in D : keys[i] = all[i].similarity
  OBVIOUS
<1>3. \A i \in D : keys[i] \in Int
  <2>1. \A i \in D : all[i] \in Hit
    OBVIOUS
  <2>2. \A h \in Hit : h.similarity \in Int
    BY DEF Hit
  <2>. QED BY <1>2, <2>1, <2>2
<1>4. Cardinality(D) = N
  BY <1>2, CountPlaces
<1>. HIDE DEF best, keys, r
<1>5. /\ r \in Seq(Hit) /\ Len(r) \in Nat /\ Len(r) <= Len(best)
      /\ Len(r) = IF n < Len(best) THEN n ELSE Len(best)
      /\ \A i \in 1..Len(r) : r[i] = best[i]
  BY <1>1, PrefixIs DEF r
<1>6. Len(Prefix(all, n)) = IF n < N THEN n ELSE N
  BY PrefixIs
<1>7. PICK at : Arranges(at, D, keys) /\ \A k \in 1..N : best[k] = all[at[k]]
  BY <1>1
<1>. HIDE DEF N, D
<1>8. /\ at \in [1..N -> 1..N] /\ OneToOne(at, 1..N)
      /\ \A y \in 1..N : \E k \in 1..N : at[k] = y
      /\ \A j, k \in 1..N : j < k => GoesBefore(keys, at[j], at[k])
  BY <1>2, <1>4, <1>7 DEF Arranges
<1>9. \A j, k \in 1..N : j < k => all[at[j]].similarity >= all[at[k]].similarity
  <2>1. ASSUME NEW j \in 1..N, NEW k \in 1..N, j < k PROVE keys[at[j]] >= keys[at[k]]
    <3>1. keys[at[j]] \in Int /\ keys[at[k]] \in Int /\ GoesBefore(keys, at[j], at[k])
      BY <1>2, <1>3, <1>8, <2>1
    <3>. QED BY <3>1 DEF GoesBefore
  <2>2. \A j \in 1..N : keys[at[j]] = all[at[j]].similarity
    BY <1>2, <1>8
  <2>. QED BY <2>1, <2>2
<1>10. \A k \in 1..Len(r) : k \in 1..N /\ r[k] = all[at[k]]
  BY <1>1, <1>2, <1>5, <1>7
<1>11. DOMAIN r = 1..Len(r) /\ Len(r) <= N /\ Len(r) = Len(Prefix(all, n))
  BY <1>1, <1>5, <1>6
<1>. QED BY <1>2, <1>5, <1>8, <1>9, <1>10, <1>11 DEF IsCut, N, D, r, best

LEMMA BestKept == ASSUME IInv PROVE ResultIsBest
<1>. SUFFICES ASSUME pc = "done", request.mode # "local"
              PROVE  ResultIsBest
  BY DEF ResultIsBest
<1>. DEFINE all == LocalHits \o RemoteHits
            N == Len(all)
            M == Len(result)
            inAll(x) == {i \in DOMAIN all : all[i] = x}
            inResult(x) == {i \in DOMAIN result : result[i] = x}
<1>1. all \in Seq(Hit) /\ request.maxTotal \in Nat
  BY LocalIs, RemoteIs, RequestIs, Joined DEF IInv, TypeOK
<1>2. result = Prefix(BySimilarity(all), request.maxTotal)
  BY DEF IInv, OutcomeInv, Fanned, Early
<1>. HIDE DEF all
<1>3. IsCut(result, all, request.maxTotal)
  BY <1>1, <1>2, CutHits
<1>4. /\ M \in Nat /\ N \in Nat /\ M <= N
      /\ DOMAIN result = 1..M /\ DOMAIN all = 1..N
      /\ M = Len(Prefix(all, request.maxTotal))
  BY <1>3 DEF IsCut
<1>5. PICK at : /\ at \in [1..N -> 1..N] /\ OneToOne(at, 1..N)
                /\ \A y \in 1..N : \E k \in 1..N : at[k] = y
                /\ \A j, k \in 1..N :
                     j < k => all[at[j]].similarity >= all[at[k]].similarity
                /\ \A k \in 1..M : result[k] = all[at[k]]
  BY <1>3 DEF IsCut
<1>6. \A k \in 1..M : k \in 1..N
  BY <1>4
<1>. HIDE DEF M, N
<1>7. ASSUME NEW x
      PROVE  /\ IsFiniteSet(inAll(x)) /\ IsFiniteSet(inResult(x))
             /\ Cardinality(inAll(x)) \in Nat /\ Cardinality(inResult(x)) \in Nat
             /\ Cardinality(inResult(x)) <= Cardinality(inAll(x))
  <2>. DEFINE f == [i \in inResult(x) |-> at[i]]
              A == inAll(x)
              R == inResult(x)
  <2>1. A \in SUBSET (1..N) /\ R \in SUBSET (1..M)
    BY <1>4
  <2>2. f \in [R -> A] /\ OneToOne(f, R)
    BY <1>4, <1>5, <1>6 DEF OneToOne
  <2>. HIDE DEF A, R, f
  <2>3. /\ IsFiniteSet(A) /\ Cardinality(A) \in Nat
        /\ IsFiniteSet(R) /\ Cardinality(R) \in Nat
    BY <1>4, <2>1, CountKept
  <2>4. Cardinality(R) <= Cardinality(A)
    BY <2>2, <2>3, CountAtMost
  <2>. QED BY <2>3, <2>4 DEF A, R
<1>8. ASSUME NEW x, Cardinality(inResult(x)) < Cardinality(inAll(x)),
             NEW i \in DOMAIN result
      PROVE  result[i].similarity >= x.similarity
  <2>. DEFINE A == inAll(x)
              R == inResult(x)
              f == [y \in A |-> CHOOSE k \in 1..M : at[k] = y]
  <2>1. PICK y \in A : \A k \in 1..M : at[k] # y
    <3>. SUFFICES ASSUME \A y \in A : \E k \in 1..M : at[k] = y PROVE FALSE
      OBVIOUS
    <3>1. \A y \in A : f[y] \in 1..M /\ at[f[y]] = y
      OBVIOUS
    <3>2. \A y \in A : all[y] = x
      OBVIOUS
    <3>. HIDE DEF f
    <3>3. \A y \in A : f[y] \in R
      BY <1>4, <1>5, <3>1, <3>2
    <3>. HIDE DEF A, R
    <3>4. f \in [A -> R] /\ OneToOne(f, A)
      BY <3>1, <3>3 DEF f, OneToOne
    <3>5. Cardinality(A) <= Cardinality(R)
      BY <1>7, <3>4, CountAtMost DEF A, R
    <3>. HIDE DEF inAll, inResult
    <3>6. Cardinality(A) \in Nat /\ Cardinality(R) \in Nat
      BY <1>7 DEF A, R
    <3>7. Cardinality(R) < Cardinality(A)
      BY <1>8 DEF A, R
    <3>. QED BY <3>5, <3>6, <3>7
  <2>2. y \in 1..N /\ all[y] = x
    BY <1>4
  <2>3. PICK k \in 1..N : at[k] = y
    BY <1>5, <2>2
  <2>4. i \in 1..M /\ i \in 1..N /\ result[i] = all[at[i]]
    BY <1>4, <1>5, <1>6
  <2>5. i < k
    BY <1>4, <2>1, <2>3, <2>4
  <2>. QED BY <1>5, <2>2, <2>3, <2>4, <2>5
<1>. QED BY <1>4, <1>7, <1>8 DEF ResultIsBest, M, N, all
(* Where the hits of the peers come from.                                  *)
LEMMA RemotePlaces ==
  ASSUME IInv
  PROVE  \E at : /\ at \in [Places(Lengths(Batches)) -> 1..Len(RemoteHits)]
                 /\ OneToOne(at, Places(Lengths(Batches)))
                 /\ \A x \in 1..Len(RemoteHits) :
                      \E q \in Places(Lengths(Batches)) : at[q] = x
                 /\ \A q \in Places(Lengths(Batches)) :
                      /\ q[1] \in DOMAIN gathered
                      /\ q[2] \in 1..Len(Batch(gathered[q[1]]))
                      /\ q = <<q[1], q[2]>>
                      /\ RemoteHits[at[q]].origin = gathered[q[1]]
                      /\ RemoteHits[at[q]].shareable
                 /\ \A j \in DOMAIN gathered :
                      \A i \in 1..Len(Batch(gathered[j])) :
                        <<j, i>> \in Places(Lengths(Batches))
<1>. DEFINE l == Lengths(Batches)
<1>1. /\ Len(Batches) = Len(gathered) /\ l \in Seq(Nat) /\ Len(l) = Len(gathered)
      /\ \E at : Lays(at, Batches, RemoteHits)
  BY RemoteIs
<1>2. Len(gathered) \in Nat /\ DOMAIN gathered = 1..Len(gathered)
  BY GatheredAt
<1>3. PICK at : Lays(at, Batches, RemoteHits)
  BY <1>1
<1>4. /\ at \in [Places(l) -> 1..Len(RemoteHits)]
      /\ OneToOne(at, Places(l))
      /\ \A x \in 1..Len(RemoteHits) : \E q \in Places(l) : at[q] = x
      /\ \A q \in Places(l) : RemoteHits[at[q]] = Batches[q[1]][q[2]]
  BY <1>3 DEF Lays
<1>5. \A j \in DOMAIN gathered : Batches[j] = Batch(gathered[j]) /\ l[j] = Len(Batch(gathered[j]))
  BY <1>1, <1>2 DEF Lengths, Batches
<1>. HIDE DEF l
<1>6. \A q \in Places(l) : /\ q[1] \in DOMAIN gathered /\ q = <<q[1], q[2]>>
                           /\ q[2] \in 1..Len(Batch(gathered[q[1]]))
  BY <1>1, <1>2, <1>5 DEF Places
<1>7. \A j \in DOMAIN gathered : \A i \in 1..Len(Batch(gathered[j])) : <<j, i>> \in Places(l)
  <2>1. ASSUME NEW j \in DOMAIN gathered, NEW i \in 1..Len(Batch(gathered[j]))
        PROVE  <<j, i>> \in Places(l)
    <3>1. Len(Batch(gathered[j])) \in Nat
      BY BatchIs
    <3>2. j \in Nat /\ i \in Nat /\ j \in 1..Len(l) /\ i \in 1..l[j]
      BY <1>1, <1>2, <1>5, <2>1, <3>1
    <3>. QED BY <3>2 DEF Places
  <2>. QED BY <2>1
<1>8. ASSUME NEW q \in Places(l)
      PROVE  RemoteHits[at[q]].origin = gathered[q[1]] /\ RemoteHits[at[q]].shareable
  <2>1. RemoteHits[at[q]] = Batch(gathered[q[1]])[q[2]]
    BY <1>4, <1>5, <1>6
  <2>2. \A i \in 1..Len(Batch(gathered[q[1]])) :
           Batch(gathered[q[1]])[i].origin = gathered[q[1]] /\ Batch(gathered[q[1]])[i].shareable
    BY <1>6, BatchIs
  <2>. QED BY <1>6, <2>1, <2>2
<1>. QED BY <1>4, <1>6, <1>7, <1>8 DEF l

(* The hits of one peer: its answer, once.                                 *)
LEMMA HitsCounted ==
  ASSUME IInv, NEW p \in Peer
  PROVE  HitsFrom(p, RemoteHits) = IF Among(p, gathered) THEN Len(Batch(p)) ELSE 0
<1>. DEFINE X == {x \in DOMAIN RemoteHits : RemoteHits[x].origin = p}
            P == Places(Lengths(Batches))
<1>1. DOMAIN RemoteHits = 1..Len(RemoteHits)
  BY RemoteIs
<1>2. PICK at : /\ at \in [P -> 1..Len(RemoteHits)]
                /\ OneToOne(at, P)
                /\ \A x \in 1..Len(RemoteHits) : \E q \in P : at[q] = x
                /\ \A q \in P : /\ q[1] \in DOMAIN gathered
                                /\ q[2] \in 1..Len(Batch(gathered[q[1]]))
                                /\ q = <<q[1], q[2]>>
                                /\ RemoteHits[at[q]].origin = gathered[q[1]]
                                /\ RemoteHits[at[q]].shareable
                /\ \A j \in DOMAIN gathered :
                     \A i \in 1..Len(Batch(gathered[j])) : <<j, i>> \in P
  BY RemotePlaces
<1>. HIDE DEF P
<1>3. HitsFrom(p, RemoteHits) = Cardinality(X)
  BY DEF HitsFrom
<1>4. CASE ~Among(p, gathered)
  <2>1. X = {}
    BY <1>1, <1>2, <1>4 DEF Among
  <2>. QED BY <1>3, <1>4, <2>1, FS_EmptySet
<1>5. CASE Among(p, gathered)
  <2>1. PICK j \in DOMAIN gathered : gathered[j] = p
    BY <1>5 DEF Among
  <2>. DEFINE n == Len(Batch(p))
              T == 1..n
              f == [i \in T |-> at[<<j, i>>]]
  <2>2. n \in Nat
    BY <2>1, BatchIs
  <2>3. \A i \in T : <<j, i>> \in P
    BY <1>2, <2>1
  <2>4. \A q \in P : RemoteHits[at[q]].origin = p => q[1] = j /\ q[2] \in T
    BY <1>2, <2>1, GatheredDistinct DEF Distinct
  <2>5. IsFiniteSet(T) /\ Cardinality(T) = n
    BY <2>2, CountPlaces
  <2>. HIDE DEF T
  <2>6. \A i \in T : at[<<j, i>>] \in X
    BY <1>1, <1>2, <2>1, <2>3
  <2>7. \A x \in X : \E i \in T : at[<<j, i>>] = x
    <3>1. ASSUME NEW x \in X PROVE \E i \in T : at[<<j, i>>] = x
      <4>1. x \in 1..Len(RemoteHits) /\ RemoteHits[x].origin = p
        BY <1>1
      <4>2. PICK q \in P : at[q] = x
        BY <1>2, <4>1
      <4>3. q[1] = j /\ q[2] \in T
        BY <2>4, <4>1, <4>2
      <4>4. q = <<j, q[2]>>
        BY <1>2, <4>3
      <4>. QED BY <4>2, <4>3, <4>4
    <3>. QED BY <3>1
  <2>8. \A h, i \in T : at[<<j, h>>] = at[<<j, i>>] => h = i
    BY <1>2, <2>3 DEF OneToOne
  <2>. HIDE DEF X
  <2>9. f \in [T -> X] /\ f \in Injection(T, X) /\ f \in Surjection(T, X)
    BY <2>6, <2>7, <2>8 DEF Injection, Surjection, IsInjective
  <2>10. IsFiniteSet(X)
    BY <2>5, <2>9, FS_Surjection
  <2>11. OneToOne(f, T) /\ \A x \in X : \E i \in T : f[i] = x
    BY <2>7, <2>8 DEF OneToOne
  <2>. HIDE DEF f
  <2>12. Cardinality(T) = Cardinality(X)
    BY <2>9, <2>10, <2>11, CountSame
  <2>. QED BY <1>3, <1>5, <2>5, <2>12
<1>. QED BY <1>4, <1>5

LEMMA AnswersCounted == ASSUME IInv PROVE AnswersCountOnce
<1>. SUFFICES ASSUME pc = "done", request.mode # "local", NEW p \in Peer
              PROVE  /\ Cardinality({i \in DOMAIN gathered : gathered[i] = p}) <= 1
                     /\ totalHits[p] = IF \E i \in DOMAIN gathered : gathered[i] = p
                                         THEN Len(Batch(p)) ELSE 0
                     /\ Cardinality({i \in DOMAIN result : result[i].origin = p}) <= totalHits[p]
  BY DEF AnswersCountOnce
<1>. DEFINE all == LocalHits \o RemoteHits
            G == {i \in DOMAIN gathered : gathered[i] = p}
            R == {i \in DOMAIN result : result[i].origin = p}
            X == {x \in DOMAIN RemoteHits : RemoteHits[x].origin = p}
            c == Len(LocalHits)
<1>1. /\ totalHits = [q \in Peer |-> HitsFrom(q, RemoteHits)]
      /\ result = Prefix(BySimilarity(all), request.maxTotal)
  BY DEF IInv, OutcomeInv, Fanned, Early
<1>2. totalHits[p] = IF Among(p, gathered) THEN Len(Batch(p)) ELSE 0
  BY <1>1, HitsCounted
<1>3. Cardinality(G) <= 1
  <2>1. G = {} \/ \E i \in G : G = {i}
    BY GatheredDistinct DEF Distinct
  <2>. HIDE DEF G
  <2>2. CASE G = {}
    <3>1. Cardinality(G) = 0
      BY <2>2, FS_EmptySet
    <3>. QED BY <3>1
  <2>3. CASE \E i \in G : G = {i}
    <3>1. Cardinality(G) = 1
      BY <2>3, FS_Singleton
    <3>. QED BY <3>1
  <2>. QED BY <2>1, <2>2, <2>3
<1>4. /\ LocalHits \in Seq(Hit) /\ RemoteHits \in Seq(Hit)
      /\ \A i \in DOMAIN LocalHits : LocalHits[i].origin = Local
      /\ request.maxTotal \in Nat
  BY LocalIs, RemoteIs, RequestIs DEF IInv, TypeOK
<1>5. p # Local
  BY MembraneAssumption
<1>6. /\ all \in Seq(Hit) /\ Len(all) = c + Len(RemoteHits)
      /\ \A x \in 1..c : all[x] = LocalHits[x]
      /\ \A x \in 1..Len(RemoteHits) : all[c + x] = RemoteHits[x]
      /\ c \in Nat /\ Len(RemoteHits) \in Nat
      /\ DOMAIN RemoteHits = 1..Len(RemoteHits) /\ DOMAIN LocalHits = 1..c
  BY <1>4, Joined
<1>. HIDE DEF all, c
<1>7. IsCut(result, all, request.maxTotal)
  BY <1>1, <1>4, <1>6, CutHits
<1>8. \A y \in 1..Len(all) : all[y].origin = p => y - c \in X
  <2>1. ASSUME NEW y \in 1..Len(all), all[y].origin = p PROVE y - c \in X
    <3>1. y \notin 1..c
      BY <1>4, <1>5, <1>6, <2>1
    <3>2. y - c \in 1..Len(RemoteHits) /\ c + (y - c) = y
      <4>1. \A k, m, n \in Nat : k \in 1..m + n /\ k \notin 1..m => k - m \in 1..n /\ m + (k - m) = k
        OBVIOUS
      <4>2. y \in Nat /\ y \in 1..c + Len(RemoteHits)
        BY <1>6, <2>1
      <4>. QED BY <1>6, <3>1, <4>1, <4>2
    <3>. QED BY <1>6, <2>1, <3>2
  <2>. QED BY <2>1
<1>9. IsFiniteSet(X) /\ totalHits[p] = Cardinality(X)
  <2>1. X \in SUBSET (1..Len(RemoteHits))
    BY <1>6
  <2>2. totalHits[p] = Cardinality(X)
    BY <1>1 DEF HitsFrom
  <2>. HIDE DEF X
  <2>. QED BY <1>6, <2>1, <2>2, CountKept
<1>10. Cardinality(R) <= Cardinality(X)
  <2>1. PICK at : /\ at \in [1..Len(all) -> 1..Len(all)]
                  /\ OneToOne(at, 1..Len(all))
                  /\ \A k \in 1..Len(result) : result[k] = all[at[k]]
    BY <1>7 DEF IsCut
  <2>2. \A i \in R : i \in 1..Len(all) /\ at[i] \in 1..Len(all) /\ all[at[i]].origin = p
    BY <1>7, <2>1 DEF IsCut
  <2>. DEFINE f == [i \in R |-> at[i] - c]
  <2>3. \A i, j \in R : f[i] = f[j] => i = j
    <3>1. \A i \in R : at[i] \in Nat /\ f[i] = at[i] - c
      BY <2>2
    <3>2. \A j, k, m \in Nat : j - m = k - m => j = k
      OBVIOUS
    <3>. HIDE DEF R, f
    <3>3. \A i, j \in R : f[i] = f[j] => at[i] = at[j]
      BY <1>6, <3>1, <3>2
    <3>. QED BY <2>1, <2>2, <3>3 DEF OneToOne
  <2>. HIDE DEF X, R
  <2>4. f \in [R -> X]
    BY <1>8, <2>2
  <2>. HIDE DEF f
  <2>. QED BY <1>9, <2>3, <2>4, CountAtMost DEF OneToOne
<1>. QED BY <1>2, <1>3, <1>9, <1>10 DEF Among

LEMMA Allowed == ASSUME IInv PROVE RemoteAsAllowed
<1>. SUFFICES ASSUME pc = "done" PROVE RemoteAsAllowed
  BY DEF RemoteAsAllowed
<1>. DEFINE l == Lengths(Batches)
            b == [i \in DOMAIN asked |-> asked[i].budget]
            f == [q \in Places(l) |-> <<AskedAt[q[1]], q[2]>>]
<1>1. /\ l \in Seq(Nat) /\ Len(l) = Len(gathered)
      /\ Len(RemoteHits) = Total(l) /\ RemoteHits \in Seq(Hit)
  BY RemoteIs
<1>2. /\ AskedAt \in [DOMAIN gathered -> DOMAIN asked] /\ OneToOne(AskedAt, DOMAIN gathered)
      /\ DOMAIN asked = 1..Len(asked) /\ Len(asked) \in Nat /\ Len(gathered) \in Nat
      /\ Len(gathered) <= Len(asked)
  BY GatheredAt
<1>3. b \in Seq(Nat) /\ Len(b) = Len(asked) /\ \A i \in DOMAIN asked : b[i] = asked[i].budget
  BY <1>2, AskedIs DEF IInv
<1>4. Total(b) <= request.maxRemote /\ Len(asked) <= MaxPeers
      /\ request.maxRemote \in Nat /\ MaxPeers \in Nat
  BY RequestIs, MembraneAssumption DEF IInv, AskedInv, TypeOK
<1>5. \A q \in Places(l) : /\ q[1] \in DOMAIN gathered /\ q = <<q[1], q[2]>>
                           /\ q[2] \in 1..Len(Batch(gathered[q[1]]))
  BY RemotePlaces
<1>. HIDE DEF l, b
<1>6. ASSUME NEW q \in Places(l)
      PROVE  f[q] \in Places(b) /\ f[q] = <<AskedAt[q[1]], q[2]>>
  <2>. DEFINE j == q[1]
              n == Len(Batch(gathered[j]))
              m == AskedAt[j]
  <2>1. n \in Nat /\ n <= asked[m].budget /\ asked[m].budget \in Nat /\ m \in 1..Len(b)
        /\ b[m] = asked[m].budget
    BY <1>2, <1>3, <1>5, BatchIs
  <2>2. q[2] \in 1..n
    BY <1>5
  <2>. HIDE DEF n, m
  <2>3. q[2] \in 1..b[m] /\ q[2] \in Nat /\ m \in Nat
    BY <1>2, <1>3, <2>1, <2>2
  <2>4. <<m, q[2]>> \in Places(b)
    BY <2>1, <2>3 DEF Places
  <2>. QED BY <2>4 DEF m
<1>7. f \in [Places(l) -> Places(b)]
  BY <1>6
<1>8. OneToOne(f, Places(l))
  <2>1. ASSUME NEW q \in Places(l), NEW r \in Places(l), f[q] = f[r] PROVE q = r
    <3>1. <<AskedAt[q[1]], q[2]>> = <<AskedAt[r[1]], r[2]>>
      BY <1>6, <2>1
    <3>2. AskedAt[q[1]] = AskedAt[r[1]] /\ q[2] = r[2]
      BY <3>1
    <3>3. q[1] = r[1]
      BY <1>2, <1>5, <3>2 DEF OneToOne
    <3>. QED BY <1>5, <3>2, <3>3
  <2>. QED BY <2>1 DEF OneToOne
<1>. HIDE DEF f
<1>9. Len(RemoteHits) <= request.maxRemote
  <2>1. Total(l) = Cardinality(Places(l)) /\ Total(l) \in Nat
    BY <1>1, TotalCounts
  <2>2. Total(b) = Cardinality(Places(b)) /\ Total(b) \in Nat /\ IsFiniteSet(Places(b))
    BY <1>3, TotalCounts
  <2>3. Cardinality(Places(l)) <= Cardinality(Places(b))
    BY <1>7, <1>8, <2>2, CountAtMost
  <2>. QED BY <1>1, <1>4, <2>1, <2>2, <2>3
<1>10. Len(gathered) <= MaxPeers
  BY <1>2, <1>4
<1>11. ASSUME NEW i \in DOMAIN result, result[i].origin # Local
       PROVE  result[i].shareable
  <2>1. /\ LocalHits \in Seq(Hit) /\ \A x \in DOMAIN LocalHits : LocalHits[x].origin = Local
        /\ request.maxTotal \in Nat /\ DOMAIN LocalHits = 1..Len(LocalHits)
        /\ Len(LocalHits) \in Nat
    BY LocalIs, RequestIs DEF IInv, TypeOK
  <2>2. CASE request.mode = "local"
    <3>1. result = Prefix(LocalHits, request.maxTotal)
      BY <2>2 DEF IInv, OutcomeInv
    <3>2. /\ DOMAIN result = 1..Len(result) /\ Len(result) <= Len(LocalHits)
          /\ Len(result) \in Nat /\ \A x \in 1..Len(result) : result[x] = LocalHits[x]
      BY <2>1, <3>1, PrefixIs
    <3>3. i \in DOMAIN LocalHits /\ result[i] = LocalHits[i]
      BY <2>1, <3>2
    <3>. QED BY <1>11, <2>1, <3>3
  <2>3. CASE request.mode # "local"
    <3>. DEFINE all == LocalHits \o RemoteHits
                c == Len(LocalHits)
    <3>1. result = Prefix(BySimilarity(all), request.maxTotal)
      BY <2>3 DEF IInv, OutcomeInv, Fanned, Early
    <3>2. /\ all \in Seq(Hit) /\ Len(all) = c + Len(RemoteHits)
          /\ \A x \in 1..c : all[x] = LocalHits[x]
          /\ \A x \in 1..Len(RemoteHits) : all[c + x] = RemoteHits[x]
          /\ Len(RemoteHits) \in Nat
      <4>1. LocalHits \in Seq(Hit) /\ RemoteHits \in Seq(Hit)
        BY <1>1, <2>1
      <4>. QED BY <4>1, Joined
    <3>. HIDE DEF all
    <3>3. IsCut(result, all, request.maxTotal)
      BY <2>1, <3>1, <3>2, CutHits
    <3>4. PICK y \in 1..Len(all) : result[i] = all[y]
      <4>1. PICK at \in [1..Len(all) -> 1..Len(all)] :
              \A k \in 1..Len(result) : result[k] = all[at[k]]
        BY <3>3 DEF IsCut
      <4>2. i \in 1..Len(result) /\ i \in 1..Len(all)
        BY <3>3 DEF IsCut
      <4>. QED BY <4>1, <4>2
    <3>5. y \notin 1..c
      BY <1>11, <2>1, <3>2, <3>4
    <3>6. y - c \in 1..Len(RemoteHits) /\ c + (y - c) = y
      BY <2>1, <3>2, <3>5
    <3>7. result[i] = RemoteHits[y - c]
      BY <3>2, <3>4, <3>6
    <3>8. \A x \in 1..Len(RemoteHits) : RemoteHits[x].shareable
      BY RemotePlaces
    <3>. QED BY <3>6, <3>7, <3>8
  <2>. QED BY <2>2, <2>3
<1>. QED BY <1>9, <1>10, <1>11 DEF RemoteAsAllowed

----------------------------------------------------------------------------
(* Every variable keeps its type, whatever the workers and the disk do.    *)
THEOREM TypeCorrect == Spec => []TypeOK
BY Invariant, PTL DEF IInv

(* Peers bring no more hits than the remote budget, come from no more      *)
(* peers than the cap, and bring nothing that is not shared.               *)
THEOREM RemoteAlwaysAsAllowed == Spec => []RemoteAsAllowed
BY Invariant, Allowed, PTL

(* Every answer counts whole and once, in the manifests and the result.    *)
THEOREM AnswersAlwaysCountOnce == Spec => []AnswersCountOnce
BY Invariant, AnswersCounted, PTL

(* Without a deadline only peers whose worker panicked are missing, and    *)
(* the stats say so.                                                       *)
THEOREM NobodyElseEverLost == Spec => []NobodyElseLost
BY Invariant, NobodyLost, PTL

(* The result is the best of what was gathered, as long as allowed.        *)
THEOREM ResultIsAlwaysBest == Spec => []ResultIsBest
BY Invariant, BestKept, PTL

----------------------------------------------------------------------------
(* The allocation: what makes its promise inductive.                       *)

(* While shares are raised, those before idx are one ahead of their round. *)
Ahead(i) == IF i <= idx % Len(alloc) THEN 1 ELSE 0

LevelInv ==
  \A i, j \in DOMAIN alloc : i < j => alloc[i] - Ahead(i) >= alloc[j] - Ahead(j)

(* What is believed spent is what the shares add up to.                    *)
SpentInv ==
  /\ phase = "start" => alloc = <<>> /\ idx = 0
  /\ phase \in {"trim", "spread"} => total > 0 /\ spent = Total(alloc)
  /\ phase = "spread" => spent <= total \/ alloc = <<>>
  /\ phase = "done" /\ alloc # <<>> => Total(alloc) = total

SharesInv ==
  /\ Len(alloc) <= maxPeers
  /\ \A i \in DOMAIN alloc : alloc[i] >= minPerPeer
  /\ IF phase = "spread" THEN LevelInv ELSE Descending(alloc)
  /\ phase = "trim" => idx = 0

(* Nobody is left only when not even one minimum fits.                     *)
NobodyInv ==
  phase # "start" /\ alloc = <<>> =>
    scores = <<>> \/ total = 0 \/ maxPeers = 0 \/ minPerPeer > total

Inv == LoopTypeOK /\ SpentInv /\ SharesInv /\ NobodyInv

LEMMA InvInit == LoopInit => Inv
<1>. SUFFICES ASSUME LoopInit PROVE Inv
  OBVIOUS
<1>1. PICK n \in 0..PeerBound : scores \in {s \in [1..n -> Scores] : Descending(s)}
  BY DEF LoopInit
<1>2. n \in Nat /\ scores \in [1..n -> Scores] /\ Descending(scores)
  BY <1>1, AllocationAssumption
<1>3. scores \in Seq(Scores)
  BY <1>2
<1>4. LoopTypeOK
  BY <1>2, <1>3 DEF LoopInit, LoopTypeOK
<1>5. SpentInv /\ NobodyInv /\ SharesInv
  BY AllocationAssumption DEF LoopInit, SpentInv, NobodyInv, SharesInv, Descending
<1>. QED BY <1>4, <1>5 DEF Inv

LEMMA Arguments ==
  ASSUME LoopTypeOK
  PROVE  /\ total \in Nat /\ minPerPeer \in Nat /\ maxPeers \in Nat
         /\ scores \in Seq(Int) /\ alloc \in Seq(Int) /\ Len(alloc) \in Nat
         /\ DOMAIN alloc = 1..Len(alloc) /\ \A i \in 1..Len(alloc) : alloc[i] \in Nat
<1>1. scores \in Seq(Int)
  <2>1. scores \in Seq(Scores) /\ Scores \subseteq Int
    BY AllocationAssumption DEF LoopTypeOK
  <2>2. Len(scores) \in Nat /\ scores \in [1..Len(scores) -> Scores]
    BY <2>1
  <2>3. scores \in [1..Len(scores) -> Int]
    BY <2>1, <2>2
  <2>. QED BY <2>2, <2>3
<1>2. total \in Nat /\ minPerPeer \in Nat /\ maxPeers \in Nat /\ alloc \in Seq(Nat)
  BY AllocationAssumption DEF LoopTypeOK
<1>3. /\ alloc \in Seq(Int) /\ Len(alloc) \in Nat
      /\ DOMAIN alloc = 1..Len(alloc) /\ \A i \in 1..Len(alloc) : alloc[i] \in Nat
  BY <1>2
<1>. QED BY <1>1, <1>2, <1>3

LEMMA FirstPassStep ==
  ASSUME Inv, FirstPass
  PROVE  Inv'
<1>. DEFINE n == IF maxPeers < Len(scores) THEN maxPeers ELSE Len(scores)
            kept == SubSeq(scores, 1, n)
<1>1. /\ total \in Nat \ {0} /\ minPerPeer \in Nat /\ maxPeers \in Nat \ {0}
      /\ scores \in Seq(Int) /\ scores # <<>> /\ Descending(scores)
  BY Arguments DEF Inv, LoopTypeOK, FirstPass
<1>2. n \in 1..Len(scores) /\ n <= maxPeers
  BY <1>1
<1>3. /\ kept \in Seq(Int) /\ kept # <<>> /\ Len(kept) = n
      /\ \A i \in 1..n : kept[i] = scores[i]
  <2>. HIDE DEF n
  <2>. QED BY <1>1, <1>2
<1>4. Descending(kept)
  <2>. HIDE DEF n, kept
  <2>1. DOMAIN kept = 1..n /\ 1..n \subseteq DOMAIN scores
    BY <1>1, <1>2, <1>3
  <2>. QED BY <1>1, <1>3, <2>1 DEF Descending
<1>5. /\ alloc' = Proportional(kept, total, minPerPeer) /\ spent' = Total(alloc')
      /\ phase = "start" /\ phase' = "trim" /\ UNCHANGED <<arguments, idx>>
  BY DEF FirstPass
<1>. HIDE DEF n, kept
<1>6. /\ alloc' \in Seq(Nat) /\ Len(alloc') = n /\ Descending(alloc')
      /\ \A i \in 1..n : alloc'[i] >= minPerPeer
  BY <1>1, <1>3, <1>4, <1>5, ProportionalSound
<1>7. DOMAIN alloc' = 1..n /\ alloc' # <<>>
  BY <1>2, <1>6
<1>8. spent' \in Nat
  BY <1>5, <1>6, TotalNatural
<1>9. LoopTypeOK'
  BY <1>5, <1>6, <1>8 DEF Inv, LoopTypeOK, arguments
<1>10. SpentInv' /\ NobodyInv'
  BY <1>1, <1>5, <1>7 DEF SpentInv, NobodyInv, arguments
<1>11. SharesInv'
  BY <1>2, <1>5, <1>6, <1>7 DEF SharesInv, Inv, SpentInv, arguments
<1>. QED BY <1>9, <1>10, <1>11 DEF Inv

----------------------------------------------------------------------------
(* Over the budget.                                                        *)

LEMMA TrimOneStep ==
  ASSUME Inv, TrimOne
  PROVE  Inv'
<1>1. PICK i \in DOMAIN alloc : IsSlot(i) /\ alloc' = [alloc EXCEPT ![i] = @ - 1]
  BY DEF TrimOne
<1>2. /\ phase = "trim" /\ spent > total /\ spent' = spent - 1
      /\ UNCHANGED <<arguments, phase, idx>>
      /\ total \in Nat /\ minPerPeer \in Nat /\ alloc \in Seq(Int) /\ Len(alloc) \in Nat
      /\ DOMAIN alloc = 1..Len(alloc) /\ \A j \in 1..Len(alloc) : alloc[j] \in Nat
      /\ spent = Total(alloc) /\ total > 0
  BY Arguments DEF TrimOne, Over, Inv, SpentInv
<1>3. alloc[i] > minPerPeer /\ \A j \in i + 1..Len(alloc) : alloc[j] <= minPerPeer
  BY <1>1 DEF IsSlot
<1>4. alloc[i] - 1 \in Nat /\ alloc[i] - 1 >= minPerPeer
  BY <1>1, <1>2, <1>3
<1>5. /\ alloc' \in Seq(Nat) /\ Len(alloc') = Len(alloc) /\ alloc' # <<>>
      /\ DOMAIN alloc' = 1..Len(alloc)
      /\ \A j \in 1..Len(alloc) : alloc'[j] = IF j = i THEN alloc[i] - 1 ELSE alloc[j]
  <2>1. alloc \in Seq(Nat)
    BY DEF Inv, LoopTypeOK
  <2>. QED BY <1>1, <1>2, <1>4, <2>1
<1>6. Total(alloc') = Total(alloc) - 1
  <2>1. alloc[i] \in Int /\ Total(alloc) \in Int /\ alloc' = [alloc EXCEPT ![i] = alloc[i] - 1]
    BY <1>1, <1>2, TotalType
  <2>2. i \in 1..Len(alloc) /\ alloc[i] - 1 \in Int /\ alloc \in Seq(Int)
    BY <1>2, <1>4
  <2>. DEFINE v == alloc[i] - 1
  <2>3. v \in Int
    BY <2>2
  <2>. HIDE DEF v
  <2>4. Total([alloc EXCEPT ![i] = v]) = Total(alloc) - alloc[i] + v
    BY <2>2, <2>3, TotalChanged
  <2>. QED BY <2>1, <2>4 DEF v
<1>7. spent' \in Nat
  BY <1>2, <1>5, <1>6, TotalNatural
<1>8. LoopTypeOK'
  BY <1>2, <1>5, <1>7 DEF Inv, LoopTypeOK, arguments
<1>9. SpentInv' /\ NobodyInv'
  BY <1>2, <1>5, <1>6 DEF SpentInv, NobodyInv, arguments
<1>10. \A j \in 1..Len(alloc) : alloc[j] >= minPerPeer
  BY <1>2 DEF Inv, SharesInv
<1>11. \A j \in 1..Len(alloc) : alloc'[j] >= minPerPeer
  BY <1>4, <1>5, <1>10
<1>12. Descending(alloc')
  <2>1. Descending(alloc)
    BY <1>2 DEF Inv, SharesInv
  <2>2. ASSUME NEW j \in 1..Len(alloc), NEW k \in 1..Len(alloc), j < k
        PROVE  alloc'[j] >= alloc'[k]
    <3>1. alloc[j] >= alloc[k]
      BY <1>2, <2>1, <2>2 DEF Descending
    <3>2. CASE j = i
      <4>1. k \in i + 1..Len(alloc)
        BY <1>2, <2>2, <3>2
      <4>2. alloc[k] <= minPerPeer /\ alloc[k] \in Nat /\ alloc'[k] = alloc[k]
        BY <1>2, <1>3, <1>5, <2>2, <3>2, <4>1
      <4>3. alloc'[j] = alloc[i] - 1
        BY <1>5, <3>2
      <4>. QED BY <1>2, <1>4, <4>2, <4>3
    <3>3. CASE j # i
      BY <1>1, <1>2, <1>5, <3>1, <3>3
    <3>. QED BY <3>2, <3>3
  <2>. QED BY <1>5, <2>2 DEF Descending
<1>13. SharesInv'
  BY <1>2, <1>5, <1>11, <1>12 DEF SharesInv, Inv, arguments
<1>. QED BY <1>8, <1>9, <1>13 DEF Inv

LEMMA DropLastStep ==
  ASSUME Inv, DropLast
  PROVE  Inv'
<1>. DEFINE n == Len(alloc)
<1>1. /\ phase = "trim" /\ spent > total /\ alloc # <<>>
      /\ ~\E i \in DOMAIN alloc : IsSlot(i)
      /\ spent' = spent - alloc[n] /\ alloc' = SubSeq(alloc, 1, n - 1)
      /\ UNCHANGED <<arguments, phase, idx>>
      /\ spent = Total(alloc) /\ total > 0
  BY DEF DropLast, Over, Inv, SpentInv
<1>2. /\ total \in Nat /\ minPerPeer \in Nat /\ maxPeers \in Nat /\ alloc \in Seq(Nat)
      /\ alloc \in Seq(Int) /\ n \in Nat \ {0}
      /\ DOMAIN alloc = 1..n /\ \A j \in 1..n : alloc[j] \in Nat
  BY <1>1, Arguments DEF Inv, LoopTypeOK
<1>3. /\ alloc' \in Seq(Nat) /\ Len(alloc') = n - 1 /\ DOMAIN alloc' = 1..n - 1
      /\ \A j \in 1..n - 1 : alloc'[j] = alloc[j]
  BY <1>1, <1>2
<1>4. Total(alloc') = Total(alloc) - alloc[n]
  BY <1>1, <1>2, TotalFront
<1>5. spent' \in Nat
  BY <1>1, <1>3, <1>4, TotalNatural
<1>6. LoopTypeOK'
  BY <1>1, <1>3, <1>5 DEF Inv, LoopTypeOK, arguments
<1>7. SpentInv'
  BY <1>1, <1>4 DEF SpentInv, arguments
<1>8. SharesInv'
  <2>1. /\ n <= maxPeers /\ Descending(alloc) /\ idx = 0
        /\ \A j \in 1..n : alloc[j] >= minPerPeer
    BY <1>1, <1>2 DEF Inv, SharesInv
  <2>. HIDE DEF n
  <2>2. 1..n - 1 \subseteq 1..n
    BY <1>2
  <2>3. Descending(alloc')
    <3>1. \A i, j \in 1..n : i < j => alloc[i] >= alloc[j]
      BY <1>2, <2>1 DEF Descending
    <3>2. \A i, j \in 1..n - 1 : i < j => alloc'[i] >= alloc'[j]
      BY <1>3, <2>2, <3>1
    <3>. QED BY <1>3, <3>2 DEF Descending
  <2>4. \A j \in DOMAIN alloc' : alloc'[j] >= minPerPeer
    BY <1>3, <2>1, <2>2
  <2>. QED BY <1>1, <1>2, <1>3, <2>1, <2>3, <2>4 DEF SharesInv, arguments
(* A lone share is all that is spent, and is the minimum.                  *)
<1>9. NobodyInv'
  <2>. SUFFICES ASSUME alloc' = <<>> PROVE minPerPeer > total
    BY <1>1 DEF NobodyInv, arguments
  <2>1. n = 1
    <3>1. Len(alloc') = 0
      OBVIOUS
    <3>. HIDE DEF n
    <3>. QED BY <1>2, <1>3, <3>1
  <2>2. alloc[1] <= minPerPeer
    BY <1>1, <1>2, <2>1 DEF IsSlot
  <2>3. alloc' = <<>> => Total(alloc') = 0
    <3>1. \A s \in Seq(Int) : s = <<>> => Total(s) = 0
      BY TotalSeries DEF IsSeries
    <3>2. alloc' \in Seq(Int)
      BY <1>3
    <3>. QED BY <3>1, <3>2
  <2>4. spent = alloc[1] /\ alloc[1] \in Nat
    <3>1. Total(alloc) \in Int
      BY <1>2, TotalType
    <3>. QED BY <1>1, <1>2, <1>4, <2>1, <2>3, <3>1
  <2>. QED BY <1>1, <1>2, <2>2, <2>4
<1>. QED BY <1>6, <1>7, <1>8, <1>9 DEF Inv

----------------------------------------------------------------------------
(* Under the budget.                                                       *)

LEMMA TrimDoneStep ==
  ASSUME Inv, TrimDone
  PROVE  Inv'
<1>1. /\ phase = "trim" /\ phase' = "spread" /\ (spent <= total \/ alloc = <<>>)
      /\ UNCHANGED <<arguments, alloc, spent, idx>>
  <2>1. spent \in Nat /\ total \in Nat
    BY Arguments DEF Inv, LoopTypeOK
  <2>. QED BY <2>1 DEF TrimDone, Over
<1>2. LoopTypeOK' /\ SpentInv' /\ NobodyInv'
  BY <1>1 DEF Inv, LoopTypeOK, SpentInv, NobodyInv, arguments
<1>3. idx = 0 /\ Descending(alloc) /\ alloc' = alloc /\ idx' = 0
  BY <1>1 DEF Inv, SharesInv
<1>4. LevelInv'
  <2>1. /\ Len(alloc) \in Nat /\ DOMAIN alloc = 1..Len(alloc)
        /\ \A i \in 1..Len(alloc) : alloc[i] \in Nat
    BY Arguments DEF Inv
  <2>2. CASE alloc = <<>>
    BY <1>3, <2>2 DEF LevelInv
  <2>3. CASE alloc # <<>>
    <3>1. Len(alloc) \in Nat \ {0}
      BY <2>1, <2>3 DEF Inv, LoopTypeOK
    <3>2. 0 % Len(alloc) = 0
      BY <3>1
    <3>3. \A i \in 1..Len(alloc) : Ahead(i)' = 0
      BY <1>3, <2>1, <3>2 DEF Ahead
    <3>. QED BY <1>3, <2>1, <3>3 DEF LevelInv, Descending
  <2>. QED BY <2>2, <2>3
<1>5. SharesInv'
  BY <1>1, <1>4 DEF Inv, SharesInv, arguments
<1>. QED BY <1>2, <1>5 DEF Inv

LEMMA RaiseOneStep ==
  ASSUME Inv, RaiseOne
  PROVE  Inv'
<1>. DEFINE n == Len(alloc)
            at == idx % n
<1>1. /\ phase = "spread" /\ phase' = "spread" /\ spent < total /\ alloc # <<>>
      /\ alloc' = [alloc EXCEPT ![at + 1] = @ + 1]
      /\ spent' = spent + 1 /\ idx' = idx + 1
      /\ UNCHANGED arguments
  BY DEF RaiseOne
<1>2. /\ total \in Nat /\ minPerPeer \in Nat /\ spent \in Nat /\ idx \in Nat
      /\ n \in Nat \ {0} /\ DOMAIN alloc = 1..n /\ alloc \in Seq(Nat) /\ alloc \in Seq(Int)
      /\ \A i \in 1..n : alloc[i] \in Nat
  BY <1>1, Arguments DEF Inv, LoopTypeOK
<1>. HIDE DEF n
<1>3. at \in 0..n - 1 /\ idx' % n = (IF at = n - 1 THEN 0 ELSE at + 1)
  BY <1>1, <1>2, NextPlace
<1>. HIDE DEF at
<1>4. at + 1 \in 1..n /\ at \in Nat
  BY <1>2, <1>3
<1>5. /\ alloc' \in Seq(Nat) /\ Len(alloc') = n /\ DOMAIN alloc' = 1..n /\ alloc' # <<>>
      /\ \A i \in 1..n : alloc'[i] = IF i = at + 1 THEN alloc[i] + 1 ELSE alloc[i]
  BY <1>1, <1>2, <1>4 DEF n
<1>6. Total(alloc') = Total(alloc) + 1
  <2>. DEFINE v == alloc[at + 1] + 1
  <2>1. v \in Int /\ alloc[at + 1] \in Int /\ at + 1 \in 1..Len(alloc) /\ Total(alloc) \in Int
    BY <1>2, <1>4, TotalType DEF n
  <2>2. alloc' = [alloc EXCEPT ![at + 1] = v]
    BY <1>1
  <2>. HIDE DEF v
  <2>3. Total([alloc EXCEPT ![at + 1] = v]) = Total(alloc) - alloc[at + 1] + v
    BY <1>2, <2>1, TotalChanged
  <2>. QED BY <2>1, <2>2, <2>3 DEF v
<1>7. LoopTypeOK'
  BY <1>1, <1>2, <1>5 DEF Inv, LoopTypeOK, arguments
<1>8. SpentInv' /\ NobodyInv'
  BY <1>1, <1>2, <1>5, <1>6 DEF Inv, SpentInv, NobodyInv, arguments
<1>9. LevelInv'
  <2>1. \A i \in 1..n : Ahead(i) = IF i <= at THEN 1 ELSE 0
    BY DEF Ahead, at, n
  <2>2. \A i \in 1..n : Ahead(i)' = IF i <= (IF at = n - 1 THEN 0 ELSE at + 1) THEN 1 ELSE 0
    BY <1>3, <1>5 DEF Ahead
  <2>3. \A i, j \in 1..n : i < j => alloc[i] - Ahead(i) >= alloc[j] - Ahead(j)
    BY <1>1, <1>2 DEF Inv, SharesInv, LevelInv
  <2>4. ASSUME NEW i \in 1..n, NEW j \in 1..n, i < j
        PROVE  alloc'[i] - Ahead(i)' >= alloc'[j] - Ahead(j)'
    <3>1. /\ alloc[i] \in Nat /\ alloc[j] \in Nat
          /\ alloc[i] - Ahead(i) >= alloc[j] - Ahead(j)
      BY <1>2, <2>3, <2>4
    <3>2. /\ alloc'[i] = IF i = at + 1 THEN alloc[i] + 1 ELSE alloc[i]
          /\ alloc'[j] = IF j = at + 1 THEN alloc[j] + 1 ELSE alloc[j]
      BY <1>5
    <3>. QED BY <1>2, <1>4, <2>1, <2>2, <2>4, <3>1, <3>2
  <2>. QED BY <1>5, <2>4 DEF LevelInv
<1>10. SharesInv'
  <2>1. n <= maxPeers /\ \A i \in 1..n : alloc[i] >= minPerPeer
    BY <1>2 DEF Inv, SharesInv, n
  <2>2. \A i \in 1..n : alloc'[i] >= minPerPeer
    BY <1>2, <1>5, <2>1
  <2>. QED BY <1>1, <1>5, <1>9, <2>1, <2>2 DEF SharesInv, arguments
<1>. QED BY <1>7, <1>8, <1>10 DEF Inv

LEMMA ReturnStep ==
  ASSUME Inv, NothingToShare \/ SpreadDone
  PROVE  Inv'
<1>1. CASE NothingToShare
  <2>1. phase = "start" /\ phase' = "done" /\ alloc = <<>> /\ UNCHANGED <<arguments, alloc, spent, idx>>
    BY <1>1 DEF NothingToShare, Inv, SpentInv
  <2>2. LoopTypeOK' /\ SpentInv' /\ NobodyInv'
    BY <1>1, <2>1 DEF NothingToShare, Inv, LoopTypeOK, SpentInv, NobodyInv, arguments
  <2>3. SharesInv'
    BY <2>1 DEF Inv, SharesInv, arguments
  <2>. QED BY <2>2, <2>3 DEF Inv
<1>2. CASE SpreadDone
  <2>1. /\ phase = "spread" /\ phase' = "done" /\ (spent >= total \/ alloc = <<>>)
        /\ UNCHANGED <<arguments, alloc, spent, idx>>
    BY <1>2 DEF SpreadDone
  <2>2. spent \in Nat /\ total \in Nat
    BY Arguments DEF Inv, LoopTypeOK
  <2>3. LoopTypeOK' /\ SpentInv' /\ NobodyInv'
    BY <2>1, <2>2 DEF Inv, LoopTypeOK, SpentInv, NobodyInv, arguments
  <2>4. Descending(alloc)
    <3>1. /\ Len(alloc) \in Nat /\ DOMAIN alloc = 1..Len(alloc)
          /\ \A i \in 1..Len(alloc) : alloc[i] \in Nat
          /\ LevelInv
      BY <2>1, Arguments DEF Inv, SharesInv
    <3>2. ASSUME NEW i \in 1..Len(alloc), NEW j \in 1..Len(alloc), i < j
          PROVE  alloc[i] >= alloc[j]
      <4>1. alloc[i] - Ahead(i) >= alloc[j] - Ahead(j)
        BY <3>1, <3>2 DEF LevelInv
      <4>2. /\ Ahead(i) \in {0, 1} /\ Ahead(j) \in {0, 1}
            /\ Ahead(j) = 1 => Ahead(i) = 1
        <5>1. Len(alloc) \in Nat \ {0} /\ idx \in Nat
          BY <3>1, <3>2 DEF Inv, LoopTypeOK
        <5>2. idx % Len(alloc) \in Nat
          BY <5>1
        <5>. QED BY <3>2, <5>2 DEF Ahead
      <4>. QED BY <3>1, <4>1, <4>2
    <3>. QED BY <3>1, <3>2 DEF Descending
  <2>5. SharesInv'
    BY <2>1, <2>4 DEF Inv, SharesInv, arguments
  <2>. QED BY <2>3, <2>5 DEF Inv
<1>. QED BY <1>1, <1>2

----------------------------------------------------------------------------
LEMMA InvNext == Inv /\ [LoopNext]_loopVars => Inv'
<1>. SUFFICES ASSUME Inv, [LoopNext]_loopVars PROVE Inv'
  OBVIOUS
<1>1. CASE NothingToShare \/ SpreadDone
  BY <1>1, ReturnStep
<1>2. CASE FirstPass
  BY <1>2, FirstPassStep
<1>3. CASE TrimOne
  BY <1>3, TrimOneStep
<1>4. CASE DropLast
  BY <1>4, DropLastStep
<1>5. CASE TrimDone
  BY <1>5, TrimDoneStep
<1>6. CASE RaiseOne
  BY <1>6, RaiseOneStep
<1>7. CASE UNCHANGED loopVars
  BY <1>7 DEF loopVars, arguments, Inv, LoopTypeOK, SpentInv, SharesInv, NobodyInv, LevelInv,
              Ahead, Descending
<1>. QED BY <1>1, <1>2, <1>3, <1>4, <1>5, <1>6, <1>7 DEF LoopNext

LEMMA InvHolds == LoopSpec => []Inv
BY InvInit, InvNext, PTL DEF LoopSpec

(* The intermediate values of proportional_allocation have their types:    *)
(* in particular no subtraction goes below zero.                           *)
THEOREM LoopTypeCorrect == LoopSpec => []LoopTypeOK
<1>1. Inv => LoopTypeOK
  BY DEF Inv
<1>. QED BY <1>1, InvHolds, PTL

(* Whatever the scores, the budget, the floor and the cap, what            *)
(* proportional_allocation returns spends the budget, keeps to the cap and *)
(* the floor, and follows the ranking.                                     *)
THEOREM AlwaysSound == LoopSpec => []AllocationSound
<1>1. Inv => AllocationSound
  BY DEF Inv, AllocationSound, SpentInv, SharesInv, NobodyInv
<1>. QED BY <1>1, InvHolds, PTL

----------------------------------------------------------------------------
(* The loops against the closed form.                                      *)

----------------------------------------------------------------------------
Result == Shares(scores, total, minPerPeer, maxPeers)

(* What is still to be done leads to the result: while shares are taken,   *)
(* trimming the present ones and spreading; while they are raised, `base`  *)
(* being what trimming left.                                               *)
IsBase(base) ==
  /\ base \in Seq(Nat) /\ Len(base) = Len(alloc)
  /\ spent = Total(base) + idx
  /\ Result = Spread(base, total)
  /\ \A i \in 1..Len(alloc) : alloc[i] = base[i] + Raised(idx, Len(alloc), i)

AgreeInv ==
  /\ phase = "trim" => Result = Spread(Trimmed(alloc, total, minPerPeer), total)
  /\ phase = "spread" => \E base : IsBase(base)
  /\ LoopsAgree

LEMMA AgreeInit == LoopInit => AgreeInv
BY DEF LoopInit, AgreeInv, LoopsAgree

LEMMA AgreeStart ==
  ASSUME Inv, NothingToShare \/ FirstPass
  PROVE  AgreeInv'
<1>1. CASE NothingToShare
  <2>1. alloc' = <<>> /\ phase' = "done" /\ UNCHANGED arguments
        /\ (scores = <<>> \/ total = 0 \/ maxPeers = 0)
    BY <1>1 DEF NothingToShare, Inv, SpentInv
  <2>2. Result' = <<>>
    BY <2>1 DEF Result, Shares, arguments
  <2>. QED BY <2>1, <2>2 DEF AgreeInv, LoopsAgree, Result
<1>2. CASE FirstPass
  <2>1. /\ scores # <<>> /\ total > 0 /\ maxPeers > 0 /\ phase' = "trim" /\ UNCHANGED arguments
        /\ scores \in Seq(Int) /\ total \in Nat /\ maxPeers \in Nat
    BY <1>2, Arguments DEF FirstPass, Inv
  <2>. DEFINE n == IF maxPeers < Len(scores) THEN maxPeers ELSE Len(scores)
              kept == SubSeq(scores, 1, n)
  <2>2. alloc' = Proportional(kept, total, minPerPeer)
    BY <1>2 DEF FirstPass
  <2>3. Result = Spread(Trimmed(Proportional(kept, total, minPerPeer), total, minPerPeer), total)
    <3>1. Len(scores) \in Int /\ maxPeers \in Int /\ total # 0 /\ maxPeers # 0
      BY <2>1
    <3>. QED BY <2>1, <3>1, SharesAre DEF Result
  <2>4. Result = Spread(Trimmed(alloc', total, minPerPeer), total)
    BY <2>2, <2>3
  <2>5. Result' = Result
    BY <2>1 DEF Result, arguments
  <2>. QED BY <2>1, <2>4, <2>5 DEF AgreeInv, LoopsAgree, arguments
<1>. QED BY <1>1, <1>2

LEMMA AgreeTrim ==
  ASSUME Inv, AgreeInv, TrimOne \/ DropLast
  PROVE  AgreeInv'
<1>1. /\ phase = "trim" /\ phase' = "trim" /\ spent > total /\ UNCHANGED arguments
      /\ spent = Total(alloc) /\ spent \in Nat /\ alloc \in Seq(Nat)
      /\ total \in Nat /\ minPerPeer \in Nat /\ DOMAIN alloc = 1..Len(alloc)
  BY Arguments DEF TrimOne, DropLast, Over, Inv, SpentInv, LoopTypeOK
<1>2. alloc' = TrimTurn(alloc, minPerPeer)
  <2>1. CASE TrimOne
    <3>1. PICK i \in DOMAIN alloc : IsSlot(i) /\ alloc' = [alloc EXCEPT ![i] = @ - 1]
      BY <2>1 DEF TrimOne
    <3>2. i = Max(Above(alloc, minPerPeer)) /\ Above(alloc, minPerPeer) # {}
      BY <1>1, <3>1, AboveGreatest DEF IsSlot
    <3>. QED BY <3>1, <3>2 DEF TrimTurn
  <2>2. CASE DropLast
    <3>1. Above(alloc, minPerPeer) = {}
      <4>. SUFFICES ASSUME Above(alloc, minPerPeer) # {} PROVE FALSE
        OBVIOUS
      <4>. DEFINE i == Max(Above(alloc, minPerPeer))
      <4>1. i \in 1..Len(alloc) /\ alloc[i] > minPerPeer
        BY <1>1, AboveGreatest
      <4>2. \A j \in i + 1..Len(alloc) : alloc[j] <= minPerPeer
        <5>1. Above(alloc, minPerPeer) \in SUBSET (1..Len(alloc)) /\ Len(alloc) \in Nat
          BY <1>1 DEF Above
        <5>2. \A y \in Above(alloc, minPerPeer) : i >= y
          BY <5>1, MaxIn
        <5>3. \A j \in 1..Len(alloc) : alloc[j] \in Nat
          BY <1>1
        <5>. HIDE DEF i
        <5>4. ASSUME NEW j \in i + 1..Len(alloc) PROVE alloc[j] <= minPerPeer
          <6>1. j \in 1..Len(alloc) /\ ~(i >= j)
            BY <4>1, <5>1
          <6>2. j \notin Above(alloc, minPerPeer)
            BY <5>2, <6>1
          <6>. QED BY <1>1, <5>3, <6>1, <6>2 DEF Above
        <5>. QED BY <5>4
      <4>. HIDE DEF i
      <4>. QED BY <1>1, <2>2, <4>1, <4>2 DEF DropLast, IsSlot
    <3>. QED BY <2>2, <3>1 DEF DropLast, TrimTurn
  <2>. QED BY <2>1, <2>2
<1>3. ~(Total(alloc) <= total)
  BY <1>1
<1>4. Trimmed(alloc, total, minPerPeer) = Trimmed(alloc', total, minPerPeer)
  BY <1>1, <1>2, <1>3, TrimmedTurns
<1>5. Result' = Result
  BY <1>1 DEF Result, arguments
<1>. QED BY <1>1, <1>4, <1>5 DEF AgreeInv, LoopsAgree, arguments

LEMMA AgreeTrimDone ==
  ASSUME Inv, AgreeInv, TrimDone
  PROVE  AgreeInv'
<1>1. /\ phase = "trim" /\ phase' = "spread" /\ (spent <= total \/ alloc = <<>>)
      /\ UNCHANGED <<arguments, alloc, spent, idx>>
      /\ spent = Total(alloc) /\ alloc \in Seq(Nat) /\ idx = 0
      /\ total \in Nat /\ minPerPeer \in Nat /\ spent \in Nat
  <2>1. spent \in Nat /\ total \in Nat
    BY Arguments DEF Inv, LoopTypeOK
  <2>. QED BY <2>1, Arguments DEF TrimDone, Over, Inv, SpentInv, SharesInv, LoopTypeOK
<1>2. Total(alloc) <= total
  <2>1. alloc = <<>> => Total(alloc) = 0
    <3>1. \A s \in Seq(Int) : s = <<>> => Total(s) = 0
      BY TotalSeries DEF IsSeries
    <3>2. alloc \in Seq(Int)
      BY Arguments DEF Inv
    <3>. QED BY <3>1, <3>2
  <2>. QED BY <1>1, <2>1
<1>3. Trimmed(alloc, total, minPerPeer) = alloc
  BY <1>1, <1>2, TrimmedTurns
<1>4. IsBase(alloc)
  <2>1. Result = Spread(alloc, total)
    BY <1>1, <1>3 DEF AgreeInv
  <2>2. ASSUME NEW i \in 1..Len(alloc) PROVE alloc[i] = alloc[i] + Raised(idx, Len(alloc), i)
    <3>1. Len(alloc) \in Nat \ {0} /\ alloc[i] \in Nat
      BY <1>1, <2>2
    <3>2. 0 \in Nat
      OBVIOUS
    <3>3. Raised(0, Len(alloc), i) = 0
      BY <3>1, <3>2, RaisedOnce
    <3>. QED BY <1>1, <3>1, <3>3
  <2>. QED BY <1>1, <2>1, <2>2 DEF IsBase
<1>5. IsBase(alloc)'
  BY <1>1, <1>4 DEF IsBase, Result, arguments
<1>. QED BY <1>1, <1>5 DEF AgreeInv, LoopsAgree

LEMMA AgreeRaise ==
  ASSUME Inv, AgreeInv, RaiseOne
  PROVE  AgreeInv'
<1>. DEFINE n == Len(alloc)
            at == (idx % n) + 1
<1>1. /\ phase = "spread" /\ phase' = "spread" /\ alloc # <<>>
      /\ alloc' = [alloc EXCEPT ![at] = @ + 1]
      /\ spent' = spent + 1 /\ idx' = idx + 1 /\ UNCHANGED arguments
      /\ alloc \in Seq(Nat) /\ idx \in Nat
  BY DEF RaiseOne, Inv, LoopTypeOK
<1>2. /\ n \in Nat \ {0} /\ Len(alloc') = n
      /\ \A i \in 1..n : alloc[i] \in Nat /\ alloc'[i] = IF i = at THEN alloc[i] + 1 ELSE alloc[i]
  <2>1. n \in Nat \ {0} /\ DOMAIN alloc = 1..n /\ \A i \in 1..n : alloc[i] \in Nat
    BY <1>1
  <2>. HIDE DEF at
  <2>. QED BY <1>1, <2>1
<1>3. PICK base : IsBase(base)
  BY <1>1 DEF AgreeInv
<1>4. base \in Seq(Nat) /\ Len(base) = n /\ Total(base) \in Nat /\ \A i \in 1..n : base[i] \in Nat
  BY <1>3, TotalNatural DEF IsBase
<1>5. spent' = Total(base) + idx'
  BY <1>1, <1>3, <1>4 DEF IsBase
<1>6. ASSUME NEW i \in 1..n PROVE alloc'[i] = base[i] + Raised(idx', n, i)
  <2>1. alloc[i] = base[i] + Raised(idx, n, i) /\ Raised(idx, n, i) \in Nat
    BY <1>1, <1>2, <1>3, RaisedOnce DEF IsBase
  <2>2. Raised(idx', n, i) = Raised(idx, n, i) + (IF i = at THEN 1 ELSE 0)
    BY <1>1, <1>2, RaisedOnce
  <2>. HIDE DEF at, n
  <2>. QED BY <1>2, <1>4, <2>1, <2>2
<1>7. Result' = Spread(base, total')
  BY <1>1, <1>3 DEF IsBase, Result, arguments
<1>8. IsBase(base)'
  BY <1>2, <1>4, <1>5, <1>6, <1>7 DEF IsBase
<1>. QED BY <1>1, <1>8 DEF AgreeInv, LoopsAgree

LEMMA AgreeDone ==
  ASSUME Inv, AgreeInv, SpreadDone
  PROVE  AgreeInv'
<1>. DEFINE n == Len(alloc)
<1>1. /\ phase = "spread" /\ phase' = "done" /\ (spent >= total \/ alloc = <<>>)
      /\ UNCHANGED <<arguments, alloc, spent, idx>>
      /\ (spent <= total \/ alloc = <<>>)
      /\ alloc \in Seq(Nat) /\ idx \in Nat /\ spent \in Nat /\ total \in Nat
  BY Arguments DEF SpreadDone, Inv, LoopTypeOK, SpentInv
<1>2. PICK base : IsBase(base)
  BY <1>1 DEF AgreeInv
<1>3. base \in Seq(Nat) /\ Len(base) = n /\ Total(base) \in Nat /\ n \in Nat
  BY <1>1, <1>2, TotalNatural DEF IsBase
<1>. DEFINE spare == total - Total(base)
<1>4. Result = [i \in 1..n |-> base[i] + (spare + n - i) \div n]
  BY <1>2, <1>3 DEF IsBase, Spread
<1>5. alloc = [i \in 1..n |-> alloc[i]]
  BY <1>1
<1>6. \A i \in 1..n : alloc[i] = base[i] + (spare + n - i) \div n
  <2>1. CASE alloc = <<>>
    BY <2>1
  <2>2. CASE alloc # <<>>
    <3>1. idx = spare
      BY <1>1, <1>2, <1>3, <2>2 DEF IsBase
    <3>. QED BY <1>2, <3>1 DEF IsBase, Raised
  <2>. QED BY <2>1, <2>2
<1>7. alloc = Result
  BY <1>4, <1>5, <1>6
<1>8. Result' = Result
  BY <1>1 DEF Result, arguments
<1>. QED BY <1>1, <1>7, <1>8 DEF AgreeInv, LoopsAgree, Result

LEMMA AgreeNext == Inv /\ AgreeInv /\ [LoopNext]_loopVars => AgreeInv'
<1>. SUFFICES ASSUME Inv, AgreeInv, [LoopNext]_loopVars PROVE AgreeInv'
  OBVIOUS
<1>1. CASE NothingToShare \/ FirstPass
  BY <1>1, AgreeStart
<1>2. CASE TrimOne \/ DropLast
  BY <1>2, AgreeTrim
<1>3. CASE TrimDone
  BY <1>3, AgreeTrimDone
<1>4. CASE RaiseOne
  BY <1>4, AgreeRaise
<1>5. CASE SpreadDone
  BY <1>5, AgreeDone
<1>6. CASE UNCHANGED loopVars
  BY <1>6 DEF loopVars, arguments, AgreeInv, LoopsAgree, IsBase, Result
<1>. QED BY <1>1, <1>2, <1>3, <1>4, <1>5, <1>6 DEF LoopNext

(* proportional_allocation's loops compute the closed form that a membrane *)
(* query is modelled with.                                                 *)
THEOREM LoopsComputeShares == LoopSpec => []LoopsAgree
<1>1. AgreeInv => LoopsAgree
  BY DEF AgreeInv
<1>. QED BY <1>1, InvInit, InvNext, AgreeInit, AgreeNext, PTL DEF LoopSpec
----------------------------------------------------------------------------
(* Lifecycle: what makes its properties inductive.                         *)

(* Whoever is about to admit has a saga; whoever is about to remove it is  *)
(* no member any more.                                                     *)
CallInv ==
  /\ main.pc = "admit" => saga # None
  /\ main.pc = "remove" => active[Me] = None

(* A member that has left runs nothing that writes a saga: its thread is   *)
(* not in such a call, and a refresh task is gone once it was stopped.     *)
LeftInv ==
  /\ task = "none" => bg.pc = "none"
  /\ left => task = "none" /\ main.pc \notin {"write", "admit"}

(* A reader that saw a saga which is not there any more was overtaken by a *)
(* leave.                                                                  *)
ReaderInv ==
  \A r \in Reader :
    /\ reader[r].pc = "found" /\ saga = None => reader[r].gone
    /\ reader[r].pc = "failed" => reader[r].gone

SagaInv == MemberHasSaga /\ LeftNoSaga /\ CallInv /\ LeftInv /\ ReaderInv

LifeInv == LifeTypeOK /\ SagaInv

(* The types of the records.                                               *)
Call == [pc : {"idle", "write", "admit", "remove", "stopping"},
         held : Count, joins : BOOLEAN]

Task == [pc : {"none", "sleep", "check", "build", "write"},
         last_built : Count, current : Count]

Place == [pc : {"idle", "listed", "found", "failed"}, gone : BOOLEAN]

----------------------------------------------------------------------------
(* Types.                                                                  *)

LEMMA CountType == 0 \in Count /\ (\A n \in Count : n # None /\ n \in Nat)
BY LifecycleAssumption DEF Count

LEMMA TypeFacts == LifeTypeOK <=>
  /\ Member!TypeOK
  /\ count \in Count /\ saga \in Count \cup {None}
  /\ main \in Call /\ bg \in Task
  /\ stop \in BOOLEAN /\ left \in BOOLEAN
  /\ task \in {"none", "held", "dropped"}
  /\ reader \in [Reader -> Place]
BY DEF LifeTypeOK, Call, Task, Place

(* All that a step may do to each variable.                                *)
LEMMA StepChanges ==
  ASSUME LifeNext
  PROVE  /\ Member!Admit(Me) \/ Member!Revoke(Me) \/ UNCHANGED chain
         /\ count' = count \/ (count < RecordBound /\ count' = count + 1)
         /\ saga' \in {saga, None, main.held, bg.current}
         /\ \/ main' = main \/ main' = Idle
            \/ \E b \in BOOLEAN : main' = [pc |-> "write", held |-> count, joins |-> b]
            \/ \E p \in {"admit", "remove", "stopping"} : main' = [Idle EXCEPT !.pc = p]
         /\ \/ bg' = bg \/ bg' = NoTask
            \/ \E n \in {count, bg.current} :
                  bg' = [pc |-> "sleep", last_built |-> n, current |-> 0]
            \/ \E p \in {"sleep", "check", "write"} : bg' = [bg EXCEPT !.pc = p]
            \/ bg' = [bg EXCEPT !.pc = "build", !.current = count]
            \/ bg' = [bg EXCEPT !.pc = "sleep", !.current = 0]
         /\ stop' \in {stop, TRUE, FALSE} /\ left' \in {left, FALSE, task = "none"}
         /\ task' \in {task, "none", "held", "dropped"}
         /\ \/ reader' = reader
            \/ reader' = [r \in Reader |->
                            [reader[r] EXCEPT !.gone = @ \/ reader[r].pc = "found"]]
            \/ \E r \in Reader : reader' = [reader EXCEPT ![r].pc = "failed"]
            \/ \E r \in Reader, p \in {"idle", "listed", "found"} :
                  reader' = [reader EXCEPT ![r] = [pc |-> p, gone |-> FALSE]]
<1>. USE DEF LifeNext, Insert, RefreshSaga, Join, WriteSaga, Admit, Leave, RemoveSaga,
             CallFails, RevokeElsewhere, Start, Stop, Stopped, Drop, Wake, Check, Build,
             Write, RefreshFails, Die, Query, Snapshot, Look, Load, GiveUp, ReaderGoes,
             threads
<1>1. Member!Admit(Me) \/ Member!Revoke(Me) \/ UNCHANGED chain
  OBVIOUS
<1>2. count' = count \/ (count < RecordBound /\ count' = count + 1)
  OBVIOUS
<1>3. saga' \in {saga, None, main.held, bg.current}
  OBVIOUS
<1>4. \/ main' = main \/ main' = Idle
      \/ \E b \in BOOLEAN : main' = [pc |-> "write", held |-> count, joins |-> b]
      \/ \E p \in {"admit", "remove", "stopping"} : main' = [Idle EXCEPT !.pc = p]
  OBVIOUS
<1>5. \/ bg' = bg \/ bg' = NoTask
      \/ \E n \in {count, bg.current} :
            bg' = [pc |-> "sleep", last_built |-> n, current |-> 0]
      \/ \E p \in {"sleep", "check", "write"} : bg' = [bg EXCEPT !.pc = p]
      \/ bg' = [bg EXCEPT !.pc = "build", !.current = count]
      \/ bg' = [bg EXCEPT !.pc = "sleep", !.current = 0]
  OBVIOUS
<1>6. /\ stop' \in {stop, TRUE, FALSE} /\ left' \in {left, FALSE, task = "none"}
      /\ task' \in {task, "none", "held", "dropped"}
  OBVIOUS
<1>7. \/ reader' = reader
      \/ reader' = [r \in Reader |->
                      [reader[r] EXCEPT !.gone = @ \/ reader[r].pc = "found"]]
      \/ \E r \in Reader : reader' = [reader EXCEPT ![r].pc = "failed"]
      \/ \E r \in Reader, p \in {"idle", "listed", "found"} :
            reader' = [reader EXCEPT ![r] = [pc |-> p, gone |-> FALSE]]
  OBVIOUS
<1>. QED BY ONLY <1>1, <1>2, <1>3, <1>4, <1>5, <1>6, <1>7

LEMMA TypeStep ==
  ASSUME LifeTypeOK, LifeNext
  PROVE  LifeTypeOK'
<1>1. Member!TypeOK'
  BY StepChanges, LifecycleAssumption
     DEF LifeTypeOK, Member!TypeOK, Member!Admit, Member!Revoke, chain
<1>2. count' \in Count
  BY StepChanges, LifecycleAssumption DEF LifeTypeOK, Count
<1>3. saga' \in Count \cup {None}
  BY StepChanges DEF LifeTypeOK
<1>4. main' \in Call
  <2>1. main \in Call /\ count \in Count /\ 0 \in Count
    BY TypeFacts, CountType
  <2>2. Idle \in Call
    BY <2>1 DEF Idle, Call
  <2>3. \A b \in BOOLEAN : [pc |-> "write", held |-> count, joins |-> b] \in Call
    BY <2>1 DEF Call
  <2>4. \A p \in {"admit", "remove", "stopping"} : [Idle EXCEPT !.pc = p] \in Call
    BY <2>2 DEF Call
  <2>. QED BY StepChanges, <2>1, <2>2, <2>3, <2>4
<1>5. bg' \in Task
  <2>1. bg \in Task /\ count \in Count /\ 0 \in Count
    BY TypeFacts, CountType
  <2>2. NoTask \in Task /\ bg.current \in Count
    BY <2>1 DEF NoTask, Task
  <2>3. \A n \in Count : [pc |-> "sleep", last_built |-> n, current |-> 0] \in Task
    BY <2>1 DEF Task
  <2>4. \A p \in {"sleep", "check", "write"} : [bg EXCEPT !.pc = p] \in Task
    BY <2>1 DEF Task
  <2>5. /\ [bg EXCEPT !.pc = "build", !.current = count] \in Task
        /\ [bg EXCEPT !.pc = "sleep", !.current = 0] \in Task
    BY <2>1 DEF Task
  <2>. QED BY StepChanges, <2>1, <2>2, <2>3, <2>4, <2>5
<1>6. stop' \in BOOLEAN /\ left' \in BOOLEAN /\ task' \in {"none", "held", "dropped"}
  BY StepChanges DEF LifeTypeOK
<1>7. reader' \in [Reader -> Place]
  <2>1. reader \in [Reader -> Place]
    BY TypeFacts
  <2>2. \A r \in Reader : [reader[r] EXCEPT !.pc = "failed"] \in Place
    BY <2>1 DEF Place
  <2>3. \A b \in BOOLEAN, r \in Reader : [reader[r] EXCEPT !.gone = @ \/ b] \in Place
    BY <2>1 DEF Place
  <2>4. \A p \in {"idle", "listed", "found"} : [pc |-> p, gone |-> FALSE] \in Place
    BY DEF Place
  <2>5. CASE reader' = [r \in Reader |->
                         [reader[r] EXCEPT !.gone = @ \/ reader[r].pc = "found"]]
    BY <2>3, <2>5
  <2>. QED BY StepChanges, <2>1, <2>2, <2>4, <2>5
<1>. QED BY <1>1, <1>2, <1>3, <1>4, <1>5, <1>6, <1>7 DEF LifeTypeOK, Call, Task, Place

----------------------------------------------------------------------------
(* The initial state.                                                      *)

LEMMA LifeInvInit == LifeInit => LifeInv
<1>. SUFFICES ASSUME LifeInit PROVE LifeInv
  OBVIOUS
<1>1. LifeTypeOK
  <2>1. Member!TypeOK
    BY LifecycleAssumption DEF LifeInit, Member!TypeOK
  <2>2. main \in Call /\ bg \in Task /\ reader \in [Reader -> Place]
    BY CountType DEF LifeInit, Idle, NoTask, Call, Task, Place
  <2>. QED BY <2>1, <2>2, CountType, TypeFacts DEF LifeInit
<1>2. MemberHasSaga /\ LeftNoSaga /\ CallInv /\ LeftInv /\ ReaderInv
  BY DEF LifeInit, MemberHasSaga, LeftNoSaga, CallInv, LeftInv, ReaderInv, Idle, NoTask
<1>. QED BY <1>1, <1>2 DEF LifeInv, SagaInv

----------------------------------------------------------------------------
(* The member's own thread.                                                *)

LEMMA CallStep ==
  ASSUME LifeInv, Insert \/ RefreshSaga \/ Join \/ CallFails
  PROVE  SagaInv'
<1>1. MemberHasSaga' /\ LeftNoSaga' /\ ReaderInv'
  BY DEF LifeInv, SagaInv, LifeTypeOK, MemberHasSaga, LeftNoSaga, ReaderInv,
         Insert, RefreshSaga, Join, CallFails, chain, threads
<1>2. CallInv' /\ LeftInv'
  BY DEF LifeInv, SagaInv, LifeTypeOK, CallInv, LeftInv,
         Insert, RefreshSaga, Join, CallFails, chain, threads, Idle
<1>. QED BY <1>1, <1>2 DEF SagaInv

LEMMA WriteSagaStep ==
  ASSUME LifeInv, WriteSaga
  PROVE  SagaInv'
<1>1. saga' \in Count /\ saga' # None /\ ~left
  BY CountType DEF LifeInv, SagaInv, LifeTypeOK, LeftInv, WriteSaga
<1>2. MemberHasSaga' /\ LeftNoSaga' /\ CallInv' /\ LeftInv' /\ ReaderInv'
  BY <1>1 DEF LifeInv, SagaInv, LifeTypeOK, MemberHasSaga, LeftNoSaga, CallInv, LeftInv, ReaderInv,
              WriteSaga, chain, Idle
<1>. QED BY <1>2 DEF SagaInv

LEMMA AdmitStep ==
  ASSUME LifeInv, Admit
  PROVE  SagaInv'
<1>1. MemberHasSaga' /\ LeftNoSaga' /\ CallInv' /\ LeftInv' /\ ReaderInv'
  BY DEF LifeInv, SagaInv, LifeTypeOK, MemberHasSaga, LeftNoSaga, CallInv, LeftInv, ReaderInv,
         Admit, Member!Admit, Idle
<1>. QED BY <1>1 DEF SagaInv

(* Revoking leaves the member without membership, whoever does it.         *)
LEMMA RevokeStep ==
  ASSUME LifeInv, Leave \/ RevokeElsewhere
  PROVE  SagaInv'
<1>1. active' = [active EXCEPT ![Me] = None] /\ active'[Me] = None
  BY DEF LifeInv, SagaInv, LifeTypeOK, Member!TypeOK, Leave, RevokeElsewhere, Member!Revoke
<1>2. MemberHasSaga' /\ LeftNoSaga' /\ CallInv' /\ LeftInv' /\ ReaderInv'
  BY <1>1 DEF LifeInv, SagaInv, LifeTypeOK, MemberHasSaga, LeftNoSaga, CallInv, LeftInv, ReaderInv,
              Leave, RevokeElsewhere, threads, Idle
<1>. QED BY <1>2 DEF SagaInv

LEMMA RemoveSagaStep ==
  ASSUME LifeInv, RemoveSaga
  PROVE  SagaInv'
<1>1. active[Me] = None
  BY DEF LifeInv, SagaInv, CallInv, RemoveSaga
<1>2. \A r \in Reader : /\ reader'[r].pc = reader[r].pc
                        /\ reader'[r].gone = (reader[r].gone \/ reader[r].pc = "found")
  BY DEF LifeInv, SagaInv, LifeTypeOK, RemoveSaga
<1>3. MemberHasSaga' /\ LeftNoSaga' /\ CallInv'
  BY <1>1 DEF MemberHasSaga, LeftNoSaga, CallInv, RemoveSaga, chain, Idle
<1>4. LeftInv'
  BY DEF LifeInv, SagaInv, LeftInv, RemoveSaga, Idle
<1>5. ReaderInv'
  BY <1>2 DEF LifeInv, SagaInv, ReaderInv
<1>. QED BY <1>3, <1>4, <1>5 DEF SagaInv

----------------------------------------------------------------------------
(* The refresh task.                                                       *)

LEMMA HandleStep ==
  ASSUME LifeInv, Start \/ Stop \/ Stopped \/ Drop
  PROVE  SagaInv'
<1>1. MemberHasSaga' /\ LeftNoSaga' /\ ReaderInv'
  BY DEF LifeInv, SagaInv, MemberHasSaga, LeftNoSaga, ReaderInv, Start, Stop, Stopped, Drop, chain
<1>2. CallInv' /\ LeftInv'
  BY DEF LifeInv, SagaInv, LifeTypeOK, CallInv, LeftInv, Start, Stop, Stopped, Drop, chain, Idle
<1>. QED BY <1>1, <1>2 DEF SagaInv

(* As long as the task does not write, only its own place changes.         *)
LEMMA TaskStep ==
  ASSUME LifeInv, Wake \/ Check \/ Build \/ RefreshFails
  PROVE  SagaInv'
<1>1. MemberHasSaga' /\ LeftNoSaga' /\ CallInv' /\ ReaderInv'
  BY DEF LifeInv, SagaInv, MemberHasSaga, LeftNoSaga, CallInv, ReaderInv,
         Wake, Check, Build, RefreshFails, chain
<1>2. LeftInv'
  BY DEF LifeInv, SagaInv, LifeTypeOK, LeftInv, Wake, Check, Build, RefreshFails
<1>. QED BY <1>1, <1>2 DEF SagaInv

LEMMA WriteStep ==
  ASSUME LifeInv, Write
  PROVE  SagaInv'
<1>1. saga' \in Count /\ saga' # None /\ ~left
  BY CountType DEF LifeInv, SagaInv, LifeTypeOK, LeftInv, Write
<1>2. MemberHasSaga' /\ LeftNoSaga' /\ CallInv' /\ LeftInv' /\ ReaderInv'
  BY <1>1 DEF LifeInv, SagaInv, LifeTypeOK, MemberHasSaga, LeftNoSaga, CallInv, LeftInv, ReaderInv,
              Write, chain
<1>. QED BY <1>2 DEF SagaInv

LEMMA DieStep ==
  ASSUME LifeInv, Die
  PROVE  SagaInv'
<1>1. MemberHasSaga' /\ LeftNoSaga' /\ CallInv' /\ LeftInv' /\ ReaderInv'
  BY DEF LifeInv, SagaInv, MemberHasSaga, LeftNoSaga, CallInv, LeftInv, ReaderInv, Die, chain,
         Idle, NoTask
<1>. QED BY <1>1 DEF SagaInv

----------------------------------------------------------------------------
(* Readers.                                                                *)

LEMMA ReaderStep ==
  ASSUME LifeInv, NEW r \in Reader,
         Query(r) \/ Snapshot(r) \/ Look(r) \/ Load(r) \/ GiveUp(r)
  PROVE  SagaInv'
<1>1. UNCHANGED <<chain, count, saga, threads, task, left>>
  BY DEF Query, Snapshot, Look, Load, GiveUp, ReaderGoes
<1>2. PICK place \in Place :
        /\ reader' = [reader EXCEPT ![r] = place]
        /\ place.pc = "found" => saga # None
        /\ place.pc = "failed" => place.gone
  <2>1. \A p \in {"idle", "listed", "found"} :
          [pc |-> p, gone |-> FALSE] \in Place /\ [pc |-> p, gone |-> FALSE].pc = p
    BY DEF Place
  <2>2. CASE Query(r) \/ Snapshot(r) \/ GiveUp(r)
    <3>. PICK p \in {"idle", "listed"} :
                reader' = [reader EXCEPT ![r] = [pc |-> p, gone |-> FALSE]]
      BY <2>2 DEF Query, Snapshot, GiveUp, ReaderGoes
    <3>. QED BY <2>1
  <2>3. CASE Look(r)
    <3>. PICK p \in {"idle", "found"} :
                /\ reader' = [reader EXCEPT ![r] = [pc |-> p, gone |-> FALSE]]
                /\ p = "found" => saga # None
      BY <2>3 DEF Look, ReaderGoes
    <3>. QED BY <2>1
  <2>4. CASE Load(r) /\ saga # None
    <3>. reader' = [reader EXCEPT ![r] = [pc |-> "idle", gone |-> FALSE]]
      BY <2>4 DEF Load, ReaderGoes
    <3>. QED BY <2>1
  <2>5. CASE Load(r) /\ saga = None
    <3>1. reader[r].pc = "found" /\ reader[r].gone
      BY <2>5 DEF Load, LifeInv, SagaInv, ReaderInv
    <3>2. reader' = [reader EXCEPT ![r] = [reader[r] EXCEPT !.pc = "failed"]]
      BY <2>5 DEF Load
    <3>3. reader[r] \in Place
      BY TypeFacts DEF LifeInv
    <3>4. /\ [reader[r] EXCEPT !.pc = "failed"] \in Place
          /\ [reader[r] EXCEPT !.pc = "failed"].pc = "failed"
          /\ [reader[r] EXCEPT !.pc = "failed"].gone
      BY <3>1, <3>3 DEF Place
    <3>. QED BY <3>2, <3>4
  <2>. QED BY <1>1, <2>2, <2>3, <2>4, <2>5 DEF Load, Look, Query, Snapshot, GiveUp
<1>3. MemberHasSaga' /\ LeftNoSaga' /\ CallInv' /\ LeftInv'
  BY <1>1 DEF LifeInv, SagaInv, MemberHasSaga, LeftNoSaga, CallInv, LeftInv, chain, threads
<1>4. ReaderInv'
  BY <1>1, <1>2 DEF LifeInv, SagaInv, LifeTypeOK, ReaderInv
<1>. QED BY <1>3, <1>4 DEF SagaInv

----------------------------------------------------------------------------
LEMMA LifeInvNext == LifeInv /\ [LifeNext]_lifeVars => LifeInv'
<1>. SUFFICES ASSUME LifeInv, [LifeNext]_lifeVars PROVE LifeInv'
  OBVIOUS
<1>1. CASE UNCHANGED lifeVars
  BY <1>1 DEF lifeVars, LifeInv, SagaInv, LifeTypeOK, MemberHasSaga, LeftNoSaga, CallInv, LeftInv,
              ReaderInv, Member!TypeOK, Count
<1>2. CASE LifeNext
  BY <1>2, TypeStep, CallStep, WriteSagaStep, AdmitStep, RevokeStep, RemoveSagaStep, HandleStep,
     TaskStep, WriteStep, DieStep, ReaderStep DEF LifeNext, LifeInv
<1>. QED BY <1>1, <1>2

LEMMA LifeInvAlways == LifeSpec => []LifeInv
<1>. QED BY LifeInvInit, LifeInvNext, PTL DEF LifeSpec

----------------------------------------------------------------------------
(* Theorems.                                                               *)

(* Every variable of the member, of its refresh task and of its readers    *)
(* keeps its type.                                                         *)
THEOREM LifeTypeCorrect == LifeSpec => []LifeTypeOK
<1>1. LifeInv => LifeTypeOK
  BY DEF LifeInv
<1>. QED BY <1>1, LifeInvAlways, PTL

(* No member is ever without a saga, through every failure and crash of    *)
(* join, leave and refresh; and from the return of a leave on there is     *)
(* none, if every refresh task was stopped and not dropped, and as long as *)
(* the member begins nothing new.  (A revocation by others, a failed admit *)
(* or leave, or a dropped task may leave the saga of one who is no member.)*)
THEOREM SagaAlwaysFollows == LifeSpec => []SagaFollowsMembership
<1>1. LifeInv => SagaFollowsMembership
  BY DEF LifeInv, SagaInv, SagaFollowsMembership
<1>. QED BY <1>1, LifeInvAlways, PTL

(* No query and no snapshot ever fails over the saga of a member that did  *)
(* not remove it by a leave in between.                                    *)
THEOREM ReadersFailOnLeaveOnly == LifeSpec => []FailsOnlyOnLeave
<1>1. LifeInv => FailsOnlyOnLeave
  BY DEF LifeInv, SagaInv, ReaderInv, FailsOnlyOnLeave
<1>. QED BY <1>1, LifeInvAlways, PTL
=============================================================================
