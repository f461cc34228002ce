------------------------------ MODULE Membrane ------------------------------
(***************************************************************************)
(* One membrane query, from Hansa::query or query_async to its result      *)
(* (hansa.rs, membrane/query.rs, membrane/async_query.rs): the sagas of    *)
(* the other members are loaded and scored, the best are asked on workers  *)
(* of their own, and a collector gathers what they answer before the       *)
(* deadline.                                                               *)
(*                                                                         *)
(* What the disk, the peers and the clock do is chosen freely.             *)
(*                                                                         *)
(* Data abstraction.  A record is its similarity to the embedding asked    *)
(* for and whether its tenant shares it; a hit is a record and its origin; *)
(* a saga score, its usefulness factor included, is an integer chosen      *)
(* freely when the query scores.  Time is whether the deadline has passed. *)
(***************************************************************************)
EXTENDS Allocation, Sorting

LOCAL INSTANCE SequencesExt

CONSTANTS
  Requests,       (* the queries that callers build                        *)
  Peers,          (* the other members, in the order members() lists them  *)
  Local,          (* the caller's own tenant                               *)
  Records,        (* the records of each tenant                            *)
  Score,          (* saga scores                                           *)
  MinPerPeer,     (* the least share, 1                                    *)
  MaxPeers        (* DEFAULT_MAX_PEERS                                     *)

Peer == {Peers[i] : i \in DOMAIN Peers}

(* A query as its builder leaves it: fanned out, or local only, which it   *)
(* is without an opener too; a deadline or none; top_k of the local tenant;*)
(* the least score of a saga; and the two caps of its budget.              *)
Built(fanOut) ==
  [mode : {fanOut, "local"}, deadline : BOOLEAN, topK : Nat,
   minSimilarity : Int, maxRemote : Nat, maxTotal : Nat]

(* MembraneQuery fans out on threads, MembraneQueryAsync on tasks.         *)
ThreadQuery == Built("threads")

TaskQuery == Built("tasks")

Record == [similarity : Int, shareable : BOOLEAN]

Stats == [attempted : Nat, completed : Nat, dropped : Nat]

NoStats == [attempted |-> 0, completed |-> 0, dropped |-> 0]

ASSUME MembraneAssumption ==
  /\ Requests \subseteq ThreadQuery \cup TaskQuery
  /\ Peers \in Seq(Peer)
  /\ \A i, j \in DOMAIN Peers : Peers[i] = Peers[j] => i = j
  /\ Local \notin Peer
  /\ Records \in [Peer \cup {Local} -> Seq(Record)]
  /\ Score \subseteq Int
  /\ {MinPerPeer, MaxPeers} \subseteq Nat

VARIABLES
  request,        (* what the caller asked for                             *)
  pc,             (* where the query is                                    *)
  cursor,         (* next peer to load, or next handle to await            *)
  loaded,         (* peers whose saga was loaded                           *)
  asked,          (* the allocation: peers and their budgets               *)
  worker,         (* what each peer's worker is doing                      *)
  channel,        (* answers sent and not yet received                     *)
  expired,        (* whether the deadline has passed                       *)
  gathered,       (* peers whose answer was received, in that order        *)
  totalHits,      (* what was added to each peer's manifest                *)
  result,
  stats

vars == <<request, pc, cursor, loaded, asked, worker, channel, expired, gathered,
          totalHits, result, stats>>

workers == <<worker, channel>>
outcome == <<totalHits, result, stats>>

TypeOK ==
  /\ request \in Requests
  /\ pc \in {"load", "read", "local", "score", "check", "receive", "await",
             "merge", "done", "aborted", "failed"}
  /\ cursor \in 1..Len(Peers) + 1
  /\ loaded \in Seq(Peer)
  /\ asked \in Seq([peer : Peer, budget : Nat])
  /\ worker \in [Peer -> {"none", "running", "answered", "refused", "panicked"}]
  /\ channel \in Seq(Peer) /\ gathered \in Seq(Peer)
  /\ expired \in BOOLEAN
  /\ totalHits \in [Peer -> Nat]
  /\ result \in Seq([origin : Peer \cup {Local}, similarity : Int, shareable : BOOLEAN])
  /\ stats \in Stats

Init ==
  /\ request \in Requests
  /\ pc = "load" /\ cursor = 1
  /\ loaded = <<>> /\ asked = <<>>
  /\ worker = [p \in Peer |-> "none"]
  /\ channel = <<>> /\ gathered = <<>>
  /\ expired = FALSE
  /\ totalHits = [p \in Peer |-> 0]
  /\ result = <<>> /\ stats = NoStats

----------------------------------------------------------------------------
Prefix(s, n) == SubSeq(s, 1, IF n < Len(s) THEN n ELSE Len(s))

BySimilarity(hits) == Sorted(hits, [i \in DOMAIN hits |-> hits[i].similarity])

HitsOf(origin, records) ==
  [i \in DOMAIN records |->
     [origin |-> origin, similarity |-> records[i].similarity,
      shareable |-> records[i].shareable]]

(* The filters: which values of the flag they accept.                      *)
AcceptAll == BOOLEAN

ShareableOnly == {TRUE}

(* query_filtered of a tenant: its best records among those accepted.      *)
QueryFiltered(tenant, k, filter) ==
  LET records  == Records[tenant]
      accepted == {i \in DOMAIN records : records[i].shareable \in filter}
      best     == Ordered(records, accepted,
                          [i \in accepted |-> records[i].similarity])
  IN  HitsOf(tenant, Prefix(best, k))

(* Local visibility is total.                                              *)
LocalHits == QueryFiltered(Local, request.topK, AcceptAll)

BudgetOf(p) ==
  asked[CHOOSE i \in DOMAIN asked : asked[i].peer = p].budget

(* A peer that cannot be opened or queried answers with no hits.           *)
Batch(p) ==
  IF worker[p] = "answered" THEN QueryFiltered(p, BudgetOf(p), ShareableOnly)
                            ELSE <<>>

----------------------------------------------------------------------------
(* Hansa::query: the sagas of the members, one at a time.                  *)

LoadFinds ==
  /\ pc = "load" /\ cursor <= Len(Peers)
  /\ pc' = "read"
  /\ UNCHANGED <<request, cursor, loaded, asked, workers, expired, gathered, outcome>>

(* No saga yet.                                                            *)
LoadSkips ==
  /\ pc = "load" /\ cursor <= Len(Peers)
  /\ cursor' = cursor + 1
  /\ UNCHANGED <<request, pc, loaded, asked, workers, expired, gathered, outcome>>

ReadSaga ==
  /\ pc = "read"
  /\ loaded' = Append(loaded, Peers[cursor])
  /\ cursor' = cursor + 1 /\ pc' = "load"
  /\ UNCHANGED <<request, asked, workers, expired, gathered, outcome>>

(* The file is corrupt, or gone since exists() saw it: the query returns   *)
(* the error.                                                              *)
ReadFails ==
  /\ pc = "read"
  /\ pc' = "aborted"
  /\ UNCHANGED <<request, cursor, loaded, asked, workers, expired, gathered, outcome>>

LoadDone ==
  /\ pc = "load" /\ cursor > Len(Peers)
  /\ pc' = "local"
  /\ UNCHANGED <<request, cursor, loaded, asked, workers, expired, gathered, outcome>>

----------------------------------------------------------------------------
(* execute_with_stats.                                                     *)

LocalFails ==
  /\ pc = "local"
  /\ pc' = "failed"
  /\ UNCHANGED <<request, cursor, loaded, asked, workers, expired, gathered, outcome>>

LocalOnly ==
  /\ pc = "local" /\ request.mode = "local"
  /\ result' = Prefix(LocalHits, request.maxTotal)
  /\ pc' = "done"
  /\ UNCHANGED <<request, cursor, loaded, asked, workers, expired, gathered,
                 totalHits, stats>>

(* Score, sort, allocate, and start a worker for each peer allocated to.   *)
FanOut ==
  /\ pc = "local" /\ request.mode # "local"
  /\ \E scores \in [Peer -> Score] :
       LET scored == {i \in DOMAIN loaded : scores[loaded[i]] >= request.minSimilarity}
           ranked == Ordered(loaded, scored, [i \in scored |-> scores[loaded[i]]])
           shares == Shares([i \in DOMAIN ranked |-> scores[ranked[i]]],
                            request.maxRemote, MinPerPeer, MaxPeers)
       IN  asked' = [i \in DOMAIN shares |->
                       [peer |-> ranked[i], budget |-> shares[i]]]
  /\ worker' = [p \in Peer |->
                  IF \E i \in DOMAIN asked' : asked'[i].peer = p THEN "running"
                                                                ELSE "none"]
  /\ cursor' = 1
  /\ stats' = [NoStats EXCEPT !.attempted = Len(asked')]
  /\ pc' = IF request.mode = "threads" THEN "check" ELSE "await"
  /\ UNCHANGED <<request, loaded, channel, expired, gathered, totalHits, result>>

----------------------------------------------------------------------------
(* The workers; they go on when nobody waits for them any more.            *)

Endings == {"answered", "refused", "panicked"}

(* A thread sends its batch, an empty one where the peer failed.           *)
ThreadEnds(p) ==
  /\ request.mode = "threads" /\ worker[p] = "running"
  /\ \E how \in Endings :
       /\ worker' = [worker EXCEPT ![p] = how]
       /\ channel' = IF how = "panicked" THEN channel ELSE Append(channel, p)
  /\ UNCHANGED <<request, pc, cursor, loaded, asked, expired, gathered, outcome>>

(* A task keeps it for whoever awaits its handle.                          *)
TaskEnds(p) ==
  /\ request.mode = "tasks" /\ worker[p] = "running"
  /\ \E how \in Endings : worker' = [worker EXCEPT ![p] = how]
  /\ UNCHANGED <<request, pc, cursor, loaded, asked, channel, expired, gathered,
                 outcome>>

Work(p) == ThreadEnds(p) \/ TaskEnds(p)

Expire ==
  /\ request.deadline /\ ~expired
  /\ pc \in {"check", "receive", "await"}
  /\ expired' = TRUE
  /\ UNCHANGED <<request, pc, cursor, loaded, asked, workers, gathered, outcome>>

----------------------------------------------------------------------------
(* The collector of threads: a bounded number of recv_timeout calls.       *)

(* The loop is over, or the deadline passed before the next recv.          *)
CheckStops ==
  /\ pc = "check"
  /\ Len(gathered) = Len(asked) \/ expired
  /\ pc' = "merge"
  /\ UNCHANGED <<request, cursor, loaded, asked, workers, expired, gathered, outcome>>

CheckWaits ==
  /\ pc = "check"
  /\ Len(gathered) < Len(asked) /\ ~expired
  /\ pc' = "receive"
  /\ UNCHANGED <<request, cursor, loaded, asked, workers, expired, gathered, outcome>>

Receive ==
  /\ pc = "receive" /\ channel # <<>>
  /\ gathered' = Append(gathered, Head(channel))
  /\ channel' = Tail(channel)
  /\ pc' = "check"
  /\ UNCHANGED <<request, cursor, loaded, asked, worker, expired, outcome>>

(* Mutant: recv in place of recv_timeout.                                  *)
ReceiveStopsMutant ==
  /\ pc = "receive" /\ channel = <<>>
  /\ \A p \in Peer : worker[p] # "running"
  /\ pc' = "merge"
  /\ UNCHANGED <<request, cursor, loaded, asked, workers, expired, gathered, outcome>>

(* Timeout, or every worker has let go of the channel.                     *)
ReceiveStops ==
  /\ pc = "receive" /\ channel = <<>>
  /\ expired \/ \A p \in Peer : worker[p] # "running"
  /\ pc' = "merge"
  /\ UNCHANGED <<request, cursor, loaded, asked, workers, expired, gathered, outcome>>

----------------------------------------------------------------------------
(* The collector of tasks: the handles in the order they were spawned, all *)
(* under one timeout.                                                      *)

Awaited == asked[cursor].peer

(* Mutant: a task that panicked ends the collection.                       *)
AwaitEndsMutant ==
  /\ pc = "await" /\ cursor <= Len(asked)
  /\ worker[Awaited] # "running"
  /\ IF worker[Awaited] = "panicked"
       THEN pc' = "merge" /\ UNCHANGED <<gathered, cursor>>
       ELSE /\ gathered' = Append(gathered, Awaited)
            /\ cursor' = cursor + 1 /\ pc' = pc
  /\ UNCHANGED <<request, loaded, asked, workers, expired, outcome>>

AwaitEnds ==
  /\ pc = "await" /\ cursor <= Len(asked)
  /\ worker[Awaited] # "running"
  /\ gathered' = IF worker[Awaited] = "panicked" THEN gathered
                                                ELSE Append(gathered, Awaited)
  /\ cursor' = cursor + 1
  /\ UNCHANGED <<request, pc, loaded, asked, workers, expired, outcome>>

AwaitStops ==
  /\ pc = "await"
  /\ \/ cursor > Len(asked)
     \/ cursor <= Len(asked) /\ expired /\ worker[Awaited] = "running"
  /\ pc' = "merge"
  /\ UNCHANGED <<request, cursor, loaded, asked, workers, expired, gathered, outcome>>

----------------------------------------------------------------------------
RemoteHits == FlattenSeq([i \in DOMAIN gathered |-> Batch(gathered[i])])

HitsFrom(p, hits) == Cardinality({i \in DOMAIN hits : hits[i].origin = p})

Counted ==
  [stats EXCEPT !.completed = Len(gathered), !.dropped = Len(asked) - Len(gathered)]

(* Mutant: totals are counted in the result, after truncation.             *)
CountedLateMutant ==
  /\ pc = "merge"
  /\ stats' = Counted
  /\ \E hits \in {LocalHits \o RemoteHits} :
       result' = Prefix(BySimilarity(hits), request.maxTotal)
  /\ totalHits' = [p \in Peer |-> totalHits[p] + HitsFrom(p, result')]
  /\ pc' = "done"
  /\ UNCHANGED <<request, cursor, loaded, asked, workers, expired, gathered>>

(* Mutant: truncated before it is sorted.                                  *)
TruncatedFirstMutant ==
  /\ pc = "merge"
  /\ stats' = Counted
  /\ totalHits' = [p \in Peer |-> totalHits[p] + HitsFrom(p, RemoteHits)]
  /\ \E hits \in {Prefix(LocalHits \o RemoteHits, request.maxTotal)} :
       result' = BySimilarity(hits)
  /\ pc' = "done"
  /\ UNCHANGED <<request, cursor, loaded, asked, workers, expired, gathered>>

(* bump_total for each peer with hits, then merge and truncate.            *)
Merge ==
  /\ pc = "merge"
  /\ stats' = Counted
  /\ \E remote \in {RemoteHits} :
       /\ totalHits' = [p \in Peer |-> totalHits[p] + HitsFrom(p, remote)]
       /\ \E hits \in {LocalHits \o remote} :
            result' = Prefix(BySimilarity(hits), request.maxTotal)
  /\ pc' = "done"
  /\ UNCHANGED <<request, cursor, loaded, asked, workers, expired, gathered>>

----------------------------------------------------------------------------
Collect ==
  \/ LoadFinds \/ LoadSkips \/ ReadSaga \/ ReadFails \/ LoadDone
  \/ LocalFails \/ LocalOnly \/ FanOut
  \/ CheckStops \/ CheckWaits \/ Receive \/ ReceiveStops
  \/ AwaitEnds \/ AwaitStops
  \/ Merge

Next == Collect \/ Expire \/ \E p \in Peer : Work(p)

Spec == Init /\ [][Next]_vars

(* The caller's thread runs and the clock ticks.  A peer is relied on to   *)
(* answer or fail only where the caller set no deadline.                   *)
FairSpec ==
  /\ Spec
  /\ WF_vars(Collect) /\ WF_vars(Expire)
  /\ \A p \in Peer : WF_vars(~request.deadline /\ Work(p))

----------------------------------------------------------------------------
(* Properties.                                                             *)

(* Peers bring what they may and no more: never more hits than the remote  *)
(* budget, never from more peers than the cap, and never a record that its *)
(* tenant does not share, whatever order the answers come in: the budgets  *)
(* and the filter are the peers', given before they start                  *)
(* (execute_with_stats, open_and_query).                                   *)
RemoteAsAllowed ==
  pc = "done" => /\ Len(RemoteHits) <= request.maxRemote
                 /\ Len(gathered) <= MaxPeers
                 /\ \A i \in DOMAIN result :
                      result[i].origin # Local => result[i].shareable

(* Every answer counts whole and once, or not at all: for each peer the    *)
(* manifest grows by exactly the hits that went into the merge, which are  *)
(* a peer's whole answer or none of it, however workers, collector and     *)
(* deadline interleave.                                                    *)
AnswersCountOnce ==
  pc = "done" /\ request.mode # "local" =>
    \A p \in Peer :
      /\ Cardinality({i \in DOMAIN gathered : gathered[i] = p}) <= 1
      /\ totalHits[p] = IF \E i \in DOMAIN gathered : gathered[i] = p
                           THEN Len(Batch(p)) ELSE 0
      /\ Cardinality({i \in DOMAIN result : result[i].origin = p}) <= totalHits[p]

(* A failing peer takes nobody with it: without a deadline the query ends  *)
(* with the answer of every peer whose worker did not panic, and the stats *)
(* count as dropped the others only (MembraneStats).                       *)
NobodyElseLost ==
  pc = "done" /\ ~request.deadline =>
    LET panicked == {i \in DOMAIN asked : worker[asked[i].peer] = "panicked"}
    IN  /\ \A i \in DOMAIN asked \ panicked :
             \E j \in DOMAIN gathered : gathered[j] = asked[i].peer
        /\ stats = [attempted |-> Len(asked), dropped |-> Cardinality(panicked),
                    completed |-> Len(asked) - Cardinality(panicked)]

(* The result is as long as the total budget and the hits allow, and no    *)
(* hit that was gathered and cut is better than one that was kept.         *)
ResultIsBest ==
  pc = "done" /\ request.mode # "local" =>
    LET all == LocalHits \o RemoteHits
        count(s, x) == Cardinality({i \in DOMAIN s : s[i] = x})
    IN  /\ Len(result) = Len(Prefix(all, request.maxTotal))
        /\ \A x \in {all[i] : i \in DOMAIN all} :
             /\ count(result, x) <= count(all, x)
             /\ count(result, x) < count(all, x) =>
                  \A i \in DOMAIN result : result[i].similarity >= x.similarity

(* A query returns: with a deadline even when a peer never answers.        *)
Returns == <>(pc \in {"done", "aborted", "failed"})
=============================================================================
