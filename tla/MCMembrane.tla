----------------------------- MODULE MCMembrane -----------------------------
(* Small instances of Membrane for TLC.                                    *)
EXTENDS Membrane, TLC

CONSTANTS p1, p2, p3

MCPeers == <<p1, p2, p3>>

Shared(s) == [similarity |-> s, shareable |-> TRUE]

Private(s) == [similarity |-> s, shareable |-> FALSE]

MCRecords ==
     p1 :> <<Shared(9), Private(8), Shared(3)>>
  @@ p2 :> <<Shared(8), Shared(8)>>
  @@ p3 :> <<Private(9), Shared(5)>>
  @@ Local :> <<Private(8), Shared(2), Private(1)>>

(* Scores in units of the epsilon: one below the threshold, two equal ones *)
(* at it, one far ahead.                                                   *)
MCScore == {-1, 0, 2, 9}

Plain == [mode |-> "threads", deadline |-> FALSE, topK |-> 2, minSimilarity |-> 0,
          maxRemote |-> 4, maxTotal |-> 4]

(* Every way to fan out under every budget; and a small result of many     *)
(* hits, from all peers that have a saga.                                  *)
MCRequests ==
       {[Plain EXCEPT !.mode = m, !.deadline = d, !.maxRemote = r] :
          m \in {"threads", "tasks"}, d \in BOOLEAN, r \in {0, 1, 4}}
  \cup {[Plain EXCEPT !.topK = 3, !.minSimilarity = -1, !.maxRemote = 2,
                      !.maxTotal = 2]}
  \cup {[Plain EXCEPT !.mode = "local", !.topK = k] : k \in {1, 3}}
=============================================================================
