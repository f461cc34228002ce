----------------------------- MODULE MCContext ------------------------------
(* Small instances of ContextBuilder for TLC.                              *)
EXTENDS ContextBuilder, TLC

CONSTANTS a, b, mine, peer

MCCost == a :> 1 @@ b :> 2

(* Embeddings in a row, each near the next; some records ship without one, *)
(* and one is blank.                                                       *)
MCRecord ==
  { [payload |-> <<a>>, embedding |-> 0], [payload |-> <<b>>, embedding |-> 1],
    [payload |-> <<b>>, embedding |-> 2], [payload |-> <<a, b>>, embedding |-> 2],
    [payload |-> <<a>>, embedding |-> Absent], [payload |-> <<>>, embedding |-> Absent] }

(* 100 times log2(1 + tokens), at least 100, for up to 3 tokens.           *)
MCRanker == [similarity |-> [n \in 0..3 |-> 100],
             density    |-> 0 :> 100 @@ 1 :> 100 @@ 2 :> 158 @@ 3 :> 200]

(* Each dedup alone and all of them; each budget, with and without the     *)
(* ranker that reorders.                                                   *)
MCOptions ==
  { FromHits,
    [FromHits EXCEPT !.minSimilarity = 7, !.tokenBudget = 4],
    [FromHits EXCEPT !.tokenBudget = 3, !.ranker = "density"],
    [FromHits EXCEPT !.dedup = FALSE, !.semanticDedup = TRUE, !.recordBudget = 1],
    [FromHits EXCEPT !.sentenceDedup = TRUE, !.tokenBudget = 2],
    [FromHits EXCEPT !.sentenceDedup = TRUE, !.semanticDedup = TRUE,
                  !.ranker = "density"] }
=============================================================================
