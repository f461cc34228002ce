------------------------------- MODULE MCSaga -------------------------------
(* A small instance of SagaBuild for TLC.                                  *)
EXTENDS SagaBuild

(* A schedule that doubles, as 16, 32, 64, 128 do; the last gives more     *)
(* clusters than the sample has vectors.                                   *)
MCDefaultK == [n \in 0..2 |-> 2^n]
=============================================================================
