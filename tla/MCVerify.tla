------------------------------ MODULE MCVerify ------------------------------
(***************************************************************************)
(* What a member verifies when it replays a log: the links one after the   *)
(* other (ChainReplay), and under each link its signature (Signatures).    *)
(* A behaviour is about one of the two.                                    *)
(***************************************************************************)
EXTENDS ChainReplay, Signatures

(* The symbol of a text may be that of any field, a tag or a length.       *)
MCText == {<<>>, <<0>>}

MCInit ==
  \/ ReplayInit /\ SignInit
  \/ links = <<>> /\ SignInit

MCNext ==
  \/ Extend /\ UNCHANGED signed
  \/ links = <<>> /\ SignNext /\ UNCHANGED links

MCSpec == MCInit /\ [][MCNext]_<<links, signed>>
=============================================================================
