-------------------------------- MODULE MCCli --------------------------------
(* An instance of Cli for TLC: processes and agents are interchangeable.   *)
EXTENDS Cli

MCSymmetry == Permutations(Proc) \cup Permutations(Agent)
=============================================================================
