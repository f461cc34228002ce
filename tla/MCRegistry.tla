----------------------------- MODULE MCRegistry -----------------------------
(* Small instances of FileRegistry for TLC.                                *)
EXTENDS FileRegistry, TLC

CONSTANTS p1, p2, d1, d2

(* Two founders whose tenants disagree on the dimension.                   *)
MCLocalDimDiffer == p1 :> d1 @@ p2 :> d2

MCLocalDimSame == [p \in Proc |-> d1]

MCSymmetry == Permutations(Proc) \cup Permutations(Tenant)
=============================================================================
