----------------------------- MODULE Membership -----------------------------
(***************************************************************************)
(* What a hansa's registry promises: one embedding dimension, fixed by     *)
(* whoever founds the hansa first, and a set of active members that only   *)
(* an admit or a revoke changes, one tenant at a time.  Log files, locks,  *)
(* checkpoints and crashes are not visible here.                           *)
(***************************************************************************)
CONSTANTS Tenant, Dim, None

VARIABLES
  dim,          (* embedding dimension of the hansa, None before founding  *)
  active        (* dimension of each active member, None for the others    *)

vars == <<dim, active>>

TypeOK ==
  /\ dim \in Dim \cup {None}
  /\ active \in [Tenant -> Dim \cup {None}]

Init ==
  /\ dim = None
  /\ active = [t \in Tenant |-> None]

Found(d) ==
  /\ dim = None
  /\ dim' = d
  /\ UNCHANGED active

(* Only a tenant of the hansa's own dimension becomes a member.            *)
Admit(t) ==
  /\ dim # None
  /\ active' = [active EXCEPT ![t] = dim]
  /\ UNCHANGED dim

Revoke(t) ==
  /\ dim # None
  /\ active' = [active EXCEPT ![t] = None]
  /\ UNCHANGED dim

Next ==
  \/ \E d \in Dim : Found(d)
  \/ \E t \in Tenant : Admit(t) \/ Revoke(t)

Spec == Init /\ [][Next]_vars
=============================================================================
