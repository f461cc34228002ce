--------------------------- MODULE AllocationLoop ---------------------------
(***************************************************************************)
(* proportional_allocation (allocation.rs) as the loops it is, against the *)
(* closed form Shares that Membrane uses, and what the allocation          *)
(* promises.  Each behaviour is one call: the first pass, then one share   *)
(* trimmed, dropped or raised per step.                                    *)
(***************************************************************************)
EXTENDS Allocation, FiniteSets

CONSTANTS
  Scores,         (* the scores a peer can have, in units of 1e-3          *)
  PeerBound,      (* bound: longest list of scored peers                   *)
  Totals,         (* record budgets                                        *)
  Floors,         (* min_per_peer                                          *)
  Caps            (* max_peers                                             *)

ASSUME AllocationAssumption ==
  /\ Scores \subseteq Int
  /\ PeerBound \in Nat
  /\ Totals \subseteq Nat /\ Floors \subseteq Nat /\ Caps \subseteq Nat

VARIABLES
  scores,         (* the arguments                                         *)
  total,
  minPerPeer,
  maxPeers,
  phase,          (* "start", "trim", "spread" or "done"                   *)
  alloc,          (* shares so far, by rank                                *)
  spent,          (* what the code believes they add up to                 *)
  idx             (* the share to raise next                               *)

arguments == <<scores, total, minPerPeer, maxPeers>>
loopVars == <<arguments, phase, alloc, spent, idx>>

LoopTypeOK ==
  /\ scores \in Seq(Scores) /\ Descending(scores)
  /\ total \in Totals /\ minPerPeer \in Floors /\ maxPeers \in Caps
  /\ phase \in {"start", "trim", "spread", "done"}
  /\ alloc \in Seq(Nat) /\ spent \in Nat /\ idx \in Nat

(* The caller sorts.                                                       *)
LoopInit ==
  /\ \E n \in 0..PeerBound : scores \in {s \in [1..n -> Scores] : Descending(s)}
  /\ total \in Totals /\ minPerPeer \in Floors /\ maxPeers \in Caps
  /\ phase = "start" /\ alloc = <<>> /\ spent = 0 /\ idx = 0

NothingToShare ==
  /\ phase = "start"
  /\ scores = <<>> \/ total = 0 \/ maxPeers = 0
  /\ phase' = "done"
  /\ UNCHANGED <<arguments, alloc, spent, idx>>

FirstPass ==
  /\ phase = "start"
  /\ scores # <<>> /\ total > 0 /\ maxPeers > 0
  /\ LET n == IF maxPeers < Len(scores) THEN maxPeers ELSE Len(scores)
     IN  alloc' = Proportional(SubSeq(scores, 1, n), total, minPerPeer)
  /\ spent' = Total(alloc')
  /\ phase' = "trim"
  /\ UNCHANGED <<arguments, idx>>

Over == spent > total /\ alloc # <<>>

(* The lowest ranked share above the minimum.                              *)
IsSlot(i) ==
  /\ alloc[i] > minPerPeer
  /\ \A j \in i + 1..Len(alloc) : alloc[j] <= minPerPeer

TrimOne ==
  /\ phase = "trim" /\ Over
  /\ \E i \in DOMAIN alloc : IsSlot(i) /\ alloc' = [alloc EXCEPT ![i] = @ - 1]
  /\ spent' = spent - 1
  /\ UNCHANGED <<arguments, phase, idx>>

(* Mutant: the dropped peer's records stay spent.                          *)
DropLastMutant ==
  /\ phase = "trim" /\ Over
  /\ ~\E i \in DOMAIN alloc : IsSlot(i)
  /\ alloc' = SubSeq(alloc, 1, Len(alloc) - 1)
  /\ UNCHANGED <<arguments, phase, spent, idx>>

DropLast ==
  /\ phase = "trim" /\ Over
  /\ ~\E i \in DOMAIN alloc : IsSlot(i)
  /\ spent' = spent - alloc[Len(alloc)]
  /\ alloc' = SubSeq(alloc, 1, Len(alloc) - 1)
  /\ UNCHANGED <<arguments, phase, idx>>

TrimDone ==
  /\ phase = "trim" /\ ~Over
  /\ phase' = "spread"
  /\ UNCHANGED <<arguments, alloc, spent, idx>>

RaiseOne ==
  /\ phase = "spread"
  /\ spent < total /\ alloc # <<>>
  /\ alloc' = [alloc EXCEPT ![(idx % Len(alloc)) + 1] = @ + 1]
  /\ spent' = spent + 1 /\ idx' = idx + 1
  /\ UNCHANGED <<arguments, phase>>

(* Mutant: the loop over an empty allocation goes on.                      *)
SpreadDoneMutant ==
  /\ phase = "spread"
  /\ spent >= total
  /\ phase' = "done"
  /\ UNCHANGED <<arguments, alloc, spent, idx>>

SpreadDone ==
  /\ phase = "spread"
  /\ spent >= total \/ alloc = <<>>
  /\ phase' = "done"
  /\ UNCHANGED <<arguments, alloc, spent, idx>>

LoopNext ==
  \/ NothingToShare \/ FirstPass
  \/ TrimOne \/ DropLast \/ TrimDone
  \/ RaiseOne \/ SpreadDone

(* The function runs until it returns.                                     *)
LoopSpec == LoopInit /\ [][LoopNext]_loopVars /\ WF_loopVars(LoopNext)

----------------------------------------------------------------------------
(* Properties.                                                             *)

(* The loops return what the closed form says.                             *)
LoopsAgree == phase = "done" => alloc = Shares(scores, total, minPerPeer, maxPeers)

(* The allocation spends the whole budget and no more, on no more peers    *)
(* than the cap, gives nobody less than the minimum, and never gives a     *)
(* better peer the smaller share (proportional_allocation); it leaves the  *)
(* budget unspent only when not even one minimum fits.                     *)
AllocationSound ==
  phase = "done" =>
    /\ alloc # <<>> => Total(alloc) = total
    /\ Len(alloc) <= maxPeers
    /\ \A i \in DOMAIN alloc : alloc[i] >= minPerPeer
    /\ Descending(alloc)
    /\ alloc = <<>> =>
         scores = <<>> \/ total = 0 \/ maxPeers = 0 \/ minPerPeer > total

(* Both while loops end, whatever the budget, floor and cap.               *)
Terminates == <>(phase = "done")
=============================================================================
