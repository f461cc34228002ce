---------------------------- MODULE ChainReplay ----------------------------
(***************************************************************************)
(* chain.rs's `replay` as the loop it is, against the declarative          *)
(* definitions of Chain that every other module uses; and what the hash    *)
(* chain detects.  The behaviours are logs: a chain that `replay` accepts, *)
(* grown link by link, and at any point ending in one link with any of its *)
(* fields wrong.                                                           *)
(***************************************************************************)
EXTENDS Chain

LOCAL INSTANCE SequencesExt

CONSTANT MaxLinks       (* longest log                                     *)

ASSUME MaxLinksAssumption == MaxLinks \in Nat \ {0}

VARIABLE links

----------------------------------------------------------------------------
(* The loop: skipper, dimension and members so far, and the link the next  *)
(* one must extend; `ok` is lost at the first error.                       *)

Refused == [ok |-> FALSE]

RootState(link) ==
  [ok |-> TRUE, skipper |-> link.signer, dim |-> link.body.dim,
   active |-> RootMembers(link), seq |-> link.seq, hash |-> Hash(link)]

Apply(active, body) ==
  IF body.kind = "admit" THEN [active EXCEPT ![body.tenant] = body.dim]
                         ELSE [active EXCEPT ![body.tenant] = None]

(* Mutant: the sequence number is left to the hash.                        *)
AcceptsMutant(state, link) ==
  /\ state.ok
  /\ link.prev = state.hash
  /\ link.signer = state.skipper
  /\ link.verifies
  /\ link.body.kind \notin {"genesis", "checkpoint"}

Accepts(state, link) ==
  /\ state.ok
  /\ link.seq = state.seq + 1 /\ link.prev = state.hash
  /\ link.signer = state.skipper
  /\ link.verifies
  /\ link.body.kind \notin {"genesis", "checkpoint"}

ReplayStep(state, link) ==
  IF Accepts(state, link)
    THEN [state EXCEPT !.active = Apply(@, link.body),
                       !.seq = link.seq, !.hash = Hash(link)]
    ELSE Refused

Replay(log, id) ==
  IF log = <<>> \/ ~RootOk(log[1], id)
    THEN Refused
    ELSE FoldLeft(ReplayStep, RootState(log[1]), Tail(log))

----------------------------------------------------------------------------
(* Logs.                                                                   *)

AnyLink(seqs, prevs) ==
  [seq : seqs, prev : prevs, body : Body, signer : Skipper, verifies : BOOLEAN]

(* The prev of a checkpoint that replaced a chain of one genesis.          *)
OlderHash == {Hash(GenesisLink(s, d)) : s \in Skipper, d \in Dim}

ReplayInit == \E root \in AnyLink({0, 1}, {<<>>} \cup OlderHash) : links = <<root>>

Extend ==
  /\ Len(links) < MaxLinks
  /\ Valid(links, None)
  /\ \E l \in AnyLink({HeadSeq(links), HeadSeq(links) + 1, HeadSeq(links) + 2},
                      {HeadHash(links), links[1].prev, Hash(links[1])}) :
       links' = Append(links, l)

ReplayNext == Extend

ReplaySpec == ReplayInit /\ [][ReplayNext]_links

----------------------------------------------------------------------------
(* Properties.                                                             *)

(* The loop accepts exactly the logs Valid describes, whichever hansa id   *)
(* it is pinned to, and derives exactly Active and the head from them.     *)
LoopAgrees ==
  \A id \in Skipper \cup {None} :
    LET out == Replay(links, id)
    IN  /\ out.ok <=> Valid(links, id)
        /\ out.ok => /\ out.active = Active(links)
                     /\ out.dim = DimOf(links)
                     /\ out.seq = HeadSeq(links) /\ out.hash = HeadHash(links)

Without(log, i) == SubSeq(log, 1, i - 1) \o SubSeq(log, i + 1, Len(log))

Swapped(log, i, j) == [log EXCEPT ![i] = log[j], ![j] = log[i]]

Repeated(log, i) == SubSeq(log, 1, i) \o SubSeq(log, i, Len(log))

(* A log that lost, repeated or reordered links is refused by every        *)
(* replay, unless what it lost is its end: only that truncation is left    *)
(* for the head cache to notice.                                           *)
OnlyTruncationPasses ==
  Valid(links, None) =>
    \A i \in 1..Len(links) :
      /\ i < Len(links) => ~Valid(Without(links, i), None)
      /\ ~Valid(Repeated(links, i), None)
      /\ \A j \in 1..Len(links) : i < j => ~Valid(Swapped(links, i, j), None)
=============================================================================
