------------------------------- MODULE Chain -------------------------------
(***************************************************************************)
(* The signed, hash-chained members log of one hansa, as chain.rs reads    *)
(* it: what a link is, what a link commits to, which sequences of links    *)
(* `replay` accepts, and the membership it derives from them.              *)
(*                                                                         *)
(* Data abstraction.  A member record is reduced to its embedding          *)
(* dimension, a signature to the key that made it and whether it verifies. *)
(* blake3 is modelled as injective: a hash IS what it commits to, and      *)
(* since a link's canonical bytes contain the previous link's hash that is *)
(* the sequence of the contents of every link signed so far.               *)
(***************************************************************************)
EXTENDS Integers, Sequences, FiniteSets

CONSTANTS
  Tenant,       (* tenant ids                                              *)
  Dim,          (* embedding dimensions                                    *)
  Skipper,      (* skipper public keys; a HansaId is derived from one      *)
  None          (* no member / no dimension / no expected id               *)

ASSUME NoneAssumption == None \notin Dim /\ None \notin Skipper

----------------------------------------------------------------------------
Members == [Tenant -> Dim \cup {None}]

NoMembers == [t \in Tenant |-> None]

(* The bodies append_next may be asked for.                                *)
Change ==
       [kind : {"admit"}, tenant : Tenant, dim : Dim]
  \cup [kind : {"revoke"}, tenant : Tenant]

Body ==
       [kind : {"genesis"}, dim : Dim]
  \cup Change
  \cup [kind : {"checkpoint"}, members : Members, dim : Dim]

Content == [seq : Nat, body : Body, signer : Skipper]

Link ==
  [seq : Nat, prev : Seq(Content), body : Body, signer : Skipper,
   verifies : BOOLEAN]

(* The hash the next link must carry as its `prev`.                        *)
Hash(link) ==
  Append(link.prev,
         [seq |-> link.seq, body |-> link.body, signer |-> link.signer])

(* Link::signed.                                                           *)
Signed(skipper, seq, prev, body) ==
  [seq |-> seq, prev |-> prev, body |-> body, signer |-> skipper,
   verifies |-> TRUE]

(* Link::genesis: the root of a new chain, all-zero `prev`.                *)
GenesisLink(skipper, dim) ==
  Signed(skipper, 0, <<>>, [kind |-> "genesis", dim |-> dim])

----------------------------------------------------------------------------
(* replay(links, expected id).                                             *)

PinnedTo(id, key) == id # None => id = key

RootOk(link, id) ==
  /\ link.verifies
  /\ PinnedTo(id, link.signer)
  /\ \/ link.body.kind = "genesis" /\ link.seq = 0 /\ link.prev = <<>>
     \/ link.body.kind = "checkpoint"

(* Mutant: gaps are tolerated and the hash link is not followed.           *)
ExtendsOkMutant(link, before, skipper) ==
  /\ link.seq > before.seq
  /\ link.signer = skipper
  /\ link.verifies
  /\ link.body.kind \in {"admit", "revoke"}

ExtendsOk(link, before, skipper) ==
  /\ link.seq = before.seq + 1
  /\ link.prev = Hash(before)
  /\ link.signer = skipper
  /\ link.verifies
  /\ link.body.kind \in {"admit", "revoke"}

(* replay returns Ok.                                                      *)
Valid(links, id) ==
  /\ links # <<>>
  /\ RootOk(links[1], id)
  /\ \A i \in 2..Len(links) : ExtendsOk(links[i], links[i - 1], links[1].signer)

HeadLink(links) == links[Len(links)]

HeadSeq(links)  == HeadLink(links).seq

HeadHash(links) == Hash(HeadLink(links))

DimOf(links) == links[1].body.dim

(* What a sequence of links or contents makes of the members `base`: for   *)
(* each tenant the last body that names it decides.  (The loop inserts     *)
(* into and removes from a map.)                                           *)
Names(body, t) == body.kind \in {"admit", "revoke"} /\ body.tenant = t

IsLastNaming(entries, t, i) ==
  /\ Names(entries[i].body, t)
  /\ \A j \in 1..Len(entries) : j > i => ~Names(entries[j].body, t)

Outcome(body) == IF body.kind = "admit" THEN body.dim ELSE None

MembersAfter(base, entries) ==
  [t \in Tenant |->
     IF \E i \in 1..Len(entries) : IsLastNaming(entries, t, i)
       THEN Outcome(entries[CHOOSE i \in 1..Len(entries) :
                              IsLastNaming(entries, t, i)].body)
       ELSE base[t]]

RootMembers(link) ==
  IF link.body.kind = "checkpoint" THEN link.body.members ELSE NoMembers

(* ReplayOutcome.active.                                                   *)
Active(links) == MembersAfter(RootMembers(links[1]), links)

(* Mutant: the checkpoint carries the members read before the last append. *)
StaleCheckpointMutant(skipper, links) ==
  Signed(skipper, HeadSeq(links) + 1, HeadHash(links),
         [kind |-> "checkpoint",
          members |-> Active(SubSeq(links, 1, Len(links) - 1)),
          dim |-> DimOf(links)])

(* Mutant: the checkpoint starts a chain of its own.                       *)
UnlinkedCheckpointMutant(skipper, links) ==
  Signed(skipper, HeadSeq(links) + 1, <<>>,
         [kind |-> "checkpoint", members |-> Active(links),
          dim |-> DimOf(links)])

(* Mutant: the checkpoint takes the head's place and number.               *)
RenumberedCheckpointMutant(skipper, links) ==
  Signed(skipper, HeadSeq(links), HeadLink(links).prev,
         [kind |-> "checkpoint", members |-> Active(links),
          dim |-> DimOf(links)])

(* The link that replaces the whole log when it is compacted.              *)
CheckpointOf(skipper, links) ==
  Signed(skipper, HeadSeq(links) + 1, HeadHash(links),
         [kind |-> "checkpoint", members |-> Active(links),
          dim |-> DimOf(links)])

(* The head hash commits to every link ever signed into the chain, also to *)
(* those a checkpoint has dropped from the file.                           *)
History(links) == IF links = <<>> THEN <<>> ELSE HeadHash(links)
=============================================================================
