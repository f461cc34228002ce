----------------------------- MODULE Signatures -----------------------------
(***************************************************************************)
(* What a skipper signs: the canonical bytes of a genesis record, of a     *)
(* link and of the member records in it (sign.rs, genesis.rs, member.rs,   *)
(* chain.rs), and what a reader makes of a signature.  Chain takes from    *)
(* here that a link that verifies is the link that was signed.             *)
(*                                                                         *)
(* A byte string is a sequence of symbols.  A fixed-width field is one     *)
(* symbol; what has no width of its own (a text, a record inside another)  *)
(* is as long as it is.  ed25519 is ideal: a signature holds the key that  *)
(* made it and the bytes it was made over.                                 *)
(***************************************************************************)
EXTENDS Integers, Sequences

LOCAL INSTANCE SequencesExt

CONSTANTS
  Key,          (* skipper public keys, from_bytes having refused weak ones*)
  Text,         (* strings                                                 *)
  Id,           (* tenant ids                                              *)
  Width,        (* embedding dimensions                                    *)
  Time,         (* unix seconds                                            *)
  Number,       (* sequence numbers                                        *)
  Digest,       (* hashes of earlier links                                 *)
  Absent,       (* an Option that is None; nothing signed                  *)
  MaxMembers    (* most members in a checkpoint                            *)

ASSUME SignaturesAssumption ==
  /\ Key \cup Id \cup Width \cup Time \cup Number \cup Digest \subseteq Nat
  /\ \A t \in Text : t \in Seq(Nat)
  /\ 0 \in Number /\ 0 \in Digest
  /\ MaxMembers \in Nat

VARIABLE signed         (* a link that was signed, and its signature       *)

----------------------------------------------------------------------------
(* canonical::Writer.                                                      *)

(* u8, u32, u64, i64 and fixed: as wide as the field always is.            *)
Fixed(x) == <<x>>

(* Mutant: no length.                                                      *)
BytesMutant(b) == b

(* bytes and str: a length, and then the thing itself.                     *)
Bytes(b) == Fixed(Len(b)) \o b

(* An Option is a tag and what there is.                                   *)
Optional(value, bytes) == IF value = Absent THEN Fixed(0) ELSE Fixed(1) \o bytes

----------------------------------------------------------------------------
(* Records.                                                                *)

Location ==
       [kind : {"path"}, path : Text]
  \cup [kind : {"resp3"}, endpoint : Text, auth : (Text \X Text) \cup {Absent}]
  \cup [kind : {"http"}, base_url : Text, bearer : Text \cup {Absent}]

MemberRecord ==
  [tenant_id : Id, tenant_location : Location, embedding_dim : Width,
   joined_at : Time]

LocationBytes(at) ==
  CASE at.kind = "path"  -> Fixed(0) \o Bytes(at.path)
    [] at.kind = "resp3" -> Fixed(1) \o Bytes(at.endpoint) \o
         Optional(at.auth, IF at.auth = Absent THEN <<>>
                           ELSE Bytes(at.auth[1]) \o Bytes(at.auth[2]))
    [] at.kind = "http"  -> Fixed(2) \o Bytes(at.base_url) \o
         Optional(at.bearer, IF at.bearer = Absent THEN <<>> ELSE Bytes(at.bearer))

(* MemberRecord::canonical.                                                *)
MemberBytes(m) ==
  Fixed(m.tenant_id) \o Fixed(m.embedding_dim) \o Fixed(m.joined_at) \o
    LocationBytes(m.tenant_location)

GENESIS_V == 2

(* HansaId::from_skipper: an id stands for the key it was hashed from.     *)
FromSkipper(key) == key

Genesis ==
  [v : {GENESIS_V - 1, GENESIS_V}, hansa_id : Key, skipper_pub : Key,
   embedding_dim : Width, created_at : Time, rotation_allowed : {0, 1}]

(* Genesis::canonical.                                                     *)
GenesisBytes(g) ==
  Fixed(g.v) \o Fixed(g.hansa_id) \o Fixed(g.skipper_pub) \o
    Fixed(g.embedding_dim) \o Fixed(g.created_at) \o Fixed(g.rotation_allowed)

LinkBody ==
       [kind : {"genesis"}, genesis : Genesis]
  \cup [kind : {"admit"}, member : MemberRecord, member_pub : Key \cup {Absent}]
  \cup [kind : {"revoke"}, tenant_id : Id, at : Time, reason : Text \cup {Absent}]
  \cup [kind : {"checkpoint"}, members : BoundedSeq(MemberRecord, MaxMembers),
        embedding_dim : Width, at : Time]

(* Body::write_canonical.                                                  *)
BodyBytes(b) ==
  CASE b.kind = "genesis" -> Fixed(0) \o GenesisBytes(b.genesis)
    [] b.kind = "admit" ->
         Fixed(1) \o Bytes(MemberBytes(b.member)) \o
           Optional(b.member_pub, Fixed(b.member_pub))
    [] b.kind = "revoke" ->
         Fixed(2) \o Fixed(b.tenant_id) \o Fixed(b.at) \o
           Optional(b.reason, IF b.reason = Absent THEN <<>> ELSE Bytes(b.reason))
    [] b.kind = "checkpoint" ->
         Fixed(3) \o Fixed(b.embedding_dim) \o Fixed(b.at) \o Fixed(Len(b.members)) \o
           FlattenSeq([i \in DOMAIN b.members |-> Bytes(MemberBytes(b.members[i]))])

LinkRecord == [seq : Number, prev : Digest, body : LinkBody, signed_by : Key]

(* Link::canonical.                                                        *)
LinkBytes(l) == Fixed(l.seq) \o Fixed(l.prev) \o BodyBytes(l.body) \o Fixed(l.signed_by)

----------------------------------------------------------------------------
(* Signing and verifying.                                                  *)

DOMAIN_GENESIS == <<100>>

DOMAIN_LINK == <<101>>

Framed(domain, msg) == domain \o msg

(* A signature, made with a key over some bytes.                           *)
Sig(key, bytes) == [by |-> key, over |-> bytes]

Sign(key, domain, msg) == Sig(key, Framed(domain, msg))

Verifies(key, domain, msg, sig) == sig = Sig(key, Framed(domain, msg))

(* Every link there is, with the bytes that are signed and hashed.         *)
LinkStatement == {[what |-> l, bytes |-> LinkBytes(l)] : l \in LinkRecord}

(* Link::genesis.                                                          *)
RootLink(g) ==
  [seq |-> 0, prev |-> 0, body |-> [kind |-> "genesis", genesis |-> g],
   signed_by |-> g.skipper_pub]

(* Genesis::verify_for, when the joiner was told an id, verify otherwise.  *)
GenesisVerifies(g, expected, sig) ==
  /\ expected # Absent => g.hansa_id = expected
  /\ g.v = GENESIS_V
  /\ FromSkipper(g.skipper_pub) = g.hansa_id
  /\ Verifies(g.skipper_pub, DOMAIN_GENESIS, GenesisBytes(g), sig)

(* replay's look at the signature of a link.  What a genesis signature     *)
(* does not cover, the place and the signer of its link, it looks at too.  *)
LinkVerifies(s, expected, sig) ==
  IF s.what.body.kind = "genesis"
    THEN /\ s.what.seq = 0 /\ s.what.prev = 0
         /\ s.what.signed_by = s.what.body.genesis.skipper_pub
         /\ GenesisVerifies(s.what.body.genesis, expected, sig)
    ELSE Verifies(s.what.signed_by, DOMAIN_LINK, s.bytes, sig)

SignInit == signed = Absent

(* Genesis::found.                                                         *)
FoundGenesis ==
  /\ signed = Absent
  /\ \E g \in Genesis :
       /\ g.v = GENESIS_V
       /\ g.hansa_id = FromSkipper(g.skipper_pub)
       /\ signed' = [link |-> RootLink(g),
                     sig |-> Sign(g.skipper_pub, DOMAIN_GENESIS, GenesisBytes(g))]

(* Link::signed, for every other body.                                     *)
SignLink ==
  /\ signed = Absent
  /\ \E s \in LinkStatement :
       /\ s.what.body.kind # "genesis"
       /\ signed' = [link |-> s.what,
                     sig |-> Sign(s.what.signed_by, DOMAIN_LINK, s.bytes)]

SignNext == FoundGenesis \/ SignLink

SignSpec == SignInit /\ [][SignNext]_signed

----------------------------------------------------------------------------
(* Properties.                                                             *)

(* A signature vouches for one link: whatever replay lets pass with it, a  *)
(* genesis (for whichever id the joiner was told) or another, is in every  *)
(* field the link the skipper signed, however the texts in it are cut,     *)
(* which of its options are there and where in it a record ends.  And the  *)
(* bytes that the next link's `prev` is the hash of are those of no other. *)
SignatureBinds ==
  signed # Absent =>
    LET hashed == LinkBytes(signed.link)
    IN  \A s \in LinkStatement :
          /\ \A expected \in Key \cup {Absent} :
               LinkVerifies(s, expected, signed.sig) => s.what = signed.link
          /\ s.bytes = hashed => s.what = signed.link
=============================================================================
