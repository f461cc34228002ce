---------------------------- MODULE Chain_proofs ----------------------------
(***************************************************************************)
(* Facts about Chain that the proofs of FileRegistry, HansaOpen and        *)
(* ChainReplay share: what signing, appending and compacting do to a chain *)
(* that `replay` accepts, to its members and to its history.               *)
(***************************************************************************)
EXTENDS Chain, TLAPS, SequenceTheorems

----------------------------------------------------------------------------
(* Types.                                                                  *)

ContentOfLink(l) == [seq |-> l.seq, body |-> l.body, signer |-> l.signer]

(* A hash is a sequence of contents.                                       *)
LEMMA HashType ==
  ASSUME NEW l \in Link
  PROVE  Hash(l) \in Seq(Content)
<1>1. [seq |-> l.seq, body |-> l.body, signer |-> l.signer] \in Content
  BY DEF Link, Content
<1>. QED BY <1>1 DEF Hash, Link

LEMMA HistoryType ==
  ASSUME NEW links \in Seq(Link)
  PROVE  History(links) \in Seq(Content)
<1>1. links # <<>> => HeadLink(links) \in Link
  BY DEF HeadLink
<1>. QED BY <1>1, HashType DEF History, HeadHash

(* Link::signed and Link::genesis build links.                             *)
LEMMA SignedType ==
  ASSUME NEW s \in Skipper, NEW n \in Nat, NEW h \in Seq(Content), NEW b \in Body
  PROVE  Signed(s, n, h, b) \in Link
BY DEF Signed, Link

LEMMA GenesisType ==
  ASSUME NEW s \in Skipper, NEW d \in Dim
  PROVE  GenesisLink(s, d) \in Link
<1>1. [kind |-> "genesis", dim |-> d] \in Body
  BY DEF Body
<1>2. <<>> \in Seq(Content)
  OBVIOUS
<1>. QED BY <1>1, <1>2, SignedType DEF GenesisLink

(* Replaying links yields members.                                         *)
LEMMA MembersAfterType ==
  ASSUME NEW base \in Members, NEW entries,
         \A i \in 1..Len(entries) : entries[i].body \in Body
  PROVE  MembersAfter(base, entries) \in Members
<1>1. SUFFICES ASSUME NEW t \in Tenant
               PROVE  MembersAfter(base, entries)[t] \in Dim \cup {None}
  BY DEF MembersAfter, Members
<1>2. CASE \E i \in 1..Len(entries) : IsLastNaming(entries, t, i)
  <2>. DEFINE k == CHOOSE i \in 1..Len(entries) : IsLastNaming(entries, t, i)
  <2>1. k \in 1..Len(entries)
    BY <1>2
  <2>2. entries[k].body \in Body
    BY <2>1
  <2>3. Outcome(entries[k].body) \in Dim \cup {None}
    BY <2>2 DEF Outcome, Body, Change
  <2>. QED BY <1>2, <2>3 DEF MembersAfter
<1>3. CASE ~\E i \in 1..Len(entries) : IsLastNaming(entries, t, i)
  BY <1>3 DEF MembersAfter, Members
<1>. QED BY <1>2, <1>3

LEMMA ActiveType ==
  ASSUME NEW links \in Seq(Link), links # <<>>
  PROVE  Active(links) \in Members
<1>1. \A i \in 1..Len(links) : links[i] \in Link
  OBVIOUS
<1>2. \A i \in 1..Len(links) : links[i].body \in Body
  BY <1>1 DEF Link
<1>3. links[1].body \in Body
  BY <1>2
<1>4. RootMembers(links[1]) \in Members
  BY <1>3 DEF RootMembers, Body, Change, NoMembers, Members
<1>. QED BY <1>2, <1>4, MembersAfterType DEF Active

(* What any reader of a valid chain finds at its two ends.                 *)
LEMMA ChainEnds ==
  ASSUME NEW links \in Seq(Link), NEW id, Valid(links, id)
  PROVE  /\ links # <<>> /\ Len(links) \in Nat /\ Len(links) >= 1
         /\ links[1] \in Link /\ HeadLink(links) \in Link
         /\ HeadSeq(links) \in Nat /\ HeadHash(links) \in Seq(Content)
         /\ DimOf(links) \in Dim
         /\ History(links) = HeadHash(links)
<1>1. /\ links # <<>>
      /\ Len(links) \in 1..Len(links)
      /\ 1 \in 1..Len(links)
      /\ links[1] \in Link /\ HeadLink(links) \in Link
  BY DEF Valid, HeadLink
<1>2. HeadSeq(links) \in Nat
  BY <1>1 DEF HeadSeq, Link
<1>3. HeadHash(links) \in Seq(Content)
  BY <1>1, HashType DEF HeadHash
<1>4. DimOf(links) \in Dim
  BY <1>1 DEF DimOf, Valid, RootOk, Link, Body, Change
<1>. QED BY <1>1, <1>2, <1>3, <1>4 DEF History

(* What append_next and checkpoint_locked sign on a valid chain is a link. *)
LEMMA NextLinkType ==
  ASSUME NEW s \in Skipper, NEW links \in Seq(Link), NEW id, Valid(links, id)
  PROVE  /\ \A b \in Change :
              Signed(s, HeadSeq(links) + 1, HeadHash(links), b) \in Link
         /\ CheckpointOf(s, links) \in Link
<1>1. HeadSeq(links) + 1 \in Nat /\ HeadHash(links) \in Seq(Content)
  BY ChainEnds
<1>2. \A b \in Change : b \in Body
  BY DEF Body
<1>3. [kind |-> "checkpoint", members |-> Active(links), dim |-> DimOf(links)] \in Body
  BY ChainEnds, ActiveType DEF Body
<1>. QED BY <1>1, <1>2, <1>3, SignedType DEF CheckpointOf

----------------------------------------------------------------------------
(* Validity.                                                               *)

(* Reading past a link needs its predecessor only: a chain grows by any    *)
(* link that extends its head.                                             *)
LEMMA ValidExtends ==
  ASSUME NEW links \in Seq(Link), NEW id, Valid(links, id),
         NEW l \in Link, ExtendsOk(l, HeadLink(links), links[1].signer)
  PROVE  Valid(Append(links, l), id)
<1>. DEFINE longer == Append(links, l)
<1>1. /\ Len(links) \in Nat /\ Len(links) >= 1
      /\ Len(longer) = Len(links) + 1
      /\ \A i \in 1..Len(links) : longer[i] = links[i]
      /\ longer[Len(links) + 1] = l
  BY DEF Valid
<1>2. longer # <<>> /\ longer[1] = links[1]
  BY <1>1
<1>3. ASSUME NEW i \in 2..Len(longer)
      PROVE  ExtendsOk(longer[i], longer[i - 1], longer[1].signer)
  <2>1. CASE i \in 2..Len(links)
    BY <1>1, <2>1 DEF Valid
  <2>2. CASE i = Len(links) + 1
    BY <1>1, <2>2 DEF HeadLink
  <2>. QED BY <1>1, <1>3, <2>1, <2>2
<1>. QED BY <1>2, <1>3 DEF Valid

(* The owner's chains are valid without a pinned id, and signed by it.     *)
LEMMA ValidOfOwner ==
  ASSUME NEW links, NEW owner \in Skipper, Valid(links, owner)
  PROVE  Valid(links, None) /\ links[1].signer = owner
BY NoneAssumption DEF Valid, RootOk, PinnedTo

(* What append_next signs extends the chain it read.                       *)
LEMMA SignedExtends ==
  ASSUME NEW links, NEW owner \in Skipper, Valid(links, owner), NEW b \in Change
  PROVE  ExtendsOk(Signed(owner, HeadSeq(links) + 1, HeadHash(links), b),
                   HeadLink(links), links[1].signer)
BY ValidOfOwner DEF ExtendsOk, Signed, HeadSeq, HeadHash, Change

(* What found and checkpoint_locked sign is the root of a chain.           *)
LEMMA SignedRoots ==
  ASSUME NEW owner \in Skipper
  PROVE  /\ \A d : RootOk(GenesisLink(owner, d), owner)
         /\ \A links : RootOk(CheckpointOf(owner, links), owner)
BY DEF GenesisLink, CheckpointOf, Signed, RootOk, PinnedTo

(* A log of one acceptable root is a chain.                                *)
LEMMA RootAlone ==
  ASSUME NEW r, NEW id, RootOk(r, id)
  PROVE  Valid(<<r>>, id)
BY DEF Valid

----------------------------------------------------------------------------
(* Members.                                                                *)

LEMMA MembersOfRoot ==
  ASSUME NEW base \in Members, NEW e, \A t \in Tenant : ~Names(e.body, t)
  PROVE  MembersAfter(base, <<e>>) = base
<1>1. \A t \in Tenant : ~\E i \in 1..Len(<<e>>) : IsLastNaming(<<e>>, t, i)
  BY DEF IsLastNaming
<1>. QED BY <1>1 DEF MembersAfter, Members

(* One entry more decides for the tenant it names and for nobody else.     *)
LEMMA MembersOfOneMore ==
  ASSUME NEW S, NEW entries \in Seq(S), NEW e \in S, NEW base
  PROVE  MembersAfter(base, Append(entries, e)) =
           [t \in Tenant |-> IF Names(e.body, t)
                             THEN Outcome(e.body)
                             ELSE MembersAfter(base, entries)[t]]
<1>. DEFINE longer == Append(entries, e)
            n == Len(entries)
<1>1. /\ n \in Nat /\ Len(longer) = n + 1 /\ longer[n + 1] = e
      /\ \A i \in 1..n : longer[i] = entries[i]
  OBVIOUS
<1>2. SUFFICES ASSUME NEW t \in Tenant
               PROVE  MembersAfter(base, longer)[t] =
                        IF Names(e.body, t) THEN Outcome(e.body)
                        ELSE MembersAfter(base, entries)[t]
  BY DEF MembersAfter
<1>. HIDE DEF longer, n
<1>3. CASE Names(e.body, t)
  <2>1. \A i \in 1..n + 1 : IsLastNaming(longer, t, i) <=> i = n + 1
    BY <1>1, <1>3 DEF IsLastNaming
  <2>2. (CHOOSE i \in 1..Len(longer) : IsLastNaming(longer, t, i)) = n + 1
    BY <1>1, <2>1
  <2>3. \E i \in 1..Len(longer) : IsLastNaming(longer, t, i)
    BY <1>1, <2>1
  <2>. QED BY <1>1, <1>3, <2>2, <2>3 DEF MembersAfter
<1>4. CASE ~Names(e.body, t)
  <2>1. \A i \in 1..n : IsLastNaming(longer, t, i) <=> IsLastNaming(entries, t, i)
    BY <1>1, <1>4 DEF IsLastNaming, n
  <2>2. ~IsLastNaming(longer, t, n + 1)
    BY <1>1, <1>4 DEF IsLastNaming
  <2>3. \A i : (i \in 1..Len(longer) /\ IsLastNaming(longer, t, i))
                 <=> (i \in 1..n /\ IsLastNaming(entries, t, i))
    BY <1>1, <2>1, <2>2
  <2>4. (CHOOSE i \in 1..Len(longer) : IsLastNaming(longer, t, i))
          = (CHOOSE i \in 1..Len(entries) : IsLastNaming(entries, t, i))
    BY <2>3 DEF n
  <2>5. CASE \E i \in 1..n : IsLastNaming(entries, t, i)
    <3>. DEFINE k == CHOOSE i \in 1..Len(entries) : IsLastNaming(entries, t, i)
    <3>1. k \in 1..n
      BY <2>5 DEF n
    <3>2. longer[k] = entries[k]
      BY <1>1, <3>1
    <3>3. \E i \in 1..Len(longer) : IsLastNaming(longer, t, i)
      BY <2>3, <2>5
    <3>. QED BY <1>4, <2>4, <2>5, <3>2, <3>3 DEF MembersAfter, n
  <2>6. CASE ~\E i \in 1..n : IsLastNaming(entries, t, i)
    <3>1. ~\E i \in 1..Len(longer) : IsLastNaming(longer, t, i)
      BY <2>3, <2>6
    <3>. QED BY <1>4, <2>6, <3>1 DEF MembersAfter, n
  <2>. QED BY <2>5, <2>6
<1>. QED BY <1>3, <1>4

(* The members of a chain after one change more.                           *)
LEMMA ActiveExtends ==
  ASSUME NEW links \in Seq(Link), links # <<>>, NEW l \in Link
  PROVE  Active(Append(links, l)) =
           [t \in Tenant |-> IF Names(l.body, t) THEN Outcome(l.body)
                                                 ELSE Active(links)[t]]
<1>1. Append(links, l)[1] = links[1]
  BY Len(links) >= 1
<1>. QED BY <1>1, MembersOfOneMore DEF Active

(* A root names nobody.                                                    *)
LEMMA ActiveOfRoot ==
  ASSUME NEW r \in Link, r.body.kind \in {"genesis", "checkpoint"}
  PROVE  Active(<<r>>) = RootMembers(r)
<1>1. RootMembers(r) \in Members
  BY DEF RootMembers, NoMembers, Members, Link, Body, Change
<1>2. \A t \in Tenant : ~Names(r.body, t)
  BY DEF Names
<1>3. MembersAfter(RootMembers(r), <<r>>) = RootMembers(r)
  BY <1>1, <1>2, MembersOfRoot
<1>. QED BY <1>3 DEF Active

----------------------------------------------------------------------------
(* History.                                                                *)

(* Signing on a chain adds one content to its history: as a link behind    *)
(* the others, or as the checkpoint that replaces them.                    *)
LEMMA HistoryExtends ==
  ASSUME NEW links \in Seq(Link), links # <<>>, NEW l \in Link,
         l.prev = HeadHash(links)
  PROVE  /\ History(Append(links, l)) = Append(History(links), ContentOfLink(l))
         /\ History(<<l>>) = Append(History(links), ContentOfLink(l))
<1>1. HeadLink(Append(links, l)) = l /\ Append(links, l) # <<>>
  BY DEF HeadLink
<1>2. HeadLink(<<l>>) = l /\ <<l>> # <<>>
  BY DEF HeadLink
<1>. QED BY <1>1, <1>2 DEF History, HeadHash, Hash, ContentOfLink

LEMMA ContentType ==
  ASSUME NEW l \in Link
  PROVE  ContentOfLink(l) \in Content /\ ContentOfLink(l).body = l.body
BY DEF ContentOfLink, Link, Content

(* A chain tells the truth when its members are those that its whole       *)
(* history, from the genesis on, gives.                                    *)
Truthful(links) == Active(links) = MembersAfter(NoMembers, History(links))

LEMMA NoMembersType == NoMembers \in Members
BY DEF NoMembers, Members

LEMMA GenesisTruthful ==
  ASSUME NEW s \in Skipper, NEW d \in Dim
  PROVE  Truthful(<<GenesisLink(s, d)>>)
<1>. DEFINE g == GenesisLink(s, d)
            c == ContentOfLink(g)
<1>1. /\ g \in Link /\ g.prev = <<>>
      /\ g.body.kind = "genesis" /\ g.body = [kind |-> "genesis", dim |-> d]
  BY GenesisType DEF GenesisLink, Signed
<1>2. History(<<g>>) = <<c>>
  <2>1. History(<<g>>) = Append(<<>>, c)
    BY <1>1 DEF History, HeadHash, HeadLink, Hash, ContentOfLink
  <2>2. Append(<<>>, c) = <<c>>
    OBVIOUS
  <2>. QED BY <2>1, <2>2
<1>3. \A t \in Tenant : ~Names(c.body, t)
  BY <1>1, ContentType DEF Names
<1>. HIDE DEF g, c
<1>4. MembersAfter(NoMembers, <<c>>) = NoMembers
  BY <1>3, MembersOfRoot, NoMembersType
<1>5. Active(<<g>>) = NoMembers
  BY <1>1, ActiveOfRoot DEF RootMembers
<1>. QED BY <1>2, <1>4, <1>5 DEF Truthful, g

LEMMA ExtendsTruthful ==
  ASSUME NEW links \in Seq(Link), links # <<>>, Truthful(links), NEW l \in Link,
         l.prev = HeadHash(links)
  PROVE  Truthful(Append(links, l))
<1>1. History(links) \in Seq(Content) /\ ContentOfLink(l) \in Content
  BY HistoryType, ContentType
<1>2. MembersAfter(NoMembers, History(Append(links, l))) =
        [t \in Tenant |-> IF Names(l.body, t) THEN Outcome(l.body)
                          ELSE MembersAfter(NoMembers, History(links))[t]]
  <2>1. MembersAfter(NoMembers, Append(History(links), ContentOfLink(l)))
          = [t \in Tenant |-> IF Names(ContentOfLink(l).body, t)
                              THEN Outcome(ContentOfLink(l).body)
                              ELSE MembersAfter(NoMembers, History(links))[t]]
    BY <1>1, MembersOfOneMore
  <2>. QED BY <2>1, HistoryExtends, ContentType
<1>. QED BY <1>2, ActiveExtends DEF Truthful

(* A checkpoint keeps members, dimension and history.                      *)
LEMMA CheckpointKeeps ==
  ASSUME NEW s \in Skipper, NEW links \in Seq(Link), NEW id, Valid(links, id)
  PROVE  LET c == CheckpointOf(s, links)
         IN  /\ Active(<<c>>) = Active(links)
             /\ DimOf(<<c>>) = DimOf(links)
             /\ History(<<c>>) = Append(History(links), ContentOfLink(c))
             /\ Truthful(links) => Truthful(<<c>>)
<1>. DEFINE c == CheckpointOf(s, links)
<1>1. /\ c \in Link /\ c.prev = HeadHash(links) /\ c.body.kind = "checkpoint"
      /\ c.body.members = Active(links) /\ c.body.dim = DimOf(links)
  BY NextLinkType DEF CheckpointOf, Signed
<1>. HIDE DEF c
<1>2. Active(<<c>>) = Active(links)
  BY <1>1, ActiveOfRoot DEF RootMembers
<1>3. DimOf(<<c>>) = DimOf(links)
  BY <1>1 DEF DimOf
<1>4. History(<<c>>) = Append(History(links), ContentOfLink(c))
  BY <1>1, ChainEnds, HistoryExtends
<1>5. ASSUME Truthful(links) PROVE Truthful(<<c>>)
  <2>1. History(links) \in Seq(Content) /\ ContentOfLink(c) \in Content
    BY <1>1, HistoryType, ContentType
  <2>2. \A t \in Tenant : ~Names(ContentOfLink(c).body, t)
    BY <1>1, ContentType DEF Names
  <2>3. MembersAfter(NoMembers, History(<<c>>))
          = [t \in Tenant |-> MembersAfter(NoMembers, History(links))[t]]
    <3>1. MembersAfter(NoMembers, Append(History(links), ContentOfLink(c)))
            = [t \in Tenant |-> IF Names(ContentOfLink(c).body, t)
                                THEN Outcome(ContentOfLink(c).body)
                                ELSE MembersAfter(NoMembers, History(links))[t]]
      BY <2>1, MembersOfOneMore
    <3>. QED BY <1>4, <2>2, <3>1
  <2>. QED BY <1>2, <1>5, <2>3 DEF Truthful, MembersAfter
<1>. QED BY <1>2, <1>3, <1>4, <1>5 DEF c

----------------------------------------------------------------------------
(* A history that is continued by another.                                 *)

Continues(later, earlier) ==
  /\ Len(earlier) <= Len(later)
  /\ \A i \in 1..Len(earlier) : later[i] = earlier[i]

LEMMA ContinuesSelf ==
  ASSUME NEW h \in Seq(Content)
  PROVE  Continues(h, h) /\ Continues(h, <<>>)
BY DEF Continues

LEMMA ContinuesTrans ==
  ASSUME NEW h1 \in Seq(Content), NEW h2 \in Seq(Content), NEW h3 \in Seq(Content),
         Continues(h2, h1), Continues(h3, h2)
  PROVE  Continues(h3, h1)
<1>1. Len(h1) \in Nat /\ Len(h2) \in Nat /\ Len(h3) \in Nat
  OBVIOUS
<1>2. \A i \in 1..Len(h1) : i \in 1..Len(h2)
  BY <1>1 DEF Continues
<1>. QED BY <1>1, <1>2 DEF Continues

(* Of the same length, it is the same.                                     *)
LEMMA ContinuesSame ==
  ASSUME NEW h1 \in Seq(Content), NEW h2 \in Seq(Content), Continues(h2, h1),
         Len(h1) = Len(h2)
  PROVE  h1 = h2
BY SeqEqual DEF Continues

LEMMA ContinuesAppend ==
  ASSUME NEW h \in Seq(Content), NEW c \in Content
  PROVE  Continues(Append(h, c), h) /\ Append(h, c) \in Seq(Content)
BY DEF Continues

(* Whoever appends to a chain, or compacts it, continues its history.      *)
LEMMA SigningContinues ==
  ASSUME NEW owner \in Skipper, NEW links \in Seq(Link), Valid(links, owner)
  PROVE  /\ \A b \in Change :
              LET more == Append(links, Signed(owner, HeadSeq(links) + 1,
                                               HeadHash(links), b))
              IN  /\ more \in Seq(Link) /\ Valid(more, owner)
                  /\ Continues(History(more), History(links))
         /\ LET one == <<CheckpointOf(owner, links)>>
            IN  /\ one \in Seq(Link) /\ Valid(one, owner)
                /\ Continues(History(one), History(links))
<1>1. links # <<>> /\ History(links) \in Seq(Content)
  BY ChainEnds, HistoryType
<1>2. ASSUME NEW b \in Change
      PROVE  LET more == Append(links, Signed(owner, HeadSeq(links) + 1,
                                              HeadHash(links), b))
             IN  /\ more \in Seq(Link) /\ Valid(more, owner)
                 /\ Continues(History(more), History(links))
  <2>. DEFINE l == Signed(owner, HeadSeq(links) + 1, HeadHash(links), b)
  <2>1. l \in Link /\ l.prev = HeadHash(links)
    BY NextLinkType DEF Signed
  <2>2. Valid(Append(links, l), owner)
    BY <2>1, SignedExtends, ValidExtends
  <2>. HIDE DEF l
  <2>3. Append(links, l) \in Seq(Link)
    BY <2>1
  <2>4. Continues(History(Append(links, l)), History(links))
    BY <1>1, <2>1, HistoryExtends, ContentType, ContinuesAppend
  <2>. QED BY <2>2, <2>3, <2>4 DEF l
<1>3. LET one == <<CheckpointOf(owner, links)>>
      IN  /\ one \in Seq(Link) /\ Valid(one, owner)
          /\ Continues(History(one), History(links))
  <2>. DEFINE c == CheckpointOf(owner, links)
  <2>1. c \in Link /\ c.prev = HeadHash(links)
    BY NextLinkType DEF CheckpointOf, Signed
  <2>2. Valid(<<c>>, owner)
    BY SignedRoots, RootAlone
  <2>. HIDE DEF c
  <2>3. <<c>> \in Seq(Link)
    BY <2>1
  <2>4. Continues(History(<<c>>), History(links))
    BY <1>1, <2>1, HistoryExtends, ContentType, ContinuesAppend
  <2>. QED BY <2>2, <2>3, <2>4 DEF c
<1>. QED BY <1>2, <1>3
=============================================================================
