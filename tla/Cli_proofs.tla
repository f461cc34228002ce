----------------------------- MODULE Cli_proofs -----------------------------
(***************************************************************************)
(* What is proved of Cli, for any processes, agents and bounds, and any    *)
(* interleaving of commands that may stop anywhere: record ids are unique  *)
(* and members are listed, but for the losses that Cli names.              *)
(***************************************************************************)
EXTENDS Cli, DataLemmas

(* A roster lists no agent twice.                                          *)
Distinct(cfg) ==
  \A i, j \in 1..Len(cfg.members) :
    cfg.members[i].agent = cfg.members[j].agent => i = j

Orderly(cfg) == cfg \in Config /\ Distinct(cfg)

----------------------------------------------------------------------------
(* What rosters hold.                                                      *)

LEMMA MemberFields ==
  \A m \in Member : m.agent \in Agent /\ m.id \in Nat /\ m.next \in Nat
BY DEF Member

LEMMA ConfigFields ==
  ASSUME NEW cfg \in Config
  PROVE  /\ cfg.active \in Agent \cup {None} /\ cfg.members \in Seq(Member)
         /\ Len(cfg.members) \in Nat /\ DOMAIN cfg.members = 1..Len(cfg.members)
         /\ \A i \in 1..Len(cfg.members) : cfg.members[i] \in Member
         /\ cfg = [active |-> cfg.active, members |-> cfg.members]
<1>1. cfg.active \in Agent \cup {None} /\ cfg.members \in Seq(Member)
      /\ cfg = [active |-> cfg.active, members |-> cfg.members]
  BY DEF Config
<1>. QED BY <1>1, MemberIn

LEMMA ConfigMade ==
  \A x \in Agent \cup {None}, s \in Seq(Member) : [active |-> x, members |-> s] \in Config
BY DEF Config

LEMMA ListedIs ==
  ASSUME NEW cfg \in Config, NEW a
  PROVE  /\ a \in Listed(cfg) <=> \E i \in 1..Len(cfg.members) : cfg.members[i].agent = a
         /\ a \in Listed(cfg) =>
              /\ MemberOf(cfg, a) \in Member /\ MemberOf(cfg, a).agent = a
              /\ a \in Agent /\ MemberOf(cfg, a).id \in Ids(cfg)
              /\ MemberOf(cfg, a) # None
         /\ a \notin Listed(cfg) => MemberOf(cfg, a) = None
<1>1. \A m : m \in ToSet(cfg.members) <=> \E i \in 1..Len(cfg.members) : cfg.members[i] = m
  BY ConfigFields DEF ToSet
<1>2. a \in Listed(cfg) <=> \E i \in 1..Len(cfg.members) : cfg.members[i].agent = a
  BY <1>1 DEF Listed
<1>3. ASSUME a \in Listed(cfg)
      PROVE  /\ MemberOf(cfg, a) \in Member /\ MemberOf(cfg, a).agent = a
             /\ a \in Agent /\ MemberOf(cfg, a).id \in Ids(cfg)
             /\ MemberOf(cfg, a) # None
  <2>1. \E m \in ToSet(cfg.members) : m.agent = a
    BY <1>3 DEF Listed
  <2>2. MemberOf(cfg, a) \in ToSet(cfg.members) /\ MemberOf(cfg, a).agent = a
    BY <1>3, <2>1 DEF MemberOf
  <2>3. MemberOf(cfg, a) \in Member
    BY <1>1, <2>2, ConfigFields
  <2>. QED BY <2>2, <2>3, MemberFields, CliAssumption DEF Ids
<1>4. a \notin Listed(cfg) => MemberOf(cfg, a) = None
  BY DEF MemberOf
<1>. QED BY <1>2, <1>3, <1>4

LEMMA EntryIs ==
  ASSUME NEW cfg, Orderly(cfg), NEW i \in 1..Len(cfg.members)
  PROVE  /\ cfg.members[i].agent \in Listed(cfg)
         /\ MemberOf(cfg, cfg.members[i].agent) = cfg.members[i]
<1>. DEFINE a == cfg.members[i].agent
<1>1. cfg \in Config /\ Distinct(cfg)
  BY DEF Orderly
<1>2. a \in Listed(cfg) /\ MemberOf(cfg, a).agent = a
  BY <1>1, ListedIs
<1>3. MemberOf(cfg, a) \in ToSet(cfg.members)
  BY <1>2 DEF MemberOf, Listed
<1>4. PICK j \in 1..Len(cfg.members) : cfg.members[j] = MemberOf(cfg, a)
  BY <1>1, <1>3, ConfigFields DEF ToSet
<1>5. j = i
  BY <1>1, <1>2, <1>4 DEF Distinct
<1>. QED BY <1>2, <1>4, <1>5

LEMMA EntryNone ==
  ASSUME NEW cfg \in Config, NEW a
  PROVE  MemberOf(cfg, a) = None <=> a \notin Listed(cfg)
BY ListedIs

LEMMA EmptyOrderly ==
  Orderly(EmptyConfig) /\ (\A a : MemberOf(EmptyConfig, a) = None)
<1>1. EmptyConfig \in Config /\ EmptyConfig.members = <<>>
  BY DEF EmptyConfig, Config
<1>2. Len(EmptyConfig.members) = 0 /\ \A i \in 1..0 : FALSE
  BY <1>1
<1>3. Distinct(EmptyConfig)
  BY <1>2 DEF Distinct
<1>4. \A a : a \notin Listed(EmptyConfig)
  BY <1>1, <1>2, ListedIs
<1>. QED BY <1>1, <1>3, <1>4, ListedIs DEF Orderly

(* use.                                                                    *)
LEMMA ActiveOrderly ==
  ASSUME NEW cfg, Orderly(cfg), NEW a \in Agent
  PROVE  /\ Orderly([cfg EXCEPT !.active = a])
         /\ \A b : MemberOf([cfg EXCEPT !.active = a], b) = MemberOf(cfg, b)
<1>. DEFINE c == [cfg EXCEPT !.active = a]
<1>1. cfg \in Config /\ c \in Config /\ c.members = cfg.members
  BY DEF Orderly, Config
<1>. HIDE DEF c
<1>2. Distinct(c)
  BY <1>1 DEF Orderly, Distinct
<1>3. \A b : MemberOf(c, b) = MemberOf(cfg, b)
  BY <1>1 DEF MemberOf, Listed
<1>. QED BY <1>1, <1>2, <1>3 DEF Orderly, c

(* An entry is where its agent is.                                         *)
LEMMA EntryAt ==
  ASSUME NEW cfg, Orderly(cfg), NEW m \in Member,
         \E i \in 1..Len(cfg.members) : cfg.members[i] = m
  PROVE  MemberOf(cfg, m.agent) = m
BY EntryIs

LEMMA SameEntry ==
  ASSUME NEW c, Orderly(c), NEW d, Orderly(d), NEW b,
         \A m \in Member : m.agent = b =>
           ((\E i \in 1..Len(c.members) : c.members[i] = m)
              <=> (\E i \in 1..Len(d.members) : d.members[i] = m))
  PROVE  MemberOf(c, b) = MemberOf(d, b)
<1>1. c \in Config /\ d \in Config
  BY DEF Orderly
<1>2. CASE b \in Listed(c)
  <2>1. PICK i \in 1..Len(c.members) : c.members[i].agent = b
    BY <1>1, <1>2, ListedIs
  <2>2. c.members[i] \in Member
    BY <1>1, ConfigFields
  <2>. QED BY <2>1, <2>2, EntryIs
<1>3. CASE b \in Listed(d)
  <2>1. PICK i \in 1..Len(d.members) : d.members[i].agent = b
    BY <1>1, <1>3, ListedIs
  <2>2. d.members[i] \in Member
    BY <1>1, ConfigFields
  <2>. QED BY <2>1, <2>2, EntryIs
<1>4. CASE b \notin Listed(c) /\ b \notin Listed(d)
  BY <1>1, <1>4, ListedIs
<1>. QED BY <1>2, <1>3, <1>4

(* upsert_active.                                                          *)
LEMMA UpsertOrderly ==
  ASSUME NEW cfg, Orderly(cfg), NEW m \in Member
  PROVE  /\ Orderly(Upsert(cfg, m))
         /\ \A b : MemberOf(Upsert(cfg, m), b) = IF b = m.agent THEN m ELSE MemberOf(cfg, b)
<1>. DEFINE s == cfg.members
            c == Upsert(cfg, m)
            r == c.members
<1>1. /\ cfg \in Config /\ Distinct(cfg) /\ s \in Seq(Member) /\ Len(s) \in Nat
      /\ DOMAIN s = 1..Len(s) /\ \A i \in 1..Len(s) : s[i] \in Member
  BY ConfigFields DEF Orderly
<1>2. m.agent \in Agent
  BY MemberFields
<1>3. CASE m.agent \in Listed(cfg)
  <2>1. /\ r = [i \in 1..Len(s) |-> IF s[i].agent = m.agent THEN m ELSE s[i]]
        /\ c = [active |-> m.agent, members |-> r]
    BY <1>1, <1>3 DEF Upsert
  <2>2. r \in Seq(Member) /\ Len(r) = Len(s)
    BY <1>1, <2>1
  <2>3. c \in Config
    BY <1>2, <2>1, <2>2 DEF Config
  <2>4. \A i \in 1..Len(s) : /\ r[i].agent = s[i].agent
                             /\ r[i] = IF s[i].agent = m.agent THEN m ELSE s[i]
    BY <2>1
  <2>5. Distinct(c)
    BY <1>1, <2>2, <2>4 DEF Distinct
  <2>6. Orderly(c)
    BY <2>3, <2>5 DEF Orderly
  <2>7. MemberOf(c, m.agent) = m
    <3>1. PICK i \in 1..Len(s) : s[i].agent = m.agent
      BY <1>1, <1>3, ListedIs
    <3>2. i \in 1..Len(r) /\ r[i] = m
      BY <2>2, <2>4, <3>1
    <3>. HIDE DEF c
    <3>. QED BY <2>6, <3>2, EntryAt
  <2>8. ASSUME NEW b, b # m.agent PROVE MemberOf(c, b) = MemberOf(cfg, b)
    <3>1. \A x \in Member : x.agent = b =>
            ((\E i \in 1..Len(r) : r[i] = x) <=> (\E i \in 1..Len(s) : s[i] = x))
      BY <2>2, <2>4, <2>8
    <3>. HIDE DEF c
    <3>. QED BY <2>6, <3>1, SameEntry
  <2>. QED BY <2>6, <2>7, <2>8
<1>4. CASE m.agent \notin Listed(cfg)
  <2>1. r = Append(s, m) /\ c = [active |-> m.agent, members |-> r]
    BY <1>4 DEF Upsert
  <2>2. /\ r \in Seq(Member) /\ Len(r) = Len(s) + 1 /\ r[Len(s) + 1] = m
        /\ \A i \in 1..Len(s) : r[i] = s[i]
    BY <1>1, <2>1
  <2>3. c \in Config
    BY <1>2, <2>1, <2>2 DEF Config
  <2>4. \A i \in 1..Len(s) : s[i].agent # m.agent
    BY <1>1, <1>4, ListedIs
  <2>5. \A i \in 1..Len(r) : i \in 1..Len(s) \/ i = Len(s) + 1
    BY <1>1, <2>2
  <2>6. \A i, j \in 1..Len(s) : s[i].agent = s[j].agent => i = j
    BY <1>1 DEF Distinct
  <2>7. Distinct(c)
    <3>1. \A i, j \in 1..Len(r) : r[i].agent = r[j].agent => i = j
      BY <2>2, <2>4, <2>5, <2>6
    <3>. QED BY <3>1 DEF Distinct
  <2>8. Orderly(c)
    BY <2>3, <2>7 DEF Orderly
  <2>9. Len(s) + 1 \in 1..Len(r) /\ \A i \in 1..Len(s) : i \in 1..Len(r)
    BY <1>1, <2>2
  <2>10. MemberOf(c, m.agent) = m
    <3>. HIDE DEF c
    <3>. QED BY <2>2, <2>8, <2>9, EntryAt
  <2>11. ASSUME NEW b, b # m.agent PROVE MemberOf(c, b) = MemberOf(cfg, b)
    <3>1. \A x \in Member : x.agent = b =>
            ((\E i \in 1..Len(r) : r[i] = x) <=> (\E i \in 1..Len(s) : s[i] = x))
      BY <2>2, <2>5, <2>9, <2>11
    <3>. HIDE DEF c
    <3>. QED BY <2>8, <3>1, SameEntry
  <2>. QED BY <2>8, <2>10, <2>11
<1>. QED BY <1>3, <1>4

(* alloc_record_id and what ingest and watch assign.                       *)
LEMMA AdvancedOrderly ==
  ASSUME NEW cfg, Orderly(cfg), NEW a \in Agent, NEW n \in Nat
  PROVE  /\ Orderly(Advanced(cfg, a, n))
         /\ \A b : b # a => MemberOf(Advanced(cfg, a, n), b) = MemberOf(cfg, b)
         /\ MemberOf(cfg, a) # None =>
              MemberOf(Advanced(cfg, a, n), a) = [MemberOf(cfg, a) EXCEPT !.next = n]
<1>. DEFINE s == cfg.members
            c == Advanced(cfg, a, n)
            r == c.members
<1>1. /\ cfg \in Config /\ Distinct(cfg) /\ s \in Seq(Member) /\ Len(s) \in Nat
      /\ DOMAIN s = 1..Len(s) /\ \A i \in 1..Len(s) : s[i] \in Member
      /\ cfg.active \in Agent \cup {None} /\ cfg = [active |-> cfg.active, members |-> s]
  BY ConfigFields DEF Orderly
<1>. DEFINE q == [i \in 1..Len(s) |-> IF s[i].agent = a THEN [s[i] EXCEPT !.next = n] ELSE s[i]]
<1>2. /\ r = [i \in 1..Len(s) |->
                IF s[i].agent = a THEN [s[i] EXCEPT !.next = n] ELSE s[i]]
      /\ c = [active |-> cfg.active, members |-> r]
  <2>1. c = [cfg EXCEPT !.members = q]
    BY <1>1 DEF Advanced
  <2>. HIDE DEF q, c
  <2>2. c = [active |-> cfg.active, members |-> q]
    BY <1>1, <2>1
  <2>. QED BY <2>2 DEF q
<1>. HIDE DEF q, c
<1>3. \A x \in Member : [x EXCEPT !.next = n] \in Member /\ [x EXCEPT !.next = n].agent = x.agent
  BY DEF Member
<1>4. r \in Seq(Member) /\ Len(r) = Len(s)
  BY <1>1, <1>2, <1>3
<1>5. c \in Config
  BY <1>1, <1>2, <1>4, ConfigMade
<1>6. \A i \in 1..Len(s) :
        /\ r[i].agent = s[i].agent
        /\ r[i] = IF s[i].agent = a THEN [s[i] EXCEPT !.next = n] ELSE s[i]
  BY <1>1, <1>2, <1>3
<1>7. Orderly(c)
  BY <1>1, <1>4, <1>5, <1>6 DEF Distinct, Orderly
<1>8. ASSUME NEW b, b # a PROVE MemberOf(c, b) = MemberOf(cfg, b)
  <2>1. \A x \in Member : x.agent = b =>
          ((\E i \in 1..Len(r) : r[i] = x) <=> (\E i \in 1..Len(s) : s[i] = x))
    BY <1>4, <1>6, <1>8
  <2>. HIDE DEF c
  <2>. QED BY <1>7, <2>1, SameEntry
<1>9. ASSUME MemberOf(cfg, a) # None
      PROVE  MemberOf(c, a) = [MemberOf(cfg, a) EXCEPT !.next = n]
  <2>1. PICK i \in 1..Len(s) : s[i].agent = a
    BY <1>1, <1>9, ListedIs
  <2>2. MemberOf(cfg, a) = s[i]
    BY <2>1, EntryIs
  <2>3. i \in 1..Len(r) /\ r[i] = [s[i] EXCEPT !.next = n] /\ r[i].agent = a
    BY <1>4, <1>6, <2>1
  <2>. HIDE DEF c
  <2>4. MemberOf(c, a) = r[i]
    BY <1>7, <2>3, EntryIs
  <2>. QED BY <2>2, <2>3, <2>4
<1>. QED BY <1>7, <1>8, <1>9 DEF c

(* What is left of a roster that will not be saved again.                  *)
LEMMA OwnOrderly ==
  ASSUME NEW cfg, Orderly(cfg), NEW a \in Agent
  PROVE  /\ Orderly(Own(cfg, a))
         /\ MemberOf(Own(cfg, a), a) = MemberOf(cfg, a)
         /\ \A b : b # a => MemberOf(Own(cfg, a), b) = None
<1>. DEFINE c == Own(cfg, a)
            r == c.members
<1>1. cfg \in Config
  BY DEF Orderly
<1>2. CASE a \in Listed(cfg)
  <2>. DEFINE m == MemberOf(cfg, a)
  <2>1. m \in Member /\ m.agent = a
    BY <1>1, <1>2, ListedIs
  <2>2. r = <<m>> /\ c = [active |-> None, members |-> r]
    BY <1>2 DEF Own
  <2>. HIDE DEF m, c
  <2>3. r \in Seq(Member) /\ Len(r) = 1 /\ r[1] = m
    BY <2>1, <2>2
  <2>4. c \in Config
    BY <2>2, <2>3, ConfigMade
  <2>5. \A i \in 1..Len(r) : i = 1
    BY <2>3
  <2>6. Orderly(c)
    BY <2>4, <2>5 DEF Orderly, Distinct
  <2>7. 1 \in 1..Len(r)
    BY <2>3
  <2>8. MemberOf(c, a) = m
    BY <2>1, <2>3, <2>6, <2>7, EntryIs
  <2>9. \A b : b # a => b \notin Listed(c)
    BY <2>1, <2>3, <2>4, <2>5, ListedIs
  <2>. QED BY <2>4, <2>6, <2>8, <2>9, ListedIs DEF m, c
<1>3. CASE a \notin Listed(cfg)
  <2>1. r = <<>> /\ c = [active |-> None, members |-> r]
    BY <1>3 DEF Own
  <2>. HIDE DEF c
  <2>2. c \in Config /\ Len(r) = 0 /\ \A i \in 1..Len(r) : FALSE
    <3>1. <<>> \in Seq(Member) /\ Len(<<>>) = 0 /\ \A i \in 1..0 : FALSE
      OBVIOUS
    <3>. QED BY <2>1, <3>1, ConfigMade
  <2>3. Orderly(c)
    BY <2>2 DEF Orderly, Distinct
  <2>4. \A b : b \notin Listed(c)
    BY <2>2, ListedIs
  <2>. QED BY <1>1, <1>3, <2>2, <2>3, <2>4, ListedIs DEF c
<1>. QED BY <1>2, <1>3

(* What retain has kept of the first k members.                            *)
Retained(w, s, a, k) ==
  /\ w \in Seq(Member)
  /\ \A m \in Member : (\E i \in 1..Len(w) : w[i] = m)
                         <=> m.agent # a /\ \E i \in 1..k : s[i] = m
  /\ \A i, j \in 1..Len(w) : w[i].agent = w[j].agent => i = j

LEMMA RetainNext ==
  ASSUME NEW s \in Seq(Member), \A i, j \in 1..Len(s) : s[i].agent = s[j].agent => i = j,
         NEW a, NEW k \in 1..Len(s), NEW w, Retained(w, s, a, k - 1)
  PROVE  Retained(IF s[k].agent = a THEN w ELSE Append(w, s[k]), s, a, k)
<1>1. /\ Len(s) \in Nat /\ k - 1 \in Nat /\ s[k] \in Member
      /\ \A i \in 1..k - 1 : i \in 1..k /\ i \in 1..Len(s) /\ i # k /\ s[i] \in Member
      /\ \A i \in 1..k : i \in 1..k - 1 \/ i = k
      /\ k \in 1..k
  OBVIOUS
<1>2. CASE s[k].agent = a
  <2>1. \A m \in Member : m.agent # a =>
          ((\E i \in 1..k - 1 : s[i] = m) <=> (\E i \in 1..k : s[i] = m))
    BY <1>1, <1>2
  <2>. QED BY <1>2, <2>1 DEF Retained
<1>3. CASE s[k].agent # a
  <2>. DEFINE v == Append(w, s[k])
              l == Len(w)
  <2>1. /\ w \in Seq(Member) /\ l \in Nat /\ v \in Seq(Member) /\ Len(v) = l + 1
        /\ v[l + 1] = s[k] /\ \A i \in 1..l : v[i] = w[i] /\ i \in 1..l + 1 /\ w[i] \in Member
    BY <1>1 DEF Retained
  <2>2. l + 1 \in 1..l + 1 /\ \A i \in 1..l + 1 : i \in 1..l \/ i = l + 1
    BY <2>1
  <2>3. \A m \in Member : (\E i \in 1..l : w[i] = m)
                             <=> m.agent # a /\ \E i \in 1..k - 1 : s[i] = m
    BY DEF Retained
  <2>4. \A i, j \in 1..l : w[i].agent = w[j].agent => i = j
    BY DEF Retained
  <2>. HIDE DEF v, l
  <2>5. \A m \in Member : (\E i \in 1..l + 1 : v[i] = m)
                             <=> (\E i \in 1..l : w[i] = m) \/ m = s[k]
    BY <2>1, <2>2
  <2>6. \A m \in Member : (\E i \in 1..k : s[i] = m)
                             <=> (\E i \in 1..k - 1 : s[i] = m) \/ m = s[k]
    BY <1>1
  <2>7. \A i \in 1..l : w[i].agent # s[k].agent
    <3>1. ASSUME NEW i \in 1..l PROVE w[i].agent # s[k].agent
      <4>1. PICK h \in 1..k - 1 : s[h] = w[i]
        BY <2>1, <2>3
      <4>. QED BY <1>1, <4>1
    <3>. QED BY <3>1
  <2>8. \A i, j \in 1..l + 1 : v[i].agent = v[j].agent => i = j
    BY <2>1, <2>2, <2>4, <2>7
  <2>9. \A m \in Member : (\E i \in 1..l + 1 : v[i] = m)
                             <=> m.agent # a /\ \E i \in 1..k : s[i] = m
    BY <1>3, <2>3, <2>5, <2>6
  <2>10. Retained(v, s, a, k)
    BY <2>1, <2>8, <2>9 DEF Retained
  <2>. QED BY <1>3, <2>10 DEF v
<1>. QED BY <1>2, <1>3

LEMMA WithoutRetains ==
  ASSUME NEW s \in Seq(Member), \A i, j \in 1..Len(s) : s[i].agent = s[j].agent => i = j,
         NEW a
  PROVE  Retained(Without(s, a), s, a, Len(s))
<1>. DEFINE n == Len(s)
            V == Seq(Member)
            Kept(w, m) == IF m.agent = a THEN w ELSE Append(w, m)
            step == [p \in V \X Member |-> Kept(p[1], p[2])]
            Equation(f) ==
              f = [t \in SUBSET (1..n) |->
                     IF t = {} THEN <<>> ELSE Kept(f[t \ {Max(t)}], s[Max(t)])]
            f == CHOOSE f : Equation(f)
<1>1. /\ n \in Nat /\ DOMAIN s = 1..n /\ <<>> \in V /\ Len(<<>>) = 0
      /\ \A i \in 1..n : s[i] \in Member
  OBVIOUS
<1>2. /\ step \in [V \X Member -> V]
      /\ \A w \in V, m \in Member : step[w, m] = Kept(w, m)
  <2>1. \A w \in V, m \in Member : Kept(w, m) \in V
    OBVIOUS
  <2>. HIDE DEF Kept, V
  <2>. QED BY <2>1
<1>. HIDE DEF step
<1>3. PICK h \in [SUBSET (1..n) -> V] : FoldSolution(h, s, <<>>, step)
  BY <1>1, <1>2, FoldSolves
<1>. HIDE DEF n, V
<1>4. Equation(h)
  <2>1. ASSUME NEW t \in SUBSET (1..n)
        PROVE  h[t] = IF t = {} THEN <<>> ELSE Kept(h[t \ {Max(t)}], s[Max(t)])
    <3>1. /\ t # {} => Max(t) \in 1..n
          /\ h[t] = IF t = {} THEN <<>> ELSE step[h[t \ {Max(t)}], s[Max(t)]]
      BY <1>3 DEF FoldSolution, n
    <3>2. h[t \ {Max(t)}] \in V
      OBVIOUS
    <3>. HIDE DEF Kept
    <3>. QED BY <1>1, <1>2, <3>1, <3>2
  <2>. HIDE DEF Kept
  <2>. QED BY <2>1
<1>5. Equation(f)
  <2>. HIDE DEF Equation
  <2>. QED BY <1>4
<1>6. Without(s, a) = f[1..n]
  BY <1>1 DEF Without, FoldLeft, MapThenFoldSet
<1>. HIDE DEF f
<1>7. f[{}] = <<>>
  BY <1>5
<1>8. ASSUME NEW k \in 1..n PROVE f[1..k] = Kept(f[1..k - 1], s[k])
  <2>1. 1..k \in SUBSET (1..n) /\ 1..k # {} /\ Max(1..k) = k /\ (1..k) \ {k} = 1..k - 1
    BY <1>1, PrefixMax
  <2>. HIDE DEF Kept
  <2>. QED BY <1>5, <2>1
<1>. DEFINE S == {k \in Nat : k <= n => Retained(f[1..k], s, a, k)}
<1>9. 0 \in S
  <2>1. 1..0 = {} /\ \A i \in 1..0 : FALSE
    OBVIOUS
  <2>2. Retained(<<>>, s, a, 0)
    BY <1>1, <2>1 DEF Retained, V
  <2>. QED BY <1>7, <2>1, <2>2
<1>10. ASSUME NEW k \in S PROVE k + 1 \in S
  <2>1. ASSUME k + 1 <= n PROVE Retained(f[1..k + 1], s, a, k + 1)
    <3>1. k + 1 \in 1..n /\ (k + 1) - 1 = k /\ Retained(f[1..k], s, a, k)
      BY <1>1, <2>1
    <3>2. f[1..k + 1] = Kept(f[1..k], s[k + 1])
      BY <1>8, <3>1
    <3>. DEFINE w == f[1..k]
                j == k + 1
    <3>3. j \in 1..Len(s) /\ Retained(w, s, a, j - 1)
      BY <3>1 DEF n
    <3>. HIDE DEF w, j
    <3>4. Retained(Kept(w, s[j]), s, a, j)
      BY <3>3, RetainNext
    <3>. QED BY <3>2, <3>4 DEF w, j
  <2>. QED BY <2>1
<1>11. S = Nat
  <2>. HIDE DEF S
  <2>1. S \in SUBSET Nat
    BY DEF S
  <2>. QED BY <1>9, <1>10, <2>1, NatStep
<1>12. Retained(f[1..n], s, a, n)
  BY <1>1, <1>11
<1>. QED BY <1>6, <1>12 DEF n

(* remove.                                                                 *)
LEMMA RemovedOrderly ==
  ASSUME NEW cfg, Orderly(cfg), NEW a \in Agent
  PROVE  /\ Orderly(Removed(cfg, a))
         /\ MemberOf(Removed(cfg, a), a) = None
         /\ \A b : b # a => MemberOf(Removed(cfg, a), b) = MemberOf(cfg, b)
<1>. DEFINE s == cfg.members
            w == Without(s, a)
            x == IF cfg.active # a THEN cfg.active ELSE IF w = <<>> THEN None ELSE w[1].agent
            c == Removed(cfg, a)
<1>1. /\ cfg \in Config /\ s \in Seq(Member) /\ cfg.active \in Agent \cup {None}
      /\ \A i \in 1..Len(s) : s[i] \in Member
      /\ \A i, j \in 1..Len(s) : s[i].agent = s[j].agent => i = j
  BY ConfigFields DEF Orderly, Distinct
<1>2. Retained(w, s, a, Len(s))
  BY <1>1, WithoutRetains
<1>3. c = [active |-> x, members |-> w] /\ c.members = w
  BY DEF Removed
<1>. HIDE DEF w, c
<1>4. w \in Seq(Member) /\ \A i \in 1..Len(w) : w[i] \in Member
  BY <1>2 DEF Retained
<1>5. x \in Agent \cup {None}
  <2>1. w # <<>> => 1 \in 1..Len(w)
    BY <1>4
  <2>. QED BY <1>1, <1>4, <2>1, MemberFields
<1>. HIDE DEF x
<1>6. Orderly(c)
  BY <1>2, <1>3, <1>4, <1>5, ConfigMade DEF Orderly, Distinct, Retained
<1>7. a \notin Listed(c)
  <2>1. \A i \in 1..Len(w) : w[i].agent # a
    BY <1>2, <1>4 DEF Retained
  <2>. QED BY <1>3, <1>6, <2>1, ListedIs DEF Orderly
<1>8. MemberOf(c, a) = None
  BY <1>6, <1>7, ListedIs DEF Orderly
<1>9. ASSUME NEW b, b # a PROVE MemberOf(c, b) = MemberOf(cfg, b)
  <2>1. \A m \in Member : m.agent = b =>
          ((\E i \in 1..Len(w) : w[i] = m) <=> (\E i \in 1..Len(s) : s[i] = m))
    BY <1>2, <1>9 DEF Retained
  <2>. HIDE DEF s
  <2>. QED BY <1>3, <1>6, <2>1, SameEntry DEF s
<1>. QED BY <1>6, <1>8, <1>9 DEF c

----------------------------------------------------------------------------
(* The invariant.                                                          *)

(* The roster of the tool: what is in cli.toml, or is being written to it. *)
Filling == {q \in Proc : pc[q] = "fill"}

Roster == IF Filling = {} THEN config ELSE run[CHOOSE q \in Filling : TRUE].cfg

Entry(a) == MemberOf(Roster, a)

(* Whom a roster lists under an id drew that id.                           *)
Knows(cfg, o) ==
  /\ Orderly(cfg)
  /\ \A a \in Agent : MemberOf(cfg, a) # None =>
       MemberOf(cfg, a).id \in 1..Len(o) /\ o[MemberOf(cfg, a).id] = a

RosterInv ==
  /\ Knows(config, owner)
  /\ \A p \in Proc : Knows(run[p].base, owner) /\ Knows(run[p].cfg, owner)

(* Where each command can be.                                              *)
Between == {"idle", "key", "load"}

Counting == {"remember", "ingest", "watch"}

CanBe(op, where) ==
  \/ op = "init" /\ where \in {"save", "fill", "open", "join", "admit", "refresh"}
  \/ op = "use" /\ where \in {"save", "fill"}
  \/ op = "saga" /\ where = "refresh"
  \/ op = "leave" /\ where \in {"revoke", "unlink", "save", "fill"}
  \/ op = "watch" /\ where \in {"insert", "reload", "save", "fill"}
  \/ op \in {"remember", "ingest"} /\ where \in {"insert", "save", "fill", "refresh"}

PlaceInv(p) ==
  \/ pc[p] \in Between /\ run[p] = Idle
  \/ run[p].op \in Operation /\ run[p].agent \in Agent /\ CanBe(run[p].op, pc[p])

(* At work on an agent, and to save what it does.                          *)
WorksOn(p, a) == run[p].agent = a /\ run[p].op # "saga"

(* Two commands that change an agent make its entry count as lost.         *)
AloneInv ==
  \A p, q \in Proc, a \in Agent : p # q /\ WorksOn(p, a) /\ WorksOn(q, a) => a \in lost

(* While one fills the file it is empty, and two lose everybody.           *)
FillInv ==
  \/ Agent \subseteq lost
  \/ \A p \in Filling : config = EmptyConfig /\ Filling = {p}

(* A command changes the entry of its own agent only, and how.             *)
Base(p) == MemberOf(run[p].base, run[p].agent)

Saves(p) == pc[p] \in {"save", "fill"}

EntryInv(p) ==
  /\ \A b \in Agent \ {run[p].agent} :
       MemberOf(run[p].cfg, b) = MemberOf(run[p].base, b)
  /\ run[p].op = "leave" /\ Saves(p) => Mine(p) = None
  /\ ~(run[p].op = "leave" /\ Saves(p)) =>
       Mine(p) # None /\ (Base(p) # None => Mine(p).id = Base(p).id)
  /\ run[p].op \notin Counting /\ Mine(p) # None /\ Base(p) # None => Mine(p) = Base(p)
  /\ pc[p] \in {"open", "join", "admit", "refresh"} => run[p].base = run[p].cfg
  /\ ~(run[p].op = "init" /\ Saves(p)) => Base(p) # None

(* What it read of its agent is still so.                                  *)
HeldInv(p) ==
  run[p].agent \notin lost /\ run[p].op # "saga" =>
    IF pc[p] = "fill" THEN Entry(run[p].agent) = Mine(p)
    ELSE Base(p) # None => Entry(run[p].agent) = Base(p)

(* Who leaves is no member any more.                                       *)
GoneInv(p) ==
  run[p].agent \notin lost /\ run[p].op = "leave" /\ pc[p] # "revoke" =>
    \A id \in 1..Len(owner) : owner[id] = run[p].agent => active[id] = None

(* A member is in the roster.                                              *)
ActiveInv ==
  \A id \in TenantId : active[id] # None =>
    /\ id \in 1..Len(owner)
    /\ owner[id] \notin lost => Entry(owner[id]) # None /\ Entry(owner[id]).id = id

(* No counter is behind: of a command, and of the roster unless a command  *)
(* is yet to save what it counted.                                         *)
Under(a, m) == \A r \in given[a] : r < m.next

CountInv(p) ==
  run[p].agent \notin lost \cup rewound /\ run[p].op # "saga" /\ Mine(p) # None =>
    Under(run[p].agent, Mine(p))

Dirty(p) == run[p].op \in Counting /\ run[p].cfg # run[p].base

StoredInv ==
  \A a \in Agent \ (lost \cup rewound) :
    Entry(a) # None /\ (\A p \in Proc : run[p].agent = a => ~Dirty(p)) =>
      Under(a, Entry(a))

(* A command that works on an agent is in order.                           *)
WorkInv(p) ==
  run[p].agent \in Agent => EntryInv(p) /\ HeldInv(p) /\ GoneInv(p) /\ CountInv(p)

CliInv ==
  /\ TypeOK /\ Len(owner) <= IdBound /\ RosterInv /\ AloneInv /\ FillInv
  /\ ActiveInv /\ StoredInv /\ IdsUnique
  /\ \A p \in Proc : PlaceInv(p) /\ WorkInv(p)

----------------------------------------------------------------------------
(* What a step of one command leaves alone.                                *)

Grown(o, n) == Len(o) <= Len(n) /\ \A i \in 1..Len(o) : n[i] = o[i]

Plain(p) ==
  /\ \A q \in Proc \ {p} : pc'[q] = pc[q] /\ run'[q] = run[q]
  /\ lost \subseteq lost' /\ rewound \subseteq rewound'
  /\ Grown(owner, owner')
  /\ \A a \in Agent : given'[a] = given[a] \/ WorksOn(p, a)
  /\ \A id \in TenantId :
       \/ active'[id] \in {active[id], None}
       \/ id \in 1..Len(owner) /\ WorksOn(p, owner[id]) /\ pc[p] = "admit"
            /\ id = Mine(p).id
  /\ \A a \in Agent : run'[p].agent = a /\ run'[p].op # "saga" =>
       WorksOn(p, a) \/ \A q \in Proc \ {p} : WorksOn(q, a) => a \in lost'

LEMMA TypeFields ==
  ASSUME TypeOK
  PROVE  /\ config \in Config
         /\ pc \in [Proc -> {"idle", "key", "load", "save", "fill", "open", "join",
                             "admit", "insert", "reload", "refresh", "revoke", "unlink"}]
         /\ run \in [Proc -> Run] /\ owner \in Seq(Agent) /\ Len(owner) \in Nat
         /\ dim \in Dim \cup {None} /\ active \in [TenantId -> Dim \cup {None}]
         /\ given \in [Agent -> SUBSET Nat]
         /\ \A p \in Proc : /\ run[p].op \in Operation \cup {None}
                            /\ run[p].agent \in Agent \cup {None}
                            /\ run[p].base \in Config /\ run[p].cfg \in Config
<1>1. \A r \in Run : /\ r.op \in Operation \cup {None} /\ r.agent \in Agent \cup {None}
                     /\ r.base \in Config /\ r.cfg \in Config
  BY DEF Run
<1>. QED BY <1>1 DEF TypeOK, Members!TypeOK

LEMMA IdleIs ==
  /\ Idle.op = None /\ Idle.agent = None /\ Idle.base = EmptyConfig /\ Idle.cfg = EmptyConfig
  /\ Idle \in Run /\ None \notin Agent \cup Operation
BY EmptyOrderly, CliAssumption DEF Idle, Run, Orderly

LEMMA AtWork ==
  ASSUME NEW p \in Proc, PlaceInv(p), pc[p] \notin Between
  PROVE  run[p].op \in Operation /\ run[p].agent \in Agent /\ CanBe(run[p].op, pc[p])
BY DEF PlaceInv

LEMMA AtRest ==
  ASSUME NEW p \in Proc, PlaceInv(p), pc[p] \in Between
  PROVE  run[p] = Idle
BY DEF PlaceInv, CanBe, Between

LEMMA GrownSame == \A o \in Seq(Agent) : Grown(o, o)
BY DEF Grown

(* What a command has read, or is to save, changes.                        *)
WithCfg(p, x) == [run EXCEPT ![p].cfg = x]

WithBoth(p, x, y) == [run EXCEPT ![p].base = x, ![p].cfg = y]

LEMMA WithCfgIs ==
  ASSUME TypeOK, NEW p \in Proc, NEW x
  PROVE  /\ \A q \in Proc \ {p} : WithCfg(p, x)[q] = run[q]
         /\ WithCfg(p, x)[p].op = run[p].op
         /\ WithCfg(p, x)[p].agent = run[p].agent
         /\ WithCfg(p, x)[p].base = run[p].base
         /\ WithCfg(p, x)[p].cfg = x
         /\ x \in Config => WithCfg(p, x) \in [Proc -> Run]
<1>1. run \in [Proc -> Run] /\ run[p] \in Run
  BY TypeFields
<1>2. \A r \in Run : /\ [r EXCEPT !.cfg = x].op = r.op
                     /\ [r EXCEPT !.cfg = x].agent = r.agent
                     /\ [r EXCEPT !.cfg = x].base = r.base
                     /\ [r EXCEPT !.cfg = x].cfg = x
                     /\ x \in Config => [r EXCEPT !.cfg = x] \in Run
  BY DEF Run
<1>3. /\ WithCfg(p, x)[p] = [run[p] EXCEPT !.cfg = x]
      /\ \A q \in Proc \ {p} : WithCfg(p, x)[q] = run[q]
      /\ x \in Config => WithCfg(p, x) \in [Proc -> Run]
  BY <1>1, <1>2 DEF WithCfg
<1>. QED BY <1>1, <1>2, <1>3

LEMMA WithBothIs ==
  ASSUME TypeOK, NEW p \in Proc, NEW x, NEW y
  PROVE  /\ \A q \in Proc \ {p} : WithBoth(p, x, y)[q] = run[q]
         /\ WithBoth(p, x, y)[p].op = run[p].op
         /\ WithBoth(p, x, y)[p].agent = run[p].agent
         /\ WithBoth(p, x, y)[p].base = x
         /\ WithBoth(p, x, y)[p].cfg = y
         /\ x \in Config /\ y \in Config => WithBoth(p, x, y) \in [Proc -> Run]
<1>1. run \in [Proc -> Run] /\ run[p] \in Run
  BY TypeFields
<1>2. \A r \in Run :
        /\ [[r EXCEPT !.base = x] EXCEPT !.cfg = y].op = r.op
        /\ [[r EXCEPT !.base = x] EXCEPT !.cfg = y].agent = r.agent
        /\ [[r EXCEPT !.base = x] EXCEPT !.cfg = y].base = x
        /\ [[r EXCEPT !.base = x] EXCEPT !.cfg = y].cfg = y
        /\ x \in Config /\ y \in Config => [[r EXCEPT !.base = x] EXCEPT !.cfg = y] \in Run
  BY DEF Run
<1>3. /\ WithBoth(p, x, y)[p] = [[run[p] EXCEPT !.base = x] EXCEPT !.cfg = y]
      /\ \A q \in Proc \ {p} : WithBoth(p, x, y)[q] = run[q]
      /\ x \in Config /\ y \in Config => WithBoth(p, x, y) \in [Proc -> Run]
  BY <1>1, <1>2 DEF WithBoth
<1>. QED BY <1>1, <1>2, <1>3

(* Starting a command.                                                     *)
LEMMA StartPlain ==
  ASSUME TypeOK, NEW p \in Proc, NEW op, NEW a, NEW base, NEW cfg,
         Start(p, op, a, base, cfg)
  PROVE  /\ \A q \in Proc \ {p} : run'[q] = run[q]
         /\ run'[p] = [op |-> op, agent |-> a, base |-> base, cfg |-> cfg]
         /\ run'[p].op = op /\ run'[p].agent = a /\ run'[p].base = base /\ run'[p].cfg = cfg
         /\ lost \subseteq lost'
         /\ op # "saga" => \A q \in Proc \ {p} : WorksOn(q, a) => a \in lost'
BY TypeFields DEF Start, Contended, WorksOn

LEMMA OpenPlain ==
  ASSUME OpenHandle
  PROVE  UNCHANGED active
BY DEF OpenHandle, Members!Found

LEMMA StepPlain ==
  ASSUME TypeOK, RosterInv, NEW p \in Proc, PlaceInv(p), WorkInv(p), Step(p)
  PROVE  Plain(p)
<1>1. /\ pc \in [Proc -> {"idle", "key", "load", "save", "fill", "open", "join",
                             "admit", "insert", "reload", "refresh", "revoke", "unlink"}]
      /\ run \in [Proc -> Run] /\ owner \in Seq(Agent) /\ Grown(owner, owner)
      /\ Idle.agent \notin Agent
  BY TypeFields, GrownSame, IdleIs
<1>2. ASSUME StoreKey(p) \/ KeyStored(p) PROVE Plain(p)
  BY <1>1, <1>2 DEF Plain, StoreKey, KeyStored, Goto, history, WorksOn
<1>3. ASSUME NEW a \in Agent, InitKnown(p, a) \/ InitNew(p, a) \/ Use(p, a)
      PROVE  Plain(p)
  <2>1. Grown(owner, Append(owner, a))
    BY <1>1 DEF Grown
  <2>2. Grown(owner, owner')
    BY <1>1, <1>3, <2>1 DEF InitKnown, InitNew, Use
  <2>3. /\ \E op, base, cfg : Start(p, op, a, base, cfg)
        /\ \A q \in Proc \ {p} : pc'[q] = pc[q]
        /\ rewound \subseteq rewound' /\ UNCHANGED <<given, active>>
    BY <1>1, <1>3 DEF InitKnown, InitNew, Use, Goto, disk
  <2>4. PICK op, base, cfg : Start(p, op, a, base, cfg)
    BY <2>3
  <2>5. /\ \A q \in Proc \ {p} : run'[q] = run[q]
        /\ run'[p].op = op /\ run'[p].agent = a /\ lost \subseteq lost'
        /\ op # "saga" => \A q \in Proc \ {p} : WorksOn(q, a) => a \in lost'
    BY <2>4, TypeFields DEF Start, Contended, WorksOn
  <2>. QED BY <2>2, <2>3, <2>5 DEF Plain
<1>4. ASSUME NEW a \in Agent, NEW op, Pick(p, op, a) PROVE Plain(p)
  <2>1. /\ \E base, cfg : Start(p, op, a, base, cfg)
        /\ \A q \in Proc \ {p} : pc'[q] = pc[q]
        /\ UNCHANGED <<rewound, given, active, owner>>
    BY <1>1, <1>4, OpenPlain DEF Pick, Goto
  <2>2. PICK base, cfg : Start(p, op, a, base, cfg)
    BY <2>1
  <2>3. /\ \A q \in Proc \ {p} : run'[q] = run[q]
        /\ run'[p].op = op /\ run'[p].agent = a /\ lost \subseteq lost'
        /\ op # "saga" => \A q \in Proc \ {p} : WorksOn(q, a) => a \in lost'
    BY <2>2, TypeFields DEF Start, Contended, WorksOn
  <2>. QED BY <1>1, <2>1, <2>3 DEF Plain
<1>5. ASSUME Look(p) \/ (\E id \in TenantId : Evict(p, id)) PROVE Plain(p)
  <2>1. UNCHANGED <<pc, run, history>>
    BY <1>5 DEF Look, Evict
  <2>2. \A id \in TenantId : active'[id] \in {active[id], None}
    BY <1>5, TypeFields, OpenPlain DEF Look, Evict, Members!Revoke
  <2>. QED BY <1>1, <2>1, <2>2 DEF Plain, history, WorksOn
<1>6. ASSUME (\E n \in 1..2 : Insert(p, n)) \/ Reload(p) PROVE Plain(p)
  <2>1. WorksOn(p, run[p].agent)
    BY <1>6, AtWork DEF Insert, Reload, Between, CanBe, WorksOn
  <2>2. /\ \A q \in Proc \ {p} : pc'[q] = pc[q] /\ run'[q] = run[q]
        /\ UNCHANGED <<lost, owner, active>> /\ rewound \subseteq rewound'
        /\ run'[p].agent = run[p].agent
    <3>1. \/ run' = run
          \/ \E x : run' = WithCfg(p, x)
          \/ \E x, y : run' = WithBoth(p, x, y)
      BY <1>6 DEF Insert, Reload, WithCfg, WithBoth
    <3>2. /\ \A q \in Proc \ {p} : run'[q] = run[q]
          /\ run'[p].agent = run[p].agent
      <4>1. ASSUME NEW x, NEW y,
                   \/ run' = WithCfg(p, x)
                   \/ run' = WithBoth(p, x, y)
            PROVE  /\ \A q \in Proc \ {p} : run'[q] = run[q]
                   /\ run'[p].agent = run[p].agent
        BY <4>1, WithCfgIs, WithBothIs
      <4>. QED BY <3>1, <4>1
    <3>3. /\ \A q \in Proc \ {p} : pc'[q] = pc[q]
          /\ UNCHANGED <<lost, owner, active>> /\ rewound \subseteq rewound'
      BY <1>1, <1>6 DEF Insert, Reload, Goto, disk
    <3>. QED BY <3>2, <3>3
  <2>3. \A a \in Agent : given'[a] = given[a] \/ a = run[p].agent
    BY <1>6, TypeFields DEF Insert, Reload
  <2>. QED BY <1>1, <2>1, <2>2, <2>3 DEF Plain
<1>7. ASSUME Truncate(p) \/ Fill(p) \/ Open(p) \/ Join(p) \/ Refresh(p) \/ Unlink(p)
      PROVE  Plain(p)
  <2>1. /\ \A q \in Proc \ {p} : pc'[q] = pc[q] /\ run'[q] = run[q]
        /\ UNCHANGED <<owner, active, given, rewound>> /\ lost \subseteq lost'
    BY <1>1, <1>7, OpenPlain
       DEF Truncate, Fill, Open, Join, Refresh, Unlink, Goto, End, history
  <2>2. run'[p] = Idle \/ (run'[p].agent = run[p].agent /\ run'[p].op = run[p].op)
    <3>1. \/ run' = run \/ run' = [run EXCEPT ![p] = Idle]
          \/ \E x : run' = WithCfg(p, x)
          \/ \E x, y : run' = WithBoth(p, x, y)
      BY <1>7 DEF Truncate, Fill, Open, Join, Refresh, Unlink, End, history, WithCfg, WithBoth
    <3>2. ASSUME NEW x, NEW y,
                 \/ run' = WithCfg(p, x)
                 \/ run' = WithBoth(p, x, y)
          PROVE  run'[p].agent = run[p].agent /\ run'[p].op = run[p].op
      BY <3>2, WithCfgIs, WithBothIs
    <3>. QED BY <1>1, <3>1, <3>2
  <2>. QED BY <1>1, <2>1, <2>2 DEF Plain, WorksOn
<1>8. ASSUME Admit(p) PROVE Plain(p)
  <2>1. /\ UNCHANGED <<run, history>> /\ \A q \in Proc \ {p} : pc'[q] = pc[q]
    BY <1>1, <1>8 DEF Admit, Goto
  <2>2. pc[p] = "admit" /\ run[p].op = "init" /\ run[p].agent \in Agent
    BY <1>8, AtWork DEF Admit, Between, CanBe
  <2>3. Mine(p) # None
    BY <2>2 DEF WorkInv, EntryInv
  <2>4. Mine(p).id \in 1..Len(owner) /\ owner[Mine(p).id] = run[p].agent
    BY <2>2, <2>3 DEF RosterInv, Knows, Mine
  <2>5. \A id \in TenantId : active'[id] = active[id] \/ id = Mine(p).id
    BY <1>8, TypeFields DEF Admit, Members!Admit
  <2>. QED BY <1>1, <2>1, <2>2, <2>4, <2>5 DEF Plain, history, WorksOn
<1>9. ASSUME Revoke(p) PROVE Plain(p)
  <2>1. /\ UNCHANGED <<run, history>> /\ \A q \in Proc \ {p} : pc'[q] = pc[q]
    BY <1>1, <1>9 DEF Revoke, Goto
  <2>2. \A id \in TenantId : active'[id] \in {active[id], None}
    BY <1>9, TypeFields DEF Revoke, Members!Revoke
  <2>. QED BY <1>1, <2>1, <2>2 DEF Plain, history, WorksOn
<1>10. ASSUME Stop(p) PROVE Plain(p)
  <2>1. /\ \A q \in Proc \ {p} : pc'[q] = pc[q] /\ run'[q] = run[q]
        /\ UNCHANGED <<owner, active, given>> /\ lost \subseteq lost'
        /\ rewound \subseteq rewound' /\ run'[p] = Idle
    BY <1>1, <1>10 DEF Stop, Goto, End, disk
  <2>. QED BY <1>1, <2>1 DEF Plain
<1>. QED BY <1>2, <1>3, <1>4, <1>5, <1>6, <1>7, <1>8, <1>9, <1>10 DEF Step

----------------------------------------------------------------------------
(* How the roster changes.                                                 *)

LEMMA EntryFile == Filling = {} => \A a : Entry(a) = MemberOf(config, a)
BY DEF Entry, Roster

LEMMA EntryFilled ==
  ASSUME NEW p \in Proc, Filling = {p}
  PROVE  \A a : Entry(a) = MemberOf(run[p].cfg, a)
<1>1. (CHOOSE q \in Filling : TRUE) = p
  OBVIOUS
<1>. QED BY <1>1 DEF Entry, Roster

LEMMA EntryListed ==
  ASSUME TypeOK, FillInv, NEW a \in Agent \ lost, a \in Listed(config)
  PROVE  Filling = {} /\ Entry(a) = MemberOf(config, a)
<1>1. Filling = {}
  <2>1. ASSUME NEW p \in Filling PROVE FALSE
    <3>1. config = EmptyConfig
      BY <2>1 DEF FillInv
    <3>2. MemberOf(config, a) # None
      BY TypeFields, ListedIs
    <3>. QED BY <3>1, <3>2, EmptyOrderly
  <2>. QED BY <2>1
<1>. QED BY <1>1, EntryFile

(* A step that neither truncates nor fills the file.                       *)
LEMMA RosterSame ==
  ASSUME FillInv, config' = config, lost \subseteq lost',
         \A q \in Proc : /\ pc'[q] = "fill" <=> pc[q] = "fill"
                         /\ pc[q] = "fill" => run'[q] = run[q]
  PROVE  FillInv' /\ \A a : Entry(a)' = Entry(a)
<1>1. Filling' = Filling
  BY DEF Filling
<1>2. Filling # {} => (CHOOSE q \in Filling : TRUE) \in Filling
  OBVIOUS
<1>3. Roster' = Roster
  <2>1. CASE Filling = {}
    BY <1>1, <2>1 DEF Roster
  <2>2. CASE Filling # {}
    <3>. DEFINE q == CHOOSE q \in Filling : TRUE
    <3>1. q \in Proc /\ pc[q] = "fill" /\ q' = q
      BY <1>1, <1>2, <2>2 DEF Filling
    <3>2. Roster = run[q].cfg /\ Roster' = run'[q].cfg
      BY <1>1, <2>2, <3>1 DEF Roster
    <3>. HIDE DEF q
    <3>. QED BY <3>1, <3>2
  <2>. QED BY <2>1, <2>2
<1>4. FillInv'
  <2>1. CASE Agent \subseteq lost
    BY <2>1 DEF FillInv
  <2>2. CASE \A p \in Filling : config = EmptyConfig /\ Filling = {p}
    BY <1>1, <2>2 DEF FillInv
  <2>. QED BY <2>1, <2>2 DEF FillInv
<1>. QED BY <1>3, <1>4 DEF Entry

(* A command moves its own agent's entry, from what it read to what it has *)
(* made of it, when it begins to save.                                     *)
Saving(p, a) == pc[p] = "save" /\ pc'[p] = "fill" /\ WorksOn(p, a)

EntryMoves(p) ==
  \A a \in Agent \ lost' :
    IF Saving(p, a) THEN Entry(a) = Base(p) /\ Entry(a)' = Mine(p)
                    ELSE Entry(a)' = Entry(a)

LEMMA TruncateEntries ==
  ASSUME TypeOK, FillInv, NEW p \in Proc, PlaceInv(p), WorkInv(p), Truncate(p)
  PROVE  FillInv' /\ EntryMoves(p)
<1>1. /\ pc[p] = "save" /\ config' = EmptyConfig /\ lost' = lost \cup Overwritten(p)
      /\ run' = run /\ pc' = [pc EXCEPT ![p] = "fill"]
      /\ \A q \in Proc : pc'[q] = IF q = p THEN "fill" ELSE pc[q]
  BY TypeFields DEF Truncate, Goto
<1>2. run[p].agent \in Agent /\ run[p].op # "saga" /\ EntryInv(p)
  BY <1>1, AtWork DEF CanBe, Between, WorkInv
<1>3. CASE Filling # {}
  <2>1. PICK q \in Proc : pc[q] = "fill"
    BY <1>3 DEF Filling
  <2>2. Overwritten(p) = Agent
    BY <1>1, <2>1 DEF Overwritten
  <2>. QED BY <1>1, <2>2 DEF FillInv, EntryMoves
<1>4. CASE Filling = {}
  <2>1. Filling' = {p}
    BY <1>1, <1>4 DEF Filling
  <2>2. Overwritten(p) = {a \in Agent : MemberOf(config, a) # MemberOf(run[p].base, a)}
    BY <1>4 DEF Overwritten, Filling
  <2>3. \A a : Entry(a)' = MemberOf(run[p].cfg, a)
    <3>1. (CHOOSE q \in Filling : TRUE)' = p
      BY <2>1
    <3>. QED BY <1>1, <2>1, <3>1 DEF Entry, Roster
  <2>4. ASSUME NEW a \in Agent \ lost'
        PROVE  IF Saving(p, a) THEN Entry(a) = Base(p) /\ Entry(a)' = Mine(p)
                               ELSE Entry(a)' = Entry(a)
    <3>1. Entry(a) = MemberOf(run[p].base, a)
      BY <1>1, <1>4, <2>2, EntryFile
    <3>2. CASE a = run[p].agent
      <4>1. Saving(p, a)
        BY <1>1, <1>2, <3>2 DEF Saving, WorksOn
      <4>. QED BY <2>3, <3>1, <3>2, <4>1 DEF Mine, Base
    <3>3. CASE a # run[p].agent
      <4>1. ~Saving(p, a)
        BY <3>3 DEF Saving, WorksOn
      <4>. QED BY <1>2, <2>3, <3>1, <3>3, <4>1 DEF EntryInv
    <3>. QED BY <3>2, <3>3
  <2>5. FillInv'
    BY <1>1, <2>1 DEF FillInv
  <2>. QED BY <1>1, <2>4, <2>5 DEF EntryMoves
<1>. QED BY <1>3, <1>4

LEMMA FillEntries ==
  ASSUME TypeOK, FillInv, NEW p \in Proc, PlaceInv(p), Fill(p)
  PROVE  FillInv' /\ EntryMoves(p)
<1>1. pc[p] = "fill" /\ config' = run[p].cfg /\ lost' = lost
  BY DEF Fill, history
<1>2. \A q \in Proc : q # p => pc'[q] = pc[q]
  BY TypeFields DEF Fill, Goto, End
<1>3. pc'[p] # "fill"
  BY TypeFields DEF Fill, Goto, End, NextAfterSave
<1>4. CASE Agent \subseteq lost
  BY <1>1, <1>4 DEF FillInv, EntryMoves
<1>5. CASE ~(Agent \subseteq lost)
  <2>1. Filling = {p}
    BY <1>1, <1>5 DEF FillInv, Filling
  <2>2. Filling' = {}
    BY <1>2, <1>3, <2>1 DEF Filling
  <2>3. \A a : Entry(a)' = MemberOf(run[p].cfg, a)
    BY <1>1, <2>2 DEF Entry, Roster
  <2>4. \A a : ~Saving(p, a)
    BY <1>1 DEF Saving
  <2>. QED BY <2>1, <2>2, <2>3, <2>4, EntryFilled DEF FillInv, EntryMoves
<1>. QED BY <1>4, <1>5

LEMMA StepEntries ==
  ASSUME TypeOK, FillInv, NEW p \in Proc, PlaceInv(p), WorkInv(p), Plain(p), Step(p)
  PROVE  FillInv' /\ EntryMoves(p)
<1>1. CASE Truncate(p)
  BY <1>1, TruncateEntries
<1>2. CASE Fill(p)
  BY <1>2, FillEntries
<1>3. CASE Stop(p) /\ pc[p] = "fill"
  <2>1. Agent \subseteq lost'
    BY <1>3 DEF Stop
  <2>. QED BY <2>1 DEF FillInv, EntryMoves
<1>4. CASE ~Truncate(p) /\ ~Fill(p) /\ ~(Stop(p) /\ pc[p] = "fill")
  <2>1. pc[p] # "fill" /\ pc'[p] # "fill" /\ config' = config
    BY <1>4, TypeFields
       DEF Step, StoreKey, KeyStored, InitKnown, InitNew, Use, Pick, Look, Evict, Insert,
           Reload, Open, Join, Admit, Refresh, Revoke, Unlink, Stop, Goto, End, disk, FirstStep
  <2>2. \A q \in Proc : /\ pc'[q] = "fill" <=> pc[q] = "fill"
                        /\ pc[q] = "fill" => run'[q] = run[q]
    BY <2>1 DEF Plain
  <2>3. lost \subseteq lost'
    BY DEF Plain
  <2>4. FillInv' /\ \A a : Entry(a)' = Entry(a)
    BY <2>1, <2>2, <2>3, RosterSame
  <2>. QED BY <2>1, <2>4 DEF EntryMoves, Saving
<1>. QED BY <1>1, <1>2, <1>3, <1>4

----------------------------------------------------------------------------
(* What a step leaves of the other commands' invariant.                    *)

LEMMA KnowsGrows ==
  ASSUME NEW cfg, NEW o \in Seq(Agent), NEW n \in Seq(Agent), Knows(cfg, o), Grown(o, n)
  PROVE  Knows(cfg, n)
<1>1. Len(o) \in Nat /\ Len(n) \in Nat /\ Len(o) <= Len(n)
      /\ \A i \in 1..Len(o) : i \in 1..Len(n) /\ n[i] = o[i]
  BY DEF Grown
<1>. QED BY <1>1 DEF Knows

LEMMA AloneKept ==
  ASSUME AloneInv, NEW p \in Proc, Plain(p)
  PROVE  AloneInv'
<1>1. ASSUME NEW q \in Proc, NEW r \in Proc, NEW a \in Agent, q # r,
             WorksOn(q, a)', WorksOn(r, a)'
      PROVE  a \in lost'
  <2>1. \A x \in Proc \ {p} : WorksOn(x, a)' = WorksOn(x, a)
    BY DEF Plain, WorksOn
  <2>2. WorksOn(p, a)' => WorksOn(p, a) \/ \A x \in Proc \ {p} : WorksOn(x, a) => a \in lost'
    BY DEF Plain, WorksOn
  <2>3. lost \subseteq lost'
    BY DEF Plain
  <2>. QED BY <1>1, <2>1, <2>2, <2>3 DEF AloneInv
<1>. QED BY <1>1 DEF AloneInv

LEMMA OthersKept ==
  ASSUME TypeOK, TypeOK', Len(owner') <= IdBound, AloneInv, ActiveInv,
         NEW p \in Proc, Plain(p), EntryMoves(p),
         NEW q \in Proc \ {p}, PlaceInv(q), WorkInv(q)
  PROVE  PlaceInv(q)' /\ WorkInv(q)'
<1>1. pc'[q] = pc[q] /\ run'[q] = run[q] /\ lost \subseteq lost' /\ rewound \subseteq rewound'
  BY DEF Plain
<1>2. PlaceInv(q)'
  BY <1>1 DEF PlaceInv
<1>3. ASSUME run[q].agent \in Agent
      PROVE  EntryInv(q)' /\ HeldInv(q)' /\ GoneInv(q)' /\ CountInv(q)'
  <2>. DEFINE b == run[q].agent
  <2>1. EntryInv(q) /\ HeldInv(q) /\ GoneInv(q) /\ CountInv(q)
    BY <1>3 DEF WorkInv
  <2>2. b \notin lost' /\ run[q].op # "saga" => b \notin lost /\ ~WorksOn(p, b)
    BY <1>1, <1>3 DEF AloneInv, WorksOn
  <2>3. EntryInv(q)'
    BY <1>1, <2>1 DEF EntryInv, Mine, Base, Saves
  <2>4. HeldInv(q)'
    <3>1. PICK c \in Agent : c = b
      BY <1>3
    <3>2. c \notin lost' /\ run[q].op # "saga" => Entry(c)' = Entry(c)
      BY <2>2, <3>1 DEF EntryMoves, Saving
    <3>3. Mine(q)' = Mine(q) /\ Base(q)' = Base(q)
      BY <1>1 DEF Mine, Base
    <3>. QED BY <1>1, <2>1, <2>2, <3>1, <3>2, <3>3 DEF HeldInv, Entry
  <2>5. GoneInv(q)'
    <3>1. ASSUME b \notin lost', run[q].op = "leave", pc[q] # "revoke",
                 NEW id \in 1..Len(owner'), owner'[id] = b
          PROVE  active'[id] = None
      <4>1. /\ Len(owner) \in Nat /\ Len(owner') \in Nat /\ IdBound \in Nat
            /\ Grown(owner, owner') /\ id \in TenantId
        BY TypeFields, CliAssumption DEF Plain, TenantId, TypeOK
      <4>2. active[id] = None
        BY <1>1, <2>1, <2>2, <3>1, <4>1 DEF GoneInv, ActiveInv, Grown
      <4>3. active'[id] \in {active[id], None}
        BY <2>2, <3>1, <4>1 DEF Plain, Grown
      <4>. QED BY <4>2, <4>3
    <3>. QED BY <1>1, <3>1 DEF GoneInv
  <2>6. CountInv(q)'
    <3>1. b \notin lost' /\ run[q].op # "saga" => given'[b] = given[b]
      BY <1>3, <2>2 DEF Plain
    <3>. QED BY <1>1, <2>1, <2>2, <3>1 DEF CountInv, Mine, Under
  <2>. QED BY <2>3, <2>4, <2>5, <2>6
<1>. QED BY <1>1, <1>2, <1>3 DEF WorkInv

----------------------------------------------------------------------------
(* What a step does to its own command.                                    *)

Settled(p) ==
  /\ TypeOK' /\ Len(owner') <= IdBound
  /\ Knows(config', owner') /\ Knows(run'[p].base, owner') /\ Knows(run'[p].cfg, owner')
  /\ PlaceInv(p)' /\ WorkInv(p)'

LEMMA KnowsFields ==
  \A cfg, o : Knows(cfg, o) => Orderly(cfg) /\ cfg \in Config
BY DEF Knows, Orderly

LEMMA KnowsEmpty ==
  \A o : Knows(EmptyConfig, o)
BY EmptyOrderly DEF Knows

LEMMA Resting ==
  ASSUME NEW p \in Proc, pc'[p] \in Between, run'[p] = Idle
  PROVE  /\ Knows(run'[p].base, owner') /\ Knows(run'[p].cfg, owner')
         /\ PlaceInv(p)' /\ WorkInv(p)'
<1>1. run'[p].base = EmptyConfig /\ run'[p].cfg = EmptyConfig /\ run'[p].agent \notin Agent
  BY IdleIs
<1>2. PlaceInv(p)'
  <2>1. Idle' = Idle
    BY DEF Idle, EmptyConfig
  <2>. QED BY <2>1 DEF PlaceInv
<1>. QED BY <1>1, <1>2, KnowsEmpty DEF WorkInv

LEMMA OpenTypes ==
  ASSUME TypeOK, OpenHandle
  PROVE  Members!TypeOK'
BY DEF TypeOK, OpenHandle, Members!Found, Members!TypeOK

LEMMA EvictTypes ==
  ASSUME TypeOK, NEW id, Members!Revoke(id) \/ Members!Admit(id)
  PROVE  Members!TypeOK'
BY DEF TypeOK, Members!Revoke, Members!Admit, Members!TypeOK

LEMMA StoreKeySettles ==
  ASSUME CliInv, NEW p \in Proc, StoreKey(p) \/ KeyStored(p)
  PROVE  Settled(p)
<1>1. /\ TypeOK /\ Len(owner) <= IdBound /\ RosterInv /\ PlaceInv(p)
      /\ UNCHANGED <<config, dim, active, sagas, run, history>>
  BY DEF CliInv, StoreKey, KeyStored
<1>2. pc[p] \in Between /\ pc'[p] \in Between /\ keyfile' \in {"missing", "torn", "key"}
      /\ pc' \in [Proc -> {"idle", "key", "load", "save", "fill", "open", "join",
                             "admit", "insert", "reload", "refresh", "revoke", "unlink"}]
  BY <1>1, TypeFields DEF StoreKey, KeyStored, Goto, Between
<1>3. run'[p] = Idle
  BY <1>1, <1>2, AtRest
<1>4. TypeOK'
  BY <1>1, <1>2 DEF TypeOK, Members!TypeOK, history
<1>. QED BY <1>1, <1>2, <1>3, <1>4, Resting DEF Settled, RosterInv, history

LEMMA LookSettles ==
  ASSUME CliInv, NEW p \in Proc, Look(p) \/ \E id \in TenantId : Evict(p, id)
  PROVE  Settled(p)
<1>1. /\ TypeOK /\ Len(owner) <= IdBound /\ RosterInv /\ PlaceInv(p)
      /\ UNCHANGED <<config, keyfile, sagas, pc, run, history>> /\ pc[p] \in Between
  BY DEF CliInv, Look, Evict, Between
<1>2. run'[p] = Idle
  BY <1>1, AtRest
<1>3. Members!TypeOK'
  BY <1>1, OpenTypes, EvictTypes DEF Look, Evict
<1>4. TypeOK'
  BY <1>1, <1>3 DEF TypeOK, history
<1>. QED BY <1>1, <1>2, <1>4, Resting DEF Settled, RosterInv, history

Stages == {"idle", "key", "load", "save", "fill", "open", "join", "admit", "insert",
           "reload", "refresh", "revoke", "unlink"}

LEMMA GotoIs ==
  ASSUME TypeOK, NEW p \in Proc, NEW where \in Stages, Goto(p, where)
  PROVE  /\ pc'[p] = where /\ pc' \in [Proc -> {"idle", "key", "load", "save", "fill",
                                "open", "join", "admit", "insert", "reload", "refresh",
                                "revoke", "unlink"}]
BY TypeFields DEF Goto, Stages

LEMMA EndIs ==
  ASSUME TypeOK, NEW p \in Proc, End(p)
  PROVE  /\ pc'[p] = "idle" /\ run'[p] = Idle /\ run' \in [Proc -> Run]
         /\ pc' \in [Proc -> {"idle", "key", "load", "save", "fill", "open", "join",
                                "admit", "insert", "reload", "refresh", "revoke", "unlink"}]
<1>1. Goto(p, "idle") /\ run' = [run EXCEPT ![p] = Idle] /\ "idle" \in Stages
  BY DEF End, Stages
<1>. QED BY <1>1, TypeFields, IdleIs, GotoIs

LEMMA MineKnown ==
  ASSUME TypeOK, Len(owner) <= IdBound, RosterInv, NEW p \in Proc,
         run[p].agent \in Agent, Mine(p) # None
  PROVE  /\ Mine(p).id \in TenantId /\ Mine(p).id \in 1..Len(owner)
         /\ owner[Mine(p).id] = run[p].agent
         /\ Mine(p) \in Member /\ Mine(p).agent = run[p].agent
<1>1. Mine(p).id \in 1..Len(owner) /\ owner[Mine(p).id] = run[p].agent
  BY DEF RosterInv, Knows, Mine
<1>2. Mine(p) \in Member /\ Mine(p).agent = run[p].agent
  BY TypeFields, ListedIs DEF Mine
<1>. QED BY <1>1, <1>2, TypeFields, CliAssumption DEF TenantId

LEMMA StopSettles ==
  ASSUME CliInv, NEW p \in Proc, Stop(p)
  PROVE  Settled(p)
<1>1. /\ TypeOK /\ Len(owner) <= IdBound /\ RosterInv /\ PlaceInv(p)
      /\ UNCHANGED <<config, keyfile, dim, active, sagas, owner, given, reused>>
      /\ End(p) /\ stops < StopBound /\ stops' = stops + 1
  BY DEF CliInv, Stop, disk
<1>2. stops' \in 0..StopBound
  BY <1>1, CliAssumption DEF TypeOK
<1>3. lost' \subseteq Agent
  BY <1>1 DEF TypeOK, Stop
<1>4. rewound' \subseteq Agent
  <2>1. run[p].op \in Operation => run[p].agent \in Agent
    BY <1>1, IdleIs DEF PlaceInv
  <2>. QED BY <1>1, <2>1 DEF TypeOK, Stop, Operation
<1>5. TypeOK'
  BY <1>1, <1>2, <1>3, <1>4, EndIs DEF TypeOK, Members!TypeOK
<1>. QED BY <1>1, <1>5, EndIs, Resting DEF Settled, RosterInv, Between

LEMMA RefreshSettles ==
  ASSUME CliInv, NEW p \in Proc, Refresh(p)
  PROVE  Settled(p)
<1>1. /\ TypeOK /\ Len(owner) <= IdBound /\ RosterInv /\ PlaceInv(p) /\ WorkInv(p)
      /\ UNCHANGED <<config, keyfile, history>> /\ End(p) /\ pc[p] = "refresh"
      /\ sagas' = sagas \cup {Mine(p).id}
  BY DEF CliInv, Refresh
<1>2. run[p].agent \in Agent /\ EntryInv(p)
  BY <1>1, AtWork DEF Between, WorkInv
<1>3. Mine(p) # None
  BY <1>1, <1>2 DEF EntryInv, Saves
<1>4. sagas' \subseteq TenantId
  BY <1>1, <1>2, <1>3, MineKnown DEF TypeOK
<1>5. Members!TypeOK'
  BY <1>1, OpenTypes DEF Refresh, TypeOK, Members!TypeOK
<1>6. TypeOK'
  BY <1>1, <1>4, <1>5, EndIs DEF TypeOK, history
<1>. QED BY <1>1, <1>6, EndIs, Resting DEF Settled, RosterInv, Between, history

(* A command begins: with the roster read, and what it will save.          *)
LEMMA Begins ==
  ASSUME CliInv, NEW p \in Proc, Plain(p), pc[p] \in Between,
         NEW op \in Operation, NEW a \in Agent, NEW base, NEW cfg,
         NEW where \in {"save", "insert", "refresh", "revoke"},
         Start(p, op, a, base, cfg), Goto(p, where), CanBe(op, where),
         UNCHANGED <<config, keyfile, sagas, stops, given, reused>>, Members!TypeOK',
         owner' \in Seq(Agent), Len(owner') <= IdBound, rewound' \subseteq Agent,
         Knows(base, owner'), Knows(cfg, owner'), EntryMoves(p),
         \A b \in Agent \ {a} : MemberOf(cfg, b) = MemberOf(base, b),
         MemberOf(cfg, a) # None,
         MemberOf(base, a) # None =>
           MemberOf(cfg, a) = MemberOf(base, a) /\ MemberOf(base, a) = MemberOf(config, a),
         MemberOf(base, a) = None => op = "init" /\ (given[a] = {} \/ a \in rewound'),
         op = "leave" => where = "revoke",
         where = "refresh" => base = cfg
  PROVE  Settled(p)
<1>. DEFINE B == MemberOf(base, a)
            M == MemberOf(cfg, a)
<1>1. /\ TypeOK /\ Len(owner) <= IdBound /\ RosterInv /\ FillInv /\ StoredInv
  BY DEF CliInv
<1>2. /\ run'[p].op = op /\ run'[p].agent = a /\ run'[p].base = base /\ run'[p].cfg = cfg
      /\ lost \subseteq lost'
      /\ op # "saga" => \A q \in Proc \ {p} : WorksOn(q, a) => a \in lost'
  <2>1. /\ run'[p] = [op |-> op, agent |-> a, base |-> base, cfg |-> cfg]
        /\ lost \subseteq lost'
    BY <1>1, TypeFields DEF Start
  <2>. QED BY <1>1, <2>1, TypeFields DEF Start, Contended, WorksOn
<1>3. base \in Config /\ cfg \in Config /\ Grown(owner, owner') /\ rewound \subseteq rewound'
  BY KnowsFields DEF Plain
<1>4. run' \in [Proc -> Run] /\ lost' \subseteq Agent
  <2>1. [op |-> op, agent |-> a, base |-> base, cfg |-> cfg] \in Run
    BY <1>3 DEF Run
  <2>. QED BY <1>1, <2>1, TypeFields DEF Start, TypeOK
<1>5. /\ pc'[p] = where
      /\ pc' \in [Proc -> {"idle", "key", "load", "save", "fill", "open", "join",
                             "admit", "insert", "reload", "refresh", "revoke", "unlink"}]
  BY <1>1, GotoIs DEF Stages
<1>6. TypeOK'
  BY <1>1, <1>4, <1>5 DEF TypeOK
<1>7. Knows(config', owner')
  BY <1>1, <1>3, KnowsGrows DEF RosterInv, TypeOK
<1>8. PlaceInv(p)'
  BY <1>2, <1>5 DEF PlaceInv
<1>9. Mine(p)' = M /\ Base(p)' = B
  BY <1>2 DEF Mine, Base
<1>. HIDE DEF B, M
<1>10. /\ M # None /\ (B # None => M = B /\ B = MemberOf(config, a))
       /\ B = None => op = "init" /\ (given[a] = {} \/ a \in rewound')
  BY DEF M, B
<1>11. EntryInv(p)'
  <2>1. \A b \in Agent \ {run[p].agent}' : MemberOf(run'[p].cfg, b) = MemberOf(run'[p].base, b)
    BY <1>2
  <2>2. B = None => op = "init" /\ where = "save"
    <3>1. where = "refresh" => B = M
      BY DEF B, M
    <3>. QED BY <1>10, <3>1 DEF CanBe
  <2>. QED BY <1>2, <1>5, <1>9, <1>10, <2>1, <2>2 DEF EntryInv, Saves
<1>12. a \notin lost' /\ B # None => a \in Listed(config) /\ Entry(a) = B /\ Entry(a)' = B
  <2>1. ~Saving(p, a)
    BY DEF Saving, Between
  <2>2. B # None => a \in Listed(config)
    BY <1>1, <1>10, TypeFields, ListedIs
  <2>. QED BY <1>1, <1>2, <1>10, <2>1, <2>2, EntryListed DEF EntryMoves
<1>13. HeldInv(p)'
  <2>1. Entry(run[p].agent)' = MemberOf(Roster', a)
    BY <1>2 DEF Entry
  <2>2. Entry(a)' = MemberOf(Roster', a)
    BY DEF Entry
  <2>. QED BY <1>2, <1>5, <1>9, <1>12, <2>1, <2>2 DEF HeldInv
<1>14. GoneInv(p)'
  BY <1>2, <1>5 DEF GoneInv
<1>15. CountInv(p)'
  <2>1. ASSUME a \notin lost' \cup rewound', op # "saga" PROVE \A r \in given[a] : r < M.next
    <3>1. CASE B = None
      BY <1>10, <2>1, <3>1
    <3>2. CASE B # None
      <4>1. a \in Agent \ (lost \cup rewound) /\ Entry(a) = B /\ M = B
        BY <1>2, <1>3, <1>10, <1>12, <2>1, <3>2
      <4>2. \A q \in Proc : run[q].agent = a => ~Dirty(q)
        <5>1. run[p].agent # a
          BY AtRest, IdleIs DEF CliInv
        <5>2. \A q \in Proc \ {p} : run[q].agent = a => run[q].op = "saga"
          BY <1>2, <2>1 DEF WorksOn
        <5>. QED BY <5>1, <5>2 DEF Dirty, Counting
      <4>. QED BY <1>1, <3>2, <4>1, <4>2 DEF StoredInv, Under
    <3>. QED BY <3>1, <3>2
  <2>. QED BY <1>2, <1>9, <2>1 DEF CountInv, Under
<1>. QED BY <1>2, <1>6, <1>7, <1>8, <1>11, <1>13, <1>14, <1>15 DEF Settled, WorkInv

LEMMA InitKnownSettles ==
  ASSUME CliInv, NEW p \in Proc, Plain(p), EntryMoves(p), NEW a \in Agent, InitKnown(p, a)
  PROVE  Settled(p)
<1>. DEFINE m == MemberOf(config, a)
            c == Upsert(config, m)
<1>1. /\ TypeOK /\ Len(owner) <= IdBound /\ RosterInv /\ pc[p] = "load" /\ a \in Listed(config)
      /\ Start(p, "init", a, config, c) /\ Goto(p, "save")
      /\ UNCHANGED <<disk, stops, owner, given, reused, rewound>>
  BY DEF CliInv, InitKnown
<1>2. config \in Config /\ Orderly(config) /\ Knows(config, owner)
  BY <1>1, KnowsFields DEF RosterInv
<1>3. m \in Member /\ m.agent = a /\ m # None
  BY <1>1, <1>2, ListedIs
<1>. HIDE DEF m
<1>4. Orderly(c) /\ \A b : MemberOf(c, b) = IF b = a THEN m ELSE MemberOf(config, b)
  BY <1>2, <1>3, UpsertOrderly
<1>5. \A b : MemberOf(c, b) = MemberOf(config, b)
  BY <1>4 DEF m
<1>. HIDE DEF c
<1>6. Knows(c, owner)
  BY <1>2, <1>4, <1>5 DEF Knows
<1>7. owner' = owner /\ owner' \in Seq(Agent) /\ rewound' \subseteq Agent /\ Members!TypeOK'
  BY <1>1 DEF TypeOK, disk, Members!TypeOK
<1>8. CanBe("init", "save") /\ "init" \in Operation /\ pc[p] \in Between
  BY <1>1 DEF CanBe, Operation, Between
<1>. QED BY <1>1, <1>2, <1>3, <1>5, <1>6, <1>7, <1>8, Begins DEF disk, m

LEMMA InitNewSettles ==
  ASSUME CliInv, NEW p \in Proc, Plain(p), EntryMoves(p), NEW a \in Agent, InitNew(p, a)
  PROVE  Settled(p)
<1>. DEFINE m == [agent |-> a, id |-> Len(owner) + 1, next |-> 0]
            c == Upsert(config, m)
<1>1. /\ TypeOK /\ RosterInv /\ pc[p] = "load" /\ a \notin Listed(config)
      /\ Len(owner) < IdBound /\ owner' = Append(owner, a)
      /\ Start(p, "init", a, config, c) /\ Goto(p, "save")
      /\ rewound' = rewound \cup (IF given[a] = {} THEN {} ELSE {a})
      /\ UNCHANGED <<disk, stops, given, reused>>
  BY DEF CliInv, InitNew
<1>2. config \in Config /\ Orderly(config) /\ Knows(config, owner)
  BY <1>1, KnowsFields DEF RosterInv
<1>3. m \in Member /\ m.agent = a /\ m # None /\ m.id = Len(owner) + 1
  BY <1>1, TypeFields, CliAssumption DEF Member
<1>. HIDE DEF m
<1>4. Orderly(c) /\ \A b : MemberOf(c, b) = IF b = a THEN m ELSE MemberOf(config, b)
  BY <1>2, <1>3, UpsertOrderly
<1>. HIDE DEF c
<1>5. /\ owner' \in Seq(Agent) /\ Len(owner') = Len(owner) + 1 /\ Len(owner') <= IdBound
      /\ owner'[Len(owner) + 1] = a /\ Len(owner) + 1 \in 1..Len(owner')
      /\ Grown(owner, owner')
  BY <1>1, TypeFields, CliAssumption DEF Grown
<1>6. Knows(config, owner')
  BY <1>1, <1>2, <1>5, TypeFields, KnowsGrows
<1>7. Knows(c, owner')
  BY <1>3, <1>4, <1>5, <1>6 DEF Knows
<1>8. rewound' \subseteq Agent /\ Members!TypeOK' /\ (given[a] = {} \/ a \in rewound')
  BY <1>1 DEF TypeOK, disk, Members!TypeOK
<1>9. CanBe("init", "save") /\ "init" \in Operation /\ pc[p] \in Between
  BY <1>1 DEF CanBe, Operation, Between
<1>10. MemberOf(config, a) = None
  BY <1>1, <1>2, ListedIs
<1>. QED BY <1>1, <1>3, <1>4, <1>5, <1>6, <1>7, <1>8, <1>9, <1>10, Begins DEF disk

LEMMA UseSettles ==
  ASSUME CliInv, NEW p \in Proc, Plain(p), EntryMoves(p), NEW a \in Agent, Use(p, a)
  PROVE  Settled(p)
<1>. DEFINE c == [config EXCEPT !.active = a]
<1>1. /\ TypeOK /\ Len(owner) <= IdBound /\ RosterInv /\ pc[p] = "idle" /\ a \in Listed(config)
      /\ Start(p, "use", a, config, c) /\ Goto(p, "save")
      /\ UNCHANGED <<disk, stops, owner, given, reused, rewound>>
  BY DEF CliInv, Use
<1>2. config \in Config /\ Orderly(config) /\ Knows(config, owner)
  BY <1>1, KnowsFields DEF RosterInv
<1>3. MemberOf(config, a) # None
  BY <1>1, <1>2, ListedIs
<1>4. Orderly(c) /\ \A b : MemberOf(c, b) = MemberOf(config, b)
  BY <1>2, ActiveOrderly
<1>. HIDE DEF c
<1>5. Knows(c, owner)
  BY <1>2, <1>4 DEF Knows
<1>6. owner' = owner /\ owner' \in Seq(Agent) /\ rewound' \subseteq Agent /\ Members!TypeOK'
  BY <1>1 DEF TypeOK, disk, Members!TypeOK
<1>7. CanBe("use", "save") /\ "use" \in Operation /\ pc[p] \in Between
  BY <1>1 DEF CanBe, Operation, Between
<1>. QED BY <1>1, <1>2, <1>3, <1>4, <1>5, <1>6, <1>7, Begins DEF disk

LEMMA PickSettles ==
  ASSUME CliInv, NEW p \in Proc, Plain(p), EntryMoves(p), NEW a \in Agent,
         NEW op \in Operation \ {"init", "use"}, Pick(p, op, a)
  PROVE  Settled(p)
<1>. DEFINE c == IF op \in {"watch", "saga"} THEN Own(config, a) ELSE config
<1>1. /\ TypeOK /\ Len(owner) <= IdBound /\ RosterInv /\ pc[p] = "idle" /\ a \in Listed(config)
      /\ Start(p, op, a, c, c) /\ Goto(p, FirstStep(op))
      /\ UNCHANGED <<config, keyfile, sagas, stops, owner, given, reused, rewound>>
  BY DEF CliInv, Pick
<1>2. config \in Config /\ Orderly(config) /\ Knows(config, owner)
  BY <1>1, KnowsFields DEF RosterInv
<1>3. MemberOf(config, a) # None
  BY <1>1, <1>2, ListedIs
<1>4. Orderly(c) /\ MemberOf(c, a) = MemberOf(config, a)
      /\ \A b : b # a => MemberOf(c, b) \in {None, MemberOf(config, b)}
  BY <1>2, OwnOrderly
<1>. HIDE DEF c
<1>5. Knows(c, owner)
  <2>1. \A b : MemberOf(c, b) \in {None, MemberOf(config, b)}
    BY <1>4
  <2>. QED BY <1>2, <1>4, <2>1 DEF Knows
<1>6. owner' = owner /\ owner' \in Seq(Agent) /\ rewound' \subseteq Agent
  BY <1>1 DEF TypeOK
<1>7. Members!TypeOK'
  BY <1>1, OpenTypes DEF Pick, TypeOK, Members!TypeOK
<1>8. CanBe(op, FirstStep(op)) /\ op \in Operation /\ pc[p] \in Between
  BY <1>1 DEF CanBe, Operation, Between, FirstStep
<1>9. FirstStep(op) \in {"save", "insert", "refresh", "revoke"}
      /\ (op = "leave" => FirstStep(op) = "revoke")
  BY DEF FirstStep
<1>. QED BY <1>1, <1>2, <1>3, <1>4, <1>5, <1>6, <1>7, <1>8, <1>9, Begins

(* A command goes on, with the agent it began with.                        *)
GoesOn(p) ==
  /\ run[p].agent \in Agent /\ run'[p].agent = run[p].agent /\ run'[p].op = run[p].op

LEMMA EntryOf ==
  ASSUME NEW p \in Proc, NEW a, GoesOn(p), a = run[p].agent
  PROVE  /\ Entry(run[p].agent) = Entry(a) /\ Entry(run[p].agent)' = Entry(a)'
         /\ Mine(p) = MemberOf(run[p].cfg, a) /\ Mine(p)' = MemberOf(run'[p].cfg, a)
         /\ Base(p) = MemberOf(run[p].base, a) /\ Base(p)' = MemberOf(run'[p].base, a)
BY DEF GoesOn, Entry, Mine, Base

LEMMA HeldGoes ==
  ASSUME NEW p \in Proc, GoesOn(p), Plain(p), EntryMoves(p), HeldInv(p),
         pc[p] # "fill", pc'[p] # "fill", Base(p)' = Base(p)
  PROVE  HeldInv(p)'
<1>1. PICK a \in Agent : a = run[p].agent
  BY DEF GoesOn
<1>2. a \notin lost' => a \notin lost /\ Entry(a)' = Entry(a)
  BY DEF Plain, EntryMoves, Saving
<1>. QED BY <1>1, <1>2, EntryOf DEF HeldInv, GoesOn

LEMMA CountGoes ==
  ASSUME NEW p \in Proc, GoesOn(p), Plain(p), CountInv(p), given' = given,
         Mine(p)' \in {None, Mine(p)}
  PROVE  CountInv(p)'
BY DEF CountInv, GoesOn, Plain, Under

LEMMA JoinSettles ==
  ASSUME CliInv, NEW p \in Proc, Plain(p), EntryMoves(p), Open(p) \/ Join(p) \/ Admit(p)
  PROVE  Settled(p)
<1>1. /\ TypeOK /\ Len(owner) <= IdBound /\ RosterInv /\ PlaceInv(p) /\ WorkInv(p)
      /\ UNCHANGED <<config, keyfile, run, history>>
      /\ pc[p] \in {"open", "join", "admit"}
  BY DEF CliInv, Open, Join, Admit
<1>2. /\ run[p].op \in Operation /\ run[p].agent \in Agent /\ run[p].op = "init" /\ GoesOn(p)
      /\ EntryInv(p) /\ HeldInv(p) /\ GoneInv(p) /\ CountInv(p)
  BY <1>1, AtWork DEF Between, WorkInv, CanBe, GoesOn
<1>3. /\ pc'[p] \in {"join", "admit", "refresh"}
      /\ pc' \in [Proc -> {"idle", "key", "load", "save", "fill", "open", "join",
                             "admit", "insert", "reload", "refresh", "revoke", "unlink"}]
  BY <1>1, GotoIs DEF Open, Join, Admit, Stages
<1>4. Mine(p) # None
  BY <1>1, <1>2 DEF EntryInv, Saves
<1>5. sagas' \subseteq TenantId
  BY <1>1, <1>2, <1>4, MineKnown DEF TypeOK, Open, Join, Admit
<1>6. Members!TypeOK'
  BY <1>1, OpenTypes, EvictTypes DEF TypeOK, Open, Join, Admit, Members!TypeOK
<1>7. TypeOK'
  BY <1>1, <1>3, <1>5, <1>6 DEF TypeOK, history
<1>8. PlaceInv(p)'
  BY <1>1, <1>2, <1>3 DEF PlaceInv, CanBe
<1>9. Mine(p)' = Mine(p) /\ Base(p)' = Base(p)
  BY <1>1 DEF Mine, Base
<1>10. EntryInv(p)'
  BY <1>1, <1>2, <1>3, <1>9 DEF EntryInv, Saves
<1>11. HeldInv(p)' /\ CountInv(p)' /\ GoneInv(p)'
  BY <1>1, <1>2, <1>3, <1>9, HeldGoes, CountGoes DEF history, GoneInv
<1>. QED BY <1>1, <1>7, <1>8, <1>10, <1>11 DEF Settled, WorkInv, RosterInv, history

LEMMA RevokeSettles ==
  ASSUME CliInv, NEW p \in Proc, Plain(p), EntryMoves(p), Revoke(p)
  PROVE  Settled(p)
<1>1. /\ TypeOK /\ Len(owner) <= IdBound /\ RosterInv /\ PlaceInv(p) /\ WorkInv(p)
      /\ ActiveInv /\ UNCHANGED <<config, keyfile, sagas, run, history>>
      /\ pc[p] = "revoke" /\ Members!Revoke(Mine(p).id) /\ Goto(p, "unlink")
  BY DEF CliInv, Revoke
<1>2. /\ run[p].op \in Operation /\ run[p].agent \in Agent /\ run[p].op = "leave" /\ GoesOn(p)
      /\ EntryInv(p) /\ HeldInv(p) /\ CountInv(p)
  BY <1>1, AtWork DEF Between, WorkInv, CanBe, GoesOn
<1>3. /\ pc'[p] = "unlink"
      /\ pc' \in [Proc -> {"idle", "key", "load", "save", "fill", "open", "join",
                             "admit", "insert", "reload", "refresh", "revoke", "unlink"}]
  BY <1>1, GotoIs DEF Stages
<1>4. TypeOK'
  BY <1>1, <1>3, EvictTypes DEF TypeOK, history
<1>5. PlaceInv(p)'
  BY <1>1, <1>2, <1>3 DEF PlaceInv, CanBe
<1>6. Mine(p)' = Mine(p) /\ Base(p)' = Base(p)
  BY <1>1 DEF Mine, Base
<1>7. EntryInv(p)'
  BY <1>1, <1>2, <1>3, <1>6 DEF EntryInv, Saves
<1>8. HeldInv(p)' /\ CountInv(p)'
  BY <1>1, <1>2, <1>3, <1>6, HeldGoes, CountGoes DEF history
<1>9. GoneInv(p)'
  <2>1. PICK a \in Agent : a = run[p].agent
    BY <1>2
  <2>2. ASSUME a \notin lost, NEW id \in 1..Len(owner), owner[id] = a
        PROVE  active'[id] = None
    <3>1. id \in TenantId
      BY <1>1, TypeFields, CliAssumption DEF TenantId
    <3>2. CASE active[id] = None
      BY <1>1, <3>1, <3>2, TypeFields DEF Members!Revoke
    <3>3. CASE active[id] # None
      <4>1. Entry(a) # None /\ Entry(a).id = id
        BY <1>1, <2>2, <3>1, <3>3 DEF ActiveInv
      <4>2. Mine(p) = Base(p) /\ Base(p) # None
        BY <1>1, <1>2 DEF EntryInv, Saves, Counting
      <4>3. Entry(a) = Mine(p)
        BY <1>1, <1>2, <2>1, <2>2, <4>2, EntryOf DEF HeldInv
      <4>. QED BY <1>1, <3>1, <4>1, <4>3, TypeFields DEF Members!Revoke
    <3>. QED BY <3>2, <3>3
  <2>. QED BY <1>1, <2>1, <2>2 DEF GoneInv, history
<1>. QED BY <1>1, <1>4, <1>5, <1>7, <1>8, <1>9 DEF Settled, WorkInv, RosterInv, history

LEMMA UnlinkSettles ==
  ASSUME CliInv, NEW p \in Proc, Plain(p), EntryMoves(p), Unlink(p)
  PROVE  Settled(p)
<1>. DEFINE c == Removed(run[p].cfg, run[p].agent)
<1>1. /\ TypeOK /\ Len(owner) <= IdBound /\ RosterInv /\ PlaceInv(p) /\ WorkInv(p)
      /\ UNCHANGED <<config, keyfile, dim, active, history>>
      /\ pc[p] = "unlink" /\ sagas' \subseteq sagas /\ Goto(p, "save")
      /\ run' = WithCfg(p, c)
  BY DEF CliInv, Unlink, WithCfg
<1>2. /\ run[p].op \in Operation /\ run[p].agent \in Agent /\ run[p].op = "leave"
      /\ EntryInv(p) /\ HeldInv(p) /\ GoneInv(p) /\ CountInv(p)
  BY <1>1, AtWork DEF Between, WorkInv, CanBe
<1>3. Knows(run[p].cfg, owner) /\ Knows(run[p].base, owner) /\ Orderly(run[p].cfg)
  BY <1>1, KnowsFields DEF RosterInv
<1>4. /\ Orderly(c) /\ MemberOf(c, run[p].agent) = None
      /\ \A b : b # run[p].agent => MemberOf(c, b) = MemberOf(run[p].cfg, b)
  BY <1>2, <1>3, RemovedOrderly
<1>. HIDE DEF c
<1>5. Knows(c, owner) /\ c \in Config
  BY <1>2, <1>3, <1>4 DEF Knows, Orderly
<1>6. /\ run'[p].op = run[p].op /\ run'[p].agent = run[p].agent
      /\ run'[p].base = run[p].base /\ run'[p].cfg = c /\ run' \in [Proc -> Run]
  BY <1>1, <1>5, WithCfgIs
<1>7. /\ pc'[p] = "save"
      /\ pc' \in [Proc -> {"idle", "key", "load", "save", "fill", "open", "join",
                             "admit", "insert", "reload", "refresh", "revoke", "unlink"}]
  BY <1>1, GotoIs DEF Stages
<1>8. TypeOK'
  BY <1>1, <1>6, <1>7 DEF TypeOK, Members!TypeOK, history
<1>9. PlaceInv(p)' /\ GoesOn(p)
  BY <1>2, <1>6, <1>7 DEF PlaceInv, CanBe, GoesOn
<1>10. Mine(p)' = None /\ Base(p)' = Base(p)
  BY <1>4, <1>6 DEF Mine, Base
<1>11. EntryInv(p)'
  BY <1>1, <1>2, <1>4, <1>6, <1>7, <1>10 DEF EntryInv, Saves
<1>12. HeldInv(p)' /\ CountInv(p)'
  BY <1>1, <1>2, <1>7, <1>9, <1>10, HeldGoes, CountGoes DEF history
<1>13. GoneInv(p)'
  BY <1>1, <1>2, <1>6 DEF GoneInv, history
<1>. QED BY <1>1, <1>3, <1>5, <1>6, <1>8, <1>9, <1>11, <1>12, <1>13
     DEF Settled, WorkInv, RosterInv, history

LEMMA TruncateSettles ==
  ASSUME CliInv, NEW p \in Proc, Plain(p), EntryMoves(p), Truncate(p)
  PROVE  Settled(p)
<1>1. /\ TypeOK /\ Len(owner) <= IdBound /\ RosterInv /\ PlaceInv(p) /\ WorkInv(p)
      /\ UNCHANGED <<keyfile, dim, active, sagas, run, stops, owner, given, reused, rewound>>
      /\ pc[p] = "save" /\ config' = EmptyConfig /\ lost' = lost \cup Overwritten(p)
      /\ Goto(p, "fill")
  BY DEF CliInv, Truncate
<1>2. /\ run[p].op \in Operation /\ run[p].agent \in Agent /\ run[p].op # "saga" /\ GoesOn(p)
      /\ EntryInv(p) /\ HeldInv(p) /\ GoneInv(p) /\ CountInv(p)
  BY <1>1, AtWork DEF Between, WorkInv, CanBe, GoesOn
<1>3. /\ pc'[p] = "fill"
      /\ pc' \in [Proc -> {"idle", "key", "load", "save", "fill", "open", "join",
                             "admit", "insert", "reload", "refresh", "revoke", "unlink"}]
  BY <1>1, GotoIs DEF Stages
<1>4. lost' \subseteq Agent /\ lost \subseteq lost'
  BY <1>1 DEF TypeOK, Overwritten
<1>5. TypeOK'
  BY <1>1, <1>3, <1>4, EmptyOrderly DEF TypeOK, Members!TypeOK, Orderly
<1>6. PlaceInv(p)'
  <2>1. CanBe(run[p].op, "save")
    BY <1>1, AtWork DEF Between
  <2>2. CanBe(run[p].op, "fill")
    BY <2>1 DEF CanBe
  <2>. QED BY <1>1, <1>2, <1>3, <2>2 DEF PlaceInv
<1>7. Mine(p)' = Mine(p) /\ Base(p)' = Base(p)
  BY <1>1 DEF Mine, Base
<1>8. EntryInv(p)'
  BY <1>1, <1>2, <1>3, <1>7 DEF EntryInv, Saves
<1>9. HeldInv(p)'
  <2>1. PICK a \in Agent : a = run[p].agent
    BY <1>2
  <2>2. a \notin lost' => Entry(a)' = Mine(p)
    BY <1>1, <1>2, <1>3, <2>1 DEF EntryMoves, Saving, WorksOn
  <2>. QED BY <1>1, <1>2, <1>3, <1>7, <2>1, <2>2, EntryOf DEF HeldInv
<1>10. CountInv(p)' /\ GoneInv(p)'
  BY <1>1, <1>2, <1>4, <1>7, CountGoes DEF GoneInv
<1>. QED BY <1>1, <1>5, <1>6, <1>8, <1>9, <1>10, KnowsEmpty DEF Settled, WorkInv, RosterInv

LEMMA FillSettles ==
  ASSUME CliInv, NEW p \in Proc, Plain(p), EntryMoves(p), Fill(p)
  PROVE  Settled(p)
<1>. DEFINE c == Own(run[p].cfg, run[p].agent)
<1>1. /\ TypeOK /\ Len(owner) <= IdBound /\ RosterInv /\ PlaceInv(p) /\ WorkInv(p)
      /\ UNCHANGED <<keyfile, dim, active, sagas, history>>
      /\ pc[p] = "fill" /\ config' = run[p].cfg
  BY DEF CliInv, Fill
<1>2. /\ run[p].op \in Operation /\ run[p].agent \in Agent
      /\ run[p].op \in {"init", "use", "leave", "watch", "remember", "ingest"}
      /\ EntryInv(p) /\ HeldInv(p) /\ CountInv(p)
  BY <1>1, AtWork DEF Between, WorkInv, CanBe
<1>3. Knows(run[p].cfg, owner) /\ Orderly(run[p].cfg) /\ run[p].cfg \in Config
      /\ Knows(config', owner') /\ owner' = owner
  BY <1>1, KnowsFields DEF RosterInv, history
<1>4. CASE run[p].op \in {"use", "leave"}
  <2>1. End(p)
    BY <1>4 DEF Fill
  <2>2. TypeOK'
    BY <1>1, <1>3, <2>1, EndIs DEF TypeOK, Members!TypeOK, history
  <2>. QED BY <1>1, <1>3, <2>1, <2>2, EndIs, Resting DEF Settled, Between
<1>5. CASE run[p].op \notin {"use", "leave"}
  <2>1. /\ run' = WithBoth(p, c, c) /\ Goto(p, NextAfterSave(run[p].op))
    BY <1>5 DEF Fill, WithBoth
  <2>2. /\ Orderly(c) /\ MemberOf(c, run[p].agent) = Mine(p)
        /\ \A b : b # run[p].agent => MemberOf(c, b) = None
    BY <1>2, <1>3, OwnOrderly DEF Mine
  <2>. HIDE DEF c
  <2>3. Knows(c, owner) /\ c \in Config
    <3>1. \A b : MemberOf(c, b) \in {None, MemberOf(run[p].cfg, b)}
      BY <2>2 DEF Mine
    <3>. QED BY <1>3, <2>2, <3>1 DEF Knows, Orderly
  <2>4. /\ run'[p].op = run[p].op /\ run'[p].agent = run[p].agent
        /\ run'[p].base = c /\ run'[p].cfg = c /\ run' \in [Proc -> Run]
    BY <1>1, <2>1, <2>3, WithBothIs
  <2>5. /\ NextAfterSave(run[p].op) \in {"open", "insert", "refresh"}
        /\ CanBe(run[p].op, NextAfterSave(run[p].op))
    BY <1>2, <1>5 DEF NextAfterSave, CanBe
  <2>6. /\ pc'[p] \in {"open", "insert", "refresh"} /\ pc'[p] = NextAfterSave(run[p].op)
        /\ pc' \in [Proc -> {"idle", "key", "load", "save", "fill", "open", "join",
                               "admit", "insert", "reload", "refresh", "revoke", "unlink"}]
    BY <1>1, <2>1, <2>5, GotoIs DEF Stages
  <2>7. TypeOK'
    BY <1>1, <1>3, <2>4, <2>6 DEF TypeOK, Members!TypeOK, history
  <2>8. PlaceInv(p)' /\ GoesOn(p)
    BY <1>2, <2>4, <2>5, <2>6 DEF PlaceInv, GoesOn
  <2>9. Mine(p)' = Mine(p) /\ Base(p)' = Mine(p) /\ Mine(p) # None
    BY <1>2, <1>5, <2>2, <2>4 DEF Mine, Base, EntryInv
  <2>10. EntryInv(p)'
    BY <1>5, <2>4, <2>6, <2>9 DEF EntryInv, Saves
  <2>11. HeldInv(p)'
    <3>1. PICK a \in Agent : a = run[p].agent
      BY <1>2
    <3>2. a \notin lost' => Entry(a)' = Entry(a)
      BY <1>1 DEF EntryMoves, Saving
    <3>. QED BY <1>1, <1>2, <2>6, <2>8, <2>9, <3>1, <3>2, EntryOf DEF HeldInv, GoesOn, history
  <2>12. CountInv(p)' /\ GoneInv(p)'
    BY <1>1, <1>2, <1>5, <2>4, <2>8, <2>9, CountGoes DEF GoneInv, history
  <2>. QED BY <1>1, <1>3, <2>3, <2>4, <2>7, <2>8, <2>10, <2>11, <2>12
       DEF Settled, WorkInv
<1>. QED BY <1>4, <1>5

LEMMA InsertSettles ==
  ASSUME CliInv, NEW p \in Proc, Plain(p), EntryMoves(p), NEW n \in 1..2, Insert(p, n)
  PROVE  Settled(p)
<1>. DEFINE m == Mine(p)
            c == Advanced(run[p].cfg, run[p].agent, m.next + n)
            fresh == m.next .. m.next + n - 1
<1>1. /\ TypeOK /\ Len(owner) <= IdBound /\ RosterInv /\ PlaceInv(p) /\ WorkInv(p)
      /\ UNCHANGED <<disk, stops, owner, lost, rewound>>
      /\ pc[p] = "insert" /\ run' = WithCfg(p, c)
      /\ Goto(p, IF run[p].op = "watch" THEN "reload" ELSE "save")
      /\ given' = [given EXCEPT ![run[p].agent] = @ \cup fresh]
      /\ reused' \subseteq reused \cup {run[p].agent}
  BY DEF CliInv, Insert, WithCfg
<1>2. /\ run[p].op \in Operation /\ run[p].agent \in Agent /\ run[p].op \in Counting
      /\ EntryInv(p) /\ HeldInv(p) /\ CountInv(p)
  BY <1>1, AtWork DEF Between, WorkInv, CanBe, Counting
<1>3. Knows(run[p].cfg, owner) /\ Knows(run[p].base, owner) /\ Orderly(run[p].cfg)
  BY <1>1, KnowsFields DEF RosterInv
<1>4. m # None /\ m \in Member /\ m.next \in Nat /\ n \in Nat /\ m.next + n \in Nat
      /\ fresh \subseteq Nat
  <2>1. m # None
    BY <1>1, <1>2 DEF EntryInv, Saves
  <2>2. m \in Member /\ m.next \in Nat
    BY <1>1, <1>2, <2>1, MineKnown, MemberFields
  <2>. HIDE DEF m
  <2>. QED BY <2>1, <2>2
<1>5. /\ Orderly(c) /\ MemberOf(c, run[p].agent) = [m EXCEPT !.next = m.next + n]
      /\ \A b : b # run[p].agent => MemberOf(c, b) = MemberOf(run[p].cfg, b)
  BY <1>2, <1>3, <1>4, AdvancedOrderly DEF Mine
<1>. HIDE DEF c, m
<1>6. LET k == [m EXCEPT !.next = m.next + n]
      IN  k.id = m.id /\ k.next = m.next + n /\ k \in Member /\ k # None
  BY <1>4, CliAssumption DEF Member
<1>7. Knows(c, owner) /\ c \in Config
  BY <1>2, <1>3, <1>4, <1>5, <1>6 DEF Knows, Orderly, m, Mine
<1>8. /\ run'[p].op = run[p].op /\ run'[p].agent = run[p].agent
      /\ run'[p].base = run[p].base /\ run'[p].cfg = c /\ run' \in [Proc -> Run]
  BY <1>1, <1>7, WithCfgIs
<1>9. /\ pc'[p] = IF run[p].op = "watch" THEN "reload" ELSE "save"
      /\ pc' \in [Proc -> {"idle", "key", "load", "save", "fill", "open", "join",
                             "admit", "insert", "reload", "refresh", "revoke", "unlink"}]
  BY <1>1, GotoIs DEF Stages
<1>10. given' \in [Agent -> SUBSET Nat] /\ given'[run[p].agent] = given[run[p].agent] \cup fresh
  <2>. HIDE DEF fresh
  <2>. QED BY <1>1, <1>2, <1>4, TypeFields
<1>11. TypeOK'
  BY <1>1, <1>2, <1>8, <1>9, <1>10 DEF TypeOK, Members!TypeOK, disk
<1>12. PlaceInv(p)' /\ GoesOn(p)
  <2>1. CanBe(run[p].op, pc'[p])
    BY <1>2, <1>9 DEF CanBe, Counting
  <2>. QED BY <1>2, <1>8, <2>1 DEF PlaceInv, GoesOn
<1>13. /\ Mine(p)' # None /\ Mine(p)'.id = m.id /\ Mine(p)'.next = m.next + n
       /\ Base(p)' = Base(p)
  BY <1>5, <1>6, <1>8 DEF Mine, Base
<1>14. EntryInv(p)'
  BY <1>1, <1>2, <1>5, <1>8, <1>9, <1>13 DEF EntryInv, Saves, Counting, m
<1>15. HeldInv(p)'
  BY <1>1, <1>2, <1>9, <1>12, <1>13, HeldGoes
<1>16. CountInv(p)' /\ GoneInv(p)'
  <2>1. ASSUME run[p].agent \notin lost \cup rewound
        PROVE  \A r \in given[run[p].agent] \cup fresh : r < m.next + n
    <3>1. \A r \in given[run[p].agent] : r < m.next
      BY <1>2, <1>4, <2>1 DEF CountInv, Counting, Under, m
    <3>2. given[run[p].agent] \subseteq Nat
      BY <1>1, <1>2, TypeFields
    <3>3. ASSUME NEW r \in given[run[p].agent] PROVE r < m.next + n
      <4>1. r \in Nat /\ r < m.next
        BY <3>1, <3>2
      <4>. QED BY <1>4, <4>1
    <3>4. \A r \in fresh : r < m.next + n
      BY <1>4
    <3>. QED BY <3>3, <3>4
  <2>. HIDE DEF fresh
  <2>2. CountInv(p)'
    BY <1>1, <1>8, <1>10, <1>13, <2>1 DEF CountInv, Under
  <2>. QED BY <1>2, <1>8, <2>2 DEF GoneInv, Counting
<1>. QED BY <1>1, <1>3, <1>7, <1>8, <1>11, <1>12, <1>14, <1>15, <1>16
     DEF Settled, WorkInv, RosterInv, disk

LEMMA ReloadSettles ==
  ASSUME CliInv, NEW p \in Proc, Plain(p), EntryMoves(p), Reload(p)
  PROVE  Settled(p)
<1>1. /\ TypeOK /\ Len(owner) <= IdBound /\ RosterInv /\ PlaceInv(p) /\ WorkInv(p)
      /\ FillInv /\ pc[p] = "reload"
      /\ UNCHANGED <<disk, stops, owner, given, reused, lost>>
  BY DEF CliInv, Reload
<1>2. /\ run[p].op \in Operation /\ run[p].agent \in Agent /\ run[p].op = "watch"
      /\ EntryInv(p) /\ HeldInv(p) /\ CountInv(p)
  BY <1>1, AtWork DEF Between, WorkInv, CanBe
<1>3. Mine(p) # None /\ Mine(p) \in Member /\ Mine(p).next \in Nat
  <2>1. Mine(p) # None
    BY <1>1, <1>2 DEF EntryInv, Saves
  <2>. QED BY <1>1, <1>2, <2>1, MineKnown, MemberFields
<1>4. CASE run[p].agent \notin Listed(config)
  <2>1. /\ rewound' = rewound \cup {run[p].agent} /\ Goto(p, "insert") /\ run' = run
    BY <1>4 DEF Reload
  <2>2. /\ pc'[p] = "insert"
        /\ pc' \in [Proc -> {"idle", "key", "load", "save", "fill", "open", "join",
                               "admit", "insert", "reload", "refresh", "revoke", "unlink"}]
    BY <1>1, <2>1, GotoIs DEF Stages
  <2>3. TypeOK'
    BY <1>1, <1>2, <2>1, <2>2 DEF TypeOK, Members!TypeOK, disk
  <2>4. PlaceInv(p)' /\ GoesOn(p)
    BY <1>2, <2>1, <2>2 DEF PlaceInv, CanBe, GoesOn
  <2>5. Mine(p)' = Mine(p) /\ Base(p)' = Base(p)
    BY <2>1 DEF Mine, Base
  <2>6. EntryInv(p)'
    BY <1>1, <1>2, <2>1, <2>2, <2>5 DEF EntryInv, Saves
  <2>7. HeldInv(p)' /\ CountInv(p)' /\ GoneInv(p)'
    BY <1>1, <1>2, <2>1, <2>2, <2>4, <2>5, HeldGoes, CountGoes DEF GoneInv
  <2>. QED BY <1>1, <2>1, <2>3, <2>4, <2>6, <2>7 DEF Settled, WorkInv, RosterInv, disk
<1>5. CASE run[p].agent \in Listed(config)
  <2>. DEFINE m == MemberOf(config, run[p].agent)
              c == Advanced(config, run[p].agent, Mine(p).next)
  <2>1. /\ run' = WithBoth(p, config, c) /\ Goto(p, "save") /\ rewound' = rewound
    BY <1>5 DEF Reload, WithBoth
  <2>2. Knows(config, owner) /\ Orderly(config) /\ config \in Config
    BY <1>1, KnowsFields DEF RosterInv
  <2>3. m # None /\ m \in Member
    BY <1>5, <2>2, ListedIs
  <2>4. /\ Orderly(c) /\ MemberOf(c, run[p].agent) = [m EXCEPT !.next = Mine(p).next]
        /\ \A b : b # run[p].agent => MemberOf(c, b) = MemberOf(config, b)
    BY <1>2, <1>3, <2>2, <2>3, AdvancedOrderly
  <2>. HIDE DEF c, m
  <2>5. LET k == [m EXCEPT !.next = Mine(p).next]
        IN  k.id = m.id /\ k.next = Mine(p).next /\ k \in Member /\ k # None
    BY <1>3, <2>3, CliAssumption DEF Member
  <2>6. Knows(c, owner) /\ c \in Config
    BY <1>2, <2>2, <2>3, <2>4, <2>5 DEF Knows, Orderly, m
  <2>7. /\ run'[p].op = run[p].op /\ run'[p].agent = run[p].agent
        /\ run'[p].base = config /\ run'[p].cfg = c /\ run' \in [Proc -> Run]
    BY <1>1, <2>1, <2>2, <2>6, WithBothIs
  <2>8. /\ pc'[p] = "save"
        /\ pc' \in [Proc -> {"idle", "key", "load", "save", "fill", "open", "join",
                               "admit", "insert", "reload", "refresh", "revoke", "unlink"}]
    BY <1>1, <2>1, GotoIs DEF Stages
  <2>9. TypeOK'
    BY <1>1, <2>1, <2>7, <2>8 DEF TypeOK, Members!TypeOK, disk
  <2>10. PlaceInv(p)' /\ GoesOn(p)
    BY <1>2, <2>7, <2>8 DEF PlaceInv, CanBe, GoesOn
  <2>11. /\ Mine(p)' # None /\ Mine(p)'.id = m.id /\ Mine(p)'.next = Mine(p).next
         /\ Base(p)' = m
    BY <2>4, <2>5, <2>7 DEF Mine, Base, m
  <2>12. EntryInv(p)'
    BY <1>2, <2>3, <2>4, <2>7, <2>8, <2>11 DEF EntryInv, Saves, Counting
  <2>13. HeldInv(p)'
    <3>1. PICK a \in Agent : a = run[p].agent
      BY <1>2
    <3>2. a \notin lost' => Entry(a)' = m
      <4>1. a \notin lost => Entry(a) = m
        BY <1>1, <1>5, <3>1, EntryListed DEF m
      <4>. QED BY <1>1, <4>1 DEF EntryMoves, Saving
    <3>. QED BY <2>8, <2>10, <2>11, <3>1, <3>2, EntryOf DEF HeldInv, GoesOn
  <2>14. CountInv(p)' /\ GoneInv(p)'
    BY <1>1, <1>2, <1>3, <2>1, <2>7, <2>11 DEF CountInv, Under, GoneInv
  <2>. QED BY <1>1, <2>2, <2>6, <2>7, <2>9, <2>10, <2>12, <2>13, <2>14
       DEF Settled, WorkInv, disk
<1>. QED BY <1>4, <1>5

LEMMA StepSettles ==
  ASSUME CliInv, NEW p \in Proc, Plain(p), EntryMoves(p), Step(p)
  PROVE  Settled(p)
BY StoreKeySettles, LookSettles, StopSettles, RefreshSettles, InitKnownSettles,
   InitNewSettles, UseSettles, PickSettles, JoinSettles, RevokeSettles, UnlinkSettles,
   TruncateSettles, FillSettles, InsertSettles, ReloadSettles DEF Step

----------------------------------------------------------------------------
(* What a step leaves of the rest.                                         *)

LEMMA ActiveKept ==
  ASSUME TypeOK, TypeOK', ActiveInv, NEW p \in Proc, WorkInv(p), Plain(p), EntryMoves(p)
  PROVE  ActiveInv'
<1>1. ASSUME NEW id \in TenantId, active'[id] # None
      PROVE  /\ id \in 1..Len(owner')
             /\ owner'[id] \notin lost' => Entry(owner[id])' # None /\ Entry(owner[id])'.id = id
  <2>1. Len(owner) \in Nat /\ Len(owner') \in Nat /\ Grown(owner, owner') /\ lost \subseteq lost'
    BY TypeFields DEF Plain, TypeOK
  <2>2. id \in 1..Len(owner)
    BY <1>1 DEF Plain, ActiveInv
  <2>3. PICK a \in Agent : a = owner[id]
    BY <2>2, TypeFields
  <2>4. id \in 1..Len(owner') /\ owner'[id] = a
    BY <2>1, <2>2, <2>3 DEF Grown
  <2>5. ASSUME a \notin lost' PROVE Entry(a)' # None /\ Entry(a)'.id = id
    <3>1. a \notin lost
      BY <2>1, <2>5
    <3>2. CASE active[id] # None
      <4>1. Entry(a) # None /\ Entry(a).id = id
        BY <2>3, <3>1, <3>2 DEF ActiveInv
      <4>2. CASE ~Saving(p, a)
        BY <2>5, <4>1, <4>2 DEF EntryMoves
      <4>3. CASE Saving(p, a)
        <5>1. Entry(a) = Base(p) /\ Entry(a)' = Mine(p)
          BY <2>5, <4>3 DEF EntryMoves
        <5>2. run[p].agent = a /\ pc[p] = "save" /\ EntryInv(p) /\ GoneInv(p)
          BY <4>3 DEF Saving, WorksOn, WorkInv
        <5>3. run[p].op # "leave"
          BY <2>2, <2>3, <3>1, <3>2, <5>2 DEF GoneInv
        <5>. QED BY <4>1, <5>1, <5>2, <5>3 DEF EntryInv, Saves
      <4>. QED BY <4>2, <4>3
    <3>3. CASE active[id] = None
      <4>1. WorksOn(p, a) /\ pc[p] = "admit" /\ id = Mine(p).id
        BY <1>1, <2>3, <3>3 DEF Plain
      <4>2. run[p].agent = a /\ run[p].op # "saga" /\ EntryInv(p) /\ HeldInv(p)
        BY <4>1 DEF WorksOn, WorkInv
      <4>3. Mine(p) # None /\ Base(p) # None /\ Base(p) = Mine(p)
        BY <4>1, <4>2 DEF EntryInv, Saves, Mine, Base
      <4>4. Entry(a) = Mine(p)
        BY <3>1, <4>1, <4>2, <4>3 DEF HeldInv
      <4>5. Entry(a)' = Entry(a)
        BY <2>5, <4>1 DEF EntryMoves, Saving
      <4>. QED BY <4>1, <4>3, <4>4, <4>5
    <3>. QED BY <3>2, <3>3
  <2>. QED BY <2>4, <2>5 DEF Entry
<1>. QED BY <1>1 DEF ActiveInv, Entry

(* What a command has counted it saves, or its agent is rewound.           *)
LEMMA StepCounts ==
  ASSUME TypeOK, NEW p \in Proc, PlaceInv(p), WorkInv(p), Step(p), NEW a \in Agent
  PROVE  /\ run[p].agent = a /\ Dirty(p) =>
              a \in rewound' \/ (run'[p].agent = a /\ run'[p].op \in Counting)
         /\ given'[a] = given[a] \/ (run'[p].agent = a /\ run'[p].op \in Counting)
<1>1. CASE \E n \in 1..2 : Insert(p, n)
  <2>1. \E x : run' = WithCfg(p, x)
    BY <1>1 DEF Insert, WithCfg
  <2>2. pc[p] = "insert"
    BY <1>1 DEF Insert
  <2>3. run'[p].agent = run[p].agent /\ run'[p].op = run[p].op
    <3>1. ASSUME NEW x, run' = WithCfg(p, x)
          PROVE  run'[p].agent = run[p].agent /\ run'[p].op = run[p].op
      BY <3>1, WithCfgIs
    <3>. QED BY <2>1, <3>1
  <2>4. run[p].agent \in Agent /\ run[p].op \in Counting
    BY <2>2, AtWork DEF Between, CanBe, Counting
  <2>5. given'[a] = given[a] \/ a = run[p].agent
    BY <1>1, <2>4, TypeFields DEF Insert
  <2>. QED BY <2>3, <2>4, <2>5
<1>2. CASE Reload(p) \/ Unlink(p)
  <2>1. /\ run' = run \/ (\E x : run' = WithCfg(p, x)) \/ \E x, y : run' = WithBoth(p, x, y)
        /\ given' = given
    BY <1>2 DEF Reload, Unlink, WithCfg, WithBoth, history
  <2>2. run'[p].agent = run[p].agent /\ run'[p].op = run[p].op
    <3>1. ASSUME NEW x, NEW y, run' = WithCfg(p, x) \/ run' = WithBoth(p, x, y)
          PROVE  run'[p].agent = run[p].agent /\ run'[p].op = run[p].op
      BY <3>1, WithCfgIs, WithBothIs
    <3>. QED BY <2>1, <3>1
  <2>. QED BY <2>1, <2>2 DEF Dirty
<1>3. CASE Fill(p)
  <2>1. given' = given
    BY <1>3 DEF Fill, history
  <2>2. run[p].op \in Counting => run'[p].agent = run[p].agent /\ run'[p].op = run[p].op
    <3>1. ASSUME run[p].op \in Counting
          PROVE  run'[p].agent = run[p].agent /\ run'[p].op = run[p].op
      <4>1. PICK x : run' = WithBoth(p, x, x)
        BY <1>3, <3>1 DEF Fill, Counting, WithBoth
      <4>. QED BY <4>1, WithBothIs
    <3>. QED BY <3>1
  <2>. QED BY <2>1, <2>2 DEF Dirty
<1>4. CASE Refresh(p)
  <2>1. given' = given /\ pc[p] = "refresh"
    BY <1>4 DEF Refresh, history
  <2>2. run[p].agent = a => run[p].base = run[p].cfg
    BY <2>1 DEF WorkInv, EntryInv
  <2>. QED BY <2>1, <2>2 DEF Dirty
<1>5. CASE Stop(p)
  <2>1. given' = given
    BY <1>5 DEF Stop
  <2>2. run[p].agent = a /\ Dirty(p) => a \in rewound'
    BY <1>5 DEF Stop, Dirty, Counting
  <2>. QED BY <2>1, <2>2
<1>6. CASE \/ StoreKey(p) \/ KeyStored(p) \/ Look(p) \/ \E id \in TenantId : Evict(p, id)
           \/ Truncate(p) \/ Open(p) \/ Join(p) \/ Admit(p) \/ Revoke(p)
  <2>1. run' = run /\ given' = given
    BY <1>6 DEF StoreKey, KeyStored, Look, Evict, Truncate, Open, Join, Admit, Revoke, history
  <2>. QED BY <2>1 DEF Dirty
<1>7. CASE \/ \E b \in Agent : InitKnown(p, b) \/ InitNew(p, b) \/ Use(p, b)
           \/ \E b \in Agent, op \in Operation \ {"init", "use"} : Pick(p, op, b)
  <2>1. given' = given /\ pc[p] \in Between
    BY <1>7 DEF InitKnown, InitNew, Use, Pick, Between, disk
  <2>2. run[p].agent # a
    BY <2>1, AtRest, IdleIs
  <2>. QED BY <2>1, <2>2
<1>. QED BY <1>1, <1>2, <1>3, <1>4, <1>5, <1>6, <1>7 DEF Step

LEMMA StoredKept ==
  ASSUME TypeOK, StoredInv, NEW p \in Proc, PlaceInv(p), WorkInv(p), Step(p),
         Plain(p), EntryMoves(p), \A q \in Proc : WorkInv(q)'
  PROVE  StoredInv'
<1>1. ASSUME NEW a \in Agent, a \notin lost' \cup rewound', Entry(a)' # None,
             \A q \in Proc : run'[q].agent = a => ~Dirty(q)'
      PROVE  \A r \in given'[a] : r < Entry(a)'.next
  <2>1. a \notin lost \cup rewound
    BY <1>1 DEF Plain
  <2>2. CASE \E q \in Proc : run'[q].agent = a /\ run'[q].op \in Counting
    <3>1. PICK q \in Proc : run'[q].agent = a /\ run'[q].op \in Counting
      BY <2>2
    <3>2. EntryInv(q)' /\ HeldInv(q)' /\ CountInv(q)' /\ run'[q].cfg = run'[q].base
      BY <1>1, <3>1 DEF WorkInv, Dirty
    <3>3. run'[q].op # "leave" /\ run'[q].op # "saga"
      BY <3>1 DEF Counting
    <3>4. Base(q)' = Mine(q)' /\ Mine(q)' # None
      BY <3>2, <3>3 DEF EntryInv, Mine, Base
    <3>5. Entry(a)' = Mine(q)'
      BY <1>1, <3>1, <3>2, <3>3, <3>4 DEF HeldInv, Entry
    <3>. QED BY <1>1, <3>1, <3>2, <3>3, <3>4, <3>5 DEF CountInv, Under
  <2>3. CASE ~\E q \in Proc : run'[q].agent = a /\ run'[q].op \in Counting
    <3>1. given'[a] = given[a] /\ (run[p].agent = a => ~Dirty(p))
      BY <1>1, <2>3, StepCounts
    <3>2. \A q \in Proc : run[q].agent = a => ~Dirty(q)
      BY <2>3, <3>1 DEF Plain, Dirty
    <3>3. CASE ~Saving(p, a)
      <4>1. Entry(a)' = Entry(a)
        BY <1>1, <3>3 DEF EntryMoves
      <4>. QED BY <1>1, <2>1, <3>1, <3>2, <4>1 DEF StoredInv, Under
    <3>4. CASE Saving(p, a)
      <4>1. Entry(a)' = Mine(p)
        BY <1>1, <3>4 DEF EntryMoves
      <4>2. run[p].agent = a /\ run[p].op # "saga" /\ CountInv(p)
        BY <3>4 DEF Saving, WorksOn, WorkInv
      <4>. QED BY <1>1, <2>1, <3>1, <4>1, <4>2 DEF CountInv, Under
    <3>. QED BY <3>3, <3>4
  <2>. QED BY <2>2, <2>3
<1>. QED BY <1>1 DEF StoredInv, Under

(* Ids given out a second time are below the counter.                      *)
LEMMA IdsKept ==
  ASSUME TypeOK, Len(owner) <= IdBound, RosterInv, IdsUnique,
         NEW p \in Proc, PlaceInv(p), WorkInv(p), Plain(p), Step(p)
  PROVE  IdsUnique'
<1>1. lost \cup rewound \subseteq lost' \cup rewound'
  BY DEF Plain
<1>2. CASE \E n \in 1..2 : Insert(p, n)
  <2>. DEFINE a == run[p].agent
  <2>1. PICK n \in 1..2 : Insert(p, n)
    BY <1>2
  <2>2. /\ a \in Agent /\ run[p].op \in Counting /\ EntryInv(p) /\ CountInv(p)
        /\ pc[p] = "insert"
    BY <2>1, AtWork DEF Insert, Between, CanBe, Counting, WorkInv
  <2>3. Mine(p) # None
    BY <2>2 DEF EntryInv, Saves
  <2>4. Mine(p).next \in Nat /\ given[a] \subseteq Nat
    BY <2>2, <2>3, MineKnown, MemberFields, TypeFields
  <2>5. a \notin lost \cup rewound => \A r \in given[a] : r < Mine(p).next
    BY <2>2, <2>3 DEF CountInv, Under, Counting
  <2>6. a \notin lost \cup rewound =>
          (Mine(p).next .. Mine(p).next + n - 1) \cap given[a] = {}
    <3>1. \A r \in Mine(p).next .. Mine(p).next + n - 1 : r \in Int /\ r >= Mine(p).next
      BY <2>4
    <3>2. ASSUME a \notin lost \cup rewound,
                 NEW r \in (Mine(p).next .. Mine(p).next + n - 1) \cap given[a]
          PROVE  FALSE
      <4>1. r \in Nat /\ r < Mine(p).next /\ r >= Mine(p).next
        BY <2>4, <2>5, <3>1, <3>2
      <4>. QED BY <2>4, <4>1
    <3>. QED BY <3>2
  <2>7. reused' = reused \cup
          (IF (Mine(p).next .. Mine(p).next + n - 1) \cap given[a] = {} THEN {} ELSE {a})
    BY <2>1 DEF Insert
  <2>. QED BY <1>1, <2>6, <2>7 DEF IdsUnique
<1>3. CASE ~\E n \in 1..2 : Insert(p, n)
  <2>1. reused' = reused
    BY <1>3 DEF Step, StoreKey, KeyStored, InitKnown, InitNew, Use, Pick, Look, Evict,
                Reload, Truncate, Fill, Open, Join, Admit, Refresh, Revoke, Unlink, Stop, history
  <2>. QED BY <1>1, <2>1 DEF IdsUnique
<1>. QED BY <1>2, <1>3

----------------------------------------------------------------------------
(* The invariant holds, and with it what Cli promises.                     *)

LEMMA CliInvInit == Init => CliInv
<1>. SUFFICES ASSUME Init PROVE CliInv
  OBVIOUS
<1>1. /\ config = EmptyConfig /\ owner = <<>> /\ Len(owner) = 0 /\ owner \in Seq(Agent)
      /\ \A p \in Proc : pc[p] = "idle" /\ run[p] = Idle
      /\ \A id \in TenantId : active[id] = None
      /\ Filling = {}
  BY DEF Init, Members!Init, Filling
<1>2. TypeOK /\ Len(owner) <= IdBound
  <2>1. EmptyConfig \in Config /\ Idle \in Run /\ 0 \in 0..StopBound /\ 0 <= IdBound
    BY EmptyOrderly, IdleIs, CliAssumption DEF Orderly
  <2>. QED BY <1>1, <2>1 DEF Init, TypeOK, Members!Init, Members!TypeOK
<1>3. RosterInv
  BY <1>1, KnowsEmpty, IdleIs DEF RosterInv
<1>4. AloneInv /\ FillInv /\ ActiveInv /\ IdsUnique
  BY <1>1, IdleIs DEF Init, AloneInv, WorksOn, FillInv, ActiveInv, IdsUnique
<1>5. StoredInv
  BY <1>1, EntryFile, EmptyOrderly DEF StoredInv
<1>6. \A p \in Proc : PlaceInv(p) /\ WorkInv(p)
  BY <1>1, IdleIs DEF PlaceInv, WorkInv, Between
<1>. QED BY <1>2, <1>3, <1>4, <1>5, <1>6 DEF CliInv

LEMMA RosterKept ==
  ASSUME RosterInv, NEW p \in Proc, Plain(p), Settled(p), owner \in Seq(Agent)
  PROVE  RosterInv'
<1>1. owner' \in Seq(Agent) /\ Grown(owner, owner')
  BY DEF Settled, TypeOK, Plain
<1>2. \A q \in Proc \ {p} : run'[q] = run[q]
  BY DEF Plain
<1>3. \A q \in Proc \ {p} : Knows(run'[q].base, owner') /\ Knows(run'[q].cfg, owner')
  BY <1>1, <1>2, KnowsGrows DEF RosterInv
<1>. QED BY <1>3 DEF Settled, RosterInv

LEMMA CliInvStep ==
  ASSUME CliInv, NEW p \in Proc, Step(p)
  PROVE  CliInv'
<1>1. /\ TypeOK /\ Len(owner) <= IdBound /\ RosterInv /\ AloneInv /\ FillInv
      /\ ActiveInv /\ StoredInv /\ IdsUnique
      /\ \A q \in Proc : PlaceInv(q) /\ WorkInv(q)
  BY DEF CliInv
<1>2. Plain(p)
  BY <1>1, StepPlain
<1>3. FillInv' /\ EntryMoves(p)
  BY <1>1, <1>2, StepEntries
<1>4. Settled(p)
  BY <1>2, <1>3, StepSettles
<1>5. TypeOK' /\ Len(owner') <= IdBound /\ PlaceInv(p)' /\ WorkInv(p)'
  BY <1>4 DEF Settled
<1>6. RosterInv'
  BY <1>1, <1>2, <1>4, RosterKept, TypeFields
<1>7. AloneInv' /\ ActiveInv'
  BY <1>1, <1>2, <1>3, <1>5, AloneKept, ActiveKept
<1>8. \A q \in Proc : PlaceInv(q)' /\ WorkInv(q)'
  BY <1>1, <1>2, <1>3, <1>5, OthersKept
<1>9. StoredInv' /\ IdsUnique'
  BY <1>1, <1>2, <1>3, <1>8, StoredKept, IdsKept
<1>. QED BY <1>3, <1>5, <1>6, <1>7, <1>8, <1>9 DEF CliInv

LEMMA CliInvStutter ==
  ASSUME CliInv, UNCHANGED vars
  PROVE  CliInv'
<1>1. /\ UNCHANGED <<config, pc, run, active, owner, given, reused, lost, rewound>>
      /\ Filling' = Filling
  BY DEF vars, Filling
<1>2. Roster' = Roster
  BY <1>1 DEF Roster
<1>3. \A a : Entry(a)' = Entry(a)
  BY <1>2 DEF Entry
<1>4. TypeOK' /\ Len(owner') <= IdBound
  BY DEF CliInv, vars, TypeOK, Members!TypeOK
<1>5. RosterInv' /\ AloneInv' /\ FillInv' /\ IdsUnique'
  BY <1>1 DEF CliInv, RosterInv, AloneInv, WorksOn, FillInv, IdsUnique
<1>6. ActiveInv'
  BY <1>1, <1>2 DEF CliInv, ActiveInv, Entry
<1>7. StoredInv'
  BY <1>1, <1>2 DEF CliInv, StoredInv, Entry, Dirty, Under
<1>8. ASSUME NEW p \in Proc PROVE PlaceInv(p)' /\ WorkInv(p)'
  <2>1. PlaceInv(p) /\ WorkInv(p)
    BY DEF CliInv
  <2>2. PlaceInv(p)'
    BY <1>1, <2>1 DEF PlaceInv
  <2>3. WorkInv(p)'
    BY <1>1, <1>2, <2>1
       DEF WorkInv, EntryInv, HeldInv, GoneInv, CountInv, Mine, Base, Entry, Saves, Under
  <2>. QED BY <2>2, <2>3
<1>. QED BY <1>4, <1>5, <1>6, <1>7, <1>8 DEF CliInv

LEMMA CliInvAlways == Spec => []CliInv
<1>1. CliInv /\ [Next]_vars => CliInv'
  BY CliInvStep, CliInvStutter DEF Next
<1>. QED BY CliInvInit, <1>1, PTL DEF Spec

(* The variables keep their types: no command ever saves a roster that     *)
(* does not load, works on an unknown agent or makes a saga under an id    *)
(* nobody drew.                                                            *)
THEOREM CliTypeCorrect == Spec => []TypeOK
<1>1. CliInv => TypeOK
  BY DEF CliInv
<1>. QED BY <1>1, CliInvAlways, PTL

(* Whatever commands run, overlap or stop, for any number of agents and    *)
(* processes, no record id is inserted twice in a vault but for an agent   *)
(* whose entry was lost or whose counter was rewound (alloc_record_id).    *)
THEOREM IdsAlwaysUnique == Spec => []IdsUnique
<1>1. CliInv => IdsUnique
  BY DEF CliInv
<1>. QED BY <1>1, CliInvAlways, PTL

(* A member whom this machine admitted is in cli.toml, or in what is being *)
(* written to it, unless its entry was lost: init and leave keep to it in  *)
(* every interleaving, wherever one of them stops.                         *)
THEOREM MembersAlwaysListed == Spec => []MembersListed
<1>1. ASSUME CliInv PROVE MembersListed
  <2>1. TypeOK /\ Len(owner) <= IdBound /\ RosterInv /\ FillInv /\ ActiveInv
    BY <1>1 DEF CliInv
  <2>2. ASSUME NEW id \in 1..Len(owner), active[id] # None, owner[id] \notin lost
        PROVE  \E cfg \in Current : id \in Ids(cfg)
    <3>1. id \in TenantId /\ owner[id] \in Agent
      BY <2>1, TypeFields, CliAssumption DEF TenantId
    <3>2. Entry(owner[id]) # None /\ Entry(owner[id]).id = id
      BY <2>1, <2>2, <3>1 DEF ActiveInv
    <3>3. Roster \in Current
      <4>1. Filling # {} => (CHOOSE p \in Filling : TRUE) \in Filling
        OBVIOUS
      <4>. QED BY <4>1 DEF Roster, Current, Filling
    <3>4. Roster \in Config
      BY <2>1, <3>3, KnowsFields DEF RosterInv, Current
    <3>5. owner[id] \in Listed(Roster)
      BY <3>2, <3>4, ListedIs DEF Entry
    <3>6. Entry(owner[id]).id \in Ids(Roster)
      BY <3>4, <3>5, ListedIs DEF Entry
    <3>. QED BY <3>2, <3>3, <3>6
  <2>. QED BY <2>2 DEF MembersListed
<1>. QED BY <1>1, CliInvAlways, PTL
=============================================================================
