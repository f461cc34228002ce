------------------------ MODULE HybridRegistry_proofs ------------------------
(***************************************************************************)
(* Theorems about HybridRegistry, for any tenants, remotes, builds, times  *)
(* and version 1 logs: lists are honest, migrations exact, pulls forward.  *)
(* And about SagaBuild, where the sagas come from, for any vectors, tags   *)
(* and draws of the generator: the clustering never gets worse, and what   *)
(* is written is true of the tenant.                                       *)
(***************************************************************************)
EXTENDS HybridRegistry, SagaBuild, DataLemmas

----------------------------------------------------------------------------
(* What makes the properties inductive.                                    *)

Entry  == [tenant : Tenant, from : Remote \cup {Local}]
Answered == [from : Remote, ids : SUBSET Tenant]

PullJob    == [kind : {"pull"}, rest : Seq(Remote)]
FetchJob   == [kind : {"fetch"}, rest : Seq(Remote), seen : Copy \cup {None}]
MembersJob == [kind : {"members"}, rest : Seq(Remote), here : SUBSET Tenant,
               all : SUBSET Entry, told : Seq(Answered)]
ListedJob  == [kind : {"listed"}, here : SUBSET Tenant, told : Seq(Answered),
               list : Seq(Entry)]
MigrateJob == [kind : {"migrate", "migrated"}, rest : Seq(Tenant),
               wanted : SUBSET Tenant, gone : SUBSET Tenant]

(* What is about to be fetched is still later than the local file that it  *)
(* was compared with: a remote's file only gets later.                     *)
FetchInv ==
  job \in FetchJob =>
    /\ job.rest # <<>> /\ served[Head(job.rest)] # None
    /\ job.seen # None => job.seen.time < served[Head(job.rest)].time

(* Whom a list has to show, and with whose record.                         *)
Knows(told, t) == {i \in DOMAIN told : t \in told[i].ids}
Source(here, told, t) == IF t \in here THEN Local ELSE told[Min(Knows(told, t))].from
Known(here, told) == {t \in Tenant : t \in here \/ Knows(told, t) # {}}
Listed(here, told) == {Record(t, Source(here, told, t)) : t \in Known(here, told)}

ListInv ==
  /\ job \in MembersJob => job.all = Listed(job.here, job.told)
  /\ job \in ListedJob =>
       /\ ToSet(job.list) = Listed(job.here, job.told)
       /\ \A i, j \in 1..Len(job.list) : i < j => job.list[i].tenant < job.list[j].tenant

(* Who was active in version 1 is here, or revoked since, or still to come.*)
MigrateInv ==
  job \in MigrateJob =>
    /\ dim # None
    /\ job.wanted \subseteq ActiveHere \cup job.gone \cup ToSet(job.rest)
    /\ ToSet(job.rest) \subseteq invited
    /\ job.kind = "migrated" => job.rest = <<>>

JobInv ==
  /\ job \in {NoJob} \cup PullJob \cup FetchJob \cup MembersJob \cup ListedJob \cup MigrateJob
  /\ FetchInv /\ ListInv /\ MigrateInv

(* The local file is of a build that a file was dated for before it.       *)
FilesInv ==
  /\ now \in Second /\ built \in Version \cup {0}
  /\ copy \in Copy \cup {None} /\ dated \subseteq Copy
  /\ served \in [Remote -> Copy \cup {None}]
  /\ \A r \in Remote : served[r] # None =>
       /\ served[r] \in dated
       /\ served[r].version <= built /\ served[r].time <= now
  /\ copy # None =>
       /\ copy.version <= built
       /\ \E d \in dated : d.version = copy.version /\ d.time <= copy.time

ChainInv ==
  /\ Membership!TypeOK /\ remotes \in Seq(Remote)
  /\ invited \subseteq Tenant /\ ActiveHere \subseteq invited

Inv == ChainInv /\ FilesInv /\ JobInv

----------------------------------------------------------------------------
(* Sorting by id.                                                          *)

(* A sequence of all members of S, each once, by ascending id.             *)
Ascends(list, S, id) ==
  /\ list \in Seq(S)
  /\ \A x \in S : \E i \in 1..Len(list) : list[i] = x
  /\ \A i, j \in 1..Len(list) : i < j => id[list[i]] < id[list[j]]

LEMMA SeqOfSet ==
  ASSUME NEW S, IsFiniteSet(S)
  PROVE  /\ SetToSeq(S) \in [1..Cardinality(S) -> S] /\ Cardinality(S) \in Nat
         /\ OneToOne(SetToSeq(S), 1..Cardinality(S))
         /\ \A x \in S : \E i \in 1..Cardinality(S) : SetToSeq(S)[i] = x
<1>. DEFINE n == Cardinality(S)
            D == 1..n
            s == SetToSeq(S)
            Good(f) == f \in [D -> S] /\ IsInjective(f)
<1>1. n \in Nat /\ ExistsBijection(D, S)
  BY FS_CardinalityType, FS_CountingElements
<1>2. IsFiniteSet(D) /\ Cardinality(D) = Cardinality(S)
  BY <1>1, CountPlaces
<1>3. PICK f : f \in Bijection(D, S)
  BY <1>1 DEF ExistsBijection
<1>4. Good(f)
  BY <1>3 DEF Bijection, Injection, IsInjective
<1>5. Good(s)
  BY <1>4 DEF SetToSeq
<1>. HIDE DEF s, n
<1>6. s \in Injection(D, S) /\ OneToOne(s, D)
  BY <1>5 DEF Injection, IsInjective, OneToOne
<1>. HIDE DEF D
<1>7. s \in Surjection(D, S)
  BY <1>2, <1>6, FS_Injection
<1>. QED BY <1>1, <1>5, <1>6, <1>7 DEF D, s, n, Surjection

LEMMA ByIdAscends ==
  ASSUME NEW S, IsFiniteSet(S), NEW id \in [S -> Int], OneToOne(id, S)
  PROVE  Ascends(ById(S, id), S, id)
<1>. DEFINE n == Cardinality(S)
            s == SetToSeq(S)
            keys == [i \in 1..n |-> -id[s[i]]]
            list == ById(S, id)
<1>1. /\ s \in [1..n -> S] /\ n \in Nat /\ OneToOne(s, 1..n)
      /\ \A x \in S : \E i \in 1..n : s[i] = x
  BY SeqOfSet
<1>. HIDE DEF s, n
<1>2. DOMAIN s = 1..n /\ keys \in [1..n -> Int]
  BY <1>1
<1>3. list = Ordered(s, 1..n, keys)
  BY <1>2 DEF ById, Sorted, s
<1>4. 1..n \in SUBSET (1..n) /\ Cardinality(1..n) = n
  BY <1>1, CountPlaces
<1>5. Sorts(list, s, 1..n, keys)
  <2>. HIDE DEF keys, list
  <2>. QED BY <1>1, <1>2, <1>3, <1>4, OrderedIs
<1>6. PICK at : /\ Arranges(at, 1..n, keys)
                /\ list = [p \in 1..n |-> s[at[p]]]
  BY <1>4, <1>5 DEF Sorts
<1>7. /\ at \in [1..n -> 1..n] /\ \A i \in 1..n : \E p \in 1..n : at[p] = i
      /\ \A j, p \in 1..n : j < p => GoesBefore(keys, at[j], at[p])
      /\ OneToOne(at, 1..n)
  BY <1>4, <1>6 DEF Arranges
<1>8. \A p \in 1..n : list[p] = s[at[p]] /\ list[p] \in S /\ at[p] \in 1..n
  BY <1>1, <1>6, <1>7
<1>9. list \in Seq(S) /\ Len(list) = n
  <2>. HIDE DEF list
  <2>1. list \in [1..n -> S]
    BY <1>6, <1>8
  <2>. QED BY <1>1, <2>1
<1>10. ASSUME NEW j \in 1..n, NEW p \in 1..n, j < p PROVE id[list[j]] < id[list[p]]
  <2>1. keys[at[j]] >= keys[at[p]]
    <3>1. keys[at[j]] \in Int /\ keys[at[p]] \in Int
      BY <1>2, <1>8
    <3>. HIDE DEF keys, list
    <3>2. GoesBefore(keys, at[j], at[p])
      BY <1>7, <1>10
    <3>. QED BY <3>1, <3>2 DEF GoesBefore
  <2>2. keys[at[j]] = -id[list[j]] /\ keys[at[p]] = -id[list[p]]
    BY <1>8
  <2>3. id[list[j]] \in Int /\ id[list[p]] \in Int
    BY <1>8
  <2>4. id[list[j]] # id[list[p]]
    <3>1. at[j] # at[p]
      BY <1>1, <1>7, <1>10 DEF OneToOne
    <3>2. s[at[j]] # s[at[p]]
      BY <1>1, <1>8, <3>1 DEF OneToOne
    <3>. QED BY <1>8, <3>2 DEF OneToOne
  <2>. HIDE DEF keys
  <2>. QED BY <2>1, <2>2, <2>3, <2>4
<1>11. ASSUME NEW x \in S PROVE \E p \in 1..n : list[p] = x
  <2>1. PICK i \in 1..n : s[i] = x
    BY <1>1
  <2>2. PICK p \in 1..n : at[p] = i
    BY <1>7
  <2>. QED BY <1>8, <2>1, <2>2
<1>. HIDE DEF list
<1>12. Ascends(list, S, id)
  BY <1>9, <1>10, <1>11 DEF Ascends
<1>. QED BY <1>12 DEF list

----------------------------------------------------------------------------
(* The members log of version 1.                                           *)

(* g is what the members were after each event.                            *)
Replays(g, snapshot, log) ==
  /\ g \in [0..Len(log) -> SUBSET Tenant]
  /\ g[0] = snapshot
  /\ \A p \in 1..Len(log) : g[p] = AfterEvent(g[p - 1], log[p])

LEMMA MembersReplay ==
  ASSUME NEW snapshot \in SUBSET Tenant, NEW log \in Seq(Event)
  PROVE  \E g : Replays(g, snapshot, log) /\ V1Members(snapshot, log) = g[Len(log)]
<1>. DEFINE n == Len(log)
            V == SUBSET Tenant
            step == [p \in (1..n) \X V |-> AfterEvent(p[2], log[p[1]])]
            Equation(f) ==
              f = [t \in SUBSET (1..n) |->
                     IF t = {} THEN snapshot ELSE AfterEvent(f[t \ {Max(t)}], log[Max(t)])]
            f == CHOOSE f : Equation(f)
            g == [p \in 0..n |-> f[1..p]]
<1>1. n \in Nat /\ DOMAIN log = 1..n /\ \A i \in 1..n : log[i] \in Event
  OBVIOUS
<1>0. \A t : Max(t) = Greatest(t)
  BY DEF Max, Greatest
<1>2. \A i \in 1..n, v \in V : AfterEvent(v, log[i]) \in V
  BY <1>1 DEF AfterEvent, Event
<1>3. /\ step \in [(1..n) \X V -> V] /\ snapshot \in V
      /\ \A i \in 1..n, v \in V : step[i, v] = AfterEvent(v, log[i])
  <2>. HIDE DEF V
  <2>1. \A p \in (1..n) \X V : AfterEvent(p[2], log[p[1]]) \in V
    BY <1>2
  <2>2. snapshot \in V
    BY DEF V
  <2>. QED BY <2>1, <2>2
<1>4. PICK h \in [SUBSET (1..n) -> V] : FoldEquation(h, n, snapshot, step)
  <2>. HIDE DEF step, n, V
  <2>. QED BY <1>1, <1>3, FoldExists DEF Foldable
<1>5. Equation(h)
  <2>. HIDE DEF step, V
  <2>1. ASSUME NEW t \in SUBSET (1..n)
        PROVE  h[t] = IF t = {} THEN snapshot ELSE AfterEvent(h[t \ {Max(t)}], log[Max(t)])
    <3>1. CASE t # {}
      <4>1. Max(t) \in 1..n
        BY <3>1, <1>1, MaxIn
      <4>2. h[t] = step[Max(t), h[t \ {Max(t)}]] /\ h[t \ {Max(t)}] \in V
        BY <1>0, <1>4, <3>1, <4>1 DEF FoldEquation
      <4>. QED BY <1>3, <3>1, <4>1, <4>2
    <3>2. CASE t = {}
      BY <1>4, <3>2 DEF FoldEquation
    <3>. QED BY <3>1, <3>2
  <2>. QED BY <2>1
<1>6. Equation(f)
  <2>. HIDE DEF Equation
  <2>. QED BY <1>5
<1>7. V1Members(snapshot, log) = f[1..n]
  BY <1>1 DEF V1Members, FoldLeft, MapThenFoldSet
<1>. HIDE DEF f
<1>8. f[{}] = snapshot
  BY <1>6
<1>9. ASSUME NEW p \in 1..n PROVE f[1..p] = AfterEvent(f[1..p - 1], log[p])
  <2>. HIDE DEF n
  <2>1. 1..p \in SUBSET (1..n) /\ 1..p # {} /\ Max(1..p) = p /\ (1..p) \ {p} = 1..p - 1
    BY <1>0, <1>1, PrefixStep
  <2>. QED BY <1>6, <2>1
<1>10. ASSUME NEW p \in 0..n PROVE g[p] \in V
  <2>. DEFINE S == {i \in Nat : i <= n => f[1..i] \in V}
  <2>. HIDE DEF n, V
  <2>0. 1..0 = {}
    OBVIOUS
  <2>1. 0 \in S
    BY <1>3, <1>8, <2>0
  <2>2. ASSUME NEW i \in S PROVE i + 1 \in S
    BY <1>1, <1>2, <1>9
  <2>3. S \in SUBSET Nat
    OBVIOUS
  <2>4. S = Nat
    <3>. HIDE DEF S
    <3>. QED BY <2>1, <2>2, <2>3, NatStep
  <2>. QED BY <1>1, <2>4
<1>11. Replays(g, snapshot, log)
  <2>1. 1..0 = {} /\ g[0] = snapshot
    BY <1>1, <1>8
  <2>. QED BY <1>1, <1>9, <1>10, <2>1 DEF Replays
<1>12. V1Members(snapshot, log) = g[n]
  BY <1>1, <1>7
<1>. HIDE DEF g
<1>. QED BY <1>11, <1>12

(* Reading the members of version 1 finds those whose last event, or else  *)
(* the snapshot, says that they are active.                                *)
LEMMA V1MembersExact ==
  ASSUME NEW snapshot \in SUBSET Tenant, NEW log \in Seq(Event)
  PROVE  V1Members(snapshot, log) = {t \in Tenant : ActiveInV1(snapshot, log, t)}
<1>. DEFINE n == Len(log)
            of(p, t) == {i \in 1..p : log[i].tenant = t}
            Tells(p, t) == IF of(p, t) = {} THEN t \in snapshot
                          ELSE log[Max(of(p, t))].kind = "join"
<1>1. PICK g : Replays(g, snapshot, log) /\ V1Members(snapshot, log) = g[n]
  BY MembersReplay
<1>2. n \in Nat /\ DOMAIN log = 1..n /\ \A i \in 1..n : log[i] \in Event
  OBVIOUS
<1>3. \A t : Max(t) = Greatest(t)
  BY DEF Max, Greatest
<1>. DEFINE S == {p \in Nat : p <= n => \A t \in Tenant : t \in g[p] <=> Tells(p, t)}
<1>. HIDE DEF n
<1>4. 0 \in S
  <2>1. \A t : of(0, t) = {}
    OBVIOUS
  <2>. HIDE DEF of
  <2>. QED BY <1>1, <2>1 DEF Replays
<1>5. ASSUME NEW p \in S, p + 1 <= n, NEW t \in Tenant
      PROVE  t \in g[p + 1] <=> Tells(p + 1, t)
  <2>. DEFINE e == log[p + 1]
  <2>1. p \in Nat /\ p + 1 \in 1..n /\ (p + 1) - 1 = p /\ p <= n
    BY <1>2, <1>5
  <2>2. t \in g[p] <=> Tells(p, t)
    BY <2>1
  <2>3. g[p + 1] = AfterEvent(g[p], e) /\ e \in Event
    BY <1>1, <1>2, <2>1 DEF Replays, n
  <2>4. CASE e.tenant = t
    <3>1. p + 1 \in of(p + 1, t) /\ of(p + 1, t) \in SUBSET (1..p + 1)
      BY <2>1, <2>4
    <3>. HIDE DEF of, e
    <3>2. Max(of(p + 1, t)) = p + 1
      BY <1>3, <2>1, <3>1, GreatestIsLast
    <3>3. Tells(p + 1, t) <=> e.kind = "join"
      BY <3>1, <3>2 DEF e
    <3>. QED BY <2>3, <2>4, <3>3 DEF AfterEvent, Event
  <2>5. CASE e.tenant # t
    <3>1. of(p + 1, t) = of(p, t)
      BY <2>1, <2>5
    <3>2. t \in g[p + 1] <=> t \in g[p]
      BY <2>3, <2>5 DEF AfterEvent
    <3>. HIDE DEF of, e
    <3>. QED BY <2>2, <3>1, <3>2
  <2>. QED BY <2>4, <2>5
<1>6. ASSUME NEW p \in S PROVE p + 1 \in S
  <2>. HIDE DEF Tells
  <2>. QED BY <1>5
<1>7. S = Nat
  <2>1. S \in SUBSET Nat
    OBVIOUS
  <2>. HIDE DEF S
  <2>. QED BY <1>4, <1>6, <2>1, NatStep
<1>8. \A t \in Tenant : t \in g[n] <=> Tells(n, t)
  <2>. HIDE DEF Tells
  <2>. QED BY <1>2, <1>7
<1>9. \A t \in Tenant : Tells(n, t) <=> ActiveInV1(snapshot, log, t)
  BY <1>2 DEF ActiveInV1, n
<1>10. g[n] \in SUBSET Tenant
  BY <1>1, <1>2 DEF Replays, n
<1>. HIDE DEF Tells
<1>. QED BY <1>1, <1>8, <1>9, <1>10

----------------------------------------------------------------------------
(* The kinds of jobs.                                                      *)

LEMMA JobKind ==
  ASSUME JobInv
  PROVE  /\ job.kind = None => job = NoJob
         /\ job.kind = "pull" => job \in PullJob
         /\ job.kind = "fetch" => job \in FetchJob
         /\ job.kind = "members" => job \in MembersJob
         /\ job.kind = "listed" => job \in ListedJob
         /\ job.kind \in {"migrate", "migrated"} => job \in MigrateJob
         /\ job.kind \in {None, "pull", "fetch", "members", "listed", "migrate", "migrated"}
<1>1. /\ NoJob.kind = None
      /\ \A j \in PullJob : j.kind = "pull"
      /\ \A j \in FetchJob : j.kind = "fetch"
      /\ \A j \in MembersJob : j.kind = "members"
      /\ \A j \in ListedJob : j.kind = "listed"
      /\ \A j \in MigrateJob : j.kind \in {"migrate", "migrated"}
  BY DEF NoJob, PullJob, FetchJob, MembersJob, ListedJob, MigrateJob
<1>2. None \notin {"pull", "fetch", "members", "listed", "migrate", "migrated"}
  BY HybridAssumption
<1>3. job \in {NoJob} \cup PullJob \cup FetchJob \cup MembersJob \cup ListedJob \cup MigrateJob
  BY DEF JobInv
<1>. HIDE DEF NoJob, PullJob, FetchJob, MembersJob, ListedJob, MigrateJob
<1>. QED BY <1>1, <1>2, <1>3

(* A job of a kind that the invariants say nothing about.                  *)
Plain(j) == j \in {NoJob} \cup PullJob

LEMMA PlainNot ==
  ASSUME NEW j, Plain(j)
  PROVE  j \notin FetchJob /\ j \notin MembersJob /\ j \notin ListedJob /\ j \notin MigrateJob
BY HybridAssumption
   DEF Plain, NoJob, PullJob, FetchJob, MembersJob, ListedJob, MigrateJob

LEMMA KindsApart ==
  /\ \A j \in FetchJob : j \notin MembersJob /\ j \notin ListedJob /\ j \notin MigrateJob
  /\ \A j \in MembersJob : j \notin FetchJob /\ j \notin ListedJob /\ j \notin MigrateJob
  /\ \A j \in ListedJob : j \notin FetchJob /\ j \notin MembersJob /\ j \notin MigrateJob
  /\ \A j \in MigrateJob : j \notin FetchJob /\ j \notin MembersJob /\ j \notin ListedJob
<1>1. /\ \A j \in FetchJob : j.kind = "fetch"
      /\ \A j \in MembersJob : j.kind = "members"
      /\ \A j \in ListedJob : j.kind = "listed"
      /\ \A j \in MigrateJob : j.kind \in {"migrate", "migrated"}
  BY DEF FetchJob, MembersJob, ListedJob, MigrateJob
<1>. QED BY <1>1

LEMMA JobPlain ==
  ASSUME Plain(job') PROVE JobInv'
BY PlainNot DEF JobInv, FetchInv, ListInv, MigrateInv, Plain

----------------------------------------------------------------------------
(* Files.                                                                  *)

LEMMA WrittenIs ==
  ASSUME FilesInv, NEW v \in Version
  PROVE  Written(v) \in Copy /\ Written(v).version = v /\ Written(v).time = now
BY DEF FilesInv, Written, Copy

LEMMA CopyType ==
  ASSUME NEW c \in Copy
  PROVE  c.version \in Version /\ c.version \in Nat /\ c.time \in Nat /\ c # None
BY HybridAssumption DEF Copy

LEMMA FilesStep == FilesInv /\ JobInv /\ [Next]_vars => FilesInv'
<1>. SUFFICES ASSUME FilesInv, JobInv, [Next]_vars PROVE FilesInv'
  OBVIOUS
<1>1. ASSUME UNCHANGED <<now, files>> PROVE FilesInv'
  BY <1>1 DEF files, FilesInv
<1>2. now \in Nat /\ built \in Nat /\ Version \subseteq Nat /\ Second \subseteq Nat
  BY HybridAssumption DEF FilesInv
<1>3. ASSUME Tick PROVE FilesInv'
  <2>1. /\ now' = now + 1 /\ now' \in Second
        /\ UNCHANGED <<built, copy, served, dated>>
    BY <1>3 DEF Tick, files
  <2>2. \A r \in Remote : served[r] # None => served[r].time \in Nat
    BY CopyType DEF FilesInv
  <2>3. \A r \in Remote : served[r] # None => served[r].time <= now'
    BY <1>2, <2>1, <2>2 DEF FilesInv
  <2>. QED BY <2>1, <2>3 DEF FilesInv
<1>4. ASSUME NEW c \in Nat, c = built + 1, c \in Version, built' = c, UNCHANGED <<now, served>>,
             \/ UNCHANGED <<copy, dated>>
             \/ copy' = Written(c) /\ dated' = dated \cup {Written(c)}
      PROVE  FilesInv'
  <2>1. /\ Written(c) \in Copy /\ Written(c).version = c /\ Written(c).time = now
    BY <1>4, WrittenIs
  <2>2. \A r \in Remote : served[r] # None => served[r].version \in Nat
    BY CopyType DEF FilesInv
  <2>3. \A r \in Remote : served'[r] # None =>
          /\ served'[r] \in dated'
          /\ served'[r].version <= built' /\ served'[r].time <= now'
    BY <1>2, <1>4, <2>2 DEF FilesInv
  <2>4. CASE UNCHANGED <<copy, dated>>
    <3>1. copy # None => copy.version \in Nat
      BY CopyType DEF FilesInv
    <3>2. copy # None => copy.version <= built'
      BY <1>2, <1>4, <3>1 DEF FilesInv
    <3>. QED BY <1>4, <2>3, <2>4, <3>2 DEF FilesInv
  <2>5. CASE copy' = Written(c) /\ dated' = dated \cup {Written(c)}
    <3>1. copy'.version <= built' /\ Written(c).time <= copy'.time
      BY <1>2, <1>4, <2>1, <2>5
    <3>. QED BY <1>4, <2>1, <2>3, <2>5, <3>1 DEF FilesInv
  <2>. QED BY <1>4, <2>4, <2>5
<1>5. ASSUME Rebuild PROVE FilesInv'
  <2>1. /\ built + 1 \in Version /\ built' = built + 1
        /\ UNCHANGED <<now, copy, served, dated>>
    BY <1>5 DEF Rebuild
  <2>. QED BY <1>2, <1>4, <2>1
<1>6. ASSUME RebuildHere PROVE FilesInv'
  <2>1. /\ built + 1 \in Version /\ built' = built + 1
        /\ copy' = Written(built + 1) /\ dated' = dated \cup {Written(built + 1)}
        /\ UNCHANGED <<now, served>>
    BY <1>6 DEF RebuildHere
  <2>. QED BY <1>2, <1>4, <2>1
<1>7. ASSUME NEW r \in Remote, Serve(r) PROVE FilesInv'
  <2>1. PICK v \in 1..built :
          /\ served' = [served EXCEPT ![r] = Written(v)]
          /\ dated' = dated \cup {Written(v)}
          /\ UNCHANGED <<now, built, copy>>
    BY <1>7 DEF Serve
  <2>2. Written(v) = [version |-> v, time |-> now] /\ Written(v).version = v /\ Written(v).time = now
    BY DEF Written
  <2>3. v <= built
    BY <1>2
  <2>4. ASSUME v \in Version PROVE FilesInv'
    <3>1. Written(v) \in Copy
      BY <2>4, WrittenIs
    <3>2. \A q \in Remote : served'[q] # None =>
            /\ served'[q] \in dated'
            /\ served'[q].version <= built' /\ served'[q].time <= now'
      BY <1>2, <2>1, <2>2, <2>3 DEF FilesInv
    <3>3. served' \in [Remote -> Copy \cup {None}] /\ dated' \subseteq Copy
      BY <2>1, <3>1 DEF FilesInv
    <3>4. copy' # None => \E d \in dated' : d.version = copy'.version /\ d.time <= copy'.time
      BY <2>1 DEF FilesInv
    <3>. QED BY <2>1, <3>2, <3>3, <3>4 DEF FilesInv
  <2>5. v \in Version
    BY <1>2, HybridAssumption DEF FilesInv
  <2>. QED BY <2>4, <2>5
<1>8. ASSUME Fetch PROVE FilesInv'
  <2>1. /\ job.kind = "fetch" /\ copy' = Written(served[Head(job.rest)].version)
        /\ UNCHANGED <<now, built, served, dated>>
    BY <1>8 DEF Fetch
  <2>2. job \in FetchJob /\ job.rest # <<>> /\ served[Head(job.rest)] # None
    BY <2>1, JobKind DEF JobInv, FetchInv
  <2>. DEFINE c == served[Head(job.rest)]
  <2>3. Head(job.rest) \in Remote
    BY <2>2 DEF FetchJob
  <2>4. /\ c \in Copy /\ c \in dated /\ c.version <= built /\ c.time <= now
    BY <2>2, <2>3 DEF FilesInv
  <2>. HIDE DEF c
  <2>5. c.version \in Version
    BY <2>4, CopyType
  <2>6. copy' \in Copy /\ copy'.version = c.version /\ copy'.time = now
    BY <2>1, <2>5, WrittenIs DEF c
  <2>. QED BY <2>1, <2>4, <2>6 DEF FilesInv
<1>9. CASE UNCHANGED vars
  BY <1>1, <1>9 DEF vars, files
<1>. QED
  <2>1. ASSUME NEW r \in Remote, AddRemote(r) \/ RemoveRemote(r) PROVE FilesInv'
    BY <1>1, <2>1 DEF AddRemote, RemoveRemote
  <2>2. ASSUME NEW t \in Tenant, RevokeElsewhere(t) PROVE FilesInv'
    BY <1>1, <2>2 DEF RevokeElsewhere
  <2>3. ASSUME Pull \/ ListSagas \/ PullFails \/ Pulled PROVE FilesInv'
    BY <1>1, <2>3 DEF Pull, ListSagas, PullFails, Pulled
  <2>4. ASSUME ListLocal \/ ListRemote \/ ListRemoteFails \/ ListSorted \/ Return PROVE FilesInv'
    BY <1>1, <2>4 DEF ListLocal, ListRemote, ListRemoteFails, ListSorted, Return
  <2>5. ASSUME Migrate \/ Readmit \/ Migrated \/ Stop PROVE FilesInv'
    BY <1>1, <2>5 DEF Migrate, Readmit, Migrated, Stop
  <2>. QED BY <1>3, <1>5, <1>6, <1>7, <1>8, <1>9, <2>1, <2>2, <2>3, <2>4, <2>5 DEF Next

----------------------------------------------------------------------------
(* The chain, and migrations.                                              *)

LEMMA HeadTail ==
  ASSUME NEW V, NEW s \in Seq(V), s # <<>>
  PROVE  /\ Head(s) \in V /\ Tail(s) \in Seq(V)
         /\ ToSet(s) = {Head(s)} \cup ToSet(Tail(s))
<1>1. /\ Len(s) \in Nat \ {0} /\ DOMAIN s = 1..Len(s) /\ Head(s) = s[1] /\ Head(s) \in V
      /\ Tail(s) \in Seq(V) /\ Len(Tail(s)) = Len(s) - 1
      /\ DOMAIN Tail(s) = 1..Len(s) - 1
      /\ \A i \in 1..Len(s) - 1 : Tail(s)[i] = s[i + 1]
  OBVIOUS
<1>2. ASSUME NEW x \in ToSet(s) PROVE x \in {Head(s)} \cup ToSet(Tail(s))
  <2>1. PICK i \in 1..Len(s) : s[i] = x
    BY <1>1 DEF ToSet
  <2>2. CASE i = 1
    BY <1>1, <2>1, <2>2
  <2>3. CASE i # 1
    <3>1. i - 1 \in 1..Len(s) - 1 /\ (i - 1) + 1 = i
      BY <1>1, <2>3
    <3>2. Tail(s)[i - 1] = x
      BY <1>1, <2>1, <3>1
    <3>. QED BY <1>1, <3>1, <3>2 DEF ToSet
  <2>. QED BY <2>2, <2>3
<1>3. ASSUME NEW x \in ToSet(Tail(s)) PROVE x \in ToSet(s)
  <2>1. PICK i \in 1..Len(s) - 1 : Tail(s)[i] = x
    BY <1>1 DEF ToSet
  <2>2. i + 1 \in 1..Len(s) /\ s[i + 1] = x
    BY <1>1, <2>1
  <2>. QED BY <1>1, <2>2 DEF ToSet
<1>4. Head(s) \in ToSet(s)
  BY <1>1 DEF ToSet
<1>. QED BY <1>1, <1>2, <1>3, <1>4

(* All members of a set of tenants, in some order.                         *)
LEMMA TenantsInOrder ==
  ASSUME NEW S \in SUBSET Tenant
  PROVE  ById(S, [t \in S |-> t]) \in Seq(S) /\ ToSet(ById(S, [t \in S |-> t])) = S
<1>. DEFINE id == [t \in S |-> t]
            list == ById(S, id)
<1>1. IsFiniteSet(S)
  BY HybridAssumption, FS_Subset
<1>2. id \in [S -> Int] /\ OneToOne(id, S)
  BY HybridAssumption DEF OneToOne
<1>3. Ascends(list, S, id)
  <2>. HIDE DEF id
  <2>. QED BY <1>1, <1>2, ByIdAscends
<1>. HIDE DEF list
<1>4. /\ list \in Seq(S) /\ DOMAIN list = 1..Len(list)
      /\ \A x \in S : \E i \in 1..Len(list) : list[i] = x
  BY <1>3 DEF Ascends
<1>5. ToSet(list) = S
  BY <1>4 DEF ToSet
<1>. QED BY <1>4, <1>5 DEF list

LEMMA LogType == ASSUME NEW log \in BoundedSeq(Event, LogBound) PROVE log \in Seq(Event)
BY HybridAssumption DEF BoundedSeq, SeqOf

(* What a migration starts with.                                           *)
LEMMA MigrateStarts ==
  ASSUME ChainInv, Migrate
  PROVE  /\ job' \in MigrateJob /\ job'.kind = "migrate" /\ job'.gone = {}
         /\ job'.wanted = ToSet(job'.rest) /\ invited' = invited \cup job'.wanted
         /\ dim' # None /\ active' = active /\ dim' \in Dim \cup {None}
<1>1. PICK snapshot \in SUBSET Tenant, log \in BoundedSeq(Event, LogBound) :
        LET members == V1Members(snapshot, log)
            wanted  == {t \in Tenant : ActiveInV1(snapshot, log, t)}
        IN  /\ job' = [kind |-> "migrate", rest |-> ById(members, [t \in members |-> t]),
                       wanted |-> wanted, gone |-> {}]
            /\ invited' = invited \cup wanted
  BY DEF Migrate
<1>. DEFINE wanted == {t \in Tenant : ActiveInV1(snapshot, log, t)}
<1>2. V1Members(snapshot, log) = wanted
  BY LogType, V1MembersExact
<1>3. wanted \in SUBSET Tenant
  OBVIOUS
<1>. HIDE DEF wanted
<1>. DEFINE rest == ById(wanted, [t \in wanted |-> t])
<1>4. rest \in Seq(wanted) /\ ToSet(rest) = wanted
  BY <1>3, TenantsInOrder
<1>5. job' = [kind |-> "migrate", rest |-> rest, wanted |-> wanted, gone |-> {}]
      /\ invited' = invited \cup wanted
  BY <1>1, <1>2 DEF wanted
<1>. HIDE DEF rest
<1>6. rest \in Seq(Tenant)
  BY <1>3, <1>4
<1>7. job' \in MigrateJob
  BY <1>3, <1>5, <1>6 DEF MigrateJob
<1>8. dim' # None /\ active' = active /\ dim' \in Dim \cup {None}
  BY HybridAssumption DEF Migrate, Membership!Found, ChainInv, Membership!TypeOK
<1>. QED BY <1>4, <1>5, <1>7, <1>8

LEMMA ActiveType ==
  ASSUME ChainInv
  PROVE  active \in [Tenant -> Dim \cup {None}] /\ dim \in Dim \cup {None}
BY DEF ChainInv, Membership!TypeOK

LEMMA ChainAside == ASSUME ChainInv, UNCHANGED <<chain, remotes>> PROVE ChainInv'
BY DEF ChainInv, chain, Membership!TypeOK, ActiveHere

LEMMA ChainStep == ChainInv /\ JobInv /\ [Next]_vars => ChainInv'
<1>. SUFFICES ASSUME ChainInv, JobInv, [Next]_vars PROVE ChainInv'
  OBVIOUS
<1>1. active \in [Tenant -> Dim \cup {None}] /\ dim \in Dim \cup {None}
  BY ActiveType
<1>2. ASSUME NEW r \in Remote, AddRemote(r) \/ RemoveRemote(r) PROVE ChainInv'
  <2>1. remotes' \in Seq(Remote) /\ UNCHANGED chain
    <3>1. CASE AddRemote(r)
      BY <3>1 DEF AddRemote, ChainInv
    <3>2. CASE RemoveRemote(r)
      <4>1. /\ remotes \in Seq(Remote) /\ UNCHANGED chain
            /\ \E i \in DOMAIN remotes : remotes' = RemoveAt(remotes, i)
        BY <3>2 DEF RemoveRemote, ChainInv
      <4>2. PICK i \in 1..Len(remotes) : remotes' = RemoveAt(remotes, i)
        BY <4>1
      <4>. DEFINE a == SubSeq(remotes, 1, i - 1)
                  b == SubSeq(remotes, i + 1, Len(remotes))
      <4>3. a \in Seq(Remote) /\ b \in Seq(Remote) /\ remotes' = a \o b
        <5>1. a \in Seq(Remote)
          BY <4>1
        <5>2. b \in Seq(Remote)
          BY <4>1
        <5>. QED BY <4>2, <5>1, <5>2 DEF RemoveAt
      <4>. HIDE DEF a, b
      <4>. QED BY <4>1, <4>3, Joined
    <3>. QED BY <1>2, <3>1, <3>2
  <2>. QED BY <2>1 DEF ChainInv, chain, Membership!TypeOK, ActiveHere
<1>3. ASSUME NEW t \in Tenant, RevokeElsewhere(t) PROVE ChainInv'
  <2>1. active' = [active EXCEPT ![t] = None] /\ UNCHANGED <<dim, invited, remotes>>
    BY <1>3 DEF RevokeElsewhere, Membership!Revoke
  <2>2. \A u \in Tenant : active'[u] # None => active[u] # None
    BY <1>1, <2>1
  <2>3. active' \in [Tenant -> Dim \cup {None}]
    BY <1>1, <2>1
  <2>. QED BY <2>1, <2>2, <2>3 DEF ChainInv, Membership!TypeOK, ActiveHere
<1>4. CASE Migrate
  <2>1. /\ job' \in MigrateJob /\ invited' = invited \cup job'.wanted
        /\ dim' \in Dim \cup {None} /\ active' = active
    BY <1>4, MigrateStarts
  <2>2. job'.wanted \subseteq Tenant
    BY <2>1 DEF MigrateJob
  <2>3. remotes' = remotes
    BY <1>4 DEF Migrate
  <2>. QED BY <2>1, <2>2, <2>3 DEF ChainInv, Membership!TypeOK, ActiveHere
<1>5. CASE Readmit
  <2>. DEFINE t == Head(job.rest)
  <2>1. /\ job.kind = "migrate" /\ job.rest # <<>> /\ dim # None
        /\ active' = [active EXCEPT ![t] = dim] /\ UNCHANGED <<dim, invited, remotes>>
    BY <1>5 DEF Readmit, Membership!Admit
  <2>2. job \in MigrateJob /\ ToSet(job.rest) \subseteq invited
    BY <2>1, JobKind DEF JobInv, MigrateInv
  <2>3. t \in Tenant /\ t \in invited
    <3>1. job.rest \in Seq(Tenant)
      BY <2>2 DEF MigrateJob
    <3>. QED BY <2>1, <2>2, <3>1, HeadTail
  <2>. HIDE DEF t
  <2>4. \A u \in Tenant : active'[u] # None => active[u] # None \/ u = t
    BY <1>1, <2>1
  <2>5. active' \in [Tenant -> Dim \cup {None}]
    BY <1>1, <2>1
  <2>. QED BY <2>1, <2>3, <2>4, <2>5 DEF ChainInv, Membership!TypeOK, ActiveHere
<1>6. CASE UNCHANGED vars
  BY <1>6, ChainAside DEF vars, chain
<1>. QED
  <2>1. ASSUME NEW r \in Remote, Serve(r) PROVE ChainInv'
    BY <2>1, ChainAside DEF Serve
  <2>2. ASSUME Tick \/ Rebuild \/ RebuildHere PROVE ChainInv'
    BY <2>2, ChainAside DEF Tick, Rebuild, RebuildHere
  <2>3. ASSUME Pull \/ ListSagas \/ Fetch \/ PullFails \/ Pulled PROVE ChainInv'
    BY <2>3, ChainAside DEF Pull, ListSagas, Fetch, PullFails, Pulled
  <2>4. ASSUME ListLocal \/ ListRemote \/ ListRemoteFails \/ ListSorted \/ Return PROVE ChainInv'
    BY <2>4, ChainAside DEF ListLocal, ListRemote, ListRemoteFails, ListSorted, Return
  <2>5. ASSUME Migrated \/ Stop PROVE ChainInv'
    BY <2>5, ChainAside DEF Migrated, Stop
  <2>. QED BY <1>2, <1>3, <1>4, <1>5, <1>6, <2>1, <2>2, <2>3, <2>4, <2>5 DEF Next

----------------------------------------------------------------------------
(* Lists.                                                                  *)

(* Each tenant listed is listed with its source.                           *)
LEMMA ListedIs ==
  ASSUME NEW here \in SUBSET Tenant, NEW told \in Seq(Answered)
  PROVE  /\ \A t \in Known(here, told) :
              t \in Tenant /\ Source(here, told, t) \in Remote \cup {Local}
         /\ Listed(here, told) \subseteq Entry
         /\ {m.tenant : m \in Listed(here, told)} = Known(here, told)
         /\ \A m, n \in Listed(here, told) : m.tenant = n.tenant => m = n
<1>1. Len(told) \in Nat /\ DOMAIN told = 1..Len(told) /\ \A i \in 1..Len(told) : told[i] \in Answered
  OBVIOUS
<1>2. ASSUME NEW t \in Known(here, told)
      PROVE  t \in Tenant /\ Source(here, told, t) \in Remote \cup {Local}
  <2>1. t \in Tenant /\ (t \in here \/ Knows(told, t) # {})
    BY DEF Known
  <2>2. CASE t \in here
    BY <2>1, <2>2 DEF Source
  <2>3. CASE t \notin here
    <3>. DEFINE Heard == Knows(told, t)
    <3>1. Heard \in SUBSET Nat /\ Heard # {} /\ Heard \subseteq 1..Len(told)
      BY <1>1, <2>1, <2>3 DEF Knows
    <3>. HIDE DEF Heard
    <3>2. PICK p \in Heard : \A j \in Heard : p <= j
      BY <3>1, NatLeast
    <3>3. Min(Heard) \in Heard
      BY <3>2 DEF Min
    <3>4. told[Min(Heard)].from \in Remote
      BY <1>1, <3>1, <3>3 DEF Answered
    <3>. QED BY <2>1, <2>3, <3>4 DEF Source, Heard
  <2>. QED BY <2>2, <2>3
<1>3. \A t \in Tenant : \A f : Record(t, f).tenant = t /\ (f \in Remote \cup {Local} => Record(t, f) \in Entry)
  BY DEF Record, Entry
<1>. QED BY <1>2, <1>3 DEF Listed

(* An answer heard lists those that nobody had listed before.              *)
LEMMA AnswerListed ==
  ASSUME NEW here \in SUBSET Tenant, NEW told \in Seq(Answered), NEW r \in Remote,
         NEW ids \in SUBSET Tenant
  PROVE  LET more == Append(told, [from |-> r, ids |-> ids])
         IN  /\ more \in Seq(Answered)
             /\ Merged(Listed(here, told), r, ids) = Listed(here, more)
<1>. DEFINE answer == [from |-> r, ids |-> ids]
            more == Append(told, answer)
            n == Len(told)
            old == Known(here, told)
<1>1. answer \in Answered /\ answer.from = r /\ answer.ids = ids
  BY DEF Answered
<1>. HIDE DEF answer
<1>2. /\ n \in Nat /\ DOMAIN told = 1..n /\ more \in Seq(Answered)
      /\ DOMAIN more = 1..n + 1 /\ more[n + 1] = answer
      /\ \A i \in 1..n : more[i] = told[i]
  BY <1>1
<1>. HIDE DEF n, more
<1>3. \A t : /\ Knows(told, t) \subseteq 1..n
             /\ Knows(more, t) = Knows(told, t) \cup (IF t \in ids THEN {n + 1} ELSE {})
  <2>. TAKE t
  <2>1. Knows(told, t) \subseteq 1..n
    BY <1>2 DEF Knows
  <2>2. ASSUME NEW i \in 1..n + 1
        PROVE  i \in Knows(more, t) <=> i \in Knows(told, t) \/ (t \in ids /\ i = n + 1)
    <3>1. CASE i \in 1..n
      BY <1>2, <3>1 DEF Knows
    <3>2. CASE i = n + 1
      BY <1>1, <1>2, <3>2 DEF Knows
    <3>. QED BY <1>2, <3>1, <3>2
  <2>3. Knows(more, t) \subseteq 1..n + 1 /\ n + 1 \in 1..n + 1 /\ 1..n \subseteq 1..n + 1
    BY <1>2 DEF Knows
  <2>. QED BY <2>1, <2>2, <2>3
<1>4. Known(here, more) = old \cup ids
  BY <1>3 DEF Known
<1>5. ASSUME NEW t \in old PROVE Source(here, more, t) = Source(here, told, t)
  <2>1. CASE t \in here
    BY <2>1 DEF Source
  <2>2. CASE t \notin here
    <3>. DEFINE Heard == Knows(told, t)
                L == Knows(more, t)
    <3>1. Heard # {} /\ Heard \subseteq 1..n /\ Heard \subseteq L /\ L \subseteq Heard \cup {n + 1}
      BY <1>3, <2>2 DEF Known
    <3>. HIDE DEF Heard, L
    <3>2. PICK p \in Heard : \A j \in Heard : p <= j
      <4>1. Heard \in SUBSET Nat
        BY <3>1
      <4>. QED BY <3>1, <4>1, NatLeast
    <3>3. Min(Heard) = p
      <4>1. ASSUME NEW x \in Heard, \A j \in Heard : x <= j PROVE x = p
        <5>1. x <= p /\ p <= x /\ x \in Int /\ p \in Int
          BY <1>2, <3>1, <3>2, <4>1
        <5>. QED BY <5>1
      <4>. QED BY <3>2, <4>1 DEF Min
    <3>4. \A j \in L : p <= j
      BY <1>2, <3>1, <3>2
    <3>5. Min(L) = p
      <4>1. ASSUME NEW x \in L, \A j \in L : x <= j PROVE x = p
        <5>1. x <= p /\ p <= x /\ x \in Int /\ p \in Int
          BY <1>2, <3>1, <3>2, <3>4, <4>1
        <5>. QED BY <5>1
      <4>. QED BY <3>1, <3>4, <4>1 DEF Min
    <3>6. more[p] = told[p]
      BY <1>2, <3>1
    <3>. QED BY <2>2, <3>3, <3>5, <3>6 DEF Source, Heard, L
  <2>. QED BY <2>1, <2>2
<1>6. ASSUME NEW t \in ids \ old PROVE Source(here, more, t) = r
  <2>1. t \notin here /\ Knows(more, t) = {n + 1}
    BY <1>3 DEF Known
  <2>2. Min({n + 1}) = n + 1
    BY <1>2 DEF Min
  <2>. QED BY <1>1, <1>2, <2>1, <2>2 DEF Source
<1>7. Merged(Listed(here, told), r, ids) = Listed(here, told) \cup {Record(t, r) : t \in ids \ old}
  BY ListedIs DEF Merged
<1>8. Listed(here, more) = Listed(here, told) \cup {Record(t, r) : t \in ids \ old}
  <2>1. /\ \A t \in old : Record(t, Source(here, more, t)) = Record(t, Source(here, told, t))
        /\ \A t \in ids \ old : Record(t, Source(here, more, t)) = Record(t, r)
    BY <1>5, <1>6
  <2>2. old \cup ids = old \cup (ids \ old)
    OBVIOUS
  <2>. HIDE DEF old
  <2>3. {Record(t, Source(here, more, t)) : t \in old \cup (ids \ old)}
          = {Record(t, Source(here, told, t)) : t \in old} \cup {Record(t, r) : t \in ids \ old}
    BY <2>1
  <2>. QED BY <1>4, <2>2, <2>3 DEF Listed, old
<1>. QED BY <1>2, <1>7, <1>8 DEF answer, more

(* Nobody has answered yet.                                                *)
LEMMA NobodyTold ==
  ASSUME NEW here \in SUBSET Tenant
  PROVE  Listed(here, <<>>) = {Record(t, Local) : t \in here}
<1>1. \A t : Knows(<<>>, t) = {}
  BY DEF Knows
<1>2. Known(here, <<>>) = here
  BY <1>1 DEF Known
<1>3. \A t \in here : Source(here, <<>>, t) = Local
  BY DEF Source
<1>. QED BY <1>2, <1>3 DEF Listed

(* The list is in order.                                                   *)
LEMMA ListedInOrder ==
  ASSUME NEW here \in SUBSET Tenant, NEW told \in Seq(Answered), NEW all,
         all = Listed(here, told)
  PROVE  LET list == ById(all, [m \in all |-> m.tenant])
         IN  /\ list \in Seq(Entry) /\ ToSet(list) = all
             /\ \A i, j \in 1..Len(list) : i < j => list[i].tenant < list[j].tenant
<1>. DEFINE id == [m \in all |-> m.tenant]
            list == ById(all, id)
            Those == Known(here, told)
<1>1. /\ all \subseteq Entry /\ \A m, n \in all : m.tenant = n.tenant => m = n
      /\ Those \subseteq Tenant /\ {m.tenant : m \in all} = Those
  BY ListedIs
<1>2. id \in [all -> Int] /\ OneToOne(id, all)
  BY <1>1, HybridAssumption DEF OneToOne
<1>3. IsFiniteSet(all)
  <2>1. IsFiniteSet(Those)
    BY <1>1, HybridAssumption, FS_Subset
  <2>2. id \in [all -> Those]
    BY <1>1
  <2>. HIDE DEF id, Those
  <2>. QED BY <1>2, <2>1, <2>2, CountAtMost
<1>4. Ascends(list, all, id)
  <2>. HIDE DEF id
  <2>. QED BY <1>2, <1>3, ByIdAscends
<1>. HIDE DEF list
<1>5. /\ list \in Seq(all) /\ DOMAIN list = 1..Len(list)
      /\ \A i \in 1..Len(list) : list[i] \in all
      /\ \A x \in all : \E i \in 1..Len(list) : list[i] = x
      /\ \A i, j \in 1..Len(list) : i < j => id[list[i]] < id[list[j]]
  <2>. HIDE DEF id
  <2>1. list \in Seq(all)
    BY <1>4 DEF Ascends
  <2>2. DOMAIN list = 1..Len(list) /\ \A i \in 1..Len(list) : list[i] \in all
    BY <2>1
  <2>. QED BY <1>4, <2>1, <2>2 DEF Ascends
<1>6. list \in Seq(Entry)
  BY <1>1, <1>5
<1>7. ToSet(list) = all
  BY <1>5 DEF ToSet
<1>8. \A i, j \in 1..Len(list) : i < j => list[i].tenant < list[j].tenant
  BY <1>5
<1>. QED BY <1>6, <1>7, <1>8 DEF list, id

----------------------------------------------------------------------------
(* Jobs.                                                                   *)

(* A job that goes on while others act.                                    *)
LEMMA JobAside ==
  ASSUME JobInv, UNCHANGED <<job, dim, active, invited>>,
         \A r \in Remote : served[r] # None =>
           served'[r] # None /\ served'[r].time >= served[r].time /\ served'[r].time \in Int,
         \A r \in Remote : served[r] # None => served[r].time \in Int,
         \A c \in Copy : c.time \in Int
  PROVE  JobInv'
<1>1. FetchInv'
  <2>. SUFFICES ASSUME job \in FetchJob
                PROVE  /\ job.rest # <<>> /\ served'[Head(job.rest)] # None
                       /\ job.seen # None => job.seen.time < served'[Head(job.rest)].time
    BY DEF FetchInv
  <2>. DEFINE r == Head(job.rest)
  <2>1. /\ job.rest # <<>> /\ served[r] # None
        /\ job.seen # None => job.seen.time < served[r].time
    BY DEF JobInv, FetchInv
  <2>2. r \in Remote /\ job.seen \in Copy \cup {None}
    BY <2>1 DEF FetchJob
  <2>. HIDE DEF r
  <2>3. /\ served'[r] # None /\ served'[r].time >= served[r].time
        /\ served'[r].time \in Int /\ served[r].time \in Int
    BY <2>1, <2>2
  <2>4. job.seen # None => job.seen.time < served'[r].time
    BY <2>1, <2>2, <2>3
  <2>. QED BY <2>1, <2>3, <2>4 DEF r
<1>2. ListInv'
  BY DEF JobInv, ListInv
<1>3. MigrateInv'
  BY DEF JobInv, MigrateInv, ActiveHere
<1>. QED BY <1>1, <1>2, <1>3 DEF JobInv

LEMMA JobStep == Inv /\ [Next]_vars => JobInv'
<1>. SUFFICES ASSUME Inv, [Next]_vars PROVE JobInv'
  OBVIOUS
<1>. USE DEF Inv
<1>1. /\ \A r \in Remote : served[r] # None => served[r].time \in Int /\ served[r].time <= now
      /\ \A c \in Copy : c.time \in Int
      /\ now \in Int
      /\ active \in [Tenant -> Dim \cup {None}]
  BY CopyType, HybridAssumption, ActiveType DEF FilesInv
<1>2. ASSUME UNCHANGED <<job, dim, active, invited, served>> PROVE JobInv'
  <2>1. \A r \in Remote : served[r] # None => served[r].time >= served[r].time
    BY <1>1
  <2>. QED BY <1>1, <1>2, <2>1, JobAside
<1>3. ASSUME NEW r \in Remote, Serve(r) PROVE JobInv'
  <2>1. PICK v \in 1..built : served' = [served EXCEPT ![r] = Written(v)]
    BY <1>3 DEF Serve
  <2>2. Written(v) = [version |-> v, time |-> now] /\ Written(v).time = now
    BY DEF Written
  <2>3. Written(v) # None
    <3>1. v \in Version /\ now \in Second
      BY HybridAssumption DEF FilesInv
    <3>. QED BY <2>2, <3>1, HybridAssumption
  <2>4. \A q \in Remote : served[q] # None =>
          served'[q] # None /\ served'[q].time >= served[q].time /\ served'[q].time \in Int
    <3>. TAKE q \in Remote
    <3>1. CASE q = r
      <4>1. served'[q] = Written(v)
        BY <2>1, <3>1 DEF FilesInv
      <4>. QED BY <1>1, <2>2, <2>3, <4>1
    <3>2. CASE q # r
      <4>1. served'[q] = served[q]
        BY <2>1, <3>2 DEF FilesInv
      <4>. QED BY <1>1, <4>1
    <3>. QED BY <3>1, <3>2
  <2>5. UNCHANGED <<job, dim, active, invited>>
    BY <1>3 DEF Serve, chain
  <2>. QED BY <1>1, <2>4, <2>5, JobAside
<1>4. ASSUME NEW t \in Tenant, RevokeElsewhere(t) PROVE JobInv'
  <2>1. /\ active' = [active EXCEPT ![t] = None] /\ UNCHANGED <<dim, invited, served>>
        /\ job' = IF job.kind \in {"migrate", "migrated"}
                  THEN [job EXCEPT !.gone = @ \cup {t}] ELSE job
    BY <1>4 DEF RevokeElsewhere, Membership!Revoke, files
  <2>2. CASE job.kind \in {"migrate", "migrated"}
    <3>1. job \in MigrateJob /\ job' = [job EXCEPT !.gone = @ \cup {t}]
      BY <2>1, <2>2, JobKind
    <3>2. /\ job' \in MigrateJob /\ job'.kind = job.kind /\ job'.rest = job.rest
          /\ job'.wanted = job.wanted /\ job'.gone = job.gone \cup {t}
      BY <3>1 DEF MigrateJob
    <3>3. \A u \in Tenant : active[u] # None => active'[u] # None \/ u = t
      BY <1>1, <2>1
    <3>4. MigrateInv'
      BY <2>1, <3>1, <3>2, <3>3 DEF JobInv, MigrateInv, ActiveHere
    <3>. QED BY <3>2, <3>4, KindsApart DEF JobInv, FetchInv, ListInv
  <2>3. CASE job.kind \notin {"migrate", "migrated"}
    <3>1. job' = job /\ job \notin MigrateJob
      BY <2>1, <2>3 DEF MigrateJob
    <3>2. ListInv' /\ FetchInv'
      BY <2>1, <3>1 DEF JobInv, ListInv, FetchInv
    <3>. QED BY <3>1, <3>2 DEF JobInv, MigrateInv
  <2>. QED BY <2>2, <2>3
<1>5. ASSUME Pull \/ Pulled \/ Return \/ Stop PROVE JobInv'
  <2>1. Plain(job')
    BY <1>5 DEF Pull, Pulled, Return, Stop, Plain, PullJob, ChainInv
  <2>. QED BY <2>1, JobPlain
<1>6. ASSUME ListSagas PROVE JobInv'
  <2>1. /\ job.kind = "pull" /\ job.rest # <<>> /\ UNCHANGED served
        /\ job' = IF ShouldFetch(served[Head(job.rest)])
                  THEN [kind |-> "fetch", rest |-> job.rest, seen |-> copy]
                  ELSE [job EXCEPT !.rest = Tail(@)]
    BY <1>6 DEF ListSagas, files
  <2>2. job \in PullJob
    BY <2>1, JobKind
  <2>3. job.rest \in Seq(Remote)
    BY <2>2 DEF PullJob
  <2>4. Head(job.rest) \in Remote /\ Tail(job.rest) \in Seq(Remote)
    BY <2>1, <2>3, HeadTail
  <2>5. CASE ShouldFetch(served[Head(job.rest)])
    <3>1. job' = [kind |-> "fetch", rest |-> job.rest, seen |-> copy]
      BY <2>1, <2>5
    <3>2. /\ job' \in FetchJob /\ job'.rest = job.rest /\ job'.seen = copy
      BY <2>3, <3>1 DEF FetchJob, FilesInv
    <3>3. FetchInv'
      BY <2>1, <2>5, <3>2 DEF FetchInv, ShouldFetch
    <3>. QED BY <3>2, <3>3, KindsApart DEF JobInv, ListInv, MigrateInv
  <2>6. CASE ~ShouldFetch(served[Head(job.rest)])
    <3>1. job' \in PullJob
      BY <2>1, <2>2, <2>4, <2>6 DEF PullJob
    <3>. QED BY <3>1, JobPlain DEF Plain
  <2>. QED BY <2>5, <2>6
<1>7. ASSUME Fetch \/ PullFails PROVE JobInv'
  <2>1. /\ job.kind \in {"pull", "fetch"}
        /\ job' = [kind |-> "pull", rest |-> Tail(job.rest)]
    BY <1>7 DEF Fetch, PullFails
  <2>2. job.rest \in Seq(Remote) /\ job.rest # <<>>
    <3>1. CASE job.kind = "fetch"
      BY <3>1, JobKind DEF JobInv, FetchInv, FetchJob
    <3>2. CASE job.kind = "pull"
      BY <1>7, <3>2, JobKind DEF PullJob, Fetch, PullFails
    <3>. QED BY <2>1, <3>1, <3>2
  <2>3. Tail(job.rest) \in Seq(Remote)
    BY <2>2, HeadTail
  <2>4. job' \in PullJob
    BY <2>1, <2>3 DEF PullJob
  <2>. QED BY <2>4, JobPlain DEF Plain
<1>8. ASSUME ListLocal PROVE JobInv'
  <2>1. job' = [kind |-> "members", rest |-> remotes, here |-> ActiveHere,
                all |-> {Record(t, Local) : t \in ActiveHere}, told |-> <<>>]
    BY <1>8 DEF ListLocal
  <2>2. ActiveHere \in SUBSET Tenant /\ <<>> \in Seq(Answered)
    BY DEF ActiveHere
  <2>3. {Record(t, Local) : t \in ActiveHere} = Listed(ActiveHere, <<>>)
    BY <2>2, NobodyTold
  <2>4. Listed(ActiveHere, <<>>) \subseteq Entry
    BY <2>2, ListedIs
  <2>. DEFINE all == {Record(t, Local) : t \in ActiveHere}
              here == ActiveHere
  <2>. HIDE DEF all, here
  <2>5. job' = [kind |-> "members", rest |-> remotes, here |-> here, all |-> all, told |-> <<>>]
    BY <2>1 DEF all, here
  <2>6. remotes \in Seq(Remote) /\ here \in SUBSET Tenant /\ all \in SUBSET Entry
    BY <2>2, <2>3, <2>4 DEF ChainInv, all, here
  <2>7. /\ job' \in MembersJob
        /\ job'.all = all /\ job'.here = here /\ job'.told = <<>>
    BY <2>2, <2>5, <2>6 DEF MembersJob
  <2>8. job'.all = Listed(job'.here, job'.told)
    BY <2>3, <2>7 DEF all, here
  <2>. QED BY <2>7, <2>8, KindsApart DEF JobInv, FetchInv, ListInv, MigrateInv
<1>9. ASSUME job.kind = "members", job.rest # <<>>, NEW all, NEW told,
             job' = [job EXCEPT !.rest = Tail(@), !.all = all, !.told = told],
             told \in Seq(Answered), all = Listed(job.here, told)
      PROVE  JobInv'
  <2>1. job \in MembersJob
    BY <1>9, JobKind
  <2>2. job.rest \in Seq(Remote) /\ job.here \in SUBSET Tenant
    BY <2>1 DEF MembersJob
  <2>3. Tail(job.rest) \in Seq(Remote)
    BY <1>9, <2>2, HeadTail
  <2>4. all \in SUBSET Entry
    BY <1>9, <2>2, ListedIs
  <2>5. /\ job' \in MembersJob
        /\ job'.all = all /\ job'.here = job.here /\ job'.told = told
    BY <1>9, <2>1, <2>3, <2>4 DEF MembersJob
  <2>. QED BY <1>9, <2>5, KindsApart DEF JobInv, FetchInv, ListInv, MigrateInv
<1>10. ASSUME ListRemote PROVE JobInv'
  <2>1. PICK ids \in SUBSET Tenant :
          job' = [job EXCEPT !.rest = Tail(@),
                             !.all  = Merged(@, Head(job.rest), ids),
                             !.told = Append(@, [from |-> Head(job.rest), ids |-> ids])]
    BY <1>10 DEF ListRemote, Answer
  <2>2. job.kind = "members" /\ job.rest # <<>> /\ job \in MembersJob
    BY <1>10, JobKind DEF ListRemote
  <2>3. /\ job.rest \in Seq(Remote) /\ job.here \in SUBSET Tenant /\ job.told \in Seq(Answered)
        /\ job.all = Listed(job.here, job.told)
    BY <2>2 DEF MembersJob, JobInv, ListInv
  <2>. DEFINE told == Append(job.told, [from |-> Head(job.rest), ids |-> ids])
              all == Merged(job.all, Head(job.rest), ids)
  <2>4. Head(job.rest) \in Remote
    BY <2>2, <2>3, HeadTail
  <2>5. told \in Seq(Answered) /\ all = Listed(job.here, told)
    <3>. DEFINE r == Head(job.rest)
                here == job.here
                before == job.told
    <3>1. r \in Remote /\ here \in SUBSET Tenant /\ before \in Seq(Answered)
      BY <2>3, <2>4
    <3>. HIDE DEF r, here, before
    <3>2. /\ Append(before, [from |-> r, ids |-> ids]) \in Seq(Answered)
          /\ Merged(Listed(here, before), r, ids)
               = Listed(here, Append(before, [from |-> r, ids |-> ids]))
      BY <3>1, AnswerListed
    <3>. QED BY <2>3, <3>2 DEF r, here, before
  <2>6. job' = [job EXCEPT !.rest = Tail(@), !.all = all, !.told = told]
    BY <2>1
  <2>. HIDE DEF told, all
  <2>. QED BY <1>9, <2>2, <2>5, <2>6
<1>11. ASSUME ListRemoteFails PROVE JobInv'
  <2>1. /\ job.kind = "members" /\ job.rest # <<>> /\ job \in MembersJob
        /\ job' = [job EXCEPT !.rest = Tail(@)]
    BY <1>11, JobKind DEF ListRemoteFails
  <2>2. job.told \in Seq(Answered) /\ job.all = Listed(job.here, job.told)
    BY <2>1 DEF MembersJob, JobInv, ListInv
  <2>3. job' = [job EXCEPT !.rest = Tail(@), !.all = job.all, !.told = job.told]
    BY <2>1 DEF MembersJob
  <2>. QED BY <1>9, <2>1, <2>2, <2>3
<1>12. ASSUME ListSorted PROVE JobInv'
  <2>1. /\ job.kind = "members" /\ job \in MembersJob
        /\ job' = [kind |-> "listed", here |-> job.here, told |-> job.told,
                   list |-> ById(job.all, [m \in job.all |-> m.tenant])]
    BY <1>12, JobKind DEF ListSorted
  <2>2. /\ job.here \in SUBSET Tenant /\ job.told \in Seq(Answered)
        /\ job.all = Listed(job.here, job.told)
    BY <2>1 DEF MembersJob, JobInv, ListInv
  <2>. DEFINE list == ById(job.all, [m \in job.all |-> m.tenant])
  <2>3. /\ list \in Seq(Entry) /\ ToSet(list) = job.all
        /\ \A i, j \in 1..Len(list) : i < j => list[i].tenant < list[j].tenant
    BY <2>2, ListedInOrder
  <2>. HIDE DEF list
  <2>4. job' = [kind |-> "listed", here |-> job.here, told |-> job.told, list |-> list]
    BY <2>1 DEF list
  <2>5. /\ job' \in ListedJob
        /\ job'.here = job.here /\ job'.told = job.told /\ job'.list = list
    BY <2>2, <2>3, <2>4 DEF ListedJob
  <2>6. ListInv'
    BY <2>2, <2>3, <2>5, KindsApart DEF ListInv
  <2>. QED BY <2>5, <2>6, KindsApart DEF JobInv, FetchInv, MigrateInv
<1>13. ASSUME Migrate PROVE JobInv'
  <2>1. /\ job' \in MigrateJob /\ job'.kind = "migrate"
        /\ job'.wanted = ToSet(job'.rest) /\ invited' = invited \cup job'.wanted
        /\ dim' # None
    BY <1>13, MigrateStarts
  <2>2. MigrateInv'
    BY <2>1 DEF MigrateInv
  <2>. QED BY <2>1, <2>2, KindsApart DEF JobInv, FetchInv, ListInv
<1>14. ASSUME Readmit PROVE JobInv'
  <2>. DEFINE t == Head(job.rest)
  <2>1. /\ job.kind = "migrate" /\ job.rest # <<>> /\ dim # None
        /\ active' = [active EXCEPT ![t] = dim] /\ UNCHANGED <<dim, invited>>
        /\ job' = [job EXCEPT !.rest = Tail(@), !.gone = @ \ {t}]
    BY <1>14 DEF Readmit, Membership!Admit
  <2>2. /\ job \in MigrateJob /\ ToSet(job.rest) \subseteq invited
        /\ job.wanted \subseteq ActiveHere \cup job.gone \cup ToSet(job.rest)
    BY <2>1, JobKind DEF JobInv, MigrateInv
  <2>3. job.rest \in Seq(Tenant)
    BY <2>2 DEF MigrateJob
  <2>4. /\ t \in Tenant /\ Tail(job.rest) \in Seq(Tenant)
        /\ ToSet(job.rest) = {t} \cup ToSet(Tail(job.rest))
    BY <2>1, <2>3, HeadTail
  <2>. HIDE DEF t
  <2>5. /\ job' \in MigrateJob /\ job'.kind = "migrate" /\ job'.rest = Tail(job.rest)
        /\ job'.wanted = job.wanted /\ job'.gone = job.gone \ {t}
    BY <2>1, <2>2, <2>4 DEF MigrateJob
  <2>6. ActiveHere \cup {t} \subseteq ActiveHere'
    BY <1>1, <2>1, <2>4 DEF ActiveHere
  <2>7. MigrateInv'
    BY <2>1, <2>2, <2>4, <2>5, <2>6 DEF MigrateInv
  <2>. QED BY <2>5, <2>7, KindsApart DEF JobInv, FetchInv, ListInv
<1>15. ASSUME Migrated PROVE JobInv'
  <2>1. /\ job.kind = "migrate" /\ job.rest = <<>> /\ job' = [job EXCEPT !.kind = "migrated"]
        /\ UNCHANGED <<dim, active, invited>>
    BY <1>15 DEF Migrated, chain
  <2>2. job \in MigrateJob
    BY <2>1, JobKind
  <2>3. /\ job' \in MigrateJob /\ job'.rest = job.rest
        /\ job'.wanted = job.wanted /\ job'.gone = job.gone
    BY <2>1, <2>2 DEF MigrateJob
  <2>4. MigrateInv'
    BY <2>1, <2>2, <2>3 DEF JobInv, MigrateInv, ActiveHere
  <2>. QED BY <2>3, <2>4, KindsApart DEF JobInv, FetchInv, ListInv
<1>16. ASSUME NEW r \in Remote, AddRemote(r) \/ RemoveRemote(r) PROVE JobInv'
  BY <1>2, <1>16 DEF AddRemote, RemoveRemote, chain, files
<1>17. ASSUME Tick \/ Rebuild \/ RebuildHere \/ UNCHANGED vars PROVE JobInv'
  BY <1>2, <1>17 DEF Tick, Rebuild, RebuildHere, chain, files, vars
<1>. QED BY <1>3, <1>4, <1>5, <1>6, <1>7, <1>8, <1>10, <1>11, <1>12, <1>13, <1>14, <1>15, <1>16,
            <1>17 DEF Next

----------------------------------------------------------------------------
(* The theorems.                                                           *)

LEMMA InvInit == Init => Inv
<1>. SUFFICES ASSUME Init PROVE Inv
  OBVIOUS
<1>1. ChainInv
  BY DEF Init, ChainInv, Membership!Init, Membership!TypeOK, ActiveHere
<1>2. FilesInv
  BY HybridAssumption DEF Init, FilesInv
<1>3. Plain(job)
  BY DEF Init, Plain
<1>4. JobInv
  BY <1>3, PlainNot DEF JobInv, FetchInv, ListInv, MigrateInv, Plain
<1>. QED BY <1>1, <1>2, <1>4 DEF Inv

LEMMA InvStep == Inv /\ [Next]_vars => Inv'
BY FilesStep, ChainStep, JobStep DEF Inv

(* The invariant the rest follows from.                                    *)
THEOREM HybridInvariant == Spec => []Inv
BY InvInit, InvStep, PTL DEF Spec

(* What is kept and what goes on are of the types the model gives them.    *)
THEOREM HybridTypeCorrect == Spec => []TypeOK
<1>1. Inv => TypeOK
  <2>. SUFFICES ASSUME Inv PROVE TypeOK
    OBVIOUS
  <2>1. job.kind \in {None, "pull", "fetch", "members", "listed", "migrate", "migrated"}
    BY JobKind DEF Inv
  <2>. QED BY <2>1 DEF Inv, ChainInv, FilesInv, TypeOK
<1>. QED BY <1>1, HybridInvariant, PTL

(* members lists each tenant once, in order, and with the right record,    *)
(* whichever remotes answer, and whatever.                                 *)
THEOREM ListsAreHonest == Spec => []ListHonest
<1>1. Inv => ListHonest
  <2>. SUFFICES ASSUME Inv, job.kind = "listed" PROVE ListHonest
    BY DEF ListHonest
  <2>1. job \in ListedJob
    BY JobKind DEF Inv
  <2>2. /\ ToSet(job.list) = Listed(job.here, job.told)
        /\ \A i, j \in 1..Len(job.list) : i < j => job.list[i].tenant < job.list[j].tenant
        /\ DOMAIN job.list = 1..Len(job.list)
    BY <2>1 DEF Inv, JobInv, ListInv, ListedJob
  <2>. QED BY <2>2 DEF ListHonest, Listed, Known, Source, Knows
<1>. QED BY <1>1, HybridInvariant, PTL

(* A migration that ends has brought in all active members of version 1,   *)
(* and none brings in anyone else.                                         *)
THEOREM MigrationsAreExact == Spec => []MigrationExact
<1>1. Inv => MigrationExact
  <2>. SUFFICES ASSUME Inv PROVE MigrationExact
    OBVIOUS
  <2>1. ASSUME job.kind = "migrated" PROVE job.wanted \subseteq ActiveHere \cup job.gone
    <3>1. job \in MigrateJob
      BY <2>1, JobKind DEF Inv
    <3>2. /\ job.wanted \subseteq ActiveHere \cup job.gone \cup ToSet(job.rest)
          /\ job.rest = <<>>
      BY <2>1, <3>1 DEF Inv, JobInv, MigrateInv
    <3>. QED BY <3>2 DEF ToSet
  <2>. QED BY <2>1 DEF MigrationExact, Inv, ChainInv
<1>. QED BY <1>1, HybridInvariant, PTL

(* A pull never replaces a newer saga by an older one, as long as files    *)
(* are dated in the order of their builds.                                 *)
THEOREM PullsOnlyForward == Spec => PullsForward
<1>. DEFINE Forward == copy # None =>
                         \/ copy'.version >= copy.version
                         \/ ~InOrder
                         \/ job.kind = "fetch" /\ job.seen # copy
<1>1. Inv /\ [Next]_vars => [Forward]_copy
  <2>. SUFFICES ASSUME Inv, [Next]_vars, copy' # copy, copy # None, InOrder,
                       job.kind = "fetch" => job.seen = copy
                PROVE  copy'.version >= copy.version
    OBVIOUS
  <2>1. copy \in Copy /\ copy.version <= built /\ copy.version \in Nat /\ built \in Nat
    BY CopyType, HybridAssumption DEF Inv, FilesInv
  <2>2. ASSUME RebuildHere PROVE copy'.version >= copy.version
    <3>1. copy'.version = built + 1
      BY <2>2 DEF RebuildHere, Written
    <3>. QED BY <2>1, <3>1
  <2>3. ASSUME Fetch PROVE copy'.version >= copy.version
    <3>. DEFINE c == served[Head(job.rest)]
    <3>1. /\ job \in FetchJob /\ job.seen = copy /\ copy' = Written(c.version)
      BY <2>3, JobKind DEF Fetch, Inv
    <3>2. job.rest # <<>> /\ c # None /\ copy.time < c.time
      BY <3>1 DEF Inv, JobInv, FetchInv
    <3>3. Head(job.rest) \in Remote
      BY <3>1, <3>2 DEF FetchJob
    <3>4. c \in dated /\ c \in Copy
      BY <3>2, <3>3 DEF Inv, FilesInv
    <3>. HIDE DEF c
    <3>5. PICK d \in dated : d.version = copy.version /\ d.time <= copy.time
      BY DEF Inv, FilesInv
    <3>6. d \in Copy
      BY DEF Inv, FilesInv
    <3>7. /\ d.time \in Nat /\ c.time \in Nat /\ copy.time \in Nat
          /\ c.version \in Nat /\ d.version \in Nat
      BY <2>1, <3>4, <3>6, CopyType
    <3>8. ~(c.version < d.version)
      BY <3>2, <3>4, <3>5, <3>7 DEF InOrder
    <3>9. copy'.version = c.version
      BY <3>1 DEF Written
    <3>. QED BY <3>5, <3>7, <3>8, <3>9
  <2>4. RebuildHere \/ Fetch
    BY DEF Next, vars, files, AddRemote, RemoveRemote, Serve, RevokeElsewhere, Tick, Rebuild,
           Pull, ListSagas, PullFails, Pulled, ListLocal, ListRemote, ListRemoteFails,
           ListSorted, Return, Migrate, Readmit, Migrated, Stop
  <2>. QED BY <2>2, <2>3, <2>4
<1>. QED BY <1>1, HybridInvariant, PTL DEF Spec, PullsForward

----------------------------------------------------------------------------
(* Sums over a set of positions.                                           *)

(* The items at the positions of S; the others count nothing.              *)
Counted(s, S) == [i \in DOMAIN s |-> IF i \in S THEN s[i] ELSE 0]

Adds(g, s, S) ==
  \A T \in SUBSET S :
    g[T] = IF T = {} THEN 0
           ELSE s[CHOOSE i \in T : TRUE] + g[T \ {CHOOSE i \in T : TRUE}]

LEMMA CountedType ==
  ASSUME NEW s \in Seq(Int), NEW S
  PROVE  /\ Counted(s, S) \in Seq(Int) /\ Len(Counted(s, S)) = Len(s)
         /\ \A i \in 1..Len(s) : Counted(s, S)[i] = IF i \in S THEN s[i] ELSE 0
BY DEF Counted

LEMMA CountedWithout ==
  ASSUME NEW s \in Seq(Int), NEW S \in SUBSET (1..Len(s)), NEW i \in S
  PROVE  Total(Counted(s, S)) = s[i] + Total(Counted(s, S \ {i}))
<1>. DEFINE r == Counted(s, S)
            q == Counted(s, S \ {i})
<1>1. /\ r \in Seq(Int) /\ Len(r) = Len(s)
      /\ \A j \in 1..Len(s) : r[j] = IF j \in S THEN s[j] ELSE 0
  BY CountedType
<1>2. /\ q \in Seq(Int) /\ Len(q) = Len(s)
      /\ \A j \in 1..Len(s) : q[j] = IF j \in S \ {i} THEN s[j] ELSE 0
  BY CountedType
<1>3. i \in 1..Len(s) /\ s[i] \in Int /\ Len(s) \in Nat
  OBVIOUS
<1>. HIDE DEF r, q
<1>4. q = [r EXCEPT ![i] = 0]
  <2>1. /\ DOMAIN q = 1..Len(s) /\ q = [j \in 1..Len(s) |-> q[j]]
        /\ DOMAIN r = 1..Len(s)
    BY <1>1, <1>2
  <2>2. \A j \in 1..Len(s) : q[j] = IF j = i THEN 0 ELSE r[j]
    BY <1>1, <1>2
  <2>. QED BY <2>1, <2>2
<1>5. i \in 1..Len(r) /\ r[i] = s[i] /\ 0 \in Int
  BY <1>1, <1>3
<1>6. Total([r EXCEPT ![i] = 0]) = Total(r) - r[i] + 0
  BY <1>1, <1>5, TotalChanged
<1>7. Total(r) \in Int
  BY <1>1, TotalType
<1>. QED BY <1>3, <1>4, <1>5, <1>6, <1>7 DEF r, q

LEMMA CountedNone ==
  ASSUME NEW s \in Seq(Int)
  PROVE  Total(Counted(s, {})) = 0
<1>. DEFINE r == Counted(s, {})
            g == [j \in 0..Len(s) |-> 0]
<1>1. /\ r \in Seq(Int) /\ Len(r) = Len(s) /\ Len(s) \in Nat
      /\ \A i \in 1..Len(s) : r[i] = 0
  BY CountedType
<1>2. /\ g \in [0..Len(s) -> Int] /\ g[Len(s)] = 0 /\ g[0] = 0
      /\ \A i \in 1..Len(s) : g[i] = 0 /\ g[i - 1] = 0
  BY <1>1
<1>. HIDE DEF r, g
<1>3. IsSeries(g, r)
  BY <1>1, <1>2 DEF IsSeries
<1>4. Total(r) = g[Len(r)]
  BY <1>1, <1>3, SeriesTotal
<1>. QED BY <1>1, <1>2, <1>4 DEF r

LEMMA CountedAll ==
  ASSUME NEW s \in Seq(Int)
  PROVE  Counted(s, 1..Len(s)) = s
BY DEF Counted

(* There is a sum, and it is the total, in whatever order one adds.        *)
LEMMA SumExists ==
  ASSUME NEW s \in Seq(Int), NEW S \in SUBSET (1..Len(s))
  PROVE  Adds([T \in SUBSET S |-> Total(Counted(s, T))], s, S)
<1>. DEFINE g == [T \in SUBSET S |-> Total(Counted(s, T))]
<1>1. ASSUME NEW T \in SUBSET S
      PROVE  g[T] = IF T = {} THEN 0
                    ELSE s[CHOOSE i \in T : TRUE] + g[T \ {CHOOSE i \in T : TRUE}]
  <2>1. CASE T = {}
    BY <2>1, CountedNone
  <2>2. CASE T # {}
    <3>. DEFINE i == CHOOSE i \in T : TRUE
    <3>1. i \in T /\ T \in SUBSET (1..Len(s)) /\ T \ {i} \in SUBSET S
      BY <2>2
    <3>. HIDE DEF i
    <3>2. g[T] = Total(Counted(s, T)) /\ g[T \ {i}] = Total(Counted(s, T \ {i}))
      BY <3>1
    <3>3. Total(Counted(s, T)) = s[i] + Total(Counted(s, T \ {i}))
      BY <3>1, CountedWithout
    <3>4. g[T] = s[i] + g[T \ {i}]
      BY <3>2, <3>3
    <3>. QED BY <2>2, <3>4 DEF i
  <2>. QED BY <2>1, <2>2
<1>. HIDE DEF g
<1>2. Adds(g, s, S)
  BY <1>1 DEF Adds
<1>. QED BY <1>2 DEF g

LEMMA SumIsTotal ==
  ASSUME NEW s \in Seq(Int), NEW S \in SUBSET (1..Len(s)), NEW g, Adds(g, s, S)
  PROVE  g[S] = Total(Counted(s, S))
<1>. DEFINE P == {n \in Nat : \A T \in SUBSET S :
                    Cardinality(T) = n => g[T] = Total(Counted(s, T))}
<1>1. \A T \in SUBSET S : /\ T \in SUBSET (1..Len(s)) /\ IsFiniteSet(T)
                          /\ Cardinality(T) \in Nat
  <2>1. Len(s) \in Nat /\ \A T \in SUBSET S : T \in SUBSET (1..Len(s))
    OBVIOUS
  <2>. QED BY <2>1, CountKept
<1>2. 0 \in P
  <2>1. ASSUME NEW T \in SUBSET S, Cardinality(T) = 0 PROVE g[T] = Total(Counted(s, T))
    <3>1. T = {}
      BY <1>1, <2>1, FS_EmptySet
    <3>2. g[T] = 0
      BY <3>1 DEF Adds
    <3>. QED BY <3>1, <3>2, CountedNone
  <2>. QED BY <2>1
<1>3. ASSUME NEW n \in P PROVE n + 1 \in P
  <2>1. ASSUME NEW T \in SUBSET S, Cardinality(T) = n + 1
        PROVE  g[T] = Total(Counted(s, T))
    <3>. DEFINE i == CHOOSE i \in T : TRUE
    <3>1. T # {}
      BY <1>1, <2>1, FS_EmptySet
    <3>2. i \in T
      BY <3>1
    <3>3. g[T] = s[i] + g[T \ {i}]
      BY <3>1 DEF Adds
    <3>. HIDE DEF i
    <3>4. Cardinality(T \ {i}) = Cardinality(T) - 1
      BY <1>1, <3>2, FS_RemoveElement
    <3>5. Cardinality(T \ {i}) = n /\ T \ {i} \in SUBSET S
      <4>1. n \in Nat
        OBVIOUS
      <4>2. Cardinality(T \ {i}) = n
        BY <2>1, <3>4, <4>1
      <4>. QED BY <4>2
    <3>6. g[T \ {i}] = Total(Counted(s, T \ {i}))
      BY <3>5
    <3>7. Total(Counted(s, T)) = s[i] + Total(Counted(s, T \ {i}))
      BY <1>1, <3>2, CountedWithout
    <3>. QED BY <3>3, <3>6, <3>7
  <2>. QED BY <2>1
<1>4. P \in SUBSET Nat
  OBVIOUS
<1>5. P = Nat
  <2>. HIDE DEF P
  <2>. QED BY <1>2, <1>3, <1>4, NatStep
<1>6. S \in SUBSET S
  OBVIOUS
<1>. QED BY <1>1, <1>5, <1>6

----------------------------------------------------------------------------
(* Totals of sequences that are as long as one another.                    *)

LEMMA TotalRises ==
  ASSUME NEW s \in Seq(Int), NEW r \in Seq(Int), Len(s) = Len(r),
         \A i \in 1..Len(s) : s[i] <= r[i]
  PROVE  Total(s) <= Total(r)
<1>1. PICK g : IsSeries(g, s) /\ Total(s) = g[Len(s)]
  BY TotalSeries
<1>2. PICK h : IsSeries(h, r) /\ Total(r) = h[Len(r)]
  BY TotalSeries
<1>. DEFINE n == Len(s)
            P == {i \in Nat : i <= n => g[i] <= h[i]}
<1>3. n \in Nat /\ \A i \in 1..n : s[i] \in Int /\ r[i] \in Int /\ s[i] <= r[i]
  OBVIOUS
<1>4. /\ \A i \in 0..n : g[i] \in Int /\ h[i] \in Int
      /\ g[0] = 0 /\ h[0] = 0
      /\ \A i \in 1..n : g[i] = g[i - 1] + s[i] /\ h[i] = h[i - 1] + r[i]
  BY <1>1, <1>2 DEF IsSeries
<1>. HIDE DEF n
<1>5. 0 \in P
  BY <1>4
<1>6. ASSUME NEW i \in P PROVE i + 1 \in P
  <2>1. CASE i + 1 <= n
    <3>1. i + 1 \in 1..n /\ i \in 0..n /\ (i + 1) - 1 = i
      BY <1>3, <2>1
    <3>2. g[i] <= h[i]
      BY <3>1
    <3>3. g[i + 1] = g[i] + s[i + 1] /\ h[i + 1] = h[i] + r[i + 1]
      BY <1>4, <3>1
    <3>. QED BY <1>3, <1>4, <3>1, <3>2, <3>3
  <2>. QED BY <2>1
<1>7. P \in SUBSET Nat
  OBVIOUS
<1>8. P = Nat
  <2>. HIDE DEF P
  <2>. QED BY <1>5, <1>6, <1>7, NatStep
<1>9. g[n] <= h[n]
  BY <1>3, <1>8
<1>. QED BY <1>1, <1>2, <1>9 DEF n

Spreads(c, x, y, a, b) == (a + b) + c * (x + y) = (a + c * x) + (b + c * y)

LEMMA TimesMore ==
  ASSUME NEW c \in Int, NEW x \in Int, NEW y \in Int, NEW a \in Int, NEW b \in Int
  PROVE  Spreads(c, x, y, a, b)
<1>1. c * (x + y) = c * x + c * y /\ c * x \in Int /\ c * y \in Int
  OBVIOUS
<1>. QED BY <1>1 DEF Spreads

LEMMA TotalSums ==
  ASSUME NEW s \in Seq(Int), NEW r \in Seq(Int), NEW q \in Seq(Int), NEW c \in Int,
         Len(s) = Len(q), Len(r) = Len(q),
         \A i \in 1..Len(q) : q[i] = s[i] + c * r[i]
  PROVE  Total(q) = Total(s) + c * Total(r)
<1>1. PICK g : IsSeries(g, s) /\ Total(s) = g[Len(s)]
  BY TotalSeries
<1>2. PICK h : IsSeries(h, r) /\ Total(r) = h[Len(r)]
  BY TotalSeries
<1>. DEFINE n == Len(q)
            f == [i \in 0..n |-> g[i] + c * h[i]]
<1>3. n \in Nat /\ \A i \in 1..n : s[i] \in Int /\ r[i] \in Int /\ q[i] = s[i] + c * r[i]
  OBVIOUS
<1>4. /\ \A i \in 0..n : g[i] \in Int /\ h[i] \in Int
      /\ g[0] = 0 /\ h[0] = 0
      /\ \A i \in 1..n : g[i] = g[i - 1] + s[i] /\ h[i] = h[i - 1] + r[i]
  BY <1>1, <1>2 DEF IsSeries
<1>5. \A i \in 0..n : f[i] = g[i] + c * h[i] /\ c * h[i] \in Int
  BY <1>4
<1>6. f \in [0..n -> Int]
  BY <1>4, <1>5
<1>7. ASSUME NEW i \in 1..n PROVE f[i] = f[i - 1] + q[i]
  <2>1. i \in 0..n /\ i - 1 \in 0..n
    BY <1>3
  <2>2. /\ f[i] = g[i] + c * h[i] /\ f[i - 1] = g[i - 1] + c * h[i - 1]
        /\ g[i] = g[i - 1] + s[i] /\ h[i] = h[i - 1] + r[i]
        /\ q[i] = s[i] + c * r[i]
    BY <1>3, <1>4, <1>5, <2>1
  <2>3. g[i - 1] \in Int /\ h[i - 1] \in Int /\ s[i] \in Int /\ r[i] \in Int
    BY <1>3, <1>4, <2>1
  <2>. HIDE DEF f, n
  <2>4. Spreads(c, h[i - 1], r[i], g[i - 1], s[i])
    BY <2>3, TimesMore
  <2>. QED BY <2>2, <2>4 DEF Spreads
<1>8. f[0] = 0 /\ f[n] = g[n] + c * h[n]
  <2>1. 0 \in 0..n /\ n \in 0..n
    BY <1>3
  <2>. QED BY <1>4, <1>5, <2>1
<1>. HIDE DEF f
<1>9. IsSeries(f, q)
  BY <1>3, <1>6, <1>7, <1>8 DEF IsSeries
<1>10. Total(q) = f[n]
  BY <1>9, SeriesTotal
<1>. QED BY <1>1, <1>2, <1>8, <1>10 DEF n

----------------------------------------------------------------------------
(* Moving a cluster's point to the mean.                                   *)

Ones(n) == [i \in 1..n |-> 1]

LEMMA OnesCount ==
  ASSUME NEW n \in Nat, NEW C \in SUBSET (1..n)
  PROVE  /\ Ones(n) \in Seq(Int) /\ Len(Ones(n)) = n
         /\ Total(Counted(Ones(n), C)) = Cardinality(C)
<1>. DEFINE s == Ones(n)
            g == [T \in SUBSET C |-> Cardinality(T)]
<1>1. s \in Seq(Int) /\ Len(s) = n /\ \A i \in 1..n : s[i] = 1
  BY DEF Ones
<1>2. ASSUME NEW T \in SUBSET C
      PROVE  g[T] = IF T = {} THEN 0
                    ELSE s[CHOOSE i \in T : TRUE] + g[T \ {CHOOSE i \in T : TRUE}]
  <2>1. T \in SUBSET (1..n) /\ g[T] = Cardinality(T)
    OBVIOUS
  <2>2. IsFiniteSet(T) /\ Cardinality(T) \in Nat
    BY <2>1, CountKept
  <2>3. CASE T = {}
    BY <2>1, <2>3, FS_EmptySet
  <2>4. CASE T # {}
    <3>. DEFINE i == CHOOSE i \in T : TRUE
    <3>1. i \in T
      BY <2>4
    <3>. HIDE DEF i
    <3>2. g[T \ {i}] = Cardinality(T \ {i}) /\ s[i] = 1
      BY <1>1, <3>1
    <3>3. Cardinality(T \ {i}) = Cardinality(T) - 1
      BY <2>2, <3>1, FS_RemoveElement
    <3>. HIDE DEF s, g
    <3>4. g[T] = s[i] + g[T \ {i}]
      BY <2>1, <2>2, <3>2, <3>3
    <3>. QED BY <2>4, <3>4 DEF i
  <2>. QED BY <2>3, <2>4
<1>. HIDE DEF s
<1>3. g[C] = Cardinality(C)
  OBVIOUS
<1>. HIDE DEF g
<1>4. Adds(g, s, C)
  BY <1>2 DEF Adds
<1>5. g[C] = Total(Counted(s, C))
  BY <1>1, <1>4, SumIsTotal
<1>. QED BY <1>1, <1>3, <1>5 DEF s

(* A square around another point.                                          *)
Turned(x, u, v) ==
  Distance(x, v) = Distance(x, u) + (u - v) * ((x + x) + (-(u + v)) * 1)

LEMMA Turns ==
  ASSUME NEW x \in Int, NEW u \in Int, NEW v \in Int
  PROVE  Turned(x, u, v) /\ Distance(x, u) \in Nat
<1>1. (x - u) * (x - u) \in Nat
  <2>1. \A y \in Int : y * y \in Nat
    OBVIOUS
  <2>. QED BY <2>1
<1>2. (x - v) * (x - v) = (x - u) * (x - u) + (u - v) * ((x + x) + (-(u + v)) * 1)
  OBVIOUS
<1>. QED BY <1>1, <1>2 DEF Turned, Distance

(* The steps, as sums over a cluster of n whose points add up to n * v.    *)
Lowers(n, u, v) == (u - v) * ((n * v + 1 * (n * v)) + (-(u + v)) * n) <= 0

LEMMA Lowered ==
  ASSUME NEW n \in Nat, NEW u \in Int, NEW v \in Int
  PROVE  Lowers(n, u, v)
<1>1. (u - v) * ((n * v + 1 * (n * v)) + (-(u + v)) * n) = -(n * ((u - v) * (u - v)))
  OBVIOUS
<1>2. (u - v) * (u - v) \in Nat
  <2>1. \A y \in Int : y * y \in Nat
    OBVIOUS
  <2>. QED BY <2>1
<1>3. n * ((u - v) * (u - v)) \in Nat
  <2>1. \A y \in Nat : n * y \in Nat
    OBVIOUS
  <2>. QED BY <1>2, <2>1
<1>. QED BY <1>1, <1>3 DEF Lowers

(* What the vectors cost before and after a cluster's point moves from u   *)
(* to v.                                                                   *)
Recosts(s, r, x, C, u, v) ==
  \A i \in 1..Len(x) : IF i \in C
                       THEN s[i] = Distance(x[i], u) /\ r[i] = Distance(x[i], v)
                       ELSE s[i] = r[i]

(* One cluster moves to the mean of its points; nothing else changes.      *)
LEMMA ClusterMoves ==
  ASSUME NEW x \in Seq(Int), NEW C \in SUBSET (1..Len(x)), NEW u \in Int, NEW v \in Int,
         Total(Counted(x, C)) = Cardinality(C) * v,
         NEW s \in Seq(Int), NEW r \in Seq(Int), Len(s) = Len(x), Len(r) = Len(x),
         Recosts(s, r, x, C, u, v)
  PROVE  Total(r) <= Total(s)
<1>. DEFINE n == Len(x)
            one == Counted(Ones(n), C)
            own == Counted(x, C)
            both == [i \in 1..n |-> own[i] + 1 * own[i]]
            turn == [i \in 1..n |-> both[i] + (-(u + v)) * one[i]]
            c == Cardinality(C)
<1>1. n \in Nat /\ \A i \in 1..n : x[i] \in Int /\ s[i] \in Int /\ r[i] \in Int
  OBVIOUS
<1>2. c \in Nat /\ Total(one) = c /\ Ones(n) \in Seq(Int) /\ Len(Ones(n)) = n
  BY <1>1, CountKept, OnesCount
<1>3. /\ one \in Seq(Int) /\ Len(one) = n
      /\ \A i \in 1..n : one[i] = IF i \in C THEN 1 ELSE 0
  <2>1. /\ one \in Seq(Int) /\ Len(one) = Len(Ones(n))
        /\ \A i \in 1..Len(Ones(n)) : one[i] = IF i \in C THEN Ones(n)[i] ELSE 0
    BY <1>2, CountedType
  <2>. QED BY <1>2, <2>1 DEF Ones
<1>4. /\ own \in Seq(Int) /\ Len(own) = n
      /\ \A i \in 1..n : own[i] = IF i \in C THEN x[i] ELSE 0
  BY CountedType
<1>. HIDE DEF one, own, c, n
<1>5. /\ both \in Seq(Int) /\ Len(both) = n
      /\ \A i \in 1..n : both[i] = own[i] + 1 * own[i]
  <2>1. \A i \in 1..n : own[i] + 1 * own[i] \in Int
    BY <1>4
  <2>. QED BY <1>1, <2>1
<1>. HIDE DEF both
<1>6. Total(both) = Total(own) + 1 * Total(own)
  <2>1. Len(own) = Len(both) /\ \A i \in 1..Len(both) : both[i] = own[i] + 1 * own[i]
    BY <1>4, <1>5
  <2>2. own \in Seq(Int) /\ both \in Seq(Int) /\ 1 \in Int
    BY <1>4, <1>5
  <2>. QED BY <2>1, <2>2, TotalSums
<1>7. u + v \in Int /\ -(u + v) \in Int /\ u - v \in Int
  OBVIOUS
<1>8. /\ turn \in Seq(Int) /\ Len(turn) = n
      /\ \A i \in 1..n : turn[i] = both[i] + (-(u + v)) * one[i]
  <2>1. \A i \in 1..n : both[i] \in Int /\ one[i] \in Int
    BY <1>3, <1>5
  <2>2. \A y, z \in Int : y + (-(u + v)) * z \in Int
    OBVIOUS
  <2>3. \A i \in 1..n : both[i] + (-(u + v)) * one[i] \in Int
    BY <2>1, <2>2
  <2>. QED BY <1>1, <2>3
<1>. HIDE DEF turn
<1>9. Total(turn) = Total(both) + (-(u + v)) * Total(one)
  <2>. DEFINE w == -(u + v)
  <2>1. w \in Int /\ \A i \in 1..Len(turn) : turn[i] = both[i] + w * one[i]
    BY <1>7, <1>8
  <2>. HIDE DEF w
  <2>2. Len(both) = Len(turn) /\ Len(one) = Len(turn)
    BY <1>3, <1>5, <1>8
  <2>3. both \in Seq(Int) /\ one \in Seq(Int) /\ turn \in Seq(Int)
    BY <1>3, <1>5, <1>8
  <2>4. Total(turn) = Total(both) + w * Total(one)
    BY <2>1, <2>2, <2>3, TotalSums
  <2>. QED BY <2>4 DEF w
<1>10. \A i \in 1..n : r[i] = s[i] + (u - v) * turn[i]
  <2>. SUFFICES ASSUME NEW i \in 1..n PROVE r[i] = s[i] + (u - v) * turn[i]
    OBVIOUS
  <2>1. CASE i \in C
    <3>1. turn[i] = (x[i] + x[i]) + (-(u + v)) * 1
      <4>1. turn[i] = (x[i] + 1 * x[i]) + (-(u + v)) * 1
        BY <1>3, <1>4, <1>5, <1>8, <2>1
      <4>. QED BY <1>1, <4>1
    <3>2. Turned(x[i], u, v)
      BY <1>1, Turns
    <3>3. s[i] = Distance(x[i], u) /\ r[i] = Distance(x[i], v)
      BY <2>1 DEF n, Recosts
    <3>. QED BY <3>1, <3>2, <3>3 DEF Turned
  <2>2. CASE i \notin C
    <3>1. both[i] = 0 /\ one[i] = 0
      BY <1>3, <1>4, <1>5, <2>2
    <3>2. turn[i] = 0 + (-(u + v)) * 0
      BY <1>8, <3>1
    <3>3. turn[i] = 0
      BY <1>7, <3>2
    <3>4. s[i] = r[i]
      BY <2>2 DEF n, Recosts
    <3>5. s[i] + (u - v) * 0 = s[i]
      BY <1>1, <1>7
    <3>. QED BY <3>3, <3>4, <3>5
  <2>. QED BY <2>1, <2>2
<1>11. Total(r) = Total(s) + (u - v) * Total(turn)
  <2>. DEFINE w == u - v
  <2>1. w \in Int /\ \A i \in 1..Len(r) : r[i] = s[i] + w * turn[i]
    BY <1>7, <1>10 DEF n
  <2>2. Len(s) = Len(r) /\ Len(turn) = Len(r)
    BY <1>8 DEF n
  <2>. HIDE DEF w
  <2>3. Total(r) = Total(s) + w * Total(turn)
    BY <1>8, <2>1, <2>2, TotalSums
  <2>. QED BY <2>3 DEF w
<1>12. Total(turn) = (c * v + 1 * (c * v)) + (-(u + v)) * c
  BY <1>2, <1>6, <1>9 DEF own, c
<1>13. Lowers(c, u, v)
  BY <1>2, Lowered
<1>14. (u - v) * Total(turn) <= 0
  BY <1>12, <1>13 DEF Lowers
<1>15. Total(r) \in Int /\ Total(s) \in Int /\ (u - v) * Total(turn) \in Int
  <2>1. Total(r) \in Int /\ Total(s) \in Int /\ Total(turn) \in Int
    BY <1>8, TotalType
  <2>2. \A y \in Int : (u - v) * y \in Int
    OBVIOUS
  <2>. QED BY <2>1, <2>2
<1>. QED BY <1>11, <1>14, <1>15

(* What the vectors cost when each belongs to the cluster that a says.     *)
Paid(x, a, m) == Total([i \in 1..Len(x) |-> Distance(x[i], m[a[i]])])

Members(x, a, c) == {i \in 1..Len(x) : a[i] = c}

(* Every cluster that is not empty moves to the mean of its vectors.       *)
LEMMA MovesImprove ==
  ASSUME NEW x \in Seq(Int), NEW n \in Nat, NEW a \in [1..Len(x) -> 1..n],
         NEW m \in [1..n -> Int], NEW w \in [1..n -> Int],
         \A c \in 1..n :
           \/ w[c] = m[c]
           \/ Total(Counted(x, Members(x, a, c))) = Cardinality(Members(x, a, c)) * w[c]
  PROVE  Paid(x, a, w) <= Paid(x, a, m)
<1>. DEFINE mid(j) == [c \in 1..n |-> IF c <= j THEN w[c] ELSE m[c]]
            cost(j) == [i \in 1..Len(x) |-> Distance(x[i], mid(j)[a[i]])]
            P == {j \in Nat : j <= n => Total(cost(j)) <= Paid(x, a, m)}
<1>1. /\ Len(x) \in Nat /\ \A i \in 1..Len(x) : x[i] \in Int /\ a[i] \in 1..n
      /\ \A c \in 1..n : m[c] \in Int /\ w[c] \in Int
  <2>1. Len(x) \in Nat /\ \A i \in 1..Len(x) : x[i] \in Int
    OBVIOUS
  <2>2. \A i \in 1..Len(x) : a[i] \in 1..n
    OBVIOUS
  <2>3. \A c \in 1..n : m[c] \in Int /\ w[c] \in Int
    OBVIOUS
  <2>. QED BY <2>1, <2>2, <2>3
<1>2. \A j \in Nat, c \in 1..n : mid(j)[c] \in Int
  BY <1>1
<1>3. ASSUME NEW j \in Nat
      PROVE  /\ cost(j) \in Seq(Int) /\ Len(cost(j)) = Len(x)
             /\ \A i \in 1..Len(x) : cost(j)[i] = Distance(x[i], mid(j)[a[i]])
  <2>1. ASSUME NEW i \in 1..Len(x) PROVE Distance(x[i], mid(j)[a[i]]) \in Int
    <3>1. x[i] \in Int /\ mid(j)[a[i]] \in Int
      BY <1>1, <1>2
    <3>. QED BY <3>1 DEF Distance
  <2>. HIDE DEF mid
  <2>. QED BY <1>1, <2>1
<1>4. mid(0) = m /\ mid(n) = w
  BY <1>1
<1>5. Total(cost(0)) = Paid(x, a, m) /\ Total(cost(n)) = Paid(x, a, w)
  <2>. HIDE DEF mid
  <2>. QED BY <1>4 DEF Paid
<1>6. 0 \in P
  <2>1. Total(cost(0)) \in Int
    <3>. HIDE DEF cost
    <3>. QED BY <1>3, TotalType
  <2>. HIDE DEF cost
  <2>. QED BY <1>5, <2>1
<1>7. ASSUME NEW j \in P PROVE j + 1 \in P
  <2>1. CASE j + 1 <= n
    <3>. DEFINE c == j + 1
                C == Members(x, a, c)
                s == cost(j)
                r == cost(c)
    <3>0. j \in Nat
      OBVIOUS
    <3>1. c \in 1..n /\ c \in Nat /\ j < c
      BY <2>1, <3>0
    <3>2. C \in SUBSET (1..Len(x))
      BY DEF Members
    <3>3. /\ s \in Seq(Int) /\ Len(s) = Len(x) /\ r \in Seq(Int) /\ Len(r) = Len(x)
          /\ \A i \in 1..Len(x) : /\ s[i] = Distance(x[i], mid(j)[a[i]])
                                  /\ r[i] = Distance(x[i], mid(c)[a[i]])
      <4>. HIDE DEF cost, mid
      <4>. QED BY <1>3, <3>0, <3>1
    <3>4. mid(j)[c] = m[c] /\ mid(c)[c] = w[c]
      BY <3>0, <3>1
    <3>5. \A d \in 1..n : d # c => mid(c)[d] = mid(j)[d]
      BY <3>0, <3>1
    <3>6. Total(s) <= Paid(x, a, m)
      BY <2>1, <3>0
    <3>. HIDE DEF cost, mid, s, r, P, c
    <3>7. \A i \in 1..Len(x) : IF i \in C
                               THEN s[i] = Distance(x[i], m[c]) /\ r[i] = Distance(x[i], w[c])
                               ELSE s[i] = r[i]
      <4>. SUFFICES ASSUME NEW i \in 1..Len(x)
                    PROVE  IF i \in C
                           THEN s[i] = Distance(x[i], m[c]) /\ r[i] = Distance(x[i], w[c])
                           ELSE s[i] = r[i]
        OBVIOUS
      <4>1. CASE i \in C
        BY <3>3, <3>4, <4>1 DEF Members
      <4>2. CASE i \notin C
        <5>1. a[i] \in 1..n /\ a[i] # c
          BY <1>1, <4>2 DEF Members
        <5>. QED BY <3>3, <3>5, <4>2, <5>1
      <4>. QED BY <4>1, <4>2
    <3>. HIDE DEF C
    <3>8. Total(r) <= Total(s)
      <4>1. CASE w[c] = m[c]
        <5>1. \A i \in 1..Len(x) : r[i] = s[i] /\ r[i] \in Int
          BY <3>3, <3>7, <4>1
        <5>2. \A i \in 1..Len(r) : r[i] <= s[i]
          BY <3>3, <5>1
        <5>. QED BY <3>3, <5>2, TotalRises
      <4>2. CASE Total(Counted(x, C)) = Cardinality(C) * w[c]
        <5>1. m[c] \in Int /\ w[c] \in Int
          BY <1>1, <3>1
        <5>2. /\ s \in Seq(Int) /\ r \in Seq(Int) /\ Len(s) = Len(x) /\ Len(r) = Len(x)
              /\ x \in Seq(Int)
          BY <3>3
        <5>3. Recosts(s, r, x, C, m[c], w[c])
          BY <3>7 DEF Recosts
        <5>. QED BY <3>2, <4>2, <5>1, <5>2, <5>3, ClusterMoves
      <4>. QED BY <3>1, <4>1, <4>2 DEF C
    <3>9. Total(r) \in Int /\ Total(s) \in Int /\ Paid(x, a, m) \in Int
      <4>1. Total(cost(0)) \in Int
        BY <1>3, TotalType
      <4>. QED BY <1>5, <3>3, <4>1, TotalType
    <3>10. Total(r) <= Paid(x, a, m)
      BY <3>6, <3>8, <3>9
    <3>. QED BY <3>1, <3>10 DEF P, r, c
  <2>2. CASE ~(j + 1 <= n)
    <3>1. j + 1 \in Nat
      OBVIOUS
    <3>. HIDE DEF cost
    <3>. QED BY <2>2, <3>1
  <2>. QED BY <2>1, <2>2
<1>8. P \in SUBSET Nat
  OBVIOUS
<1>9. P = Nat
  <2>. HIDE DEF P
  <2>. QED BY <1>6, <1>7, <1>8, NatStep
<1>10. Total(cost(n)) <= Paid(x, a, m)
  <2>. HIDE DEF cost
  <2>. QED BY <1>9
<1>. QED BY <1>5, <1>10

----------------------------------------------------------------------------
(* The operators of SagaBuild are these sums.                              *)

Points == [i \in DOMAIN sample |-> Sampled(i)]

(* What has been sampled are some of the tenant's vectors.                 *)
Drawn == vectors \in Seq(Point) /\ sample \in Seq(1..Len(vectors))

LEMMA PointsType ==
  ASSUME Drawn
  PROVE  /\ Points \in Seq(Int) /\ Len(Points) = Len(sample) /\ Len(sample) \in Nat
         /\ DOMAIN sample = 1..Len(sample)
         /\ \A i \in 1..Len(sample) : /\ Points[i] = Sampled(i) /\ Sampled(i) \in Int
                                      /\ Sampled(i) \in Nat /\ Sampled(i) % Scale = 0
<1>1. /\ Len(sample) \in Nat /\ DOMAIN sample = 1..Len(sample)
      /\ \A i \in 1..Len(sample) : sample[i] \in 1..Len(vectors)
  BY DEF Drawn
<1>2. \A i \in 1..Len(vectors) : vectors[i] \in Point
  BY DEF Drawn
<1>3. \A y \in Point : y \in Nat /\ y % Scale = 0
  BY SagaAssumption DEF SagaAssumption
<1>4. \A i \in 1..Len(sample) : /\ Sampled(i) \in Int /\ Sampled(i) \in Nat
                                /\ Sampled(i) % Scale = 0
  BY <1>1, <1>2, <1>3 DEF Sampled
<1>5. Points \in Seq(Int) /\ Len(Points) = Len(sample)
  BY <1>1, <1>4 DEF Points
<1>. QED BY <1>1, <1>4, <1>5 DEF Points

(* nearest_centroid has an answer.                                         *)
LEMMA NearestIs ==
  ASSUME centroids \in Seq(Int), centroids # <<>>, NEW x \in Int
  PROVE  /\ Nearest(x) \in 1..Len(centroids)
         /\ \A d \in 1..Len(centroids) :
              Distance(x, centroids[Nearest(x)]) <= Distance(x, centroids[d])
<1>. DEFINE n == Len(centroids)
            far(c) == Distance(x, centroids[c])
            Fars == {far(c) : c \in 1..n}
            least == CHOOSE y \in Fars : \A z \in Fars : y <= z
            Best == {c \in 1..n : far(c) = least}
            first == CHOOSE c \in Best : \A d \in Best : c <= d
            Right(c) == \A d \in DOMAIN centroids :
                          \/ Distance(x, centroids[c]) < Distance(x, centroids[d])
                          \/ Distance(x, centroids[c]) = Distance(x, centroids[d]) /\ c <= d
<1>1. n \in Nat /\ 1 \in 1..n /\ DOMAIN centroids = 1..n
      /\ \A c \in 1..n : centroids[c] \in Int
  OBVIOUS
<1>2. \A c \in 1..n : far(c) \in Nat
  BY <1>1, Turns
<1>. HIDE DEF far
<1>3. Fars \in SUBSET Nat /\ Fars # {}
  BY <1>1, <1>2
<1>4. least \in Fars /\ \A z \in Fars : least <= z
  <2>. HIDE DEF Fars
  <2>. QED BY <1>3, NatLeast
<1>5. least \in Nat /\ \A d \in 1..n : least <= far(d)
  BY <1>3, <1>4
<1>6. Best \in SUBSET Nat /\ Best # {}
  <2>. HIDE DEF least
  <2>. QED BY <1>1, <1>4
<1>7. first \in Best /\ \A d \in Best : first <= d
  <2>. HIDE DEF Best
  <2>. QED BY <1>6, NatLeast
<1>8. first \in 1..n /\ far(first) = least /\ \A d \in 1..n : far(d) = least => first <= d
  <2>. HIDE DEF first, least
  <2>. QED BY <1>7
<1>. HIDE DEF first, least, Best, Fars
<1>9. Right(first)
  <2>1. ASSUME NEW d \in 1..n
        PROVE  far(first) < far(d) \/ (far(first) = far(d) /\ first <= d)
    <3>1. CASE far(d) = least
      BY <1>8, <3>1
    <3>2. CASE far(d) # least
      <4>1. far(d) \in Nat /\ least \in Nat /\ least <= far(d) /\ far(first) = least
        BY <1>2, <1>5, <1>8
      <4>2. least < far(d)
        BY <3>2, <4>1
      <4>. QED BY <4>1, <4>2
    <3>. QED BY <3>1, <3>2
  <2>. QED BY <1>1, <2>1 DEF far
<1>10. Nearest(x) = CHOOSE c \in DOMAIN centroids : Right(c)
  BY DEF Nearest
<1>. HIDE DEF Right
<1>11. Nearest(x) \in 1..n /\ Right(Nearest(x))
  BY <1>1, <1>8, <1>9, <1>10
<1>12. \A c \in 1..n : Right(c) => \A d \in 1..n : far(c) <= far(d)
  BY <1>1, <1>2 DEF Right, far
<1>. QED BY <1>11, <1>12 DEF far

LEMMA AssignmentType ==
  ASSUME Drawn, centroids \in Seq(Int), centroids # <<>>
  PROVE  /\ Assignment \in [1..Len(sample) -> 1..Len(centroids)]
         /\ \A i \in 1..Len(sample) : Assignment[i] = Nearest(Sampled(i))
<1>1. /\ DOMAIN sample = 1..Len(sample)
      /\ \A i \in 1..Len(sample) : Sampled(i) \in Int
  BY PointsType
<1>2. \A i \in 1..Len(sample) : Nearest(Sampled(i)) \in 1..Len(centroids)
  BY <1>1, NearestIs
<1>. QED BY <1>1, <1>2 DEF Assignment

LEMMA InertiaIs ==
  ASSUME Drawn, centroids \in Seq(Int), centroids # <<>>
  PROVE  Inertia = Paid(Points, Assignment, centroids) /\ Inertia \in Nat
<1>. DEFINE n == Len(sample)
            cost(i) == Distance(Sampled(i), centroids[Nearest(Sampled(i))])
            s == [i \in 1..n |-> cost(i)]
            Equation(g) ==
              g = [T \in SUBSET (1..n) |->
                     IF T = {} THEN 0
                     ELSE cost(CHOOSE i \in T : TRUE) + g[T \ {CHOOSE i \in T : TRUE}]]
            chosen == CHOOSE g : Equation(g)
            g0 == [T \in SUBSET (1..n) |-> Total(Counted(s, T))]
<1>1. /\ n \in Nat /\ DOMAIN sample = 1..n
      /\ \A i \in 1..n : Sampled(i) \in Int /\ Points[i] = Sampled(i)
      /\ Len(Points) = n
  BY PointsType
<1>2. \A i \in 1..n : Nearest(Sampled(i)) \in 1..Len(centroids)
                      /\ centroids[Nearest(Sampled(i))] \in Int
  <2>1. \A i \in 1..n : Nearest(Sampled(i)) \in 1..Len(centroids)
    BY <1>1, NearestIs
  <2>2. \A c \in 1..Len(centroids) : centroids[c] \in Int
    OBVIOUS
  <2>. QED BY <2>1, <2>2
<1>3. \A i \in 1..n : cost(i) \in Nat
  BY <1>1, <1>2, Turns
<1>4. Inertia = chosen[1..n]
  BY <1>1 DEF Inertia, MapThenSumSet, MapThenFoldSet
<1>5. s \in Seq(Nat) /\ s \in Seq(Int) /\ Len(s) = n /\ \A i \in 1..n : s[i] = cost(i)
  <2>. HIDE DEF cost
  <2>. QED BY <1>1, <1>3
<1>6. Paid(Points, Assignment, centroids) = Total(s)
  <2>1. \A i \in 1..n : Assignment[i] = Nearest(Sampled(i))
    BY AssignmentType
  <2>2. \A i \in 1..n : Distance(Points[i], centroids[Assignment[i]]) = cost(i)
    BY <1>1, <2>1
  <2>. HIDE DEF cost
  <2>. QED BY <1>1, <2>2 DEF Paid
<1>. HIDE DEF cost, s
<1>7. ASSUME NEW T \in SUBSET (1..n), T # {}
      PROVE  cost(CHOOSE i \in T : TRUE) = s[CHOOSE i \in T : TRUE]
  <2>1. (CHOOSE i \in T : TRUE) \in 1..n
    BY <1>7
  <2>. QED BY <1>5, <2>1
<1>8. Equation(g0)
  <2>1. 1..n \in SUBSET (1..Len(s))
    BY <1>5
  <2>2. Adds(g0, s, 1..n)
    BY <1>5, <2>1, SumExists
  <2>3. \A T \in SUBSET (1..n) :
          g0[T] = IF T = {} THEN 0
                  ELSE cost(CHOOSE i \in T : TRUE) + g0[T \ {CHOOSE i \in T : TRUE}]
    <3>. HIDE DEF g0
    <3>. QED BY <1>7, <2>2 DEF Adds
  <2>4. g0 = [T \in SUBSET (1..n) |-> g0[T]]
    OBVIOUS
  <2>. HIDE DEF g0
  <2>. QED BY <2>3, <2>4
<1>9. Equation(chosen)
  <2>. HIDE DEF Equation, g0
  <2>. QED BY <1>8
<1>10. Adds(chosen, s, 1..n)
  <2>. HIDE DEF chosen
  <2>1. ASSUME NEW T \in SUBSET (1..n)
        PROVE  chosen[T] = IF T = {} THEN 0
                 ELSE s[CHOOSE i \in T : TRUE] + chosen[T \ {CHOOSE i \in T : TRUE}]
    BY <1>7, <1>9
  <2>. QED BY <2>1 DEF Adds
<1>11. chosen[1..n] = Total(Counted(s, 1..n))
  <2>. HIDE DEF chosen
  <2>1. 1..n \in SUBSET (1..Len(s))
    BY <1>5
  <2>. QED BY <1>5, <1>10, <2>1, SumIsTotal
<1>12. Counted(s, 1..n) = s
  BY <1>5, CountedAll
<1>. HIDE DEF chosen
<1>. QED BY <1>4, <1>5, <1>6, <1>11, <1>12, TotalNatural

LEMMA SampledSum ==
  ASSUME Drawn, NEW C \in SUBSET (1..Len(sample))
  PROVE  MapThenSumSet(Sampled, C) = Total(Counted(Points, C))
<1>. DEFINE Equation(g) ==
              g = [T \in SUBSET C |->
                     IF T = {} THEN 0
                     ELSE Sampled(CHOOSE i \in T : TRUE) + g[T \ {CHOOSE i \in T : TRUE}]]
            chosen == CHOOSE g : Equation(g)
            g0 == [T \in SUBSET C |-> Total(Counted(Points, T))]
<1>1. /\ Points \in Seq(Int) /\ Len(Points) = Len(sample)
      /\ \A i \in 1..Len(sample) : Points[i] = Sampled(i)
  BY PointsType
<1>2. MapThenSumSet(Sampled, C) = chosen[C]
  BY DEF MapThenSumSet, MapThenFoldSet
<1>3. ASSUME NEW T \in SUBSET C, T # {}
      PROVE  Sampled(CHOOSE i \in T : TRUE) = Points[CHOOSE i \in T : TRUE]
  <2>1. (CHOOSE i \in T : TRUE) \in 1..Len(sample)
    BY <1>3
  <2>. QED BY <1>1, <2>1
<1>4. Equation(g0)
  <2>1. C \in SUBSET (1..Len(Points))
    BY <1>1
  <2>2. Adds(g0, Points, C)
    BY <1>1, <2>1, SumExists
  <2>3. \A T \in SUBSET C :
          g0[T] = IF T = {} THEN 0
                  ELSE Sampled(CHOOSE i \in T : TRUE) + g0[T \ {CHOOSE i \in T : TRUE}]
    <3>. HIDE DEF g0
    <3>. QED BY <1>3, <2>2 DEF Adds
  <2>4. g0 = [T \in SUBSET C |-> g0[T]]
    OBVIOUS
  <2>. HIDE DEF g0
  <2>. QED BY <2>3, <2>4
<1>5. Equation(chosen)
  <2>. HIDE DEF Equation, g0
  <2>. QED BY <1>4
<1>6. Adds(chosen, Points, C)
  <2>. HIDE DEF chosen
  <2>1. ASSUME NEW T \in SUBSET C
        PROVE  chosen[T] = IF T = {} THEN 0
                 ELSE Points[CHOOSE i \in T : TRUE] + chosen[T \ {CHOOSE i \in T : TRUE}]
    BY <1>3, <1>5
  <2>. QED BY <2>1 DEF Adds
<1>. HIDE DEF chosen
<1>7. C \in SUBSET (1..Len(Points))
  BY <1>1
<1>8. chosen[C] = Total(Counted(Points, C))
  BY <1>1, <1>6, <1>7, SumIsTotal
<1>. QED BY <1>2, <1>8

(* The mean of a cluster is exact.                                         *)
Parts(y, n, q) == y = n * (q * (y \div Scale))

LEMMA PartsOf ==
  ASSUME NEW y \in Nat, y % Scale = 0, NEW n \in 1..Reservoir
  PROVE  /\ Parts(y, n, Scale \div n)
         /\ (Scale \div n) * (y \div Scale) \in Int
<1>1. Scale \in Nat \ {0} /\ n \in Nat \ {0} /\ Scale % n = 0
  BY SagaAssumption DEF SagaAssumption
<1>2. \A a \in Nat, b \in Nat \ {0} : a % b = 0 => a = b * (a \div b) /\ a \div b \in Nat
  OBVIOUS
<1>. DEFINE q == Scale \div n
            d == y \div Scale
<1>3. Scale = n * q /\ q \in Nat /\ y = Scale * d /\ d \in Nat
  BY <1>1, <1>2
<1>. HIDE DEF q, d
<1>4. (n * q) * d = n * (q * d) /\ q * d \in Int
  BY <1>1, <1>3
<1>. QED BY <1>3, <1>4 DEF Parts, q, d

LEMMA Whole ==
  ASSUME NEW n \in Nat \ {0}, NEW y \in Int
  PROVE  (n * y) \div n = y
OBVIOUS

LEMMA MeanIs ==
  ASSUME Drawn, Len(sample) <= Reservoir, NEW C \in SUBSET (1..Len(sample)), C # {}
  PROVE  /\ Mean(C) \in Int
         /\ Total(Counted(Points, C)) = Cardinality(C) * Mean(C)
<1>. DEFINE n == Cardinality(C)
            q == Scale \div n
            own == Counted(Points, C)
            none == Counted(Points, {})
            z == [i \in 1..Len(sample) |-> q * (Points[i] \div Scale)]
            part == Counted(z, C)
<1>1. /\ Points \in Seq(Int) /\ Len(Points) = Len(sample) /\ Len(sample) \in Nat
      /\ \A i \in 1..Len(sample) : Points[i] \in Nat /\ Points[i] % Scale = 0
  BY PointsType
<1>2. n \in 1..Reservoir
  <2>1. IsFiniteSet(C) /\ n \in Nat /\ n <= Len(sample)
    BY <1>1, CountKept
  <2>2. n # 0
    BY <2>1, FS_EmptySet
  <2>3. Reservoir \in Nat
    BY SagaAssumption DEF SagaAssumption
  <2>. QED BY <1>1, <2>1, <2>2, <2>3
<1>. HIDE DEF n
<1>3. \A i \in 1..Len(sample) : Parts(Points[i], n, q) /\ q * (Points[i] \div Scale) \in Int
  BY <1>1, <1>2, PartsOf
<1>. HIDE DEF q
<1>4. /\ z \in Seq(Int) /\ Len(z) = Len(sample)
      /\ \A i \in 1..Len(sample) : z[i] = q * (Points[i] \div Scale)
  BY <1>1, <1>3
<1>. HIDE DEF z
<1>5. /\ own \in Seq(Int) /\ Len(own) = Len(sample)
      /\ \A i \in 1..Len(sample) : own[i] = IF i \in C THEN Points[i] ELSE 0
  BY <1>1, CountedType
<1>6. /\ none \in Seq(Int) /\ Len(none) = Len(sample)
      /\ \A i \in 1..Len(sample) : none[i] = 0
  BY <1>1, CountedType
<1>7. /\ part \in Seq(Int) /\ Len(part) = Len(sample)
      /\ \A i \in 1..Len(sample) : part[i] = IF i \in C THEN z[i] ELSE 0
  BY <1>4, CountedType
<1>8. Total(none) = 0
  BY <1>1, CountedNone
<1>. HIDE DEF own, none, part
<1>9. n \in Int /\ n \in Nat \ {0}
  BY <1>2
<1>10. \A i \in 1..Len(own) : own[i] = none[i] + n * part[i]
  <2>. SUFFICES ASSUME NEW i \in 1..Len(sample) PROVE own[i] = none[i] + n * part[i]
    BY <1>5
  <2>1. CASE i \in C
    <3>1. own[i] = Points[i] /\ none[i] = 0 /\ part[i] = q * (Points[i] \div Scale)
      BY <1>4, <1>5, <1>6, <1>7, <2>1
    <3>2. Points[i] = n * (q * (Points[i] \div Scale)) /\ Points[i] \in Int
      BY <1>1, <1>3 DEF Parts
    <3>. QED BY <3>1, <3>2
  <2>2. CASE i \notin C
    <3>1. own[i] = 0 /\ none[i] = 0 /\ part[i] = 0
      BY <1>5, <1>6, <1>7, <2>2
    <3>. QED BY <1>9, <3>1
  <2>. QED BY <2>1, <2>2
<1>11. Total(own) = Total(none) + n * Total(part)
  <2>1. Len(none) = Len(own) /\ Len(part) = Len(own)
    BY <1>5, <1>6, <1>7
  <2>. QED BY <1>5, <1>6, <1>7, <1>9, <1>10, <2>1, TotalSums
<1>12. Total(part) \in Int
  BY <1>7, TotalType
<1>13. Total(own) = n * Total(part)
  <2>1. n * Total(part) \in Int
    BY <1>9, <1>12
  <2>. QED BY <1>8, <1>11, <2>1
<1>14. Mean(C) = Total(own) \div n
  <2>1. MapThenSumSet(Sampled, C) = Total(own)
    BY SampledSum DEF own
  <2>. QED BY <2>1 DEF Mean, n
<1>15. Mean(C) = Total(part)
  BY <1>9, <1>12, <1>13, <1>14, Whole
<1>. QED BY <1>12, <1>13, <1>15 DEF own, n

(* Every vector is in one cluster.                                         *)
LEMMA SizesAdd ==
  ASSUME NEW x \in Seq(Int), NEW n \in Nat, NEW a \in [1..Len(x) -> 1..n],
         NEW s \in Seq(Int), Len(s) = n,
         \A c \in 1..n : s[c] = Cardinality(Members(x, a, c))
  PROVE  Total(s) = Len(x)
<1>. DEFINE upTo(j) == {i \in 1..Len(x) : a[i] <= j}
            g == [j \in 0..n |-> Cardinality(upTo(j))]
<1>1. Len(x) \in Nat /\ \A i \in 1..Len(x) : a[i] \in 1..n
  OBVIOUS
<1>2. \A j \in 0..n : IsFiniteSet(upTo(j)) /\ Cardinality(upTo(j)) \in Nat
  <2>1. \A j \in 0..n : upTo(j) \in SUBSET (1..Len(x))
    OBVIOUS
  <2>. HIDE DEF upTo
  <2>. QED BY <1>1, <2>1, CountKept
<1>3. upTo(0) = {} /\ upTo(n) = 1..Len(x)
  BY <1>1
<1>4. ASSUME NEW j \in 1..n PROVE g[j] = g[j - 1] + s[j]
  <2>. DEFINE A == upTo(j - 1)
              B == Members(x, a, j)
  <2>1. j \in 0..n /\ j - 1 \in 0..n
    OBVIOUS
  <2>2. upTo(j) = A \cup B /\ A \cap B = {}
    BY <1>1 DEF Members
  <2>3. B \in SUBSET (1..Len(x))
    BY DEF Members
  <2>4. g[j] = Cardinality(upTo(j)) /\ g[j - 1] = Cardinality(A)
    BY <2>1
  <2>5. s[j] = Cardinality(B)
    OBVIOUS
  <2>6. IsFiniteSet(A) /\ Cardinality(A) \in Nat
    BY <1>2, <2>1
  <2>. HIDE DEF A, B, g, upTo
  <2>7. IsFiniteSet(B) /\ Cardinality(B) \in Nat
    BY <1>1, <2>3, CountKept
  <2>8. Cardinality(A \cup B) = Cardinality(A) + Cardinality(B) - Cardinality(A \cap B)
    BY <2>6, <2>7, FS_Union
  <2>9. Cardinality(A \cap B) = 0
    BY <2>2, FS_EmptySet
  <2>. QED BY <2>2, <2>4, <2>5, <2>6, <2>7, <2>8, <2>9
<1>5. g[0] = 0 /\ g[n] = Len(x) /\ g \in [0..n -> Int]
  <2>1. Cardinality({}) = 0 /\ Cardinality(1..Len(x)) = Len(x)
    BY <1>1, CountPlaces, FS_EmptySet
  <2>2. 0 \in 0..n /\ n \in 0..n
    OBVIOUS
  <2>3. g[0] = Cardinality(upTo(0)) /\ g[n] = Cardinality(upTo(n))
    BY <2>2
  <2>4. g \in [0..n -> Int]
    <3>. HIDE DEF upTo
    <3>. QED BY <1>2
  <2>. HIDE DEF upTo, g
  <2>. QED BY <1>3, <2>1, <2>3, <2>4
<1>. HIDE DEF g
<1>6. IsSeries(g, s)
  BY <1>4, <1>5 DEF IsSeries
<1>. QED BY <1>5, <1>6, SeriesTotal

LEMMA SizesSum ==
  ASSUME NEW s \in Seq(Int), DOMAIN Read.centroids = 1..Len(s),
         \A c \in 1..Len(s) : Read.centroids[c].cluster_size = s[c]
  PROVE  MapThenSumSet(LAMBDA c : Read.centroids[c].cluster_size, DOMAIN Read.centroids)
           = Total(s)
<1>. DEFINE n == Len(s)
            size(c) == Read.centroids[c].cluster_size
            Equation(g) ==
              g = [T \in SUBSET (1..n) |->
                     IF T = {} THEN 0
                     ELSE size(CHOOSE i \in T : TRUE) + g[T \ {CHOOSE i \in T : TRUE}]]
            chosen == CHOOSE g : Equation(g)
            g0 == [T \in SUBSET (1..n) |-> Total(Counted(s, T))]
<1>1. MapThenSumSet(LAMBDA c : Read.centroids[c].cluster_size, DOMAIN Read.centroids)
        = chosen[1..n]
  BY DEF MapThenSumSet, MapThenFoldSet
<1>2. \A c \in 1..n : size(c) = s[c]
  OBVIOUS
<1>. HIDE DEF size
<1>3. ASSUME NEW T \in SUBSET (1..n), T # {}
      PROVE  size(CHOOSE i \in T : TRUE) = s[CHOOSE i \in T : TRUE]
  <2>1. (CHOOSE i \in T : TRUE) \in 1..n
    BY <1>3
  <2>. QED BY <1>2, <2>1
<1>4. Equation(g0)
  <2>1. 1..n \in SUBSET (1..Len(s))
    OBVIOUS
  <2>2. Adds(g0, s, 1..n)
    BY <2>1, SumExists
  <2>3. \A T \in SUBSET (1..n) :
          g0[T] = IF T = {} THEN 0
                  ELSE size(CHOOSE i \in T : TRUE) + g0[T \ {CHOOSE i \in T : TRUE}]
    <3>. HIDE DEF g0
    <3>. QED BY <1>3, <2>2 DEF Adds
  <2>4. g0 = [T \in SUBSET (1..n) |-> g0[T]]
    OBVIOUS
  <2>. HIDE DEF g0
  <2>. QED BY <2>3, <2>4
<1>5. Equation(chosen)
  <2>. HIDE DEF Equation, g0
  <2>. QED BY <1>4
<1>6. Adds(chosen, s, 1..n)
  <2>. HIDE DEF chosen
  <2>1. ASSUME NEW T \in SUBSET (1..n)
        PROVE  chosen[T] = IF T = {} THEN 0
                 ELSE s[CHOOSE i \in T : TRUE] + chosen[T \ {CHOOSE i \in T : TRUE}]
    <3>1. chosen[T] = IF T = {} THEN 0
            ELSE size(CHOOSE i \in T : TRUE) + chosen[T \ {CHOOSE i \in T : TRUE}]
      BY <1>5
    <3>. QED BY <1>3, <3>1
  <2>. QED BY <2>1 DEF Adds
<1>7. chosen[1..n] = Total(Counted(s, 1..n))
  <2>. HIDE DEF chosen
  <2>. QED BY <1>6, SumIsTotal
<1>. HIDE DEF chosen
<1>. QED BY <1>1, <1>7, CountedAll

----------------------------------------------------------------------------
(* The top tags.                                                           *)

Occur(counts) == {t \in Tag : counts[t] > 0}

(* The tags as they are sorted, and as many of them as are kept.           *)
Ranks(at, counts) ==
  LET n == Cardinality(Occur(counts))
  IN  /\ Arranges(at, Occur(counts), counts)
      /\ Top(counts) = [i \in 1..Min({TopTags, n}) |->
                          [count |-> counts[at[i]], tag |-> at[i]]]

LEMMA TopRanks ==
  ASSUME NEW counts \in [Tag -> Nat]
  PROVE  /\ Cardinality(Occur(counts)) \in Nat
         /\ \E at : Ranks(at, counts)
<1>. DEFINE kept == Occur(counts)
            n == Cardinality(kept)
            items == [t \in Tag |-> t]
            keys == [t \in kept |-> counts[t]]
            sorted == Ordered(items, kept, counts)
<1>1. TagCount \in Nat /\ Tag = 1..TagCount
  BY SagaAssumption DEF SagaAssumption, Tag
<1>2. kept \in SUBSET (1..TagCount) /\ keys \in [kept -> Int]
  BY <1>1 DEF Occur
<1>3. n \in Nat
  BY <1>1, <1>2, CountKept
<1>4. \A t \in kept : keys[t] = counts[t] /\ items[t] = t /\ t \in Tag
  BY DEF Occur
<1>. HIDE DEF keys, items
<1>5. sorted = Ordered(items, kept, keys)
  <2>. DEFINE place == [i \in kept |-> Cardinality({j \in kept :
                         counts[j] > counts[i] \/ (counts[j] = counts[i] /\ j < i)}) + 1]
              other == [i \in kept |-> Cardinality({j \in kept :
                         keys[j] > keys[i] \/ (keys[j] = keys[i] /\ j < i)}) + 1]
  <2>1. \A i \in kept :
          {j \in kept : keys[j] > keys[i] \/ (keys[j] = keys[i] /\ j < i)}
            = {j \in kept : counts[j] > counts[i] \/ (counts[j] = counts[i] /\ j < i)}
    <3>. HIDE DEF kept
    <3>. QED BY <1>4
  <2>2. place = other
    BY <2>1
  <2>3. sorted = [j \in 1..n |-> items[CHOOSE i \in kept : place[i] = j]]
    BY DEF Ordered
  <2>4. Ordered(items, kept, keys) = [j \in 1..n |-> items[CHOOSE i \in kept : other[i] = j]]
    BY DEF Ordered
  <2>. HIDE DEF place, other
  <2>. QED BY <2>2, <2>3, <2>4
<1>6. Sorts(sorted, items, kept, keys)
  BY <1>1, <1>2, <1>5, OrderedIs
<1>7. PICK at : /\ Arranges(at, kept, keys)
                /\ sorted = [j \in 1..n |-> items[at[j]]]
  <2>. HIDE DEF kept, sorted
  <2>. QED BY <1>6 DEF Sorts
<1>8. at \in [1..n -> kept]
  <2>. HIDE DEF kept
  <2>. QED BY <1>7 DEF Arranges
<1>9. Arranges(at, kept, counts)
  <2>1. \A j, m \in 1..n : GoesBefore(keys, at[j], at[m]) => GoesBefore(counts, at[j], at[m])
    BY <1>4, <1>8 DEF GoesBefore
  <2>. HIDE DEF kept
  <2>. QED BY <1>7, <2>1 DEF Arranges
<1>10. \A j \in 1..n : sorted[j] = at[j]
  <2>. HIDE DEF kept, sorted
  <2>. QED BY <1>4, <1>7, <1>8
<1>11. Len(sorted) = n
  <2>. HIDE DEF kept, sorted, items
  <2>. QED BY <1>3, <1>7
<1>12. Top(counts) = [i \in 1..Min({TopTags, n}) |->
                        [count |-> counts[at[i]], tag |-> at[i]]]
  <2>1. Top(counts) = [i \in 1..Min({TopTags, Len(sorted)}) |->
                         [count |-> counts[sorted[i]], tag |-> sorted[i]]]
    BY DEF Top, Occur, items
  <2>2. \A i \in 1..Min({TopTags, n}) : i \in 1..n
    <3>1. TopTags \in Nat
      BY SagaAssumption DEF SagaAssumption
    <3>. HIDE DEF kept
    <3>2. Min({TopTags, n}) = IF TopTags < n THEN TopTags ELSE n
      BY <1>3, <3>1, Lesser
    <3>. QED BY <1>3, <3>1, <3>2
  <2>. HIDE DEF sorted, kept
  <2>. QED BY <1>10, <1>11, <2>1, <2>2
<1>13. Ranks(at, counts)
  BY <1>9, <1>12 DEF Ranks
<1>. QED BY <1>3, <1>13

LEMMA TopType ==
  ASSUME NEW counts \in [Tag -> Nat]
  PROVE  Top(counts) \in Seq(TagAggregate)
<1>. DEFINE n == Cardinality(Occur(counts))
            m == Min({TopTags, n})
<1>1. n \in Nat
  BY TopRanks
<1>2. PICK at : Ranks(at, counts)
  BY TopRanks
<1>3. m \in Nat /\ m <= n
  <2>1. TopTags \in Nat
    BY SagaAssumption DEF SagaAssumption
  <2>. HIDE DEF n
  <2>2. Min({TopTags, n}) = IF TopTags < n THEN TopTags ELSE n
    BY <1>1, <2>1, Lesser
  <2>. QED BY <1>1, <2>1, <2>2
<1>4. \A i \in 1..n : at[i] \in Tag /\ counts[at[i]] \in Nat
  BY <1>2 DEF Ranks, Arranges, Occur
<1>5. Top(counts) = [i \in 1..m |-> [count |-> counts[at[i]], tag |-> at[i]]]
  BY <1>2 DEF Ranks
<1>. HIDE DEF m, n
<1>6. \A i \in 1..m : [count |-> counts[at[i]], tag |-> at[i]] \in TagAggregate
  BY <1>1, <1>3, <1>4 DEF TagAggregate
<1>. QED BY <1>3, <1>5, <1>6

(* No tag that is left out goes before one that is kept.                   *)
LEMMA TopIsTop ==
  ASSUME NEW counts \in [Tag -> Nat]
  PROVE  LET top == Top(counts)
             kept == {top[i].tag : i \in DOMAIN top}
         IN  /\ Len(top) = Min({TopTags, Cardinality(Occur(counts))})
             /\ \A i \in DOMAIN top, u \in Tag \ kept :
                  \/ top[i].count > counts[u]
                  \/ top[i].count = counts[u] /\ top[i].tag < u
<1>. DEFINE n == Cardinality(Occur(counts))
            m == Min({TopTags, n})
            top == Top(counts)
            kept == {top[i].tag : i \in DOMAIN top}
<1>1. n \in Nat
  BY TopRanks
<1>2. PICK at : Ranks(at, counts)
  BY TopRanks
<1>3. m \in Nat /\ m <= n
  <2>1. TopTags \in Nat
    BY SagaAssumption DEF SagaAssumption
  <2>. HIDE DEF n
  <2>2. Min({TopTags, n}) = IF TopTags < n THEN TopTags ELSE n
    BY <1>1, <2>1, Lesser
  <2>. QED BY <1>1, <2>1, <2>2
<1>4. /\ \A i \in 1..n : at[i] \in Occur(counts)
      /\ \A t \in Occur(counts) : \E i \in 1..n : at[i] = t
      /\ \A i, j \in 1..n : i < j => GoesBefore(counts, at[i], at[j])
  BY <1>2 DEF Ranks, Arranges
<1>5. top = [i \in 1..m |-> [count |-> counts[at[i]], tag |-> at[i]]]
  BY <1>2 DEF Ranks
<1>. HIDE DEF m, n, top
<1>6. /\ DOMAIN top = 1..m /\ Len(top) = m
      /\ \A i \in 1..m : top[i].count = counts[at[i]] /\ top[i].tag = at[i]
  BY <1>3, <1>5
<1>7. ASSUME NEW i \in 1..m, NEW u \in Tag \ kept
      PROVE  \/ top[i].count > counts[u]
             \/ (top[i].count = counts[u] /\ top[i].tag < u)
  <2>1. i \in 1..n /\ at[i] \in Tag /\ counts[at[i]] \in Nat /\ counts[at[i]] > 0
    BY <1>1, <1>3, <1>4 DEF Occur
  <2>2. u \in Tag /\ counts[u] \in Nat
    OBVIOUS
  <2>3. CASE u \notin Occur(counts)
    <3>1. counts[u] = 0
      BY <2>2, <2>3 DEF Occur
    <3>. QED BY <1>6, <2>1, <3>1
  <2>4. CASE u \in Occur(counts)
    <3>1. PICK j \in 1..n : at[j] = u
      BY <1>4, <2>4
    <3>2. ~(j \in 1..m)
      BY <1>6, <3>1
    <3>3. i < j
      BY <1>1, <1>3, <3>2
    <3>4. GoesBefore(counts, at[i], u)
      BY <1>4, <2>1, <3>1, <3>3
    <3>. QED BY <1>6, <3>4 DEF GoesBefore
  <2>. QED BY <2>3, <2>4
<1>. QED BY <1>6, <1>7 DEF m, n, top

----------------------------------------------------------------------------
(* The inductive invariant.                                                *)

Sampling ==
  /\ vectors \in Seq(Point) /\ seen \in 0..Len(vectors)
  /\ sample \in Seq(1..seen) /\ Len(sample) = Min({seen, Reservoir})
  /\ pc \in {"sample", "seed", "assign", "update", "done", "built", "written"}
  /\ pc # "sample" => seen = Len(vectors)

Clusters ==
  /\ k \in 0..Len(sample) /\ centroids \in Seq(Int)
  /\ pc = "sample" => k = 0 /\ centroids = <<>>
  /\ pc = "seed" => centroids # <<>> /\ Len(centroids) <= k
  /\ pc \notin {"sample", "seed"} => Len(centroids) = k
  /\ pc \in {"assign", "update"} => k # 0
  /\ k = 0 /\ pc # "sample" => sample = <<>>

(* The first assignment was made.                                          *)
Begun == \/ pc \in {"update", "done", "built", "written"}
         \/ pc = "assign" /\ inertia # <<>>

Assigning ==
  IF Begun THEN assigned \in [1..Len(sample) -> 1..k]
           ELSE assigned = <<>> /\ inertia = <<>>

(* Where the next assignment starts from costs no more than the last one;  *)
(* so it cannot cost more, vector by vector.                               *)
Costing ==
  /\ inertia \in Seq(Nat) /\ CostFalls
  /\ pc = "assign" /\ inertia # <<>> =>
       Paid(Points, assigned, centroids) <= inertia[Len(inertia)]
  /\ pc = "update" => /\ inertia # <<>> /\ ~Converged(inertia)
                      /\ Paid(Points, assigned, centroids) = inertia[Len(inertia)]
  /\ pc \in {"done", "built", "written"} /\ Converged(inertia) => assigned = Assignment

Result ==
  [record_count |-> recordCount,
   centroids |-> [c \in DOMAIN centroids |->
                    [cluster_size |-> Cardinality(Cluster(c)), vector |-> centroids[c]]],
   tags |-> Top(tags)]

Building ==
  /\ recordCount \in DOMAIN DefaultK
  /\ tags \in [Tag -> 0..TagBound] /\ saga \in Saga /\ file \in Saga \cup {NoFile}
  /\ pc \in {"built", "written"} => saga = Result
  /\ pc = "written" => file = ToHull(saga)

BuildInv == Sampling /\ Clusters /\ Assigning /\ Costing /\ Building

LEMMA BuildInvInit ==
  ASSUME BuildInit
  PROVE  BuildInv
<1>0. /\ Reservoir \in Nat /\ TagBound \in Nat
  BY SagaAssumption DEF SagaAssumption
<1>1. vectors \in Seq(Point) /\ Len(vectors) \in Nat
  BY DEF BuildInit, BoundedSeq, SeqOf
<1>2. Min({0, Reservoir}) = 0
  <2>1. Min({0, Reservoir}) = IF 0 < Reservoir THEN 0 ELSE Reservoir
    BY <1>0, Lesser
  <2>. QED BY <1>0, <2>1
<1>3. Sampling
  BY <1>1, <1>2 DEF BuildInit, Sampling
<1>4. Clusters /\ Assigning
  BY DEF BuildInit, Clusters, Assigning, Begun
<1>5. Costing
  BY DEF BuildInit, Costing, CostFalls
<1>6. Building
  BY <1>0 DEF BuildInit, Building, EmptySaga, Saga
<1>. QED BY <1>3, <1>4, <1>5, <1>6 DEF BuildInv

LEMMA Widened ==
  ASSUME NEW T, NEW S \in SUBSET T, NEW s \in Seq(S)
  PROVE  s \in Seq(T)
OBVIOUS

LEMMA ItemsSeq ==
  ASSUME NEW n \in Nat, NEW S, NEW f \in [1..n -> S]
  PROVE  f \in Seq(S)
OBVIOUS

LEMMA SamplingDrawn ==
  ASSUME Sampling
  PROVE  /\ Drawn /\ Len(vectors) \in Nat /\ Len(sample) \in Nat
         /\ Len(sample) = (IF seen < Reservoir THEN seen ELSE Reservoir)
         /\ Len(sample) <= Reservoir
<1>1. Reservoir \in Nat /\ Len(vectors) \in Nat /\ seen \in 0..Len(vectors)
  BY SagaAssumption DEF SagaAssumption, Sampling
<1>2. Len(sample) = IF seen < Reservoir THEN seen ELSE Reservoir
  BY <1>1, Lesser DEF Sampling
<1>3. sample \in Seq(1..Len(vectors))
  <2>1. sample \in Seq(1..seen) /\ 1..seen \in SUBSET (1..Len(vectors))
    BY <1>1 DEF Sampling
  <2>. QED BY <2>1, Widened
<1>. QED BY <1>1, <1>2, <1>3 DEF Drawn, Sampling

(* reservoir_sample.                                                       *)
LEMMA SampleKeeps ==
  ASSUME BuildInv, Sample
  PROVE  BuildInv'
<1>0. /\ Reservoir \in Nat \ {0} /\ Len(vectors) \in Nat /\ seen \in 0..Len(vectors)
      /\ seen < Len(vectors) /\ seen' = seen + 1 /\ vectors' = vectors /\ pc' = pc
      /\ pc = "sample"
  BY SagaAssumption DEF SagaAssumption, BuildInv, Sampling, Sample, given
<1>1. /\ Len(sample) \in Nat /\ Len(sample) = IF seen < Reservoir THEN seen ELSE Reservoir
  BY SamplingDrawn DEF BuildInv
<1>2. sample \in Seq(1..seen')
  <2>1. sample \in Seq(1..seen) /\ 1..seen \in SUBSET (1..seen')
    BY <1>0 DEF BuildInv, Sampling
  <2>. QED BY <2>1, Widened
<1>3. seen + 1 \in 1..seen'
  BY <1>0
<1>4. /\ sample' \in Seq(1..seen')
      /\ Len(sample') = IF seen' < Reservoir THEN seen' ELSE Reservoir
  <2>1. CASE Len(sample) < Reservoir
    <3>1. sample' = Append(sample, seen + 1)
      BY <2>1 DEF Sample
    <3>. QED BY <1>0, <1>1, <1>2, <1>3, <2>1, <3>1
  <2>2. CASE ~(Len(sample) < Reservoir)
    <3>1. Len(sample) = Reservoir /\ Reservoir <= seen
      BY <1>0, <1>1, <2>2
    <3>2. PICK j \in 0..seen :
            sample' = IF j < Reservoir THEN [sample EXCEPT ![j + 1] = seen + 1] ELSE sample
      BY <2>2 DEF Sample
    <3>3. CASE j < Reservoir
      <4>1. j + 1 \in 1..Len(sample) /\ sample' = [sample EXCEPT ![j + 1] = seen + 1]
        BY <1>0, <3>1, <3>2, <3>3
      <4>2. sample' \in Seq(1..seen') /\ Len(sample') = Len(sample)
        BY <1>2, <1>3, <4>1
      <4>. QED BY <1>0, <3>1, <4>2
    <3>4. CASE ~(j < Reservoir)
      BY <1>0, <1>2, <3>1, <3>2, <3>4
    <3>. QED BY <3>3, <3>4
  <2>. QED BY <2>1, <2>2
<1>5. Min({seen', Reservoir}) = IF seen' < Reservoir THEN seen' ELSE Reservoir
  BY <1>0, Lesser
<1>6. Sampling'
  BY <1>0, <1>4, <1>5 DEF Sampling, BuildInv
<1>7. k = 0 /\ k' = k /\ centroids' = centroids /\ centroids = <<>> /\ assigned' = assigned
      /\ inertia' = inertia /\ inertia = <<>>
  BY <1>0 DEF BuildInv, Clusters, Assigning, Begun, Sample
<1>8. Clusters'
  BY <1>0, <1>4, <1>7 DEF Clusters, BuildInv
<1>9. Assigning'
  BY <1>0, <1>7 DEF BuildInv, Assigning, Begun
<1>10. Costing'
  BY <1>0, <1>7 DEF BuildInv, Costing, CostFalls
<1>11. Building'
  BY <1>0 DEF BuildInv, Building, Sample, outcome, given
<1>. QED BY <1>6, <1>8, <1>9, <1>10, <1>11 DEF BuildInv

(* kmeans_plus_plus_init, step by step.                                    *)
LEMMA SeedsKeep ==
  ASSUME BuildInv, FirstSeed \/ SeedAgain \/ NextSeed \/ Seeded
  PROVE  BuildInv'
<1>1. /\ pc \in {"sample", "seed"} /\ pc' \in {"seed", "assign"} /\ seen = Len(vectors)
      /\ assigned = <<>> /\ inertia = <<>>
      /\ UNCHANGED <<vectors, recordCount, seen, sample, assigned, inertia, tags, saga, file>>
  BY DEF BuildInv, Sampling, Assigning, Begun, FirstSeed, SeedAgain, NextSeed, Seeded, outcome,
         given
<1>2. Drawn /\ Len(sample) \in Nat
  BY SamplingDrawn DEF BuildInv
<1>3. Sampling'
  BY <1>1 DEF BuildInv, Sampling
<1>4. \A i \in DOMAIN sample : Sampled(i) \in Int
  BY <1>2, PointsType
<1>5. Clusters'
  <2>1. CASE FirstSeed
    <3>. DEFINE n == DefaultK[recordCount]
    <3>1. k' = Min({n, Len(sample)})
      BY <2>1 DEF FirstSeed
    <3>2. n \in Nat \ {0}
      BY SagaAssumption DEF SagaAssumption, BuildInv, Building
    <3>. HIDE DEF n
    <3>3. k' = IF n < Len(sample) THEN n ELSE Len(sample)
      BY <1>2, <3>1, <3>2, Lesser
    <3>4. Len(sample) # 0
      BY <1>2, <2>1 DEF FirstSeed, Drawn
    <3>5. PICK i \in DOMAIN sample : centroids' = <<Sampled(i)>>
      BY <2>1 DEF FirstSeed
    <3>6. centroids' \in Seq(Int) /\ Len(centroids') = 1 /\ centroids' # <<>>
      BY <1>4, <3>5
    <3>7. k' \in 1..Len(sample) /\ pc' = "seed" /\ sample' = sample
      BY <1>2, <2>1, <3>2, <3>3, <3>4 DEF FirstSeed
    <3>. QED BY <1>2, <3>6, <3>7 DEF Clusters
  <2>2. CASE SeedAgain \/ NextSeed
    <3>1. /\ pc = "seed" /\ pc' = "seed" /\ k' = k /\ sample' = sample
          /\ Len(centroids) < k /\ centroids \in Seq(Int) /\ centroids # <<>>
          /\ k \in 0..Len(sample)
      BY <2>2 DEF BuildInv, Clusters, SeedAgain, NextSeed
    <3>2. \E y \in Int : centroids' = Append(centroids, y)
      <4>1. CASE SeedAgain
        <5>1. centroids' = Append(centroids, Last(centroids)) /\ Last(centroids) \in Int
          BY <3>1, <4>1 DEF SeedAgain, Last
        <5>. QED BY <5>1
      <4>2. CASE NextSeed
        BY <1>4, <4>2 DEF NextSeed
      <4>. QED BY <2>2, <4>1, <4>2
    <3>3. centroids' \in Seq(Int) /\ Len(centroids') = Len(centroids) + 1 /\ centroids' # <<>>
      BY <3>1, <3>2
    <3>4. Len(centroids') <= k' /\ k' # 0
      BY <1>2, <3>1, <3>3
    <3>. QED BY <3>1, <3>3, <3>4 DEF Clusters
  <2>3. CASE Seeded
    <3>1. /\ pc = "seed" /\ pc' = "assign" /\ k' = k /\ sample' = sample
          /\ Len(centroids) = k /\ centroids' = centroids
          /\ centroids \in Seq(Int) /\ centroids # <<>> /\ k \in 0..Len(sample)
      BY <2>3 DEF BuildInv, Clusters, Seeded
    <3>2. k # 0
      BY <3>1
    <3>. QED BY <3>1, <3>2 DEF Clusters
  <2>. QED BY <2>1, <2>2, <2>3
<1>6. Assigning'
  BY <1>1 DEF Assigning, Begun
<1>7. Costing'
  BY <1>1 DEF BuildInv, Costing, CostFalls
<1>8. Building'
  BY <1>1 DEF BuildInv, Building
<1>. QED BY <1>3, <1>5, <1>6, <1>7, <1>8 DEF BuildInv

(* One more cost, no higher than the last.                                 *)
LEMMA FallsOn ==
  ASSUME NEW s \in Seq(Nat), NEW c \in Nat, \A i \in 2..Len(s) : s[i] <= s[i - 1],
         s # <<>> => c <= s[Len(s)]
  PROVE  LET r == Append(s, c)
         IN  /\ r \in Seq(Nat) /\ r # <<>> /\ r[Len(r)] = c /\ Len(r) = Len(s) + 1
             /\ \A i \in 2..Len(r) : r[i] <= r[i - 1]
<1>. DEFINE r == Append(s, c)
<1>1. /\ r \in Seq(Nat) /\ Len(r) = Len(s) + 1 /\ Len(s) \in Nat
      /\ r[Len(s) + 1] = c /\ \A i \in 1..Len(s) : r[i] = s[i]
  OBVIOUS
<1>. HIDE DEF r
<1>2. ASSUME NEW i \in 2..Len(r) PROVE r[i] <= r[i - 1]
  <2>1. CASE i <= Len(s)
    <3>1. i \in 2..Len(s) /\ i \in 1..Len(s) /\ i - 1 \in 1..Len(s)
      BY <1>1, <2>1
    <3>. QED BY <1>1, <3>1
  <2>2. CASE i = Len(s) + 1
    <3>1. i - 1 = Len(s) /\ i - 1 \in 1..Len(s) /\ s # <<>>
      BY <1>1, <2>2
    <3>. QED BY <1>1, <2>2, <3>1
  <2>. QED BY <1>1, <2>1, <2>2
<1>3. r # <<>> /\ r[Len(r)] = c
  BY <1>1
<1>. QED BY <1>1, <1>2, <1>3 DEF r

LEMMA PaidType ==
  ASSUME NEW x \in Seq(Int), NEW m \in Seq(Int), NEW a \in [1..Len(x) -> 1..Len(m)]
  PROVE  Paid(x, a, m) \in Int
<1>. DEFINE cost == [i \in 1..Len(x) |-> Distance(x[i], m[a[i]])]
<1>1. \A i \in 1..Len(x) : x[i] \in Int /\ a[i] \in 1..Len(m)
  OBVIOUS
<1>2. \A c \in 1..Len(m) : m[c] \in Int
  OBVIOUS
<1>3. \A i \in 1..Len(x) : Distance(x[i], m[a[i]]) \in Int
  BY <1>1, <1>2 DEF Distance
<1>4. cost \in Seq(Int)
  BY <1>3
<1>. HIDE DEF cost
<1>5. Paid(x, a, m) = Total(cost)
  BY DEF Paid, cost
<1>. QED BY <1>4, <1>5, TotalType

(* The nearest point costs least, vector by vector.                        *)
LEMMA NearestCostsLeast ==
  ASSUME Drawn, centroids \in Seq(Int), centroids # <<>>,
         NEW a \in [1..Len(sample) -> 1..Len(centroids)]
  PROVE  Paid(Points, Assignment, centroids) <= Paid(Points, a, centroids)
<1>. DEFINE n == Len(sample)
            near == [i \in 1..n |-> Distance(Points[i], centroids[Assignment[i]])]
            far == [i \in 1..n |-> Distance(Points[i], centroids[a[i]])]
<1>1. /\ n \in Nat /\ Len(Points) = n
      /\ \A i \in 1..n : Points[i] = Sampled(i) /\ Sampled(i) \in Int
  BY PointsType
<1>2. \A i \in 1..n : /\ Assignment[i] = Nearest(Sampled(i))
                      /\ Assignment[i] \in 1..Len(centroids) /\ a[i] \in 1..Len(centroids)
  BY AssignmentType
<1>3. \A c \in 1..Len(centroids) : centroids[c] \in Int
  OBVIOUS
<1>4. ASSUME NEW i \in 1..n
      PROVE  /\ Distance(Points[i], centroids[Assignment[i]]) \in Int
             /\ Distance(Points[i], centroids[a[i]]) \in Int
             /\ Distance(Points[i], centroids[Assignment[i]])
                  <= Distance(Points[i], centroids[a[i]])
  <2>1. /\ Points[i] \in Int /\ centroids[Assignment[i]] \in Int /\ centroids[a[i]] \in Int
    BY <1>1, <1>2, <1>3
  <2>2. /\ Distance(Points[i], centroids[Assignment[i]]) \in Nat
        /\ Distance(Points[i], centroids[a[i]]) \in Nat
    BY <2>1, Turns
  <2>3. Distance(Sampled(i), centroids[Nearest(Sampled(i))])
          <= Distance(Sampled(i), centroids[a[i]])
    BY <1>1, <1>2, NearestIs
  <2>. QED BY <1>1, <1>2, <2>2, <2>3
<1>5. /\ near \in Seq(Int) /\ far \in Seq(Int) /\ Len(near) = Len(far)
      /\ \A i \in 1..Len(near) : near[i] <= far[i]
  BY <1>1, <1>4
<1>6. Paid(Points, Assignment, centroids) = Total(near) /\ Paid(Points, a, centroids) = Total(far)
  BY <1>1 DEF Paid
<1>. HIDE DEF near, far
<1>. QED BY <1>5, <1>6, TotalRises

(* The assignment of kmeans_lloyd.                                         *)
LEMMA AssignKeeps ==
  ASSUME BuildInv, Assign
  PROVE  BuildInv'
<1>1. /\ pc = "assign" /\ pc' \in {"done", "update"} /\ assigned' = Assignment
      /\ inertia' = Append(inertia, Inertia)
      /\ pc' = "update" => ~Converged(inertia')
      /\ UNCHANGED <<vectors, recordCount, seen, sample, k, centroids, tags, saga, file>>
  BY DEF Assign, outcome, given
<1>2. Drawn /\ Len(sample) \in Nat
  BY SamplingDrawn DEF BuildInv
<1>3. /\ centroids \in Seq(Int) /\ Len(centroids) = k /\ k # 0 /\ centroids # <<>>
      /\ k \in 0..Len(sample)
  BY <1>1 DEF BuildInv, Clusters
<1>4. Inertia = Paid(Points, Assignment, centroids) /\ Inertia \in Nat
  BY <1>2, <1>3, InertiaIs
<1>5. Assignment \in [1..Len(sample) -> 1..k]
  BY <1>2, <1>3, AssignmentType
<1>6. inertia \in Seq(Nat) /\ \A i \in 2..Len(inertia) : inertia[i] <= inertia[i - 1]
  BY DEF BuildInv, Costing, CostFalls
<1>7. inertia # <<>> => Inertia <= inertia[Len(inertia)]
  <2>. SUFFICES ASSUME inertia # <<>> PROVE Inertia <= inertia[Len(inertia)]
    OBVIOUS
  <2>1. assigned \in [1..Len(sample) -> 1..Len(centroids)]
    BY <1>1, <1>3 DEF BuildInv, Assigning, Begun
  <2>2. Paid(Points, assigned, centroids) <= inertia[Len(inertia)]
    BY <1>1 DEF BuildInv, Costing
  <2>3. Paid(Points, Assignment, centroids) <= Paid(Points, assigned, centroids)
    BY <1>2, <1>3, <2>1, NearestCostsLeast
  <2>4. Paid(Points, assigned, centroids) \in Int
    <3>1. Points \in Seq(Int) /\ Len(Points) = Len(sample)
      BY <1>2, PointsType
    <3>. QED BY <1>3, <2>1, <3>1, PaidType
  <2>5. inertia[Len(inertia)] \in Nat
    BY <1>6
  <2>. QED BY <1>4, <2>2, <2>3, <2>4, <2>5
<1>8. /\ inertia' \in Seq(Nat) /\ inertia' # <<>> /\ inertia'[Len(inertia')] = Inertia
      /\ CostFalls'
  BY <1>1, <1>4, <1>6, <1>7, FallsOn DEF CostFalls
<1>9. Points' = Points /\ Assignment' = Assignment
  BY <1>1 DEF Points, Assignment, Sampled, Nearest
<1>10. Sampling'
  BY <1>1 DEF BuildInv, Sampling
<1>11. Clusters'
  BY <1>1, <1>3 DEF BuildInv, Clusters
<1>12. Assigning'
  BY <1>1, <1>5 DEF Assigning, Begun
<1>13. Costing'
  BY <1>1, <1>4, <1>8, <1>9 DEF Costing
<1>14. Building'
  BY <1>1 DEF BuildInv, Building
<1>. QED BY <1>10, <1>11, <1>12, <1>13, <1>14 DEF BuildInv

(* The update of kmeans_lloyd: the points move to the means.               *)
LEMMA UpdateKeeps ==
  ASSUME BuildInv, Update
  PROVE  BuildInv'
<1>1. /\ pc = "update" /\ pc' \in {"done", "assign"}
      /\ centroids' = [c \in DOMAIN centroids |-> Moved(c)]
      /\ UNCHANGED <<vectors, recordCount, seen, sample, k, assigned, inertia, tags, saga, file>>
  BY DEF Update, outcome, given
<1>2. Drawn /\ Len(sample) \in Nat /\ Len(sample) <= Reservoir
  BY SamplingDrawn DEF BuildInv
<1>3. /\ centroids \in Seq(Int) /\ Len(centroids) = k /\ k # 0 /\ k \in 0..Len(sample)
      /\ DOMAIN centroids = 1..k /\ k \in Nat
  <2>1. /\ centroids \in Seq(Int) /\ Len(centroids) = k /\ k # 0 /\ k \in 0..Len(sample)
    BY <1>1 DEF BuildInv, Clusters
  <2>. QED BY <1>2, <2>1
<1>4. assigned \in [1..Len(sample) -> 1..k] /\ DOMAIN assigned = 1..Len(sample)
  BY <1>1 DEF BuildInv, Assigning, Begun
<1>5. Points \in Seq(Int) /\ Len(Points) = Len(sample)
  BY <1>2, PointsType
<1>6. \A c : Cluster(c) = Members(Points, assigned, c)
  BY <1>4, <1>5 DEF Cluster, Members
<1>7. ASSUME NEW c \in 1..k
      PROVE  /\ Moved(c) \in Int
             /\ \/ Moved(c) = centroids[c]
                \/ Total(Counted(Points, Members(Points, assigned, c)))
                     = Cardinality(Members(Points, assigned, c)) * Moved(c)
  <2>1. Cluster(c) \in SUBSET (1..Len(sample))
    BY <1>4 DEF Cluster
  <2>2. CASE Cluster(c) = {}
    <3>1. Moved(c) = centroids[c] /\ centroids[c] \in Int
      BY <1>3, <2>2 DEF Moved
    <3>. QED BY <3>1
  <2>3. CASE Cluster(c) # {}
    <3>1. Moved(c) = Mean(Cluster(c))
      BY <2>3 DEF Moved
    <3>2. /\ Mean(Cluster(c)) \in Int
          /\ Total(Counted(Points, Cluster(c))) = Cardinality(Cluster(c)) * Mean(Cluster(c))
      BY <1>2, <2>1, <2>3, MeanIs
    <3>. QED BY <1>6, <3>1, <3>2
  <2>. QED BY <2>2, <2>3
<1>8. PICK w : w = [c \in 1..k |-> Moved(c)]
  OBVIOUS
<1>9. w \in [1..k -> Int] /\ \A c \in 1..k : w[c] = Moved(c)
  BY <1>7, <1>8
<1>10. centroids' = w /\ centroids' \in Seq(Int) /\ Len(centroids') = k
  BY <1>1, <1>3, <1>8, <1>9
<1>11. Paid(Points, assigned, w) <= Paid(Points, assigned, centroids)
  <2>1. assigned \in [1..Len(Points) -> 1..k] /\ centroids \in [1..k -> Int]
    BY <1>3, <1>4, <1>5
  <2>2. \A c \in 1..k :
          \/ w[c] = centroids[c]
          \/ Total(Counted(Points, Members(Points, assigned, c)))
               = Cardinality(Members(Points, assigned, c)) * w[c]
    BY <1>7, <1>9
  <2>. QED BY <1>3, <1>5, <1>9, <2>1, <2>2, MovesImprove
<1>12. Points' = Points
  BY <1>1 DEF Points, Sampled
<1>13. /\ inertia \in Seq(Nat) /\ inertia # <<>> /\ ~Converged(inertia) /\ CostFalls
       /\ Paid(Points, assigned, centroids) = inertia[Len(inertia)]
  BY <1>1 DEF BuildInv, Costing
<1>14. Sampling'
  BY <1>1 DEF BuildInv, Sampling
<1>15. Clusters'
  BY <1>1, <1>3, <1>10 DEF Clusters
<1>16. Assigning'
  BY <1>1, <1>4, <1>13 DEF Assigning, Begun
<1>17. Costing'
  <2>1. Paid(Points, assigned, centroids)' <= inertia[Len(inertia)]
    BY <1>1, <1>10, <1>11, <1>12, <1>13
  <2>2. ~Converged(inertia)' /\ CostFalls'
    BY <1>1, <1>13 DEF Converged, CostFalls
  <2>. QED BY <1>1, <1>13, <2>1, <2>2 DEF Costing
<1>18. Building'
  BY <1>1 DEF BuildInv, Building
<1>. QED BY <1>14, <1>15, <1>16, <1>17, <1>18 DEF BuildInv

(* build_saga_from_tenant returns.                                         *)
LEMMA BuildKeeps ==
  ASSUME BuildInv, Build
  PROVE  BuildInv'
<1>1. /\ pc' = "built" /\ saga' = Result' /\ tags' \in [Tag -> 0..TagBound]
      /\ pc = "done" \/ (pc = "sample" /\ seen = Len(vectors) /\ sample = <<>>)
      /\ UNCHANGED <<vectors, recordCount, seen, sample, k, centroids, assigned, inertia, file>>
  BY DEF Build, Result, Cluster, given
<1>2. Drawn /\ Len(sample) \in Nat /\ Len(vectors) \in Nat
  BY SamplingDrawn DEF BuildInv
<1>3. /\ k \in 0..Len(sample) /\ centroids \in Seq(Int) /\ Len(centroids) = k
      /\ k = 0 => sample = <<>>
  <2>1. CASE pc = "done"
    BY <2>1 DEF BuildInv, Clusters
  <2>2. CASE pc = "sample" /\ sample = <<>>
    BY <2>2 DEF BuildInv, Clusters
  <2>. QED BY <1>1, <2>1, <2>2
<1>4. assigned \in [1..Len(sample) -> 1..k]
  <2>1. CASE pc = "done"
    BY <2>1 DEF BuildInv, Assigning, Begun
  <2>2. CASE pc = "sample" /\ sample = <<>>
    <3>1. assigned = <<>> /\ Len(sample) = 0
      BY <2>2 DEF BuildInv, Assigning, Begun
    <3>2. 1..Len(sample) = {} /\ assigned = [i \in 1..Len(sample) |-> i]
      BY <3>1
    <3>. QED BY <3>2
  <2>. QED BY <1>1, <2>1, <2>2
<1>5. Sampling'
  BY <1>1 DEF BuildInv, Sampling
<1>6. Clusters'
  BY <1>1, <1>3 DEF Clusters
<1>7. Assigning'
  BY <1>1, <1>4 DEF Assigning, Begun
<1>8. Costing'
  <2>1. inertia \in Seq(Nat) /\ CostFalls
    BY DEF BuildInv, Costing
  <2>2. CostFalls' /\ Converged(inertia)' = Converged(inertia)
    BY <1>1, <2>1 DEF CostFalls, Converged
  <2>3. Converged(inertia) => assigned = Assignment
    <3>1. CASE pc = "done"
      BY <3>1 DEF BuildInv, Costing
    <3>2. CASE pc = "sample"
      <4>1. inertia = <<>>
        BY <3>2 DEF BuildInv, Assigning, Begun
      <4>. QED BY <4>1 DEF Converged
    <3>. QED BY <1>1, <3>1, <3>2
  <2>4. Assignment' = Assignment
    BY <1>1 DEF Assignment, Sampled, Nearest
  <2>. QED BY <1>1, <2>1, <2>2, <2>3, <2>4 DEF Costing
<1>9. Building'
  <2>1. Top(tags') \in Seq(TagAggregate)
    <3>1. TagBound \in Nat
      BY SagaAssumption DEF SagaAssumption
    <3>2. tags' \in [Tag -> Nat]
      BY <1>1, <3>1
    <3>. QED BY <3>2, TopType
  <2>2. \A c : Cardinality(Cluster(c)) \in Nat
    <3>1. \A c : Cluster(c) \in SUBSET (1..Len(sample))
      BY <1>4 DEF Cluster
    <3>. QED BY <1>2, <3>1, CountKept
  <2>3. [c \in DOMAIN centroids |->
           [cluster_size |-> Cardinality(Cluster(c)), vector |-> centroids[c]]]
          \in Seq(Centroid)
    <3>1. DOMAIN centroids = 1..Len(centroids) /\ Len(centroids) \in Nat
          /\ \A c \in 1..Len(centroids) : centroids[c] \in Int
      BY <1>3
    <3>. QED BY <2>2, <3>1 DEF Centroid
  <2>4. saga' = [record_count |-> recordCount,
                 centroids |-> [c \in DOMAIN centroids |->
                                  [cluster_size |-> Cardinality(Cluster(c)),
                                   vector |-> centroids[c]]],
                 tags |-> Top(tags')]
    BY DEF Build
  <2>5. saga' \in Saga
    <3>1. recordCount \in Nat
      BY SagaAssumption DEF SagaAssumption, BuildInv, Building
    <3>. QED BY <2>1, <2>3, <2>4, <3>1 DEF Saga
  <2>6. file' \in Saga \cup {NoFile}
    BY <1>1 DEF BuildInv, Building
  <2>7. recordCount' \in DOMAIN DefaultK
    BY <1>1 DEF BuildInv, Building
  <2>. QED BY <1>1, <2>5, <2>6, <2>7 DEF Building
<1>. QED BY <1>5, <1>6, <1>7, <1>8, <1>9 DEF BuildInv

(* The copies between the two forms of a saga lose nothing.                *)
LEMMA CopiesAgree ==
  ASSUME NEW s \in Saga
  PROVE  ToHull(s) = s /\ FromHull(s) = s
<1>1. /\ s = [record_count |-> s.record_count, centroids |-> s.centroids, tags |-> s.tags]
      /\ s.centroids \in Seq(Centroid) /\ s.tags \in Seq(TagAggregate)
  BY DEF Saga
<1>2. \A c \in Centroid : c = [cluster_size |-> c.cluster_size, vector |-> c.vector]
  BY DEF Centroid
<1>3. \A e \in TagAggregate : e = [count |-> e.count, tag |-> e.tag]
  BY DEF TagAggregate
<1>4. s.centroids = [c \in DOMAIN s.centroids |->
                       [cluster_size |-> s.centroids[c].cluster_size,
                        vector |-> s.centroids[c].vector]]
  <2>1. \A c \in DOMAIN s.centroids : s.centroids[c] \in Centroid
    BY <1>1
  <2>2. s.centroids = [c \in DOMAIN s.centroids |-> s.centroids[c]]
    BY <1>1
  <2>. QED BY <1>2, <2>1, <2>2
<1>5. s.tags = [t \in DOMAIN s.tags |-> [count |-> s.tags[t].count, tag |-> s.tags[t].tag]]
  <2>1. \A c \in DOMAIN s.tags : s.tags[c] \in TagAggregate
    BY <1>1
  <2>2. s.tags = [c \in DOMAIN s.tags |-> s.tags[c]]
    BY <1>1
  <2>. QED BY <1>3, <2>1, <2>2
<1>. QED BY <1>1, <1>4, <1>5 DEF ToHull, FromHull

LEMMA WriteKeeps ==
  ASSUME BuildInv, WriteToPath
  PROVE  BuildInv'
<1>1. /\ pc = "built" /\ pc' = "written" /\ file' = ToHull(saga)
      /\ UNCHANGED <<vectors, recordCount, seen, sample, k, centroids, assigned, inertia>>
      /\ UNCHANGED <<tags, saga>>
  BY DEF WriteToPath, given
<1>2. Sampling'
  BY <1>1 DEF BuildInv, Sampling
<1>3. Clusters'
  BY <1>1 DEF BuildInv, Clusters
<1>4. Assigning'
  BY <1>1 DEF BuildInv, Assigning, Begun
<1>5. Costing'
  <2>1. CostFalls' /\ Converged(inertia)' = Converged(inertia) /\ Assignment' = Assignment
    BY <1>1 DEF BuildInv, Costing, CostFalls, Converged, Assignment, Sampled, Nearest
  <2>. QED BY <1>1, <2>1 DEF BuildInv, Costing
<1>6. Building'
  <2>1. saga \in Saga /\ saga = Result /\ tags \in [Tag -> 0..TagBound]
    BY <1>1 DEF BuildInv, Building
  <2>2. Result' = Result
    BY <1>1 DEF Result, Cluster
  <2>3. file' \in Saga /\ file' = ToHull(saga)' /\ saga' = saga /\ tags' = tags
    BY <1>1, <2>1, CopiesAgree DEF ToHull
  <2>4. recordCount' \in DOMAIN DefaultK
    BY <1>1 DEF BuildInv, Building
  <2>. QED BY <1>1, <2>1, <2>2, <2>3, <2>4 DEF Building
<1>. QED BY <1>2, <1>3, <1>4, <1>5, <1>6 DEF BuildInv

LEMMA BuildInvNext ==
  ASSUME BuildInv, [BuildNext]_buildVars
  PROVE  BuildInv'
<1>1. CASE Sample
  BY <1>1, SampleKeeps
<1>2. CASE FirstSeed \/ SeedAgain \/ NextSeed \/ Seeded
  BY <1>2, SeedsKeep
<1>3. CASE Assign
  BY <1>3, AssignKeeps
<1>4. CASE Update
  BY <1>4, UpdateKeeps
<1>5. CASE Build
  BY <1>5, BuildKeeps
<1>6. CASE WriteToPath
  BY <1>6, WriteKeeps
<1>7. CASE UNCHANGED buildVars
  <2>1. /\ UNCHANGED <<vectors, recordCount, seen, sample, k, centroids, assigned, inertia>>
        /\ UNCHANGED <<pc, tags, saga, file>>
    BY <1>7 DEF buildVars, given
  <2>2. Sampling' /\ Clusters'
    BY <2>1 DEF BuildInv, Sampling, Clusters
  <2>3. Assigning'
    BY <2>1 DEF BuildInv, Assigning, Begun
  <2>4. Costing'
    <3>1. CostFalls' /\ Converged(inertia)' = Converged(inertia)
          /\ Assignment' = Assignment
      BY <2>1 DEF BuildInv, Costing, CostFalls, Converged, Assignment, Sampled, Nearest
    <3>2. Paid(Points, assigned, centroids)' = Paid(Points, assigned, centroids)
      BY <2>1 DEF Points, Sampled
    <3>. QED BY <2>1, <3>1, <3>2 DEF BuildInv, Costing
  <2>5. Building'
    <3>1. Result' = Result /\ ToHull(saga)' = ToHull(saga)
      BY <2>1 DEF Result, Cluster, ToHull
    <3>. QED BY <2>1, <3>1 DEF BuildInv, Building
  <2>. QED BY <2>2, <2>3, <2>4, <2>5 DEF BuildInv
<1>. QED BY <1>1, <1>2, <1>3, <1>4, <1>5, <1>6, <1>7 DEF BuildNext

(* What holds of every state of a build: where the sample, the seeds, the  *)
(* assignment, the costs and the saga stand in each stage.                 *)
THEOREM BuildInvAlways == BuildSpec => []BuildInv
<1>1. BuildInit => BuildInv
  BY BuildInvInit
<1>2. BuildInv /\ [BuildNext]_buildVars => BuildInv'
  BY BuildInvNext
<1>. QED BY <1>1, <1>2, PTL DEF BuildSpec

(* Every variable of a build has its type.                                 *)
THEOREM SagaTypeCorrect == BuildSpec => []BuildTypeOK
<1>1. ASSUME BuildInv PROVE BuildTypeOK
  <2>1. Sampling /\ Clusters /\ Assigning /\ Costing /\ Building
    BY <1>1 DEF BuildInv
  <2>2. assigned \in Seq(1..k)
    <3>1. Len(sample) \in Nat
      BY <2>1, SamplingDrawn
    <3>2. CASE Begun
      <4>1. assigned \in [1..Len(sample) -> 1..k]
        BY <2>1, <3>2 DEF Assigning
      <4>. QED BY <3>1, <4>1, ItemsSeq
    <3>3. CASE ~Begun
      BY <2>1, <3>3 DEF Assigning
    <3>. QED BY <3>2, <3>3
  <2>. QED BY <2>1, <2>2 DEF Sampling, Clusters, Costing, Building, BuildTypeOK
<1>. QED BY <1>1, BuildInvAlways, PTL

(* Lloyd's iterations never make a clustering worse: no assignment costs   *)
(* more than the one before it, for any number of vectors, clusters and    *)
(* iterations, with empty clusters, repeated seeds and ties.               *)
THEOREM CostNeverRises == BuildSpec => []CostFalls
<1>1. BuildInv => CostFalls
  BY DEF BuildInv, Costing
<1>. QED BY <1>1, BuildInvAlways, PTL

LEMMA SizesHold ==
  ASSUME BuildInv, pc = "written"
  PROVE  SizesTrue
<1>1. /\ Drawn /\ Len(sample) \in Nat /\ Len(vectors) \in Nat
      /\ Len(sample) = IF seen < Reservoir THEN seen ELSE Reservoir
  BY SamplingDrawn DEF BuildInv
<1>2. /\ k \in 0..Len(sample) /\ k \in Nat /\ centroids \in Seq(Int) /\ Len(centroids) = k
      /\ k = 0 => sample = <<>>
  BY <1>1 DEF BuildInv, Clusters
<1>3. assigned \in [1..Len(sample) -> 1..k] /\ DOMAIN assigned = 1..Len(sample)
  BY DEF BuildInv, Assigning, Begun
<1>4. Points \in Seq(Int) /\ Len(Points) = Len(sample)
  BY <1>1, PointsType
<1>5. \A c : Cluster(c) = Members(Points, assigned, c)
  BY <1>3, <1>4 DEF Cluster, Members
<1>6. saga \in Saga /\ saga = Result /\ Read = saga
  BY CopiesAgree DEF BuildInv, Building, Read
<1>7. Read.centroids = [c \in DOMAIN centroids |->
                          [cluster_size |-> Cardinality(Cluster(c)), vector |-> centroids[c]]]
  BY <1>6 DEF Result
<1>. DEFINE s == [c \in 1..k |-> Cardinality(Cluster(c))]
<1>8. /\ s \in Seq(Int) /\ Len(s) = k
      /\ \A c \in 1..k : s[c] = Cardinality(Cluster(c))
  <2>1. \A c : Cluster(c) \in SUBSET (1..Len(sample))
    BY <1>3 DEF Cluster
  <2>2. \A c : Cardinality(Cluster(c)) \in Nat
    BY <1>1, <2>1, CountKept
  <2>. QED BY <1>2, <2>2
<1>. HIDE DEF s
<1>9. /\ DOMAIN Read.centroids = 1..k
      /\ \A c \in 1..k : Read.centroids[c].cluster_size = s[c]
  <2>1. DOMAIN centroids = 1..k
    BY <1>2
  <2>. QED BY <1>7, <1>8, <2>1
<1>10. MapThenSumSet(LAMBDA c : Read.centroids[c].cluster_size, DOMAIN Read.centroids)
         = Len(sample)
  <2>1. MapThenSumSet(LAMBDA c : Read.centroids[c].cluster_size, DOMAIN Read.centroids)
          = Total(s)
    BY <1>8, <1>9, SizesSum
  <2>2. Total(s) = Len(Points)
    <3>1. assigned \in [1..Len(Points) -> 1..k]
      BY <1>3, <1>4
    <3>2. \A c \in 1..k : s[c] = Cardinality(Members(Points, assigned, c))
      BY <1>5, <1>8
    <3>. QED BY <1>2, <1>4, <1>8, <3>1, <3>2, SizesAdd
  <2>. QED BY <1>4, <2>1, <2>2
<1>11. Len(sample) = Min({Len(vectors), Reservoir})
  <2>1. seen = Len(vectors) /\ Reservoir \in Nat
    BY SagaAssumption DEF SagaAssumption, BuildInv, Sampling
  <2>2. Min({Len(vectors), Reservoir})
          = IF Len(vectors) < Reservoir THEN Len(vectors) ELSE Reservoir
    BY <1>1, <2>1, Lesser
  <2>. QED BY <1>1, <2>1, <2>2
<1>12. ASSUME Converged(inertia), NEW c \in DOMAIN Read.centroids
       PROVE  Read.centroids[c].cluster_size =
                Cardinality({i \in DOMAIN sample : Nearest(Sampled(i)) = c})
  <2>1. assigned = Assignment
    BY <1>12 DEF BuildInv, Costing
  <2>2. Cluster(c) = {i \in DOMAIN sample : Nearest(Sampled(i)) = c}
    BY <2>1 DEF Cluster, Assignment
  <2>. QED BY <1>8, <1>9, <2>2
<1>. QED BY <1>10, <1>11, <1>12 DEF SizesTrue

LEMMA TagsHold ==
  ASSUME BuildInv, pc = "written"
  PROVE  TagsTop
<1>1. tags \in [Tag -> Nat]
  <2>1. TagBound \in Nat
    BY SagaAssumption DEF SagaAssumption
  <2>. QED BY <2>1 DEF BuildInv, Building
<1>2. saga \in Saga /\ saga = Result /\ Read = saga
  BY CopiesAgree DEF BuildInv, Building, Read
<1>3. Read.tags = Top(tags)
  BY <1>2 DEF Result
<1>. DEFINE top == Top(tags)
            kept == {top[i].tag : i \in DOMAIN top}
<1>4. ToSet(top) = {top[i] : i \in DOMAIN top}
  BY DEF ToSet
<1>5. kept = {entry.tag : entry \in ToSet(top)}
  BY <1>4
<1>6. /\ Len(top) = Min({TopTags, Cardinality(Occur(tags))})
      /\ \A i \in DOMAIN top, u \in Tag \ kept :
           \/ top[i].count > tags[u]
           \/ top[i].count = tags[u] /\ top[i].tag < u
  BY <1>1, TopIsTop
<1>. HIDE DEF kept
<1>7. \A entry \in ToSet(top), u \in Tag \ kept :
        \/ entry.count > tags[u]
        \/ entry.count = tags[u] /\ entry.tag < u
  <2>. SUFFICES ASSUME NEW entry \in ToSet(top), NEW u \in Tag \ kept
                PROVE  \/ entry.count > tags[u]
                       \/ entry.count = tags[u] /\ entry.tag < u
    OBVIOUS
  <2>. HIDE DEF top
  <2>1. PICK i \in DOMAIN top : entry = top[i]
    BY <1>4
  <2>. QED BY <1>6, <2>1
<1>8. Occur(tags) = {t \in Tag : tags[t] > 0}
  BY DEF Occur
<1>. QED BY <1>3, <1>5, <1>6, <1>7, <1>8 DEF TagsTop

(* The clusters and tags of the saga peers read are true of what it was    *)
(* built from, for any vectors, any record count given with them, any      *)
(* draws and any bounds: cluster sizes add up to the sample and, once the  *)
(* iterations have converged, count the vectors nearest to each point; the *)
(* tags are those that occur most.                                         *)
THEOREM SagaAlwaysTrue == BuildSpec => []SagaTrue
<1>1. BuildInv => SagaTrue
  BY SizesHold, TagsHold DEF SagaTrue
<1>. QED BY <1>1, BuildInvAlways, PTL
=============================================================================
