----------------------------- MODULE Agent_proofs -----------------------------
(***************************************************************************)
(* What is proved of the asking side.  Of Agent, for any embeddings,       *)
(* processes, capacity, time to live and trial period: nothing idle or     *)
(* outdated is served from the cache, and manifests count honestly.  And   *)
(* of ContextBuilder, for any corpus, scores and options: a bundle tells   *)
(* where everything in it comes from, repeats nothing, is as full as its   *)
(* budget allows, and accounts for every hit.                              *)
(***************************************************************************)
EXTENDS Agent, DataLemmas, ContextBuilder

(* What is kept of a cache that is in order: the back was used last, and a *)
(* hit makes an entry no older.                                            *)
InOrder(s) ==
  /\ s \in Seq(Entry) /\ Len(s) <= Capacity
  /\ \A i \in 1..Len(s) : s[i].idle <= s[i].age
  /\ \A i, j \in 1..Len(s) : i < j => s[i].idle >= s[j].idle

(* A bundle under way that a write has overtaken will be late.             *)
CacheInv ==
  /\ InOrder(entries) /\ StaleOnlyIfLate
  /\ asked \in Point \cup {Misfit, None}
  /\ got \in [old : BOOLEAN, late : BOOLEAN] /\ writing \in BOOLEAN
  /\ got.old => asked # None /\ (writing \/ got.late)
  /\ pc[Asker] \in {"queried", "insert"} => asked # None

Counter == {"total", "useful"}

FileType ==
  /\ file \in Manifest \cup {None, Torn} /\ tmp \in Manifest \cup {None, Torn}
  /\ fd \in [Proc -> {"closed", "tmp", "file", "unlinked"}]
  /\ pc \in [Proc -> {"idle", "queried", "insert", "truncate", "fill", "rename"}]
  /\ held \in [Proc -> Manifest] /\ begun \in Manifest /\ kept \in Manifest
  /\ overlapped \in BOOLEAN

(* Nothing that is, or may get, on disk counts a hit that was not there.   *)
Below(m, b) == m \in Manifest => \A c \in Counter : m[c] <= b[c]

BegunInv ==
  Below(file, begun) /\ Below(tmp, begun) /\ \A p \in Proc : Below(held[p], begun)

(* Where a process is between the read and the end of a bump.              *)
Busy == {"truncate", "fill", "rename"}

(* As long as no two bumps overlap: the one that is under way has the      *)
(* temporary file to itself, and read what is still in the manifest.       *)
AloneInv ==
  ~overlapped =>
    /\ file # Torn
    /\ \A p \in Proc : fd[p] = IF pc[p] = "fill" THEN "tmp" ELSE "closed"
    /\ \A p, q \in Proc : pc[p] \in Busy /\ pc[q] \in Busy => p = q
    /\ \A p \in Proc : pc[p] = "rename" => tmp = held[p]
    /\ \A c \in Counter : kept[c] <= Stored[c]
    /\ \A p \in Proc : pc[p] \in Busy => \A c \in Counter : Stored[c] <= held[p][c]

Inv == CacheInv /\ FileType /\ BegunInv /\ AloneInv

----------------------------------------------------------------------------
(* The cache.                                                              *)

(* All entries of s are entries of t.                                      *)
From(s, t) == \A i \in 1..Len(s) : \E j \in 1..Len(t) : s[i] = t[j]

LEMMA EntryType ==
  ASSUME NEW e \in Entry
  PROVE  /\ e.at \in Point /\ e.at \in Int
         /\ e.age \in 0..Ttl + 1 /\ e.idle \in 0..Ttl + 1
         /\ e.age \in Nat /\ e.idle \in Nat
         /\ e.old \in BOOLEAN /\ e.late \in BOOLEAN
<1>1. /\ e.at \in Point /\ e.age \in 0..Ttl + 1 /\ e.idle \in 0..Ttl + 1
      /\ e.old \in BOOLEAN /\ e.late \in BOOLEAN
  BY DEF Entry, Age
<1>2. e.at \in Int
  BY <1>1, CacheAssumption
<1>3. Ttl \in Nat
  BY CacheAssumption
<1>4. e.age \in Nat /\ e.idle \in Nat
  BY <1>1, <1>3
<1>. QED BY <1>1, <1>2, <1>4

(* The back of a cache is in order.                                        *)
LEMMA BackInOrder ==
  ASSUME NEW s, InOrder(s), NEW k \in 1..Len(s) + 1
  PROVE  /\ InOrder(SubSeq(s, k, Len(s))) /\ From(SubSeq(s, k, Len(s)), s)
         /\ Len(SubSeq(s, k, Len(s))) = Len(s) - k + 1
         /\ \A i \in 1..Len(s) - k + 1 : SubSeq(s, k, Len(s))[i] = s[k + i - 1]
<1>. DEFINE b == SubSeq(s, k, Len(s))
<1>1. s \in Seq(Entry) /\ Len(s) \in Nat /\ Len(s) <= Capacity
  BY DEF InOrder
<1>2. b \in Seq(Entry) /\ Len(b) = Len(s) - k + 1
  BY <1>1
<1>3. \A i \in 1..Len(b) : b[i] = s[k + i - 1] /\ k + i - 1 \in 1..Len(s)
  BY <1>1, <1>2
<1>. HIDE DEF b
<1>4. From(b, s)
  BY <1>3 DEF From
<1>5. InOrder(b)
  <2>1. Len(b) <= Capacity
    BY <1>1, <1>2, CacheAssumption
  <2>2. \A i \in 1..Len(b) : b[i].idle <= b[i].age
    BY <1>3 DEF InOrder
  <2>3. ASSUME NEW i \in 1..Len(b), NEW j \in 1..Len(b), i < j
        PROVE  b[i].idle >= b[j].idle
    <3>1. k + i - 1 < k + j - 1
      BY <2>3, <1>2, <1>1
    <3>. QED BY <3>1, <1>3 DEF InOrder
  <2>. QED BY <1>2, <2>1, <2>2, <2>3 DEF InOrder
<1>. QED BY <1>2, <1>3, <1>4, <1>5 DEF b

LEMMA EmptyInOrder == InOrder(<<>>)
BY CacheAssumption DEF InOrder

(* expire leaves the back of the cache, from an entry that is alive.       *)
LEMMA ExpiredInOrder ==
  ASSUME NEW s, InOrder(s)
  PROVE  /\ InOrder(Expired(s)) /\ From(Expired(s), s) /\ Len(Expired(s)) <= Len(s)
         /\ \A i \in 1..Len(Expired(s)) : Expired(s)[i].idle <= Ttl
<1>. DEFINE live == {i \in DOMAIN s : s[i].age <= Ttl}
            k == Min(live)
<1>1. s \in Seq(Entry) /\ Len(s) \in Nat /\ DOMAIN s = 1..Len(s)
  BY DEF InOrder
<1>2. CASE live = {}
  <2>1. Expired(s) = <<>>
    BY <1>2 DEF Expired
  <2>. QED BY <1>1, <2>1, EmptyInOrder DEF From
<1>3. CASE live # {}
  <2>1. k \in live /\ k \in 1..Len(s)
    <3>1. live \in SUBSET Nat
      BY <1>1
    <3>. HIDE DEF live
    <3>2. \E x \in live : \A y \in live : x <= y
      BY <1>3, <3>1, NatLeast
    <3>3. k \in live
      BY <3>2 DEF Min
    <3>. QED BY <1>1, <3>3 DEF live
  <2>2. Expired(s) = SubSeq(s, k, Len(s))
    BY <1>3 DEF Expired
  <2>3. s[k].age <= Ttl
    BY <2>1
  <2>. HIDE DEF k, live
  <2>4. /\ InOrder(Expired(s)) /\ From(Expired(s), s)
        /\ Len(Expired(s)) = Len(s) - k + 1
        /\ \A i \in 1..Len(s) - k + 1 : Expired(s)[i] = s[k + i - 1]
    BY <2>1, <2>2, BackInOrder
  <2>5. ASSUME NEW i \in 1..Len(s) - k + 1 PROVE s[k + i - 1].idle <= Ttl
    <3>1. k + i - 1 \in 1..Len(s) /\ (i = 1 \/ k < k + i - 1)
      BY <1>1, <2>1
    <3>2. s[k] \in Entry /\ s[k + i - 1] \in Entry
      BY <1>1, <2>1, <3>1
    <3>3. s[k].idle <= s[k].age /\ s[k + i - 1].idle <= s[k].idle
      <4>1. CASE i = 1
        BY <1>1, <2>1, <3>2, <4>1, EntryType DEF InOrder
      <4>2. CASE k < k + i - 1
        BY <2>1, <3>1, <4>2 DEF InOrder
      <4>. QED BY <3>1, <4>1, <4>2
    <3>. QED BY <2>3, <3>2, <3>3, EntryType, CacheAssumption
  <2>6. Len(Expired(s)) <= Len(s)
    BY <1>1, <2>1, <2>4
  <2>. QED BY <2>4, <2>5, <2>6
<1>. QED BY <1>2, <1>3

(* A hit moves to the back, where nothing has been idle for less.          *)
LEMMA TouchedInOrder ==
  ASSUME NEW s, InOrder(s), NEW k \in 1..Len(s)
  PROVE  /\ InOrder(Touched(s, k))
         /\ \A i \in 1..Len(Touched(s, k)) : \E j \in 1..Len(s) :
              /\ Touched(s, k)[i].old = s[j].old /\ Touched(s, k)[i].late = s[j].late
<1>. DEFINE e == [s[k] EXCEPT !.idle = 0]
            r == RemoveAt(s, k)
            t == Touched(s, k)
            n == Len(s)
            From_(i) == IF i < k THEN i ELSE i + 1
<1>1. s \in Seq(Entry) /\ n \in Nat /\ n <= Capacity /\ s[k] \in Entry
  BY DEF InOrder
<1>2. e \in Entry /\ e.idle = 0 /\ e.age = s[k].age /\ e.old = s[k].old /\ e.late = s[k].late
  <2>1. 0 \in Age
    BY CacheAssumption DEF Age
  <2>. QED BY <1>1, <2>1 DEF Entry
<1>3. /\ r \in Seq(Entry) /\ Len(r) = n - 1
      /\ \A i \in 1..n - 1 : r[i] = s[From_(i)] /\ From_(i) \in 1..n
  <2>. DEFINE a == SubSeq(s, 1, k - 1)
              z == SubSeq(s, k + 1, n)
  <2>1. a \in Seq(Entry) /\ Len(a) = k - 1 /\ \A i \in 1..k - 1 : a[i] = s[i]
    BY <1>1
  <2>2. z \in Seq(Entry) /\ Len(z) = n - k /\ \A i \in 1..n - k : z[i] = s[k + i]
    BY <1>1
  <2>3. r = a \o z
    BY DEF RemoveAt
  <2>. HIDE DEF r, a, z
  <2>4. /\ r \in Seq(Entry) /\ Len(r) = (k - 1) + (n - k)
        /\ \A i \in 1..k - 1 : r[i] = a[i]
        /\ \A j \in 1..n - k : r[(k - 1) + j] = z[j]
    <3>1. /\ r \in Seq(Entry) /\ Len(r) = Len(a) + Len(z)
          /\ \A i \in 1..Len(a) : r[i] = a[i]
          /\ \A j \in 1..Len(z) : r[Len(a) + j] = z[j]
      <4>0. a \in Seq(Entry) /\ z \in Seq(Entry)
        BY <2>1, <2>2
      <4>1. /\ a \o z \in Seq(Entry) /\ Len(a \o z) = Len(a) + Len(z)
            /\ \A i \in 1..Len(a) : (a \o z)[i] = a[i]
            /\ \A j \in 1..Len(z) : (a \o z)[Len(a) + j] = z[j]
        BY <4>0, Joined
      <4>. QED BY <2>3, <4>1
    <3>. QED BY <2>1, <2>2, <3>1
  <2>5. ASSUME NEW i \in 1..n - 1 PROVE r[i] = s[From_(i)] /\ From_(i) \in 1..n
    <3>1. CASE i < k
      BY <1>1, <2>1, <2>4, <3>1
    <3>2. CASE ~(i < k)
      <4>1. i - (k - 1) \in 1..n - k /\ (k - 1) + (i - (k - 1)) = i
            /\ k + (i - (k - 1)) = i + 1
        BY <1>1, <3>2
      <4>2. r[i] = z[i - (k - 1)] /\ z[i - (k - 1)] = s[i + 1]
        BY <2>2, <2>4, <4>1
      <4>. QED BY <1>1, <3>2, <4>2
    <3>. QED BY <3>1, <3>2
  <2>6. Len(r) = n - 1
    BY <1>1, <2>4
  <2>. QED BY <2>4, <2>5, <2>6
<1>4. t = Append(r, e)
  BY DEF Touched
<1>. HIDE DEF e, r, t
<1>5. /\ t \in Seq(Entry) /\ Len(t) = n /\ t[n] = e
      /\ \A i \in 1..n - 1 : t[i] = r[i]
  BY <1>1, <1>2, <1>3, <1>4
<1>6. \A i \in 1..n - 1 : t[i] = s[From_(i)] /\ From_(i) \in 1..n
  BY <1>3, <1>5
<1>7. \A i, j \in 1..n - 1 : i < j => From_(i) < From_(j)
  BY <1>1
<1>. HIDE DEF From_
<1>8. \A i \in 1..n : t[i].idle <= t[i].age
  <2>. SUFFICES ASSUME NEW i \in 1..n PROVE t[i].idle <= t[i].age
    OBVIOUS
  <2>1. CASE i = n
    BY <1>1, <1>2, <1>5, <2>1, EntryType
  <2>2. CASE i \in 1..n - 1
    BY <1>6, <2>2 DEF InOrder
  <2>. QED BY <1>1, <2>1, <2>2
<1>9. ASSUME NEW i \in 1..n, NEW j \in 1..n, i < j PROVE t[i].idle >= t[j].idle
  <2>1. i \in 1..n - 1
    BY <1>1, <1>9
  <2>2. CASE j = n
    <3>1. t[i] \in Entry
      BY <1>5
    <3>. QED BY <1>2, <1>5, <2>2, <3>1, EntryType
  <2>3. CASE j \in 1..n - 1
    BY <1>6, <1>7, <1>9, <2>1, <2>3 DEF InOrder
  <2>. QED BY <1>1, <2>2, <2>3
<1>10. InOrder(t)
  BY <1>1, <1>5, <1>8, <1>9 DEF InOrder
<1>11. ASSUME NEW i \in 1..n
       PROVE  \E j \in 1..n : t[i].old = s[j].old /\ t[i].late = s[j].late
  <2>1. CASE i = n
    BY <1>2, <1>5, <2>1
  <2>2. CASE i \in 1..n - 1
    BY <1>6, <2>2
  <2>. QED BY <1>1, <2>1, <2>2
<1>. QED BY <1>5, <1>10, <1>11 DEF t

(* What is inserted was used last.                                         *)
LEMMA InsertedInOrder ==
  ASSUME NEW s, InOrder(s), NEW x \in Point, NEW old \in BOOLEAN, NEW late \in BOOLEAN
  PROVE  /\ InOrder(Inserted(s, x, old, late))
         /\ \A i \in 1..Len(Inserted(s, x, old, late)) :
              LET e == Inserted(s, x, old, late)[i]
              IN  \/ e.old = old /\ e.late = late
                  \/ \E j \in 1..Len(s) : e = s[j]
<1>. DEFINE k == Max({1, Len(s) - Capacity + 2})
            b == SubSeq(s, k, Len(s))
            e == [at |-> x, age |-> 0, idle |-> 0, old |-> old, late |-> late]
            t == Inserted(s, x, old, late)
<1>1. s \in Seq(Entry) /\ Len(s) \in Nat /\ Len(s) <= Capacity
  BY DEF InOrder
<1>2. k \in 1..Len(s) + 1 /\ k >= Len(s) - Capacity + 2
  <2>1. k = IF 1 >= Len(s) - Capacity + 2 THEN 1 ELSE Len(s) - Capacity + 2
    BY <1>1, CacheAssumption, Greater
  <2>. QED BY <1>1, <2>1, CacheAssumption
<1>. HIDE DEF k
<1>3. /\ InOrder(b) /\ From(b, s) /\ Len(b) = Len(s) - k + 1
  BY <1>2, BackInOrder
<1>4. e \in Entry /\ e.idle = 0 /\ e.age = 0 /\ e.old = old /\ e.late = late
  BY CacheAssumption DEF Entry, Age
<1>5. t = Append(b, e)
  BY DEF Inserted, k
<1>. HIDE DEF e, b, t
<1>6. b \in Seq(Entry) /\ Len(b) \in Nat /\ Len(b) + 1 <= Capacity
  BY <1>1, <1>2, <1>3, CacheAssumption DEF InOrder
<1>7. /\ t \in Seq(Entry) /\ Len(t) = Len(b) + 1 /\ t[Len(b) + 1] = e
      /\ \A i \in 1..Len(b) : t[i] = b[i]
  BY <1>4, <1>5, <1>6
<1>8. \A i \in 1..Len(t) : i = Len(b) + 1 \/ i \in 1..Len(b)
  BY <1>6, <1>7
<1>9. \A i \in 1..Len(t) : t[i].idle <= t[i].age
  BY <1>3, <1>4, <1>7, <1>8 DEF InOrder
<1>10. ASSUME NEW i \in 1..Len(t), NEW j \in 1..Len(t), i < j
       PROVE  t[i].idle >= t[j].idle
  <2>1. i \in 1..Len(b)
    BY <1>6, <1>7, <1>10
  <2>2. CASE j = Len(b) + 1
    <3>1. t[i] \in Entry
      BY <1>7
    <3>. QED BY <1>4, <1>7, <2>2, <3>1, EntryType
  <2>3. CASE j \in 1..Len(b)
    BY <1>3, <1>7, <1>10, <2>1, <2>3 DEF InOrder
  <2>. QED BY <1>8, <2>2, <2>3
<1>11. InOrder(t)
  BY <1>6, <1>7, <1>9, <1>10 DEF InOrder
<1>12. \A i \in 1..Len(t) : \/ t[i].old = old /\ t[i].late = late
                            \/ \E j \in 1..Len(s) : t[i] = s[j]
  BY <1>3, <1>4, <1>7, <1>8 DEF From
<1>. QED BY <1>11, <1>12 DEF t

(* All entries age alike, up to the same limit.                            *)
LEMMA OlderInOrder ==
  ASSUME NEW s, InOrder(s)
  PROVE  /\ InOrder(Older(s)) /\ Len(Older(s)) = Len(s)
         /\ \A i \in 1..Len(s) : Older(s)[i].old = s[i].old /\ Older(s)[i].late = s[i].late
<1>. DEFINE t == Older(s)
            cut(a) == IF a <= Ttl THEN a + 1 ELSE Ttl + 1
<1>1. s \in Seq(Entry) /\ Len(s) \in Nat /\ Len(s) <= Capacity /\ DOMAIN s = 1..Len(s)
  BY DEF InOrder
<1>2. Ttl \in Nat
  BY CacheAssumption
<1>3. /\ \A a \in 0..Ttl + 1 : Min({a + 1, Ttl + 1}) = cut(a) /\ cut(a) \in 0..Ttl + 1
      /\ \A a, b \in 0..Ttl + 1 : a <= b => cut(a) <= cut(b)
  <2>1. \A a \in 0..Ttl + 1 : Min({a + 1, Ttl + 1}) = IF a + 1 < Ttl + 1 THEN a + 1 ELSE Ttl + 1
    BY <1>2, Lesser
  <2>. QED BY <1>2, <2>1
<1>4. t = [i \in 1..Len(s) |->
             [s[i] EXCEPT !.age = Min({s[i].age + 1, Ttl + 1}),
                          !.idle = Min({s[i].idle + 1, Ttl + 1})]]
  BY <1>1 DEF Older
<1>. HIDE DEF t, cut
<1>5. ASSUME NEW i \in 1..Len(s)
      PROVE  /\ t[i] \in Entry /\ t[i].age = cut(s[i].age) /\ t[i].idle = cut(s[i].idle)
             /\ t[i].old = s[i].old /\ t[i].late = s[i].late
  <2>. DEFINE e == s[i]
  <2>1. e \in Entry
    BY <1>1
  <2>2. t[i] = [e EXCEPT !.age = Min({e.age + 1, Ttl + 1}), !.idle = Min({e.idle + 1, Ttl + 1})]
    BY <1>4
  <2>. HIDE DEF e
  <2>3. t[i] = [e EXCEPT !.age = cut(e.age), !.idle = cut(e.idle)]
    BY <1>3, <2>1, <2>2, EntryType
  <2>4. cut(e.age) \in Age /\ cut(e.idle) \in Age
    BY <1>3, <2>1, EntryType DEF Age
  <2>5. /\ t[i] \in Entry /\ t[i].age = cut(e.age) /\ t[i].idle = cut(e.idle)
        /\ t[i].old = e.old /\ t[i].late = e.late
    BY <2>1, <2>3, <2>4 DEF Entry
  <2>. QED BY <2>5 DEF e
<1>6. t \in Seq(Entry) /\ Len(t) = Len(s)
  <2>1. DOMAIN t = 1..Len(s) /\ t = [i \in 1..Len(s) |-> t[i]]
    BY <1>4
  <2>2. t \in [1..Len(s) -> Entry]
    BY <1>5, <2>1
  <2>. QED BY <1>1, <2>2
<1>7. \A i \in 1..Len(s) : s[i].age \in 0..Ttl + 1 /\ s[i].idle \in 0..Ttl + 1
  BY <1>1, EntryType
<1>8. \A i \in 1..Len(t) : t[i].idle <= t[i].age
  BY <1>3, <1>5, <1>6, <1>7 DEF InOrder
<1>9. ASSUME NEW i \in 1..Len(t), NEW j \in 1..Len(t), i < j PROVE t[i].idle >= t[j].idle
  <2>1. s[i].idle >= s[j].idle
    BY <1>6, <1>9 DEF InOrder
  <2>2. s[j].idle <= s[i].idle
    BY <1>2, <1>6, <1>7, <2>1
  <2>3. cut(s[j].idle) <= cut(s[i].idle)
    BY <1>3, <1>6, <1>7, <2>2
  <2>4. cut(s[j].idle) \in 0..Ttl + 1 /\ cut(s[i].idle) \in 0..Ttl + 1
    BY <1>3, <1>6, <1>7
  <2>. QED BY <1>2, <1>5, <1>6, <2>3, <2>4
<1>10. InOrder(t)
  BY <1>1, <1>6, <1>8, <1>9 DEF InOrder
<1>. QED BY <1>5, <1>6, <1>10 DEF t

(* A write dates what is cached and leaves the rest of it alone.           *)
LEMMA DatedInOrder ==
  ASSUME NEW s, InOrder(s)
  PROVE  InOrder([i \in DOMAIN s |-> [s[i] EXCEPT !.old = TRUE]])
<1>. DEFINE t == [i \in DOMAIN s |-> [s[i] EXCEPT !.old = TRUE]]
<1>1. s \in Seq(Entry) /\ Len(s) \in Nat /\ Len(s) <= Capacity /\ DOMAIN s = 1..Len(s)
  BY DEF InOrder
<1>2. ASSUME NEW i \in 1..Len(s)
      PROVE  t[i] \in Entry /\ t[i].age = s[i].age /\ t[i].idle = s[i].idle
  <2>1. s[i] \in Entry
    BY <1>1
  <2>. QED BY <1>1, <2>1 DEF Entry
<1>3. t \in Seq(Entry) /\ Len(t) = Len(s)
  BY <1>1, <1>2
<1>. HIDE DEF t
<1>4. InOrder(t)
  BY <1>1, <1>2, <1>3 DEF InOrder
<1>. QED BY <1>4 DEF t

LEMMA ApartType ==
  ASSUME NEW x \in Int, NEW y \in Int PROVE Apart(x, y) \in Nat
<1>1. Apart(x, y) = IF x - y >= y - x THEN x - y ELSE y - x
  BY Greater DEF Apart
<1>. QED BY <1>1

(* There is a closest entry when there is a similar one.                   *)
LEMMA BestThere ==
  ASSUME NEW s, InOrder(s), NEW x \in Point, Similar(s, x) # {}
  PROVE  Best(s, x) \in 1..Len(s)
<1>. DEFINE near(i) == Apart(s[i].at, x)
            S == Similar(s, x)
            N == {near(i) : i \in S}
<1>1. s \in Seq(Entry) /\ DOMAIN s = 1..Len(s) /\ Len(s) \in Nat
  BY DEF InOrder
<1>2. S \subseteq 1..Len(s)
  BY <1>1 DEF Similar
<1>3. ASSUME NEW i \in S PROVE near(i) \in Nat
  <2>1. s[i] \in Entry
    BY <1>1, <1>2
  <2>2. s[i].at \in Int /\ x \in Int
    BY <2>1, EntryType, CacheAssumption
  <2>. QED BY <2>2, ApartType
<1>. HIDE DEF near
<1>4. PICK n \in N : \A m \in N : n <= m
  <2>1. N \in SUBSET Nat /\ N # {}
    BY <1>3
  <2>. HIDE DEF N
  <2>. QED BY <2>1, NatLeast
<1>. DEFINE T == {i \in S : near(i) = n}
<1>5. PICK i \in T : \A j \in T : i <= j
  <2>1. T \in SUBSET Nat /\ T # {}
    BY <1>1, <1>2, <1>4
  <2>. HIDE DEF T
  <2>. QED BY <2>1, NatLeast
<1>6. i \in S /\ \A j \in S : near(i) < near(j) \/ (near(i) = near(j) /\ i <= j)
  BY <1>3, <1>4, <1>5
<1>7. \E k \in Similar(s, x) : \A j \in Similar(s, x) :
        near(k) < near(j) \/ (near(k) = near(j) /\ k <= j)
  BY <1>6
<1>8. Best(s, x) \in Similar(s, x)
  BY <1>7 DEF Best, near
<1>. QED BY <1>2, <1>8

----------------------------------------------------------------------------
(* Every step keeps what is kept of the cache.                             *)

LEMMA CacheInit == Init => CacheInv
<1>. SUFFICES ASSUME Init PROVE CacheInv
  OBVIOUS
<1>1. /\ entries = <<>> /\ asked = None /\ writing = FALSE
      /\ got = [old |-> FALSE, late |-> FALSE] /\ pc = [p \in Proc |-> "idle"]
  BY DEF Init
<1>2. InOrder(entries) /\ StaleOnlyIfLate
  BY <1>1, EmptyInOrder DEF StaleOnlyIfLate
<1>3. pc[Asker] = "idle" /\ got.old = FALSE
  BY <1>1, AgentAssumption
<1>. QED BY <1>1, <1>2, <1>3 DEF CacheInv

(* Where Asker is after a step that leaves its cache alone.                *)
LEMMA CacheAside ==
  ASSUME CacheInv, UNCHANGED asking,
         pc'[Asker] \in {"queried", "insert"} => asked # None
  PROVE  CacheInv'
<1>1. entries' = entries /\ asked' = asked /\ got' = got /\ writing' = writing
  BY DEF asking
<1>2. StaleOnlyIfLate'
  BY <1>1 DEF CacheInv, StaleOnlyIfLate
<1>. QED BY <1>1, <1>2 DEF CacheInv

(* What goes on with some of the entries there were.                       *)
LEMMA CacheLess ==
  ASSUME CacheInv, InOrder(entries'), UNCHANGED writing,
         \A i \in 1..Len(entries') : \E j \in 1..Len(entries) :
           entries'[i].old = entries[j].old /\ entries'[i].late = entries[j].late
  PROVE  InOrder(entries)' /\ StaleOnlyIfLate'
<1>1. DOMAIN entries = 1..Len(entries) /\ DOMAIN entries' = 1..Len(entries')
  BY DEF CacheInv, InOrder
<1>. QED BY <1>1 DEF CacheInv, StaleOnlyIfLate

LEMMA CacheStep == CacheInv /\ FileType /\ [Next]_vars => CacheInv'
<1>. SUFFICES ASSUME CacheInv, FileType, [Next]_vars PROVE CacheInv'
  OBVIOUS
<1>. USE AgentAssumption
<1>1. InOrder(entries) /\ DOMAIN entries = 1..Len(entries) /\ Asker \in DOMAIN pc
  BY DEF CacheInv, InOrder, FileType
<1>2. /\ InOrder(Expired(entries)) /\ From(Expired(entries), entries)
      /\ Expired(entries) \in Seq(Entry)
  BY <1>1, ExpiredInOrder DEF InOrder
<1>3. ASSUME NEW x \in Point, Hit(x) PROVE CacheInv'
  <2>. DEFINE live == Expired(entries)
              k == Best(live, x)
  <2>1. /\ Similar(live, x) # {} /\ entries' = Touched(live, k)
        /\ UNCHANGED <<asked, got, writing, pc>>
    BY <1>3 DEF Hit
  <2>2. k \in 1..Len(live)
    BY <1>2, <2>1, BestThere
  <2>. HIDE DEF k
  <2>3. /\ InOrder(entries')
        /\ \A i \in 1..Len(entries') : \E j \in 1..Len(live) :
             entries'[i].old = live[j].old /\ entries'[i].late = live[j].late
    BY <1>2, <2>1, <2>2, TouchedInOrder
  <2>4. \A i \in 1..Len(entries') : \E j \in 1..Len(entries) :
          entries'[i].old = entries[j].old /\ entries'[i].late = entries[j].late
    <3>. TAKE i \in 1..Len(entries')
    <3>1. PICK j \in 1..Len(live) :
            entries'[i].old = live[j].old /\ entries'[i].late = live[j].late
      BY <2>3
    <3>2. PICK m \in 1..Len(entries) : live[j] = entries[m]
      BY <1>2 DEF From
    <3>. QED BY <3>1, <3>2
  <2>5. InOrder(entries)' /\ StaleOnlyIfLate'
    BY <2>1, <2>3, <2>4, CacheLess
  <2>. QED BY <2>1, <2>5 DEF CacheInv
<1>4. ASSUME UNCHANGED <<asked, got, writing, pc>>, entries' = Expired(entries)
      PROVE  CacheInv'
  <2>1. \A i \in 1..Len(entries') : \E j \in 1..Len(entries) :
          entries'[i].old = entries[j].old /\ entries'[i].late = entries[j].late
    BY <1>2, <1>4 DEF From
  <2>2. InOrder(entries)' /\ StaleOnlyIfLate'
    BY <1>2, <1>4, <2>1, CacheLess
  <2>. QED BY <1>4, <2>2 DEF CacheInv
<1>5. ASSUME NEW x \in Point \cup {Misfit}, Miss(x) PROVE CacheInv'
  <2>1. /\ entries' = entries \/ entries' = Expired(entries)
        /\ asked' = x /\ got' = [old |-> FALSE, late |-> FALSE]
        /\ pc' = [pc EXCEPT ![Asker] = "queried"] /\ UNCHANGED writing
    BY <1>5 DEF Miss, Goto
  <2>2. InOrder(entries) /\ From(entries, entries)
    BY <1>1 DEF From
  <2>3. InOrder(entries') /\ From(entries', entries)
    BY <1>2, <2>1, <2>2
  <2>4. \A i \in 1..Len(entries') : \E j \in 1..Len(entries) :
          entries'[i].old = entries[j].old /\ entries'[i].late = entries[j].late
    BY <2>3 DEF From
  <2>5. InOrder(entries)' /\ StaleOnlyIfLate'
    BY <2>1, <2>3, <2>4, CacheLess
  <2>6. asked' # None /\ got'.old = FALSE
    BY <2>1
  <2>. QED BY <2>1, <2>5, <2>6 DEF CacheInv
<1>6. CASE NoHits
  <2>1. pc[Asker] = "queried" /\ UNCHANGED asking
    BY <1>6 DEF NoHits
  <2>. QED BY <2>1, CacheAside DEF CacheInv
<1>7. CASE Insert
  <2>. DEFINE live == Expired(entries)
  <2>1. /\ pc[Asker] = "insert" /\ asked' = None
        /\ entries' = IF asked = Misfit THEN entries
                      ELSE Inserted(live, asked, got.old, got.late)
        /\ got' = [old |-> FALSE, late |-> FALSE]
        /\ pc' = [pc EXCEPT ![Asker] = "idle"] /\ UNCHANGED writing
    BY <1>7 DEF Insert, Goto
  <2>2. /\ asked # None /\ asked \in Point \cup {Misfit}
        /\ got.old \in BOOLEAN /\ got.late \in BOOLEAN
        /\ got.old => writing \/ got.late
    BY <2>1 DEF CacheInv
  <2>3. InOrder(entries)' /\ StaleOnlyIfLate'
    <3>1. CASE asked = Misfit
      BY <1>1, <2>1, <3>1, CacheLess
    <3>2. CASE asked # Misfit
      <4>1. /\ InOrder(entries')
            /\ \A i \in 1..Len(entries') :
                 \/ entries'[i].old = got.old /\ entries'[i].late = got.late
                 \/ \E j \in 1..Len(live) : entries'[i] = live[j]
        BY <1>2, <2>1, <2>2, <3>2, InsertedInOrder
      <4>2. ASSUME NEW i \in 1..Len(entries'), entries'[i].old
            PROVE  writing' \/ entries'[i].late
        <5>1. CASE entries'[i].old = got.old /\ entries'[i].late = got.late
          BY <2>1, <2>2, <4>2, <5>1
        <5>2. CASE \E j \in 1..Len(live) : entries'[i] = live[j]
          <6>1. PICK j \in 1..Len(entries) : entries'[i] = entries[j]
            BY <1>2, <5>2 DEF From
          <6>. QED BY <1>1, <2>1, <4>2, <6>1 DEF CacheInv, StaleOnlyIfLate
        <5>. QED BY <4>1, <5>1, <5>2
      <4>3. DOMAIN entries' = 1..Len(entries')
        BY <4>1 DEF InOrder
      <4>. QED BY <4>1, <4>2, <4>3 DEF StaleOnlyIfLate
    <3>. QED BY <3>1, <3>2
  <2>4. pc'[Asker] = "idle" /\ got'.old = FALSE
    BY <1>1, <2>1
  <2>. QED BY <2>1, <2>3, <2>4 DEF CacheInv
<1>8. CASE Write
  <2>1. /\ writing' = TRUE /\ got' = [got EXCEPT !.old = asked # None]
        /\ entries' = [i \in DOMAIN entries |-> [entries[i] EXCEPT !.old = TRUE]]
        /\ UNCHANGED <<asked, pc>>
    BY <1>8 DEF Write
  <2>2. InOrder(entries)' /\ StaleOnlyIfLate'
    BY <1>1, <2>1, DatedInOrder DEF StaleOnlyIfLate
  <2>3. got' \in [old : BOOLEAN, late : BOOLEAN] /\ got'.old = (asked # None)
    BY <2>1 DEF CacheInv
  <2>. QED BY <2>1, <2>2, <2>3 DEF CacheInv
<1>9. CASE InvalidateAll
  <2>1. /\ writing' = FALSE /\ got' = [got EXCEPT !.late = asked # None]
        /\ entries' = <<>> /\ UNCHANGED <<asked, pc>>
    BY <1>9 DEF InvalidateAll
  <2>2. InOrder(entries)' /\ StaleOnlyIfLate'
    BY <2>1, EmptyInOrder DEF StaleOnlyIfLate
  <2>3. /\ got' \in [old : BOOLEAN, late : BOOLEAN]
        /\ got'.old = got.old /\ got'.late = (asked # None)
    BY <2>1 DEF CacheInv
  <2>. QED BY <2>1, <2>2, <2>3 DEF CacheInv
<1>10. CASE CacheLen
  BY <1>4, <1>10 DEF CacheLen
<1>11. CASE Tick
  <2>1. entries' = Older(entries) /\ UNCHANGED <<asked, got, writing, pc>>
    BY <1>11 DEF Tick
  <2>2. /\ InOrder(entries') /\ Len(entries') = Len(entries)
        /\ \A i \in 1..Len(entries) :
             entries'[i].old = entries[i].old /\ entries'[i].late = entries[i].late
    BY <1>1, <2>1, OlderInOrder
  <2>3. InOrder(entries)' /\ StaleOnlyIfLate'
    BY <2>1, <2>2, CacheLess
  <2>. QED BY <2>1, <2>3 DEF CacheInv
<1>12. ASSUME NEW p \in Proc PROVE CountHits(p) \/ RecordUsefulHits(p) \/ Truncate(p)
                                   \/ Fill(p) => CacheInv'
  <2>1. ASSUME NEW where, where \notin {"queried", "insert"}, Goto(p, where), UNCHANGED asking
        PROVE  CacheInv'
    <3>1. pc'[Asker] \in {"queried", "insert"} => pc'[Asker] = pc[Asker]
      BY <1>1, <2>1 DEF Goto
    <3>. QED BY <2>1, <3>1, CacheAside DEF CacheInv
  <2>. QED BY <2>1 DEF CountHits, RecordUsefulHits, Bump, Truncate, Fill
<1>13. ASSUME NEW p \in Proc, Rename(p) \/ BumpFails(p) PROVE CacheInv'
  <2>1. Resume(p) /\ UNCHANGED asking
    BY <1>13 DEF Rename, BumpFails, Done
  <2>2. pc'[Asker] \in {"queried", "insert"} => asked # None \/ pc'[Asker] = pc[Asker]
    BY <1>1, <2>1 DEF Resume, Goto
  <2>. QED BY <2>1, <2>2, CacheAside DEF CacheInv
<1>14. ASSUME NEW p \in Proc, Die(p) PROVE CacheInv'
  <2>1. pc' = [pc EXCEPT ![p] = "idle"]
    BY <1>14 DEF Die, Goto
  <2>2. CASE p = Asker
    <3>1. /\ entries' = <<>> /\ asked' = None /\ writing' = FALSE
          /\ got' = [old |-> FALSE, late |-> FALSE]
      BY <1>14, <2>2 DEF Die
    <3>2. InOrder(entries)' /\ StaleOnlyIfLate'
      BY <3>1, EmptyInOrder DEF StaleOnlyIfLate
    <3>3. pc'[Asker] = "idle" /\ got'.old = FALSE
      BY <1>1, <2>1, <2>2, <3>1
    <3>. QED BY <3>1, <3>2, <3>3 DEF CacheInv
  <2>3. CASE p # Asker
    <3>1. UNCHANGED asking /\ pc'[Asker] = pc[Asker]
      BY <1>1, <1>14, <2>1, <2>3 DEF Die
    <3>. QED BY <3>1, CacheAside DEF CacheInv
  <2>. QED BY <2>2, <2>3
<1>15. CASE UNCHANGED vars
  <2>1. UNCHANGED asking /\ UNCHANGED pc
    BY <1>15 DEF vars, asking
  <2>. QED BY <2>1, CacheAside DEF CacheInv
<1>. QED BY <1>3, <1>5, <1>6, <1>7, <1>8, <1>9, <1>10, <1>11, <1>12, <1>13, <1>14, <1>15
         DEF Next

----------------------------------------------------------------------------
(* Manifests are functions from the counters to naturals.                  *)

LEMMA ManifestIs ==
  /\ Manifest = [Counter -> Nat] /\ Neutral \in Manifest
  /\ \A c \in Counter : Neutral[c] = 0
  /\ \A m \in Manifest : m.total = m["total"] /\ m.useful = m["useful"]
<1>1. \A m \in Manifest : m \in [Counter -> Nat]
  BY DEF Manifest, Counter
<1>2. \A m \in [Counter -> Nat] : m \in Manifest
  BY DEF Manifest, Counter
<1>3. Neutral \in [Counter -> Nat] /\ \A c \in Counter : Neutral[c] = 0
  BY DEF Neutral, Counter
<1>4. \A m \in Manifest : m.total = m["total"] /\ m.useful = m["useful"]
  BY DEF Manifest
<1>. QED BY <1>1, <1>2, <1>3, <1>4

(* What a read returns counts no hit that was not there.                   *)
LEMMA StoredBelow ==
  ASSUME FileType, BegunInv
  PROVE  /\ Stored \in Manifest /\ Below(Stored, begun)
         /\ file \in Manifest => Stored = file
         /\ file \in {None, Torn} => Stored = Neutral
<1>1. \A c \in Counter : begun[c] \in Nat
  BY ManifestIs DEF FileType
<1>2. Below(Neutral, begun)
  BY <1>1, ManifestIs DEF Below
<1>3. CASE file \in {None, Torn}
  <2>1. Stored = Neutral /\ file \notin Manifest
    BY <1>3, AgentAssumption DEF Stored, Manifest
  <2>. QED BY <1>2, <1>3, <2>1, ManifestIs
<1>4. CASE file \notin {None, Torn}
  <2>1. Stored = file /\ file \in Manifest
    BY <1>4 DEF Stored, FileType
  <2>. QED BY <1>4, <2>1 DEF BegunInv
<1>. QED BY <1>3, <1>4

FileInv == FileType /\ BegunInv /\ AloneInv

LEMMA FileInit == Init => FileInv
<1>. SUFFICES ASSUME Init PROVE FileInv
  OBVIOUS
<1>1. /\ file = None /\ tmp = None /\ begun = Neutral /\ kept = Neutral /\ overlapped = FALSE
      /\ fd = [p \in Proc |-> "closed"] /\ pc = [p \in Proc |-> "idle"]
      /\ held = [p \in Proc |-> Neutral]
  BY DEF Init
<1>2. FileType
  BY <1>1, ManifestIs DEF FileType
<1>3. Below(Neutral, begun)
  BY <1>1, ManifestIs DEF Below
<1>4. BegunInv
  BY <1>1, <1>3, AgentAssumption DEF BegunInv, Below, Manifest
<1>5. Stored = Neutral
  BY <1>1 DEF Stored
<1>6. file # Torn
  BY <1>1, AgentAssumption
<1>7. AloneInv
  BY <1>1, <1>5, <1>6, ManifestIs DEF AloneInv, Busy
<1>. QED BY <1>2, <1>4, <1>7 DEF FileInv

(* What keeps AloneInv when two bumps have overlapped: nothing is needed.  *)
LEMMA OverlapStays == FileType /\ [Next]_vars => overlapped \in BOOLEAN /\ (overlapped => overlapped')
BY DEF FileType, Next, vars, Hit, Miss, NoHits, Insert, Write, InvalidateAll, CacheLen, Tick,
       CountHits, RecordUsefulHits, Bump, Truncate, Fill, Rename, BumpFails, Die, manifests

(* Steps of Asker's that touch no manifest.                                *)
LEMMA FileAside ==
  ASSUME FileInv, UNCHANGED manifests,
         pc' \in [Proc -> {"idle", "queried", "insert", "truncate", "fill", "rename"}],
         \A p \in Proc : pc'[p] # pc[p] => pc[p] \notin Busy /\ pc'[p] \notin Busy
  PROVE  FileInv'
<1>1. /\ UNCHANGED <<file, tmp, fd, held, begun, kept, overlapped>>
  BY DEF manifests
<1>2. Stored' = Stored
  BY <1>1 DEF Stored
<1>3. FileType' /\ BegunInv'
  BY <1>1 DEF FileInv, FileType, BegunInv, Below
<1>4. ASSUME NEW p \in Proc
      PROVE  /\ pc'[p] \in Busy <=> pc[p] \in Busy
             /\ pc'[p] = "fill" <=> pc[p] = "fill"
             /\ pc'[p] = "rename" <=> pc[p] = "rename"
  <2>1. CASE pc'[p] = pc[p]
    BY <2>1 DEF Busy
  <2>2. CASE pc'[p] # pc[p]
    <3>1. pc[p] \notin Busy /\ pc'[p] \notin Busy
      BY <2>2
    <3>. QED BY <3>1 DEF Busy
  <2>. QED BY <2>1, <2>2
<1>5. ASSUME ~overlapped PROVE AloneInv'
  <2>1. /\ file # Torn
        /\ \A p \in Proc : fd[p] = IF pc[p] = "fill" THEN "tmp" ELSE "closed"
        /\ \A p, q \in Proc : pc[p] \in Busy /\ pc[q] \in Busy => p = q
        /\ \A p \in Proc : pc[p] = "rename" => tmp = held[p]
        /\ \A c \in Counter : kept[c] <= Stored[c]
        /\ \A p \in Proc : pc[p] \in Busy => \A c \in Counter : Stored[c] <= held[p][c]
    BY <1>5 DEF FileInv, AloneInv
  <2>2. \A p \in Proc : fd'[p] = IF pc'[p] = "fill" THEN "tmp" ELSE "closed"
    BY <1>1, <1>4, <2>1 DEF Busy
  <2>3. \A p, q \in Proc : pc'[p] \in Busy /\ pc'[q] \in Busy => p = q
    BY <1>4, <2>1 DEF Busy
  <2>4. \A p \in Proc : pc'[p] = "rename" => tmp' = held'[p]
    BY <1>1, <1>4, <2>1 DEF Busy
  <2>5. \A p \in Proc : pc'[p] \in Busy => \A c \in Counter : Stored'[c] <= held'[p][c]
    BY <1>1, <1>2, <1>4, <2>1 DEF Busy
  <2>. QED BY <1>1, <1>2, <2>1, <2>2, <2>3, <2>4, <2>5 DEF AloneInv
<1>. QED BY <1>1, <1>3, <1>5 DEF FileInv, AloneInv

(* A bump begins: what it is to write counts one more than what it read.   *)
LEMMA BumpKeeps ==
  ASSUME FileInv, NEW p \in Proc, pc[p] \notin Busy, NEW counter \in Counter, Bump(p, counter)
  PROVE  FileInv'
<1>. DEFINE more == [Stored EXCEPT ![counter] = @ + 1]
<1>1. /\ begun' = [begun EXCEPT ![counter] = @ + 1]
      /\ held' = [held EXCEPT ![p] = more]
      /\ overlapped' = (overlapped \/ \E q \in Proc \ {p} : pc[q] \in Busy)
      /\ pc' = [pc EXCEPT ![p] = "truncate"]
      /\ UNCHANGED <<file, tmp, fd, kept>>
  BY DEF Bump, Goto, Bumping, Busy
<1>2. FileType /\ BegunInv /\ AloneInv
  BY DEF FileInv
<1>3. Stored \in [Counter -> Nat] /\ begun \in [Counter -> Nat] /\ Manifest = [Counter -> Nat]
  BY <1>2, StoredBelow, ManifestIs DEF FileType
<1>4. /\ \A c \in Counter : Stored[c] \in Nat /\ begun[c] \in Nat /\ Stored[c] <= begun[c]
  BY <1>2, <1>3, StoredBelow DEF Below
<1>5. /\ more \in [Counter -> Nat] /\ begun' \in [Counter -> Nat]
      /\ \A c \in Counter : /\ begun[c] <= begun'[c] /\ Stored[c] <= more[c]
                             /\ more[c] <= begun'[c]
  BY <1>1, <1>3, <1>4
<1>. HIDE DEF more
<1>6. FileType'
  BY <1>1, <1>2, <1>3, <1>5 DEF FileType
<1>7. \A m : Below(m, begun) => Below(m, begun')
  <2>. SUFFICES ASSUME NEW m, Below(m, begun), m \in Manifest, NEW c \in Counter
                PROVE  m[c] <= begun'[c]
    BY DEF Below
  <2>1. m[c] <= begun[c]
    BY DEF Below
  <2>2. m[c] \in Nat /\ begun[c] \in Nat /\ begun'[c] \in Nat /\ begun[c] <= begun'[c]
    BY <1>3, <1>5
  <2>. QED BY <2>1, <2>2
<1>8. BegunInv'
  <2>1. Below(more, begun')
    BY <1>5 DEF Below
  <2>2. \A q \in Proc : held'[q] = more \/ held'[q] = held[q]
    BY <1>1, <1>2 DEF FileType
  <2>3. \A q \in Proc : Below(held'[q], begun')
    <3>. TAKE q \in Proc
    <3>1. CASE held'[q] = more
      BY <2>1, <3>1
    <3>2. CASE held'[q] = held[q]
      <4>1. Below(held[q], begun)
        BY <1>2 DEF BegunInv
      <4>. QED BY <1>7, <3>2, <4>1
    <3>. QED BY <2>2, <3>1, <3>2
  <2>4. Below(file', begun') /\ Below(tmp', begun')
    <3>1. Below(file, begun) /\ Below(tmp, begun) /\ file' = file /\ tmp' = tmp
      BY <1>1, <1>2 DEF BegunInv
    <3>. QED BY <1>7, <3>1
  <2>. QED BY <2>3, <2>4 DEF BegunInv
<1>9. ASSUME ~overlapped' PROVE AloneInv'
  <2>1. ~overlapped /\ \A q \in Proc \ {p} : pc[q] \notin Busy
    BY <1>1, <1>9
  <2>2. /\ file # Torn
        /\ \A q \in Proc : fd[q] = IF pc[q] = "fill" THEN "tmp" ELSE "closed"
        /\ \A q \in Proc : pc[q] = "rename" => tmp = held[q]
        /\ \A c \in Counter : kept[c] <= Stored[c]
    BY <1>2, <2>1 DEF AloneInv
  <2>3. pc'[p] = "truncate" /\ held'[p] = more /\ \A q \in Proc \ {p} : pc'[q] = pc[q]
    BY <1>1, <1>2 DEF FileType
  <2>4. \A q \in Proc : pc'[q] \in Busy => q = p
    BY <2>1, <2>3 DEF Busy
  <2>5. Stored' = Stored
    BY <1>1 DEF Stored
  <2>6. \A q \in Proc : pc[q] # "fill"
    BY <2>1 DEF Busy
  <2>7. \A q \in Proc : fd'[q] = IF pc'[q] = "fill" THEN "tmp" ELSE "closed"
    BY <1>1, <2>2, <2>3, <2>6
  <2>8. \A q \in Proc : pc'[q] # "rename"
    BY <2>1, <2>3 DEF Busy
  <2>9. \A q \in Proc : pc'[q] \in Busy => \A c \in Counter : Stored'[c] <= held'[q][c]
    BY <1>5, <2>3, <2>4, <2>5
  <2>. QED BY <1>1, <2>2, <2>4, <2>5, <2>7, <2>8, <2>9 DEF AloneInv
<1>. QED BY <1>6, <1>8, <1>9 DEF FileInv, AloneInv

(* The temporary file is created, or truncated, and opened.                *)
LEMMA TruncateKeeps ==
  ASSUME FileInv, NEW p \in Proc, Truncate(p)
  PROVE  FileInv'
<1>1. /\ pc[p] = "truncate" /\ tmp' = Torn /\ fd' = [fd EXCEPT ![p] = "tmp"]
      /\ pc' = [pc EXCEPT ![p] = "fill"]
      /\ UNCHANGED <<file, held, begun, kept, overlapped>>
  BY DEF Truncate, Goto
<1>2. FileType /\ BegunInv /\ AloneInv
  BY DEF FileInv
<1>3. FileType'
  BY <1>1, <1>2 DEF FileType
<1>4. BegunInv'
  BY <1>1, <1>2, AgentAssumption DEF BegunInv, Below, Manifest
<1>5. Stored' = Stored
  BY <1>1 DEF Stored
<1>6. ASSUME ~overlapped' PROVE AloneInv'
  <2>1. /\ pc'[p] = "fill" /\ fd'[p] = "tmp"
        /\ \A q \in Proc \ {p} : pc'[q] = pc[q] /\ fd'[q] = fd[q] /\ pc[q] \notin Busy
    BY <1>1, <1>2, <1>6 DEF FileType, AloneInv, Busy
  <2>2. \A q \in Proc : pc'[q] # "rename" /\ (pc'[q] \in Busy => q = p)
    BY <2>1 DEF Busy
  <2>3. \A q \in Proc : fd'[q] = IF pc'[q] = "fill" THEN "tmp" ELSE "closed"
    BY <1>1, <1>2, <1>6, <2>1 DEF AloneInv
  <2>4. \A c \in Counter : kept'[c] <= Stored'[c] /\ Stored'[c] <= held'[p][c]
    BY <1>1, <1>2, <1>5, <1>6 DEF AloneInv, Busy
  <2>5. file' # Torn
    BY <1>1, <1>2, <1>6 DEF AloneInv
  <2>. QED BY <2>2, <2>3, <2>4, <2>5 DEF AloneInv
<1>. QED BY <1>3, <1>4, <1>6 DEF FileInv, AloneInv

(* The new manifest goes where the descriptor leads.                       *)
LEMMA FillKeeps ==
  ASSUME FileInv, NEW p \in Proc, Fill(p)
  PROVE  FileInv'
<1>1. /\ pc[p] = "fill"
      /\ tmp' = IF fd[p] = "tmp" THEN held[p] ELSE tmp
      /\ file' = IF fd[p] = "file" THEN held[p] ELSE file
      /\ fd' = [fd EXCEPT ![p] = "closed"]
      /\ pc' = [pc EXCEPT ![p] = "rename"]
      /\ UNCHANGED <<held, begun, kept, overlapped>>
  BY DEF Fill, Goto
<1>2. FileType /\ BegunInv /\ AloneInv
  BY DEF FileInv
<1>3. FileType'
  BY <1>1, <1>2 DEF FileType
<1>4. BegunInv'
  BY <1>1, <1>2 DEF BegunInv
<1>5. ASSUME ~overlapped' PROVE AloneInv'
  <2>1. /\ pc'[p] = "rename" /\ fd'[p] = "closed"
        /\ \A q \in Proc \ {p} : pc'[q] = pc[q] /\ fd'[q] = fd[q] /\ pc[q] \notin Busy
    BY <1>1, <1>2, <1>5 DEF FileType, AloneInv, Busy
  <2>2. tmp' = held[p] /\ file' = file
    BY <1>1, <1>2, <1>5 DEF AloneInv
  <2>3. Stored' = Stored
    BY <2>2 DEF Stored
  <2>4. \A q \in Proc : pc'[q] \in Busy => q = p
    BY <2>1 DEF Busy
  <2>5. \A q \in Proc : fd'[q] = IF pc'[q] = "fill" THEN "tmp" ELSE "closed"
    BY <1>1, <1>2, <1>5, <2>1 DEF AloneInv, Busy
  <2>6. \A c \in Counter : kept'[c] <= Stored'[c] /\ Stored'[c] <= held'[p][c]
    BY <1>1, <1>2, <1>5, <2>3 DEF AloneInv, Busy
  <2>7. file' # Torn
    BY <1>1, <1>2, <1>5, <2>2 DEF AloneInv
  <2>8. \A q \in Proc : pc'[q] = "rename" => tmp' = held'[q]
    BY <1>1, <2>2, <2>4 DEF Busy
  <2>. QED BY <2>4, <2>5, <2>6, <2>7, <2>8 DEF AloneInv
<1>. QED BY <1>3, <1>4, <1>5 DEF FileInv, AloneInv

(* A process that holds nothing any more, and has not renamed.             *)
LEMMA GiveUpKeeps ==
  ASSUME FileInv, NEW p \in Proc, NEW where \in {"idle", "insert"},
         Goto(p, where), fd' = [fd EXCEPT ![p] = "closed"],
         held' = [held EXCEPT ![p] = Neutral],
         UNCHANGED <<file, tmp, begun, kept, overlapped>>
  PROVE  FileInv'
<1>1. pc' = [pc EXCEPT ![p] = where]
  BY DEF Goto
<1>2. FileType /\ BegunInv /\ AloneInv
  BY DEF FileInv
<1>3. FileType'
  BY <1>1, <1>2, ManifestIs DEF FileType
<1>4. Below(Neutral, begun)
  BY <1>2, StoredBelow, ManifestIs DEF FileType, Below
<1>5. BegunInv'
  BY <1>2, <1>4 DEF BegunInv, FileType
<1>6. Stored' = Stored
  BY DEF Stored
<1>7. ASSUME ~overlapped' PROVE AloneInv'
  <2>1. /\ pc'[p] = where /\ fd'[p] = "closed"
        /\ \A q \in Proc \ {p} : pc'[q] = pc[q] /\ fd'[q] = fd[q] /\ held'[q] = held[q]
    BY <1>1, <1>2 DEF FileType
  <2>2. where \notin Busy /\ where # "fill" /\ where # "rename"
    BY DEF Busy
  <2>3. /\ file # Torn
        /\ \A q \in Proc : fd[q] = IF pc[q] = "fill" THEN "tmp" ELSE "closed"
        /\ \A q, r \in Proc : pc[q] \in Busy /\ pc[r] \in Busy => q = r
        /\ \A q \in Proc : pc[q] = "rename" => tmp = held[q]
        /\ \A c \in Counter : kept[c] <= Stored[c]
        /\ \A q \in Proc : pc[q] \in Busy => \A c \in Counter : Stored[c] <= held[q][c]
    BY <1>2, <1>7 DEF AloneInv
  <2>4. \A q, r \in Proc : pc'[q] \in Busy /\ pc'[r] \in Busy => q = r
    BY <2>1, <2>2, <2>3
  <2>5. \A q \in Proc : fd'[q] = IF pc'[q] = "fill" THEN "tmp" ELSE "closed"
    BY <2>1, <2>2, <2>3
  <2>6. \A q \in Proc : pc'[q] = "rename" => tmp' = held'[q]
    BY <2>1, <2>2, <2>3
  <2>7. \A q \in Proc : pc'[q] \in Busy => \A c \in Counter : Stored'[c] <= held'[q][c]
    BY <1>6, <2>1, <2>2, <2>3
  <2>. QED BY <1>6, <2>3, <2>4, <2>5, <2>6, <2>7 DEF AloneInv
<1>. QED BY <1>3, <1>5, <1>7 DEF FileInv, AloneInv

(* Alone, a rename puts in place what counts all that was kept and more.   *)
LEMMA RenameKeeps ==
  ASSUME FileInv, NEW p \in Proc, Rename(p)
  PROVE  FileInv'
<1>. DEFINE where == IF p = Asker /\ asked # None THEN "insert" ELSE "idle"
<1>1. /\ pc[p] = "rename" /\ tmp # None /\ file' = tmp /\ tmp' = None
      /\ fd' = AfterRename /\ pc' = [pc EXCEPT ![p] = where]
      /\ kept' = [c \in DOMAIN kept |-> Max({kept[c], held[p][c]})]
      /\ held' = [held EXCEPT ![p] = Neutral]
      /\ UNCHANGED <<begun, overlapped>>
  BY DEF Rename, Done, Resume, Goto
<1>2. FileType /\ BegunInv /\ AloneInv
  BY DEF FileInv
<1>3. where \in {"idle", "insert"}
  OBVIOUS
<1>. HIDE DEF where
<1>4. Manifest = [Counter -> Nat] /\ Neutral \in Manifest /\ \A c \in Counter : Neutral[c] = 0
  BY ManifestIs
<1>5. \A c \in Counter : kept[c] \in Nat /\ held[p][c] \in Nat /\ begun[c] \in Nat
  BY <1>2, <1>4 DEF FileType
<1>6. /\ kept' \in Manifest
      /\ \A c \in Counter : kept'[c] = IF kept[c] >= held[p][c] THEN kept[c] ELSE held[p][c]
  <2>1. \A c \in Counter : Max({kept[c], held[p][c]})
                           = IF kept[c] >= held[p][c] THEN kept[c] ELSE held[p][c]
    BY <1>5, Greater
  <2>2. kept' = [c \in Counter |-> Max({kept[c], held[p][c]})]
    BY <1>1, <1>2, <1>4 DEF FileType
  <2>3. \A c \in Counter : kept'[c] = IF kept[c] >= held[p][c] THEN kept[c] ELSE held[p][c]
    BY <2>1, <2>2
  <2>4. DOMAIN kept' = Counter /\ \A c \in Counter : kept'[c] \in Nat
    BY <1>5, <2>2, <2>3
  <2>. QED BY <1>4, <2>2, <2>3, <2>4
<1>7. fd' \in [Proc -> {"closed", "tmp", "file", "unlinked"}]
  BY <1>1, <1>2 DEF AfterRename, FileType
<1>8. FileType'
  BY <1>1, <1>2, <1>3, <1>4, <1>6, <1>7 DEF FileType
<1>9. BegunInv'
  <2>1. Below(Neutral, begun)
    BY <1>4, <1>5 DEF Below
  <2>2. Below(None, begun)
    BY AgentAssumption DEF Below, Manifest
  <2>. QED BY <1>1, <1>2, <2>1, <2>2 DEF BegunInv, FileType
<1>10. ASSUME ~overlapped' PROVE AloneInv'
  <2>1. \A q \in Proc \ {p} : pc[q] \notin Busy
    BY <1>1, <1>2, <1>10 DEF AloneInv, Busy
  <2>2. \A q \in Proc : pc'[q] \notin Busy
    BY <1>1, <1>2, <1>3, <2>1 DEF Busy, FileType
  <2>3. \A q \in Proc : fd[q] = "closed"
    BY <1>1, <1>2, <1>10, <2>1 DEF AloneInv, Busy
  <2>4. \A q \in Proc : fd'[q] = "closed"
    BY <1>1, <2>3 DEF AfterRename
  <2>5. file' = held[p] /\ held[p] \in Manifest
    BY <1>1, <1>2, <1>10 DEF AloneInv, FileType
  <2>6. file' \notin {None, Torn} /\ Stored' = held[p]
    BY <2>5, AgentAssumption DEF Stored, Manifest
  <2>7. \A c \in Counter : kept[c] <= held[p][c]
    <3>1. \A c \in Counter : kept[c] <= Stored[c] /\ Stored[c] <= held[p][c]
      BY <1>1, <1>2, <1>10 DEF AloneInv, Busy
    <3>2. \A c \in Counter : Stored[c] \in Nat
      BY <1>2, <1>4, StoredBelow
    <3>. QED BY <1>5, <3>1, <3>2
  <2>8. \A c \in Counter : kept'[c] <= Stored'[c]
    BY <1>5, <1>6, <2>6, <2>7
  <2>. QED BY <2>2, <2>4, <2>6, <2>8 DEF AloneInv, Busy
<1>. QED BY <1>8, <1>9, <1>10 DEF FileInv, AloneInv

LEMMA FileStep == FileInv /\ [Next]_vars => FileInv'
<1>. SUFFICES ASSUME FileInv, [Next]_vars PROVE FileInv'
  OBVIOUS
<1>. USE AgentAssumption
<1>1. FileType
  BY DEF FileInv
<1>2. ASSUME UNCHANGED <<pc, manifests>> PROVE FileInv'
  BY <1>1, <1>2, FileAside DEF FileType
<1>3. ASSUME NEW x \in Point, Hit(x) PROVE FileInv'
  BY <1>2, <1>3 DEF Hit
<1>4. ASSUME NEW where \in {"queried", "idle", "insert"}, pc[Asker] \notin Busy,
             Goto(Asker, where), UNCHANGED manifests
      PROVE  FileInv'
  <2>1. pc' = [pc EXCEPT ![Asker] = where]
    BY <1>4 DEF Goto
  <2>2. where \notin Busy
    BY DEF Busy
  <2>3. pc' \in [Proc -> {"idle", "queried", "insert", "truncate", "fill", "rename"}]
    BY <1>1, <2>1 DEF FileType
  <2>4. \A p \in Proc : pc'[p] # pc[p] => pc[p] \notin Busy /\ pc'[p] \notin Busy
    BY <1>1, <1>4, <2>1, <2>2 DEF FileType
  <2>. QED BY <1>4, <2>3, <2>4, FileAside
<1>5. ASSUME NEW x \in Point \cup {Misfit}, Miss(x) PROVE FileInv'
  BY <1>4, <1>5 DEF Miss, Busy
<1>6. ASSUME NoHits \/ Insert PROVE FileInv'
  BY <1>4, <1>6 DEF NoHits, Insert, Busy
<1>7. ASSUME Write \/ InvalidateAll \/ CacheLen \/ Tick PROVE FileInv'
  BY <1>2, <1>7 DEF Write, InvalidateAll, CacheLen, Tick
<1>8. ASSUME NEW p \in Proc, CountHits(p) \/ RecordUsefulHits(p) PROVE FileInv'
  <2>1. pc[p] \notin Busy /\ \E counter \in Counter : Bump(p, counter)
    BY <1>8 DEF CountHits, RecordUsefulHits, Busy, Counter
  <2>. QED BY <2>1, BumpKeeps
<1>9. ASSUME NEW p \in Proc, BumpFails(p) PROVE FileInv'
  <2>. DEFINE where == IF p = Asker /\ asked # None THEN "insert" ELSE "idle"
  <2>1. /\ Goto(p, where) /\ fd' = [fd EXCEPT ![p] = "closed"]
        /\ held' = [held EXCEPT ![p] = Neutral]
        /\ UNCHANGED <<file, tmp, begun, kept, overlapped>>
    BY <1>9 DEF BumpFails, Done, Resume
  <2>2. where \in {"idle", "insert"}
    OBVIOUS
  <2>. HIDE DEF where
  <2>. QED BY <2>1, <2>2, GiveUpKeeps
<1>10. ASSUME NEW p \in Proc, Die(p) PROVE FileInv'
  BY <1>10, GiveUpKeeps DEF Die
<1>11. CASE UNCHANGED vars
  BY <1>2, <1>11 DEF vars, manifests
<1>. QED BY <1>3, <1>5, <1>6, <1>7, <1>8, <1>9, <1>10, <1>11,
            TruncateKeeps, FillKeeps, RenameKeeps DEF Next

----------------------------------------------------------------------------
(* The theorems.                                                           *)

LEMMA InvInit == Init => Inv
BY CacheInit, FileInit DEF Inv, FileInv

LEMMA InvStep == Inv /\ [Next]_vars => Inv'
BY CacheStep, FileStep DEF Inv, FileInv

(* The invariant the rest follows from.                                    *)
THEOREM AgentInvariant == Spec => []Inv
BY InvInit, InvStep, PTL DEF Spec

(* Asker's cache keeps to its capacity, and manifests to their counters.   *)
THEOREM AgentTypeCorrect == Spec => []TypeOK
<1>1. Inv => TypeOK
  BY DEF Inv, CacheInv, InOrder, FileType, TypeOK
<1>. QED BY <1>1, AgentInvariant, PTL

(* get serves no bundle that was neither inserted nor hit within the time  *)
(* to live.                                                                *)
THEOREM NothingIdleServed == Spec => []IdleNotServed
<1>1. Inv => IdleNotServed
  <2>. SUFFICES ASSUME Inv PROVE IdleNotServed
    OBVIOUS
  <2>1. /\ InOrder(Expired(entries))
        /\ \A i \in 1..Len(Expired(entries)) : Expired(entries)[i].idle <= Ttl
    BY ExpiredInOrder DEF Inv, CacheInv
  <2>. QED BY <2>1 DEF IdleNotServed, InOrder
<1>. QED BY <1>1, AgentInvariant, PTL

(* After a write and its invalidate_all the cache has no bundle from       *)
(* before, save from a query that was under way.                           *)
THEOREM NothingStaleKept == Spec => []StaleOnlyIfLate
<1>1. Inv => StaleOnlyIfLate
  BY DEF Inv, CacheInv
<1>. QED BY <1>1, AgentInvariant, PTL

(* A manifest counts no hit twice, and none is lost unless bumps overlap.  *)
THEOREM ManifestsCountHonestly == Spec => []CountersHonest
<1>1. Inv => CountersHonest
  <2>. SUFFICES ASSUME Inv PROVE CountersHonest
    OBVIOUS
  <2>1. FileType /\ BegunInv /\ AloneInv /\ DOMAIN begun = Counter
    BY ManifestIs DEF Inv, FileType
  <2>2. \A c \in Counter : Stored[c] \in Nat /\ kept[c] \in Nat /\ Stored[c] <= begun[c]
    BY <2>1, StoredBelow, ManifestIs DEF FileType, Below
  <2>. QED BY <2>1, <2>2 DEF CountersHonest, AloneInv
<1>. QED BY <1>1, AgentInvariant, PTL

(* What a factor is, of a manifest.                                        *)
LEMMA FactorBounds ==
  ASSUME NEW m \in Manifest, NEW recency \in Nat
  PROVE  LET factor == Factor(m, recency)
         IN  /\ factor \in 20..150
             /\ factor < 100 => m.total >= Trial /\ m.useful = 0
             /\ factor > 100 => m.useful > 0
             /\ m.useful = 0 /\ m.total > Trial => factor < 100
<1>. DEFINE factor == Factor(m, recency)
<1>1. m.total \in Nat /\ m.useful \in Nat /\ Trial \in Nat \ {0}
  BY AgentAssumption DEF Manifest
<1>2. CASE m.total = 0 \/ (m.useful = 0 /\ m.total < Trial)
  <2>1. factor = 100
    BY <1>2 DEF Factor
  <2>. HIDE DEF factor
  <2>2. ~(m.total > Trial)
    BY <1>1, <1>2
  <2>. QED BY <2>1, <2>2 DEF factor
<1>3. CASE m.useful = 0 /\ m.total >= Trial
  <2>. DEFINE over == Min({m.total - Trial, Trial})
  <2>1. over \in 0..Trial /\ (m.total > Trial => over > 0)
    <3>1. over = IF m.total - Trial < Trial THEN m.total - Trial ELSE Trial
      BY <1>1, Lesser
    <3>. QED BY <1>1, <1>3, <3>1
  <2>2. factor = (100 * Trial - 80 * over) \div Trial
    BY <1>1, <1>3 DEF Factor, over
  <2>. HIDE DEF over, factor
  <2>3. /\ factor \in Nat /\ Trial * factor <= 100 * Trial - 80 * over
        /\ 100 * Trial - 80 * over < Trial * (factor + 1)
    <3>1. \A a \in Nat, d \in Nat \ {0} :
            a \div d \in Nat /\ d * (a \div d) <= a /\ a < d * (a \div d + 1)
      OBVIOUS
    <3>2. 100 * Trial - 80 * over \in Nat
      BY <1>1, <2>1
    <3>. QED BY <1>1, <2>2, <3>1, <3>2
  <2>4. factor >= 20
    <3>1. SUFFICES ASSUME factor + 1 <= 20 PROVE FALSE
      BY <2>3
    <3>2. Trial * (factor + 1) <= Trial * 20
      BY <1>1, <2>3, <3>1
    <3>. QED BY <1>1, <2>1, <2>3, <3>2
  <2>5. factor <= 100 /\ (over > 0 => factor < 100)
    <3>1. ASSUME factor > 100 PROVE FALSE
      <4>1. Trial * factor > Trial * 100
        BY <1>1, <2>3, <3>1
      <4>. QED BY <1>1, <2>1, <2>3, <4>1
    <3>2. ASSUME over > 0, factor = 100 PROVE FALSE
      BY <1>1, <2>1, <2>3, <3>2
    <3>. QED BY <2>3, <3>1, <3>2
  <2>. QED BY <1>1, <1>3, <2>1, <2>3, <2>4, <2>5 DEF factor
<1>4. CASE m.total > 0 /\ m.useful > 0
  <2>. DEFINE q == (m.useful * recency) \div m.total
  <2>1. q \in Nat
    <3>1. \A a \in Nat, d \in Nat \ {0} : a \div d \in Nat
      OBVIOUS
    <3>2. m.useful * recency \in Nat
      BY <1>1
    <3>. QED BY <1>1, <1>4, <3>1, <3>2
  <2>2. factor = 100 + Min({50, q})
    BY <1>1, <1>4 DEF Factor
  <2>. HIDE DEF q, factor
  <2>3. Min({50, q}) = IF 50 < q THEN 50 ELSE q
    BY <2>1, Lesser
  <2>. QED BY <1>4, <2>1, <2>2, <2>3 DEF factor
<1>. QED BY <1>1, <1>2, <1>3, <1>4

(* A peer is weighed down for duds past its trial and only from the        *)
(* trial's last hit on, and up only for a useful hit.                      *)
THEOREM WeightIsEarned == Spec => []WeightEarned
<1>1. Inv => WeightEarned
  <2>. SUFFICES ASSUME Inv, NEW recency \in {0, 50, 100}
                PROVE  LET factor == Factor(Stored, recency)
                       IN  /\ factor \in 20..150
                           /\ factor < 100 => /\ begun.total >= Trial
                                              /\ ~overlapped => kept.useful = 0
                           /\ factor > 100 => begun.useful > 0
                           /\ ~overlapped /\ begun.useful = 0 /\ kept.total > Trial
                                => factor < 100
    BY DEF WeightEarned
  <2>. DEFINE factor == Factor(Stored, recency)
  <2>1. FileType /\ BegunInv /\ AloneInv
    BY DEF Inv
  <2>2. Stored \in Manifest /\ begun \in Manifest /\ kept \in Manifest
    BY <2>1, StoredBelow DEF FileType
  <2>3. /\ factor \in 20..150
        /\ factor < 100 => Stored.total >= Trial /\ Stored.useful = 0
        /\ factor > 100 => Stored.useful > 0
        /\ Stored.useful = 0 /\ Stored.total > Trial => factor < 100
    BY <2>2, FactorBounds
  <2>. HIDE DEF factor
  <2>4. Stored.total <= begun.total /\ Stored.useful <= begun.useful
    BY <2>1, <2>2, StoredBelow, ManifestIs DEF Below, Counter
  <2>5. ~overlapped => kept.useful <= Stored.useful /\ kept.total <= Stored.total
    BY <2>1, <2>2, ManifestIs DEF AloneInv, Counter
  <2>6. /\ Stored.total \in Nat /\ begun.total \in Nat /\ Trial \in Nat
        /\ Stored.useful \in Nat /\ begun.useful \in Nat
        /\ kept.useful \in Nat /\ kept.total \in Nat
    BY <2>2, AgentAssumption DEF Manifest
  <2>7. /\ factor \in 20..150
        /\ factor < 100 => begun.total >= Trial /\ (~overlapped => kept.useful = 0)
        /\ factor > 100 => begun.useful > 0
        /\ ~overlapped /\ begun.useful = 0 /\ kept.total > Trial => factor < 100
    BY <2>3, <2>4, <2>5, <2>6
  <2>. QED BY <2>7 DEF factor
<1>. QED BY <1>1, AgentInvariant, PTL

----------------------------------------------------------------------------
(* What contents cost.                                                     *)

Costs(c) == [i \in 1..Len(c) |-> Cost[c[i]]]

LEMMA CostsType ==
  ASSUME NEW c \in Seq(Sentence)
  PROVE  Costs(c) \in Seq(Nat) /\ Len(Costs(c)) = Len(c)
         /\ \A i \in 1..Len(c) : Cost[c[i]] \in Nat /\ Costs(c)[i] = Cost[c[i]]
<1>1. Len(c) \in Nat /\ \A i \in 1..Len(c) : Cost[c[i]] \in Nat
  BY ContextAssumption
<1>2. Costs(c) \in [1..Len(c) -> Nat]
  BY <1>1 DEF Costs
<1>3. Costs(c) \in Seq(Nat) /\ Len(Costs(c)) = Len(c)
  BY <1>1, <1>2
<1>. QED BY <1>1, <1>3 DEF Costs

LEMMA TokensTotal ==
  ASSUME NEW c \in Seq(Sentence)
  PROVE  Tokens(c) = Total(Costs(c))
<1>. DEFINE n == Len(c)
            step == [p \in Nat \X Sentence |-> p[1] + Cost[p[2]]]
            Equation(f) ==
              f = [t \in SUBSET (1..n) |->
                     IF t = {} THEN 0 ELSE f[t \ {Max(t)}] + Cost[c[Max(t)]]]
            f == CHOOSE f : Equation(f)
            g == [k \in 0..n |-> f[1..k]]
<1>1. n \in Nat /\ DOMAIN c = 1..n /\ \A i \in 1..n : c[i] \in Sentence
  OBVIOUS
<1>2. /\ step \in [Nat \X Sentence -> Nat]
      /\ \A m \in Nat, s \in Sentence : step[m, s] = m + Cost[s]
  <2>1. \A m \in Nat, s \in Sentence : m + Cost[s] \in Nat
    BY ContextAssumption
  <2>. QED BY <2>1
<1>. HIDE DEF step
<1>3. PICK h \in [SUBSET (1..n) -> Nat] : FoldSolution(h, c, 0, step)
  BY <1>2, FoldSolves
<1>. HIDE DEF n
<1>4. Equation(h)
  <2>1. ASSUME NEW t \in SUBSET (1..n)
        PROVE  h[t] = IF t = {} THEN 0 ELSE h[t \ {Max(t)}] + Cost[c[Max(t)]]
    <3>1. /\ t # {} => Max(t) \in 1..n
          /\ h[t] = IF t = {} THEN 0 ELSE step[h[t \ {Max(t)}], c[Max(t)]]
      BY <1>3 DEF FoldSolution, n
    <3>2. h[t \ {Max(t)}] \in Nat
      OBVIOUS
    <3>. QED BY <1>1, <1>2, <3>1, <3>2
  <2>. QED BY <2>1
<1>5. Equation(f)
  <2>. HIDE DEF Equation
  <2>. QED BY <1>4
<1>6. Tokens(c) = f[1..n]
  BY <1>1 DEF Tokens, FoldLeft, MapThenFoldSet
<1>. HIDE DEF f
<1>7. f[{}] = 0
  BY <1>5
<1>8. ASSUME NEW k \in 1..n PROVE f[1..k] = f[1..k - 1] + Cost[c[k]]
  <2>1. 1..k \in SUBSET (1..n) /\ 1..k # {} /\ Max(1..k) = k /\ (1..k) \ {k} = 1..k - 1
    BY <1>1, PrefixMax
  <2>. QED BY <1>5, <2>1
<1>9. \A k \in 0..n : f[1..k] \in Int
  <2>. DEFINE S == {k \in Nat : k <= n => f[1..k] \in Int}
  <2>1. 0 \in S
    <3>1. 1..0 = {}
      OBVIOUS
    <3>. QED BY <1>7, <3>1
  <2>2. ASSUME NEW k \in S PROVE k + 1 \in S
    <3>1. SUFFICES ASSUME k + 1 <= n PROVE f[1..k + 1] \in Int
      OBVIOUS
    <3>2. k + 1 \in 1..n /\ (k + 1) - 1 = k /\ f[1..k] \in Int
      BY <1>1, <3>1
    <3>3. Cost[c[k + 1]] \in Int
      BY <1>1, <3>2, ContextAssumption
    <3>4. f[1..k + 1] = f[1..k] + Cost[c[k + 1]]
      BY <1>8, <3>2
    <3>. QED BY <3>2, <3>3, <3>4
  <2>3. S \in SUBSET Nat
    OBVIOUS
  <2>. HIDE DEF S
  <2>4. S = Nat
    BY <2>1, <2>2, <2>3, NatStep
  <2>. QED BY <1>1, <2>4 DEF S
<1>10. IsSeries(g, Costs(c))
  <2>1. g \in [0..n -> Int]
    BY <1>9
  <2>2. g[0] = 0
    <3>1. 1..0 = {} /\ 0 \in 0..n
      BY <1>1
    <3>. QED BY <1>7, <3>1
  <2>3. ASSUME NEW k \in 1..n PROVE g[k] = g[k - 1] + Costs(c)[k]
    <3>1. k \in 0..n /\ k - 1 \in 0..n
      BY <1>1
    <3>2. Costs(c)[k] = Cost[c[k]]
      BY CostsType DEF n
    <3>. QED BY <1>8, <3>1, <3>2
  <2>. HIDE DEF g
  <2>. QED BY <2>1, <2>2, <2>3, CostsType DEF IsSeries, n
<1>11. g[n] = f[1..n]
  BY <1>1
<1>. HIDE DEF g
<1>12. Costs(c) \in Seq(Int) /\ Len(Costs(c)) = n
  BY CostsType DEF n
<1>. QED BY <1>6, <1>10, <1>11, <1>12, SeriesTotal

(* One more at the end of a series of numbers.                             *)
LEMMA TotalAppended ==
  ASSUME NEW s \in Seq(Nat), NEW x \in Nat
  PROVE  Append(s, x) \in Seq(Nat) /\ Total(Append(s, x)) = Total(s) + x
<1>. DEFINE r == Append(s, x)
<1>1. /\ r \in Seq(Nat) /\ r # <<>> /\ Len(r) = Len(s) + 1 /\ r[Len(r)] = x
      /\ SubSeq(r, 1, Len(r) - 1) \in Seq(Nat) /\ Len(SubSeq(r, 1, Len(r) - 1)) = Len(s)
      /\ \A i \in 1..Len(s) : SubSeq(r, 1, Len(r) - 1)[i] = s[i]
  OBVIOUS
<1>. HIDE DEF r
<1>2. SubSeq(r, 1, Len(r) - 1) = s
  BY <1>1, SameItems
<1>3. r \in Seq(Int) /\ Total(r) \in Int /\ Total(s) \in Int
  BY <1>1, TotalNatural
<1>4. Total(SubSeq(r, 1, Len(r) - 1)) = Total(r) - r[Len(r)]
  BY <1>1, <1>3, TotalFront
<1>5. Total(s) = Total(r) - x
  BY <1>1, <1>2, <1>4
<1>6. Total(r) = Total(s) + x
  BY <1>3, <1>5
<1>. QED BY <1>1, <1>6 DEF r

LEMMA TokensAppended ==
  ASSUME NEW c \in Seq(Sentence), NEW s \in Sentence
  PROVE  /\ Tokens(c) \in Nat /\ Cost[s] \in Nat
         /\ Tokens(Append(c, s)) = Tokens(c) + Cost[s]
<1>. DEFINE r == Append(c, s)
<1>1. /\ r \in Seq(Sentence) /\ Len(r) = Len(c) + 1 /\ Len(c) \in Nat
      /\ \A i \in 1..Len(c) : r[i] = c[i]
      /\ r[Len(c) + 1] = s
  OBVIOUS
<1>. HIDE DEF r
<1>2. /\ Costs(c) \in Seq(Nat) /\ Costs(r) \in Seq(Nat)
      /\ Len(Costs(c)) = Len(c) /\ Len(Costs(r)) = Len(c) + 1
      /\ \A i \in 1..Len(c) : Costs(c)[i] = Cost[c[i]]
      /\ \A i \in 1..Len(c) + 1 : Costs(r)[i] = Cost[r[i]]
  BY <1>1, CostsType
<1>3. Cost[s] \in Nat
  BY ContextAssumption
<1>4. Costs(r) = Append(Costs(c), Cost[s])
  <2>. DEFINE l == Append(Costs(c), Cost[s])
  <2>1. /\ l \in Seq(Nat) /\ Len(l) = Len(c) + 1
        /\ \A i \in 1..Len(c) : l[i] = Costs(c)[i]
        /\ l[Len(c) + 1] = Cost[s]
    BY <1>2, <1>3
  <2>. HIDE DEF l
  <2>2. ASSUME NEW i \in 1..Len(c) + 1 PROVE Costs(r)[i] = l[i]
    <3>1. Costs(r)[i] = Cost[r[i]]
      BY <1>1 DEF Costs
    <3>2. CASE i \in 1..Len(c)
      BY <1>1, <1>2, <2>1, <3>1, <3>2
    <3>3. CASE i = Len(c) + 1
      <4>1. r[i] = s
        BY <1>1, <3>3
      <4>2. l[i] = Cost[s]
        BY <2>1, <3>3
      <4>. QED BY <3>1, <4>1, <4>2
    <3>. QED BY <1>1, <3>2, <3>3
  <2>3. Costs(r) = l
    BY <1>2, <2>1, <2>2, SameItems
  <2>. QED BY <2>3 DEF l
<1>5. Tokens(c) = Total(Costs(c)) /\ Tokens(r) = Total(Costs(r))
  BY <1>1, TokensTotal
<1>6. Total(Costs(c)) \in Nat
  BY <1>2, TotalNatural
<1>7. Total(Costs(r)) = Total(Costs(c)) + Cost[s]
  BY <1>2, <1>3, <1>4, TotalAppended
<1>. QED BY <1>3, <1>5, <1>6, <1>7 DEF r

LEMMA TokensEmpty == Tokens(<<>>) = 0
<1>1. <<>> \in Seq(Sentence) /\ Len(<<>>) = 0
  OBVIOUS
<1>2. Costs(<<>>) \in Seq(Nat) /\ Len(Costs(<<>>)) = 0
  BY <1>1, CostsType
<1>3. Costs(<<>>) = <<>>
  BY <1>2
<1>. QED BY <1>1, <1>3, TokensTotal, TotalEmpty

(* The first k of them.                                                    *)
LEMMA PrefixAppended ==
  ASSUME NEW V, NEW s \in Seq(V), NEW k \in 0..Len(s) - 1
  PROVE  /\ SubSeq(s, 1, k) \in Seq(V) /\ s[k + 1] \in V
         /\ SubSeq(s, 1, k + 1) = Append(SubSeq(s, 1, k), s[k + 1])
         /\ SubSeq(s, 1, 0) = <<>> /\ SubSeq(s, 1, Len(s)) = s
<1>1. /\ SubSeq(s, 1, k) \in Seq(V) /\ s[k + 1] \in V /\ Len(SubSeq(s, 1, k)) = k
      /\ SubSeq(s, 1, k + 1) \in Seq(V) /\ Len(SubSeq(s, 1, k + 1)) = k + 1
      /\ \A i \in 1..k : SubSeq(s, 1, k)[i] = s[i]
      /\ \A i \in 1..k + 1 : SubSeq(s, 1, k + 1)[i] = s[i]
  OBVIOUS
<1>2. SubSeq(s, 1, 0) = <<>> /\ SubSeq(s, 1, Len(s)) = s
  OBVIOUS
<1>. DEFINE a == SubSeq(s, 1, k + 1)
            b == Append(SubSeq(s, 1, k), s[k + 1])
<1>3. b \in Seq(V) /\ Len(b) = k + 1 /\ \A i \in 1..k + 1 : b[i] = s[i]
  BY <1>1
<1>. HIDE DEF b
<1>4. a = b
  BY <1>1, <1>3, SameItems
<1>. QED BY <1>1, <1>2, <1>4 DEF b

----------------------------------------------------------------------------
(* What dedup_sentences leaves.                                            *)

Added(sofar, s) == IF s \in seenSentence \cup ToSet(sofar) THEN sofar ELSE Append(sofar, s)

LEMMA UnseenReads ==
  ASSUME NEW p \in Seq(Sentence)
  PROVE  \E g : /\ g[0] = <<>> /\ Unseen(p) = g[Len(p)]
               /\ \A k \in 1..Len(p) : g[k] = Added(g[k - 1], p[k])
<1>. DEFINE n == Len(p)
            V == Seq(Sentence)
            step == [q \in V \X Sentence |-> Added(q[1], q[2])]
            Equation(f) ==
              f = [t \in SUBSET (1..n) |->
                     IF t = {} THEN <<>>
                     ELSE IF p[Max(t)] \in seenSentence \cup ToSet(f[t \ {Max(t)}])
                       THEN f[t \ {Max(t)}] ELSE Append(f[t \ {Max(t)}], p[Max(t)])]
            f == CHOOSE f : Equation(f)
            g == [k \in 0..n |-> f[1..k]]
<1>1. n \in Nat /\ DOMAIN p = 1..n /\ \A i \in 1..n : p[i] \in Sentence
  OBVIOUS
<1>2. /\ step \in [V \X Sentence -> V]
      /\ \A c \in V, s \in Sentence : step[c, s] = Added(c, s)
  <2>1. \A c \in V, s \in Sentence : Added(c, s) \in V
    BY DEF Added
  <2>. HIDE DEF V
  <2>. QED BY <2>1
<1>3. <<>> \in V
  OBVIOUS
<1>. HIDE DEF step, V
<1>4. PICK h \in [SUBSET (1..n) -> V] : FoldSolution(h, p, <<>>, step)
  BY <1>2, <1>3, FoldSolves
<1>. HIDE DEF n
<1>5. Equation(h)
  <2>1. ASSUME NEW t \in SUBSET (1..n)
        PROVE  h[t] = IF t = {} THEN <<>>
                      ELSE IF p[Max(t)] \in seenSentence \cup ToSet(h[t \ {Max(t)}])
                        THEN h[t \ {Max(t)}] ELSE Append(h[t \ {Max(t)}], p[Max(t)])
    <3>1. /\ t # {} => Max(t) \in 1..n
          /\ h[t] = IF t = {} THEN <<>> ELSE step[h[t \ {Max(t)}], p[Max(t)]]
      BY <1>4 DEF FoldSolution, n
    <3>2. h[t \ {Max(t)}] \in V
      OBVIOUS
    <3>3. t # {} => h[t] = Added(h[t \ {Max(t)}], p[Max(t)])
      BY <1>1, <1>2, <3>1, <3>2
    <3>. QED BY <3>1, <3>3 DEF Added
  <2>. QED BY <2>1
<1>6. Equation(f)
  <2>. HIDE DEF Equation
  <2>. QED BY <1>5
<1>7. Unseen(p) = f[1..n]
  BY <1>1 DEF Unseen, FoldLeft, MapThenFoldSet
<1>. HIDE DEF f
<1>8. f[{}] = <<>>
  BY <1>6
<1>9. ASSUME NEW k \in 1..n PROVE f[1..k] = Added(f[1..k - 1], p[k])
  <2>1. 1..k \in SUBSET (1..n) /\ 1..k # {} /\ Max(1..k) = k /\ (1..k) \ {k} = 1..k - 1
    BY <1>1, PrefixMax
  <2>. QED BY <1>6, <2>1 DEF Added
<1>10. g[0] = <<>> /\ g[n] = f[1..n]
  <2>1. 1..0 = {} /\ 0 \in 0..n /\ n \in 0..n
    BY <1>1
  <2>. QED BY <1>8, <2>1
<1>11. ASSUME NEW k \in 1..n PROVE g[k] = Added(g[k - 1], p[k])
  <2>1. k \in 0..n /\ k - 1 \in 0..n
    BY <1>1
  <2>. QED BY <1>9, <2>1
<1>. HIDE DEF g
<1>. QED BY <1>7, <1>10, <1>11 DEF n

(* It is made of the sentences of the payload that were not seen before,   *)
(* and costs no more than the payload.                                     *)
Left(c, p, k) ==
  /\ c \in Seq(Sentence) /\ Len(c) <= k /\ Tokens(c) <= Tokens(SubSeq(p, 1, k))
  /\ \A s \in Sentence :
       s \in ToSet(c) <=> s \notin seenSentence /\ \E i \in 1..k : p[i] = s

LEMMA UnseenLeft ==
  ASSUME NEW p \in Seq(Sentence)
  PROVE  Left(Unseen(p), p, Len(p))
<1>1. PICK g : /\ g[0] = <<>> /\ Unseen(p) = g[Len(p)]
               /\ \A k \in 1..Len(p) : g[k] = Added(g[k - 1], p[k])
  BY UnseenReads
<1>. DEFINE S == {k \in Nat : k <= Len(p) => Left(g[k], p, k)}
<1>2. Len(p) \in Nat /\ S \in SUBSET Nat
  OBVIOUS
<1>3. 0 \in S
  <2>1. SubSeq(p, 1, 0) = <<>> /\ <<>> \in Seq(Sentence) /\ Len(<<>>) = 0 /\ ToSet(<<>>) = {}
    BY DEF ToSet
  <2>2. Tokens(SubSeq(p, 1, 0)) = Tokens(<<>>)
    BY <2>1, Zenon
  <2>3. Tokens(<<>>) <= Tokens(SubSeq(p, 1, 0)) /\ \A i \in 1..0 : FALSE
    BY <2>2, TokensEmpty
  <2>4. Left(<<>>, p, 0)
    BY <2>1, <2>3 DEF Left
  <2>. QED BY <1>1, <2>4
<1>4. ASSUME NEW k \in S PROVE k + 1 \in S
  <2>1. SUFFICES ASSUME k + 1 <= Len(p) PROVE Left(g[k + 1], p, k + 1)
    OBVIOUS
  <2>2. k \in 0..Len(p) - 1 /\ k \in Nat /\ k + 1 \in 1..Len(p) /\ (k + 1) - 1 = k
        /\ Left(g[k], p, k)
    BY <1>2, <2>1
  <2>. DEFINE c == g[k]
              s == p[k + 1]
              q == SubSeq(p, 1, k)
  <2>3. /\ q \in Seq(Sentence) /\ s \in Sentence
        /\ SubSeq(p, 1, k + 1) = Append(q, s)
    BY <2>2, PrefixAppended
  <2>4. g[k + 1] = Added(c, s)
    BY <1>1, <2>2
  <2>5. \A t \in Sentence : (\E i \in 1..k + 1 : p[i] = t) <=> t = s \/ \E i \in 1..k : p[i] = t
    <3>1. \A i \in 1..k + 1 : i \in 1..k \/ i = k + 1
      BY <2>2
    <3>2. \A i \in 1..k : i \in 1..k + 1
      BY <2>2
    <3>3. k + 1 \in 1..k + 1
      BY <2>2
    <3>. QED BY <3>1, <3>2, <3>3
  <2>. HIDE DEF c, s, q
  <2>6. /\ c \in Seq(Sentence) /\ Len(c) <= k /\ Len(c) \in Nat /\ Tokens(c) <= Tokens(q)
        /\ \A t \in Sentence :
             t \in ToSet(c) <=> t \notin seenSentence /\ \E i \in 1..k : p[i] = t
    BY <2>2 DEF Left, c, q
  <2>7. /\ Tokens(c) \in Nat /\ Tokens(q) \in Nat /\ Cost[s] \in Nat
        /\ Tokens(Append(c, s)) = Tokens(c) + Cost[s]
        /\ Tokens(Append(q, s)) = Tokens(q) + Cost[s]
    BY <2>3, <2>6, TokensAppended
  <2>8. CASE s \in seenSentence \cup ToSet(c)
    <3>1. g[k + 1] = c
      BY <2>4, <2>8 DEF Added
    <3>2. Tokens(c) <= Tokens(Append(q, s)) /\ Len(c) <= k + 1
      BY <2>2, <2>6, <2>7
    <3>3. \A t \in Sentence :
            t \in ToSet(c) <=> t \notin seenSentence /\ \E i \in 1..k + 1 : p[i] = t
      BY <2>3, <2>5, <2>6, <2>8
    <3>. QED BY <2>3, <2>6, <3>1, <3>2, <3>3 DEF Left
  <2>9. CASE s \notin seenSentence \cup ToSet(c)
    <3>1. g[k + 1] = Append(c, s)
      BY <2>4, <2>9 DEF Added
    <3>2. Append(c, s) \in Seq(Sentence) /\ Len(Append(c, s)) = Len(c) + 1
      BY <2>3, <2>6
    <3>3. Tokens(Append(c, s)) <= Tokens(Append(q, s)) /\ Len(Append(c, s)) <= k + 1
      BY <2>2, <2>6, <2>7, <3>2
    <3>4. \A t : t \in ToSet(Append(c, s)) <=> t \in ToSet(c) \/ t = s
      <4>1. /\ DOMAIN c = 1..Len(c) /\ DOMAIN Append(c, s) = 1..Len(c) + 1
            /\ \A i \in 1..Len(c) : Append(c, s)[i] = c[i]
            /\ Append(c, s)[Len(c) + 1] = s
        BY <2>3, <2>6, <3>2
      <4>2. \A i \in 1..Len(c) + 1 : i \in 1..Len(c) \/ i = Len(c) + 1
        BY <2>6
      <4>3. \A i \in 1..Len(c) : i \in 1..Len(c) + 1
        BY <2>6
      <4>4. Len(c) + 1 \in 1..Len(c) + 1
        BY <2>6
      <4>. QED BY <4>1, <4>2, <4>3, <4>4 DEF ToSet
    <3>5. \A t \in Sentence :
            t \in ToSet(Append(c, s)) <=>
              t \notin seenSentence /\ \E i \in 1..k + 1 : p[i] = t
      BY <2>5, <2>6, <2>9, <3>4
    <3>. QED BY <2>3, <3>1, <3>2, <3>3, <3>5 DEF Left
  <2>. QED BY <2>8, <2>9
<1>5. S = Nat
  <2>. HIDE DEF S
  <2>. QED BY <1>2, <1>3, <1>4, NatStep
<1>6. Left(g[Len(p)], p, Len(p))
  BY <1>2, <1>5
<1>. QED BY <1>1, <1>6

----------------------------------------------------------------------------
(* The invariant of the builder.                                           *)

(* What makes a hit a repeat of an item.                                   *)
Resembles(o, hit, item) ==
  \/ hit.payload = item.payload
  \/ /\ o.semanticDedup /\ hit.embedding # Absent /\ item.embedding # Absent
     /\ Within(hit.embedding, item.embedding)

Weight(items) == FoldLeft(LAMBDA n, item : n + item.tokens, 0, items)

(* Before they are ranked, the eligible items are where the keys, and the  *)
(* embeddings, seen so far say they are.                                   *)
Recorded(records, items) ==
  /\ Len(records) = Len(items)
  /\ \A i \in 1..Len(records) : records[i] = [key |-> items[i].payload, winner |-> i]

Embedded(o, units, items) ==
  /\ \A u \in 1..Len(units) : items[units[u].winner].embedding = units[u].unit
  /\ o.semanticDedup =>
       \A i \in 1..Len(items) :
         items[i].embedding # Absent =>
           \E u \in 1..Len(units) : units[u].unit = items[i].embedding

Unranked ==
  stage = "filter" =>
    Recorded(seenRecord, eligible) /\ Embedded(option, seenUnitVecs, eligible)

(* All that was said is remembered, and as long as semantic dedup drops    *)
(* nothing, it is said by an item.                                         *)
SaidBy(s, items) == \E i \in 1..Len(items) : s \in ToSet(items[i].content)

Remembered(sentences, hs, o, items) ==
  /\ \A i \in 1..Len(hs) :
       hs[i].similarity >= o.minSimilarity => ToSet(hs[i].payload) \subseteq sentences
  /\ \A i \in 1..Len(items) :
       ToSet(items[i].content) \cup ToSet(items[i].payload) \subseteq sentences

SaidInv ==
  option.sentenceDedup =>
    /\ Remembered(seenSentence, hits, option, eligible)
    /\ bundle.semanticDuplicates = 0 => \A s \in seenSentence : SaidBy(s, eligible)

(* An item's sources each shipped a repeat of it.                          *)
Shipped(o, hs, item, origin) ==
  \E i \in 1..Len(hs) : /\ hs[i].similarity >= o.minSimilarity
                        /\ hs[i].origin = origin /\ Resembles(o, hs[i], item)

Sourced(o, hs, item) ==
  /\ item.sources # <<>> /\ item.sources[1] = item.origin
  /\ OneToOne(item.sources, 1..Len(item.sources))
  /\ \A k \in 1..Len(item.sources) : Shipped(o, hs, item, item.sources[k])

SourceInv == \A i \in 1..Len(eligible) : Sourced(option, hits, eligible[i])

(* Without sentence dedup, each hit past the threshold is a source of an   *)
(* item it repeats.                                                        *)
Listed(o, hit, items) ==
  \E i \in 1..Len(items) : /\ hit.origin \in ToSet(items[i].sources)
                           /\ Resembles(o, hit, items[i])

ListedInv ==
  ~option.sentenceDedup =>
    \A j \in 1..Len(hits) :
      hits[j].similarity >= option.minSimilarity => Listed(option, hits[j], eligible)

(* No two items repeat each other.                                         *)
Differ(o, a, b) ==
  /\ o.dedup => a.payload # b.payload
  /\ o.semanticDedup =>
       a.embedding = Absent \/ b.embedding = Absent \/ ~Within(a.embedding, b.embedding)
  /\ o.sentenceDedup => ToSet(a.content) \cap ToSet(b.content) = {}

RepeatInv ==
  \A i, j \in 1..Len(eligible) : i # j => Differ(option, eligible[i], eligible[j])

(* A hit is an item, or counted, or said before.                           *)
Blank(hs) == {i \in 1..Len(hs) : hs[i].payload = <<>>}

Unitemized(hs, items, b) ==
  Len(hs) - Len(items) - b.duplicates - b.belowThreshold - b.semanticDuplicates

AccountInv ==
  LET n == Unitemized(hits, eligible, bundle)
  IN  /\ n >= 0
      /\ n > 0 => option.sentenceDedup
      /\ n <= bundle.redundantSentences + Cardinality(Blank(hits))

(* The second loop: it has looked at the items before next, and begins     *)
(* with as many of them as can be paid for.                                *)
Score(o, item) == (100 * item.similarity) \div Ranker[o.ranker][item.tokens]

Room(o, b, item) ==
  /\ o.tokenBudget # Absent => b.totalTokens + item.tokens <= o.tokenBudget
  /\ o.recordBudget # Absent => Len(b.items) < o.recordBudget

Affords(o, items) ==
  /\ o.tokenBudget # Absent => Weight(items) <= o.tokenBudget
  /\ o.recordBudget # Absent => Len(items) <= o.recordBudget

Begins(o, items, n, s) ==
  \A k \in 1..n - 1 : Affords(o, SubSeq(items, 1, k)) =>
    k <= Len(s) /\ \A i \in 1..k : s[i] = items[i]

CountIn(x, s, n) == Cardinality({i \in 1..n : s[i] = x})

Falling(o, items) ==
  \A i, j \in 1..Len(items) : i < j => Score(o, items[i]) >= Score(o, items[j])

Packed(o, items, n, b) ==
  /\ Len(b.items) + b.overBudget = n - 1
  /\ b.totalTokens = Weight(b.items)
  /\ o.tokenBudget # Absent => b.totalTokens <= o.tokenBudget
  /\ o.recordBudget # Absent => Len(b.items) <= o.recordBudget
  /\ Falling(o, b.items)
  /\ \A i \in 1..Len(b.items) : \A j \in n..Len(items) :
       Score(o, b.items[i]) >= Score(o, items[j])
  /\ \A x \in Item : CountIn(x, b.items, Len(b.items)) <= CountIn(x, items, n - 1)
  /\ Begins(o, items, n, b.items)

PackInv ==
  /\ stage = "filter" => next = 1 /\ bundle.items = <<>> /\ bundle.totalTokens = 0
                         /\ bundle.overBudget = 0
  /\ stage # "filter" => Falling(option, eligible) /\ Packed(option, eligible, next, bundle)
  /\ stage = "done" => next = Len(eligible) + 1

(* Every item has a score.                                                 *)
ScoreInv == \A i \in 1..Len(eligible) : eligible[i].tokens \in DOMAIN Ranker[option.ranker]

BuildInv ==
  /\ BuildTypeOK /\ ScoreInv /\ Unranked /\ SaidInv /\ SourceInv /\ ListedInv
  /\ RepeatInv /\ AccountInv /\ PackInv

----------------------------------------------------------------------------
(* Hits, and what the builder finds of them.                               *)

LEMMA HitType ==
  ASSUME NEW hit \in MembraneHit
  PROVE  /\ hit.origin \in Origin /\ hit.similarity \in Similarity /\ hit.similarity \in Nat
         /\ hit.payload \in Payload /\ hit.payload \in Seq(Sentence)
         /\ hit.embedding \in Embedding \cup {Absent} /\ hit.embedding \in Int \cup {Absent}
<1>1. PICK o \in Origin, m \in Similarity, r \in Record :
        hit = [origin |-> o, similarity |-> m, payload |-> r.payload,
               embedding |-> r.embedding]
  BY DEF MembraneHit
<1>2. r \in [payload : Seq(Sentence), embedding : Int \cup {Absent}] /\ m \in Nat
  BY ContextAssumption
<1>. QED BY <1>1, <1>2 DEF Payload, Embedding

LEMMA OptionType ==
  ASSUME NEW o \in Options
  PROVE  o \in Option
BY ContextAssumption

LEMMA MinIn ==
  ASSUME NEW n \in Nat, NEW t \in SUBSET (1..n), t # {}
  PROVE  Min(t) \in t
<1>1. t \in SUBSET Nat
  OBVIOUS
<1>2. \E x \in t : \A y \in t : x <= y
  BY <1>1, NatLeast
<1>. QED BY <1>2 DEF Min

LEMMA SameKeyIs ==
  ASSUME NEW n \in Nat, seenRecord \in Seq([key : Payload, winner : 1..n]), NEW hit
  PROVE  /\ SameKey(hit) # 0 => /\ SameKey(hit) \in 1..Len(seenRecord)
                                /\ seenRecord[SameKey(hit)].winner \in 1..n
                                /\ option.dedup
                                /\ seenRecord[SameKey(hit)].key = hit.payload
         /\ SameKey(hit) = 0 =>
              \A i \in 1..Len(seenRecord) : option.dedup => seenRecord[i].key # hit.payload
<1>. DEFINE I == {i \in 1..Len(seenRecord) : option.dedup /\ seenRecord[i].key = hit.payload}
<1>1. SameKey(hit) = IF I # {} THEN Min(I) ELSE 0
  BY DEF SameKey, SelectInSeq
<1>2. Len(seenRecord) \in Nat /\ \A i \in 1..Len(seenRecord) : seenRecord[i].winner \in 1..n
  <2>1. \A i \in 1..Len(seenRecord) : seenRecord[i] \in [key : Payload, winner : 1..n]
    BY MemberIn
  <2>. QED BY <2>1
<1>3. I # {} => Min(I) \in I
  <2>1. I \in SUBSET (1..Len(seenRecord))
    OBVIOUS
  <2>. HIDE DEF I
  <2>. QED BY <1>2, <2>1, MinIn
<1>4. \A i \in 1..Len(seenRecord) : i # 0
  OBVIOUS
<1>5. CASE I # {}
  <2>1. SameKey(hit) \in I
    BY <1>1, <1>3, <1>5
  <2>. QED BY <1>2, <1>4, <2>1
<1>6. CASE I = {}
  BY <1>1, <1>6
<1>. QED BY <1>5, <1>6

LEMMA NearDupIs ==
  ASSUME NEW n \in Nat, seenUnitVecs \in Seq([unit : Embedding, winner : 1..n]), NEW hit
  PROVE  /\ NearDup(hit) # 0 => /\ NearDup(hit) \in 1..Len(seenUnitVecs)
                                /\ seenUnitVecs[NearDup(hit)].winner \in 1..n
                                /\ seenUnitVecs[NearDup(hit)].unit \in Embedding
                                /\ option.semanticDedup /\ hit.embedding # Absent
                                /\ Within(hit.embedding, seenUnitVecs[NearDup(hit)].unit)
         /\ NearDup(hit) = 0 =>
              \A i \in 1..Len(seenUnitVecs) :
                option.semanticDedup /\ hit.embedding # Absent =>
                  ~Within(hit.embedding, seenUnitVecs[i].unit)
<1>. DEFINE I == {i \in 1..Len(seenUnitVecs) :
                    /\ option.semanticDedup
                    /\ hit.embedding # Absent
                    /\ Within(hit.embedding, seenUnitVecs[i].unit)}
<1>1. NearDup(hit) = IF I # {} THEN Min(I) ELSE 0
  BY DEF NearDup, SelectInSeq
<1>2. /\ Len(seenUnitVecs) \in Nat
      /\ \A i \in 1..Len(seenUnitVecs) : /\ seenUnitVecs[i].winner \in 1..n
                                         /\ seenUnitVecs[i].unit \in Embedding
  <2>1. \A i \in 1..Len(seenUnitVecs) : seenUnitVecs[i] \in [unit : Embedding, winner : 1..n]
    BY MemberIn
  <2>. QED BY <2>1
<1>3. I # {} => Min(I) \in I
  <2>1. I \in SUBSET (1..Len(seenUnitVecs))
    OBVIOUS
  <2>. HIDE DEF I
  <2>. QED BY <1>2, <2>1, MinIn
<1>4. \A i \in 1..Len(seenUnitVecs) : i # 0
  OBVIOUS
<1>5. CASE I # {}
  <2>1. NearDup(hit) \in I
    BY <1>1, <1>3, <1>5
  <2>. QED BY <1>2, <1>4, <2>1
<1>6. CASE I = {}
  BY <1>1, <1>6
<1>. QED BY <1>5, <1>6

(* The content of a hit, and how much of it was redundant.                 *)
LEMMA ContentIs ==
  ASSUME NEW hit \in MembraneHit, option \in Options
  PROVE  /\ Content(hit) \in Seq(Sentence) /\ Redundant(hit) \in Nat
         /\ Tokens(Content(hit)) \in Nat
         /\ Tokens(Content(hit)) \in DOMAIN Ranker[option.ranker]
         /\ ToSet(Content(hit)) \subseteq ToSet(hit.payload)
         /\ option.sentenceDedup =>
              \A s : s \in ToSet(Content(hit)) <=>
                       s \in ToSet(hit.payload) /\ s \notin seenSentence
<1>. DEFINE p == hit.payload
            c == Content(hit)
<1>1. p \in Payload /\ p \in Seq(Sentence)
  BY HitType
<1>2. option.ranker \in DOMAIN Ranker /\ option.sentenceDedup \in BOOLEAN
  BY OptionType DEF Option
<1>3. ToSet(p) = {p[i] : i \in 1..Len(p)} /\ ToSet(p) \subseteq Sentence /\ Len(p) \in Nat
  BY <1>1 DEF ToSet
<1>4. /\ c \in Seq(Sentence) /\ Len(c) <= Len(p) /\ Tokens(c) <= Tokens(p)
      /\ ToSet(c) \subseteq ToSet(p)
      /\ option.sentenceDedup =>
           \A s : s \in ToSet(c) <=> s \in ToSet(p) /\ s \notin seenSentence
  <2>1. CASE option.sentenceDedup
    <3>1. c = Unseen(p)
      BY <2>1 DEF Content
    <3>. HIDE DEF c, p
    <3>2. Left(c, p, Len(p)) /\ SubSeq(p, 1, Len(p)) = p
      BY <1>1, <3>1, UnseenLeft
    <3>3. c \in Seq(Sentence) /\ Len(c) <= Len(p) /\ Tokens(c) <= Tokens(p)
      BY <3>2 DEF Left
    <3>4. ToSet(c) \subseteq Sentence
      BY <3>3 DEF ToSet
    <3>5. \A s \in Sentence : s \in ToSet(p) <=> \E i \in 1..Len(p) : p[i] = s
      BY <1>3
    <3>6. \A s \in Sentence : s \in ToSet(c) <=> s \in ToSet(p) /\ s \notin seenSentence
      BY <3>2, <3>5 DEF Left
    <3>. QED BY <1>3, <3>3, <3>4, <3>6
  <2>2. CASE ~option.sentenceDedup
    <3>1. c = p
      BY <2>2 DEF Content
    <3>. HIDE DEF c, p
    <3>2. Tokens(p) \in Nat
      BY <1>1, TokensTotal, CostsType, TotalNatural
    <3>. QED BY <1>1, <1>3, <2>2, <3>1, <3>2
  <2>. QED BY <2>1, <2>2
<1>5. Redundant(hit) = Len(p) - Len(c)
  BY DEF Redundant
<1>. HIDE DEF c, p
<1>6. Redundant(hit) \in Nat
  <2>1. Len(c) \in Nat
    BY <1>4
  <2>. QED BY <1>3, <1>4, <1>5, <2>1
<1>7. Tokens(c) \in Nat /\ Tokens(p) \in Nat
  BY <1>1, <1>4, TokensTotal, CostsType, TotalNatural
<1>8. 0..Tokens(p) \subseteq DOMAIN Ranker[option.ranker]
  BY <1>1, <1>2, RankerAssumption
<1>9. Tokens(c) \in 0..Tokens(p)
  BY <1>4, <1>7
<1>. QED BY <1>4, <1>6, <1>7, <1>8, <1>9 DEF c, p

----------------------------------------------------------------------------
(* Types.                                                                  *)

(* Items that differ in their sources at most.                             *)
Twins(x, y) ==
  /\ x.origin = y.origin /\ x.similarity = y.similarity /\ x.payload = y.payload
  /\ x.content = y.content /\ x.tokens = y.tokens /\ x.embedding = y.embedding

Credited(r, items, w, o) ==
  /\ r \in Seq(Item) /\ Len(r) = Len(items)
  /\ \A i \in 1..Len(items) : Twins(r[i], items[i]) /\ (i # w => r[i] = items[i])
  /\ r[w].sources = IF o \in ToSet(items[w].sources) THEN items[w].sources
                    ELSE Append(items[w].sources, o)

LEMMA ItemFields ==
  ASSUME NEW x \in Item
  PROVE  /\ x.origin \in Origin /\ x.similarity \in Similarity /\ x.similarity \in Nat
         /\ x.payload \in Payload /\ x.content \in Seq(Sentence) /\ x.tokens \in Nat
         /\ x.embedding \in Embedding \cup {Absent} /\ x.sources \in Seq(Origin)
BY ContextAssumption DEF Item

LEMMA CreditIs ==
  ASSUME eligible \in Seq(Item), NEW w \in 1..Len(eligible), NEW o \in Origin
  PROVE  Credited(Attributed(w, o), eligible, w, o)
<1>. DEFINE x == eligible[w]
            more == IF o \in ToSet(x.sources) THEN x.sources ELSE Append(x.sources, o)
            y == [x EXCEPT !.sources = more]
            r == [eligible EXCEPT ![w] = y]
<1>1. x \in Item /\ x.sources \in Seq(Origin)
  BY MemberIn, ItemFields
<1>2. more \in Seq(Origin)
  BY <1>1
<1>3. y \in Item /\ Twins(y, x) /\ y.sources = more
  <2>. HIDE DEF more, x
  <2>1. y \in Item /\ y.sources = more
    BY <1>1, <1>2 DEF Item
  <2>2. Twins(y, x)
    BY <1>1 DEF Item, Twins
  <2>. QED BY <2>1, <2>2
<1>4. Attributed(w, o) = r
  BY DEF Attributed
<1>5. Twins(x, x) /\ \A i \in 1..Len(eligible) : Twins(eligible[i], eligible[i])
  BY DEF Twins
<1>. HIDE DEF y
<1>6. /\ r \in Seq(Item) /\ Len(r) = Len(eligible)
      /\ \A i \in 1..Len(eligible) : r[i] = IF i = w THEN y ELSE eligible[i]
  BY <1>3
<1>. HIDE DEF r
<1>7. r[w] = y
  BY <1>6
<1>8. \A i \in 1..Len(eligible) : Twins(r[i], eligible[i]) /\ (i # w => r[i] = eligible[i])
  BY <1>3, <1>5, <1>6
<1>9. r[w].sources = more
  BY <1>3, <1>7
<1>. QED BY <1>4, <1>6, <1>8, <1>9 DEF Credited

LEMMA NewItem ==
  ASSUME NEW hit \in MembraneHit, option \in Options
  PROVE  /\ ItemOf(hit) \in Item /\ ItemOf(hit).tokens \in DOMAIN Ranker[option.ranker]
         /\ ItemOf(hit).origin = hit.origin /\ ItemOf(hit).payload = hit.payload
         /\ ItemOf(hit).embedding = hit.embedding /\ ItemOf(hit).content = Content(hit)
         /\ ItemOf(hit).sources = <<hit.origin>>
<1>1. hit.origin \in Origin /\ hit.similarity \in Similarity /\ hit.payload \in Payload
      /\ hit.embedding \in Embedding \cup {Absent} /\ <<hit.origin>> \in Seq(Origin)
  BY HitType
<1>2. Content(hit) \in Seq(Sentence) /\ Tokens(Content(hit)) \in Nat
      /\ Tokens(Content(hit)) \in DOMAIN Ranker[option.ranker]
  BY ContentIs
<1>. QED BY <1>1, <1>2 DEF ItemOf, Item

(* An item more at the end.                                                *)
LEMMA AddedLast ==
  ASSUME NEW V, NEW s \in Seq(V), NEW x \in V
  PROVE  /\ Append(s, x) \in Seq(V) /\ Len(Append(s, x)) = Len(s) + 1
         /\ \A i \in 1..Len(s) : Append(s, x)[i] = s[i]
         /\ Append(s, x)[Len(s) + 1] = x
  OBVIOUS

LEMMA Wider ==
  ASSUME NEW n \in Nat
  PROVE  /\ seenRecord \in Seq([key : Payload, winner : 1..n]) =>
              seenRecord \in Seq([key : Payload, winner : 1..n + 1])
         /\ seenUnitVecs \in Seq([unit : Embedding, winner : 1..n]) =>
              seenUnitVecs \in Seq([unit : Embedding, winner : 1..n + 1])
<1>1. 1..n \subseteq 1..n + 1
  OBVIOUS
<1>. DEFINE A(k) == [key : Payload, winner : 1..k]
            B(k) == [unit : Embedding, winner : 1..k]
<1>2. A(n) \subseteq A(n + 1) /\ B(n) \subseteq B(n + 1)
  BY <1>1
<1>. HIDE DEF A, B
<1>3. /\ seenRecord \in Seq(A(n)) => seenRecord \in Seq(A(n + 1))
      /\ seenUnitVecs \in Seq(B(n)) => seenUnitVecs \in Seq(B(n + 1))
  BY <1>2
<1>. QED BY <1>3 DEF A, B

(* A hit goes to the credit of an item that it repeats.                    *)
Credits(hit) ==
  \E w \in 1..Len(eligible) :
    /\ eligible' = Attributed(w, hit.origin)
    /\ Credited(eligible', eligible, w, hit.origin)
    /\ Unranked => Resembles(option, hit, eligible[w])
    /\ SameKey(hit) # 0 /\ Unranked => eligible[w].payload = hit.payload

LEMMA DuplicateCredits ==
  ASSUME BuildTypeOK, NEW hit \in MembraneHit, DropDuplicate(hit)
  PROVE  Credits(hit)
<1>. DEFINE k == SameKey(hit)
            w == seenRecord[k].winner
<1>1. /\ k \in 1..Len(seenRecord) /\ w \in 1..Len(eligible)
      /\ seenRecord[k].key = hit.payload
  <2>1. seenRecord \in Seq([key : Payload, winner : 1..Len(eligible)]) /\ Len(eligible) \in Nat
    BY MemberIn DEF BuildTypeOK
  <2>. QED BY <2>1, SameKeyIs DEF DropDuplicate
<1>2. eligible' = Attributed(w, hit.origin) /\ stage = "filter"
  BY DEF DropDuplicate, Consume
<1>. HIDE DEF k
<1>3. Unranked => eligible[w].payload = hit.payload
  <2>1. SUFFICES ASSUME Unranked PROVE eligible[w].payload = hit.payload
    OBVIOUS
  <2>2. Recorded(seenRecord, eligible)
    BY <1>2, <2>1 DEF Unranked
  <2>3. seenRecord[k] = [key |-> eligible[k].payload, winner |-> k]
    BY <1>1, <2>2 DEF Recorded
  <2>. QED BY <1>1, <2>3
<1>. HIDE DEF w
<1>4. Credited(eligible', eligible, w, hit.origin)
  BY <1>1, <1>2, HitType, CreditIs DEF BuildTypeOK
<1>. QED BY <1>1, <1>2, <1>3, <1>4 DEF Credits, Resembles

LEMMA SemanticCredits ==
  ASSUME BuildTypeOK, NEW hit \in MembraneHit, DropSemantic(hit)
  PROVE  Credits(hit)
<1>. DEFINE k == NearDup(hit)
            w == seenUnitVecs[k].winner
<1>1. /\ k \in 1..Len(seenUnitVecs) /\ w \in 1..Len(eligible)
      /\ seenUnitVecs[k].unit \in Embedding
      /\ option.semanticDedup /\ hit.embedding # Absent
      /\ Within(hit.embedding, seenUnitVecs[k].unit)
  <2>1. seenUnitVecs \in Seq([unit : Embedding, winner : 1..Len(eligible)]) /\ Len(eligible) \in Nat
    BY MemberIn DEF BuildTypeOK
  <2>. QED BY <2>1, NearDupIs DEF DropSemantic
<1>2. eligible' = Attributed(w, hit.origin) /\ stage = "filter" /\ SameKey(hit) = 0
  BY DEF DropSemantic, Fresh, Consume
<1>. HIDE DEF k
<1>3. Unranked => Resembles(option, hit, eligible[w])
  <2>1. SUFFICES ASSUME Unranked PROVE Resembles(option, hit, eligible[w])
    OBVIOUS
  <2>2. Embedded(option, seenUnitVecs, eligible)
    BY <1>2, <2>1 DEF Unranked
  <2>3. eligible[w].embedding = seenUnitVecs[k].unit
    BY <1>1, <2>2 DEF Embedded
  <2>4. eligible[w].embedding # Absent
    BY <1>1, <2>3 DEF Embedding
  <2>. QED BY <1>1, <2>3, <2>4 DEF Resembles
<1>. HIDE DEF w
<1>4. Credited(eligible', eligible, w, hit.origin)
  BY <1>1, <1>2, HitType, CreditIs DEF BuildTypeOK
<1>. QED BY <1>1, <1>2, <1>3, <1>4 DEF Credits

(* A hit is kept: there is an item more.                                   *)
LEMMA KeepAdds ==
  ASSUME BuildTypeOK, NEW hit \in MembraneHit, Keep(hit)
  PROVE  /\ ItemOf(hit) \in Item /\ eligible' = Append(eligible, ItemOf(hit))
         /\ eligible' \in Seq(Item) /\ Len(eligible) \in Nat /\ Len(eligible') = Len(eligible) + 1
         /\ \A i \in 1..Len(eligible) : eligible'[i] = eligible[i]
         /\ eligible'[Len(eligible) + 1] = ItemOf(hit)
         /\ \A i \in 1..Len(eligible') : i \in 1..Len(eligible) \/ i = Len(eligible) + 1
<1>. DEFINE x == ItemOf(hit)
<1>1. x \in Item /\ eligible \in Seq(Item) /\ Len(eligible) \in Nat
  BY NewItem, MemberIn DEF BuildTypeOK
<1>2. eligible' = Append(eligible, x)
  BY DEF Keep
<1>. HIDE DEF x
<1>3. /\ eligible' \in Seq(Item) /\ Len(eligible') = Len(eligible) + 1
      /\ \A i \in 1..Len(eligible) : eligible'[i] = eligible[i]
      /\ eligible'[Len(eligible) + 1] = x
  BY <1>1, <1>2, AddedLast
<1>4. \A i \in 1..Len(eligible') : i \in 1..Len(eligible) \/ i = Len(eligible) + 1
  BY <1>1, <1>3
<1>. QED BY <1>1, <1>2, <1>3, <1>4 DEF x

(* Ranked, the items are the same, each in another place.                  *)
Shuffled(r, items) ==
  /\ r \in Seq(Item) /\ Len(r) = Len(items)
  /\ \E at : /\ at \in [1..Len(items) -> 1..Len(items)]
             /\ OneToOne(at, 1..Len(items))
             /\ \A i \in 1..Len(items) : \E k \in 1..Len(items) : at[k] = i
             /\ \A k \in 1..Len(items) : r[k] = items[at[k]]

LEMMA ScoreType ==
  ASSUME option \in Options, NEW x \in Item, x.tokens \in DOMAIN Ranker[option.ranker]
  PROVE  RankScore(x) = Score(option, x) /\ Score(option, x) \in Int
<1>1. option.ranker \in DOMAIN Ranker
  BY OptionType DEF Option
<1>2. Ranker[option.ranker][x.tokens] \in Nat \ {0} /\ x.similarity \in Nat
  BY <1>1, ItemFields, ContextAssumption
<1>3. Score(option, x) \in Int
  <2>. DEFINE d == Ranker[option.ranker][x.tokens]
              m == 100 * x.similarity
  <2>1. m \in Nat /\ d \in Nat \ {0}
    BY <1>2
  <2>. HIDE DEF d, m
  <2>2. m \div d \in Int
    BY <2>1
  <2>. QED BY <2>2 DEF d, m, Score
<1>. QED BY <1>3 DEF Score, RankScore

LEMMA RankShuffles ==
  ASSUME BuildTypeOK, ScoreInv, Rank
  PROVE  Shuffled(eligible', eligible) /\ Falling(option, eligible')
<1>. DEFINE n == Len(eligible)
            keys == [i \in DOMAIN eligible |-> RankScore(eligible[i])]
<1>1. /\ n \in Nat /\ DOMAIN eligible = 1..n
      /\ \A i \in 1..n : eligible[i] \in Item
  BY MemberIn DEF BuildTypeOK
<1>2. \A i \in 1..n : /\ RankScore(eligible[i]) = Score(option, eligible[i])
                      /\ Score(option, eligible[i]) \in Int
  BY <1>1, ScoreType DEF BuildTypeOK, ScoreInv
<1>3. eligible' = Ordered(eligible, DOMAIN eligible, keys)
  BY DEF Rank, Sorted
<1>. HIDE DEF n
<1>4. keys \in [1..n -> Int] /\ \A i \in 1..n : keys[i] = Score(option, eligible[i])
  BY <1>1, <1>2
<1>. HIDE DEF keys
<1>5. Cardinality(1..n) = n
  BY <1>1, CountPlaces
<1>6. Sorts(eligible', eligible, 1..n, keys)
  BY <1>1, <1>3, <1>4, OrderedIs
<1>7. PICK at : Arranges(at, 1..n, keys) /\ eligible' = [k \in 1..n |-> eligible[at[k]]]
  BY <1>5, <1>6 DEF Sorts
<1>8. /\ at \in [1..n -> 1..n] /\ OneToOne(at, 1..n)
      /\ \A i \in 1..n : \E k \in 1..n : at[k] = i
      /\ \A j, k \in 1..n : j < k => GoesBefore(keys, at[j], at[k])
  BY <1>5, <1>7 DEF Arranges
<1>9. eligible' \in [1..n -> Item]
  BY <1>1, <1>7, <1>8
<1>10. eligible' \in Seq(Item) /\ Len(eligible') = n
  BY <1>1, <1>9
<1>11. \A k \in 1..n : eligible'[k] = eligible[at[k]]
  BY <1>7
<1>12. Shuffled(eligible', eligible)
  BY <1>8, <1>10, <1>11 DEF Shuffled, n
<1>13. ASSUME NEW i \in 1..n, NEW j \in 1..n, i < j
       PROVE  Score(option, eligible'[i]) >= Score(option, eligible'[j])
  <2>1. GoesBefore(keys, at[i], at[j]) /\ at[i] \in 1..n /\ at[j] \in 1..n
    BY <1>8, <1>13
  <2>2. keys[at[i]] >= keys[at[j]]
    BY <1>4, <2>1 DEF GoesBefore
  <2>. QED BY <1>4, <1>11, <2>1, <2>2
<1>. QED BY <1>10, <1>12, <1>13 DEF Falling

LEMMA TypeInit == BuildInit => BuildTypeOK /\ ScoreInv
<1>. SUFFICES ASSUME BuildInit PROVE BuildTypeOK /\ ScoreInv
  OBVIOUS
<1>1. Len(eligible) = 0 /\ <<>> \in Seq(Item) /\ <<>> \in Seq(MembraneHit)
      /\ <<>> \in Seq([key : Payload, winner : 1..0])
      /\ <<>> \in Seq([unit : Embedding, winner : 1..0])
  BY DEF BuildInit
<1>2. EmptyBundle \in Bundle
  BY <1>1 DEF EmptyBundle, Bundle
<1>. QED BY <1>1, <1>2 DEF BuildInit, BuildTypeOK, ScoreInv

(* The eligible items stay as many, or there is one more.                  *)
LEMMA FindsTyped ==
  ASSUME BuildTypeOK, ScoreInv, eligible' \in Seq(Item), Len(eligible') = Len(eligible),
         \A i \in 1..Len(eligible) :
           \E k \in 1..Len(eligible) : eligible'[i].tokens = eligible[k].tokens,
         UNCHANGED <<option, seenRecord, seenUnitVecs>>
  PROVE  /\ seenRecord' \in Seq([key : Payload, winner : 1..Len(eligible')])
         /\ seenUnitVecs' \in Seq([unit : Embedding, winner : 1..Len(eligible')])
         /\ ScoreInv'
BY DEF BuildTypeOK, ScoreInv

LEMMA CreditTyped ==
  ASSUME BuildTypeOK, ScoreInv, NEW hit, Credits(hit),
         UNCHANGED <<option, seenRecord, seenUnitVecs>>
  PROVE  /\ eligible' \in Seq(Item) /\ Len(eligible') = Len(eligible)
         /\ seenRecord' \in Seq([key : Payload, winner : 1..Len(eligible')])
         /\ seenUnitVecs' \in Seq([unit : Embedding, winner : 1..Len(eligible')])
         /\ ScoreInv'
<1>1. PICK w \in 1..Len(eligible) : Credited(eligible', eligible, w, hit.origin)
  BY DEF Credits
<1>2. /\ eligible' \in Seq(Item) /\ Len(eligible') = Len(eligible)
      /\ \A i \in 1..Len(eligible) : eligible'[i].tokens = eligible[i].tokens
  BY <1>1 DEF Credited, Twins
<1>. QED BY <1>2, FindsTyped

LEMMA BundleFields ==
  ASSUME NEW b \in Bundle
  PROVE  /\ b.items \in Seq(Item) /\ b.totalTokens \in Nat /\ b.duplicates \in Nat
         /\ b.belowThreshold \in Nat /\ b.overBudget \in Nat
         /\ b.redundantSentences \in Nat /\ b.semanticDuplicates \in Nat
BY DEF Bundle

LEMMA ConsumeAdds ==
  ASSUME BuildTypeOK, NEW hit \in MembraneHit, Consume(hit)
  PROVE  /\ stage = "filter" /\ hits' = Append(hits, hit) /\ hits' \in Seq(MembraneHit)
         /\ Len(hits) \in Nat /\ Len(hits') = Len(hits) + 1
         /\ \A i \in 1..Len(hits) : hits'[i] = hits[i]
         /\ hits'[Len(hits) + 1] = hit
         /\ \A i \in 1..Len(hits') : i \in 1..Len(hits) \/ i = Len(hits) + 1
         /\ 1..Len(hits) \subseteq 1..Len(hits')
         /\ Len(hits) + 1 \in 1..Len(hits')
<1>1. hits \in Seq(MembraneHit) /\ Len(hits) \in Nat
  BY MemberIn DEF BuildTypeOK
<1>2. hits' = Append(hits, hit) /\ stage = "filter"
  BY DEF Consume
<1>3. /\ hits' \in Seq(MembraneHit) /\ Len(hits') = Len(hits) + 1
      /\ \A i \in 1..Len(hits) : hits'[i] = hits[i]
      /\ hits'[Len(hits) + 1] = hit
  BY <1>1, <1>2, AddedLast
<1>4. \A i \in 1..Len(hits') : i \in 1..Len(hits) \/ i = Len(hits) + 1
  BY <1>1, <1>3
<1>5. 1..Len(hits) \subseteq 1..Len(hits') /\ Len(hits) + 1 \in 1..Len(hits')
  BY <1>1, <1>3
<1>. QED BY <1>1, <1>2, <1>3, <1>4, <1>5

(* What each action does to the bundle.                                    *)
Same(b, c) ==
  /\ c.items = b.items /\ c.totalTokens = b.totalTokens /\ c.overBudget = b.overBudget

LEMMA BundleSteps ==
  ASSUME BuildTypeOK, NEW hit \in MembraneHit
  PROVE  /\ DropBelowThreshold(hit) =>
              /\ bundle' \in Bundle /\ Same(bundle, bundle')
              /\ bundle'.belowThreshold = bundle.belowThreshold + 1
              /\ bundle'.duplicates = bundle.duplicates
              /\ bundle'.redundantSentences = bundle.redundantSentences
              /\ bundle'.semanticDuplicates = bundle.semanticDuplicates
         /\ DropDuplicate(hit) =>
              /\ bundle' \in Bundle /\ Same(bundle, bundle')
              /\ bundle'.duplicates = bundle.duplicates + 1
              /\ bundle'.belowThreshold = bundle.belowThreshold
              /\ bundle'.redundantSentences = bundle.redundantSentences
              /\ bundle'.semanticDuplicates = bundle.semanticDuplicates
         /\ DropSemantic(hit) =>
              /\ bundle' \in Bundle /\ Same(bundle, bundle')
              /\ bundle'.semanticDuplicates = bundle.semanticDuplicates + 1
              /\ bundle'.belowThreshold = bundle.belowThreshold
              /\ bundle'.duplicates = bundle.duplicates
              /\ bundle'.redundantSentences = bundle.redundantSentences
         /\ DropRedundant(hit) \/ Keep(hit) =>
              /\ bundle' \in Bundle /\ Same(bundle, bundle')
              /\ bundle'.redundantSentences = bundle.redundantSentences + Redundant(hit)
              /\ bundle'.belowThreshold = bundle.belowThreshold
              /\ bundle'.duplicates = bundle.duplicates
              /\ bundle'.semanticDuplicates = bundle.semanticDuplicates
<1>1. bundle \in Bundle
  BY DEF BuildTypeOK
<1>2. /\ bundle.totalTokens \in Nat /\ bundle.duplicates \in Nat
      /\ bundle.belowThreshold \in Nat /\ bundle.overBudget \in Nat
      /\ bundle.redundantSentences \in Nat /\ bundle.semanticDuplicates \in Nat
      /\ Redundant(hit) \in Nat
  BY <1>1, BundleFields, ContentIs DEF BuildTypeOK
<1>3. ASSUME DropBelowThreshold(hit)
      PROVE  bundle' = [bundle EXCEPT !.belowThreshold = bundle.belowThreshold + 1]
  BY <1>3 DEF DropBelowThreshold
<1>4. ASSUME DropDuplicate(hit)
      PROVE  bundle' = [bundle EXCEPT !.duplicates = bundle.duplicates + 1]
  BY <1>4 DEF DropDuplicate
<1>5. ASSUME DropSemantic(hit)
      PROVE  bundle' = [bundle EXCEPT !.semanticDuplicates = bundle.semanticDuplicates + 1]
  BY <1>5 DEF DropSemantic
<1>6. ASSUME DropRedundant(hit) \/ Keep(hit)
      PROVE  bundle' = [bundle EXCEPT !.redundantSentences =
                          bundle.redundantSentences + Redundant(hit)]
  BY <1>6 DEF DropRedundant, Keep
<1>7. DropBelowThreshold(hit) =>
        /\ bundle' \in Bundle /\ Same(bundle, bundle')
        /\ bundle'.belowThreshold = bundle.belowThreshold + 1
        /\ bundle'.duplicates = bundle.duplicates
        /\ bundle'.redundantSentences = bundle.redundantSentences
        /\ bundle'.semanticDuplicates = bundle.semanticDuplicates
  BY <1>1, <1>2, <1>3 DEF Bundle, Same
<1>8. DropDuplicate(hit) =>
        /\ bundle' \in Bundle /\ Same(bundle, bundle')
        /\ bundle'.duplicates = bundle.duplicates + 1
        /\ bundle'.belowThreshold = bundle.belowThreshold
        /\ bundle'.redundantSentences = bundle.redundantSentences
        /\ bundle'.semanticDuplicates = bundle.semanticDuplicates
  BY <1>1, <1>2, <1>4 DEF Bundle, Same
<1>9. DropSemantic(hit) =>
        /\ bundle' \in Bundle /\ Same(bundle, bundle')
        /\ bundle'.semanticDuplicates = bundle.semanticDuplicates + 1
        /\ bundle'.belowThreshold = bundle.belowThreshold
        /\ bundle'.duplicates = bundle.duplicates
        /\ bundle'.redundantSentences = bundle.redundantSentences
  BY <1>1, <1>2, <1>5 DEF Bundle, Same
<1>10. DropRedundant(hit) \/ Keep(hit) =>
        /\ bundle' \in Bundle /\ Same(bundle, bundle')
        /\ bundle'.redundantSentences = bundle.redundantSentences + Redundant(hit)
        /\ bundle'.belowThreshold = bundle.belowThreshold
        /\ bundle'.duplicates = bundle.duplicates
        /\ bundle'.semanticDuplicates = bundle.semanticDuplicates
  BY <1>1, <1>2, <1>6 DEF Bundle, Same
<1>. QED BY <1>7, <1>8, <1>9, <1>10

(* The second loop.                                                        *)
LEMMA LeaveOutIs ==
  ASSUME BuildTypeOK, LeaveOut
  PROVE  /\ stage = "budget" /\ next \in 1..Len(eligible) /\ next' = next + 1
         /\ ~Fits(eligible[next]) /\ eligible[next] \in Item
         /\ bundle' \in Bundle /\ bundle'.overBudget = bundle.overBudget + 1
         /\ bundle'.items = bundle.items /\ bundle'.totalTokens = bundle.totalTokens
         /\ bundle'.duplicates = bundle.duplicates
         /\ bundle'.belowThreshold = bundle.belowThreshold
         /\ bundle'.redundantSentences = bundle.redundantSentences
         /\ bundle'.semanticDuplicates = bundle.semanticDuplicates
         /\ UNCHANGED <<option, stage, hits, seenRecord, seenSentence, seenUnitVecs, eligible>>
<1>1. bundle \in Bundle /\ bundle.overBudget \in Nat
  BY BundleFields DEF BuildTypeOK
<1>2. Len(eligible) \in Nat /\ \A i \in 1..Len(eligible) : eligible[i] \in Item
  BY MemberIn DEF BuildTypeOK
<1>3. next \in 1..Len(eligible)
  BY <1>2 DEF BuildTypeOK, LeaveOut
<1>4. bundle' = [bundle EXCEPT !.overBudget = bundle.overBudget + 1]
  BY DEF LeaveOut
<1>5. /\ bundle' \in Bundle /\ bundle'.overBudget = bundle.overBudget + 1
      /\ bundle'.items = bundle.items /\ bundle'.totalTokens = bundle.totalTokens
      /\ bundle'.duplicates = bundle.duplicates
      /\ bundle'.belowThreshold = bundle.belowThreshold
      /\ bundle'.redundantSentences = bundle.redundantSentences
      /\ bundle'.semanticDuplicates = bundle.semanticDuplicates
  BY <1>1, <1>4 DEF Bundle
<1>. QED BY <1>2, <1>3, <1>5 DEF LeaveOut, seen

LEMMA PackIs ==
  ASSUME BuildTypeOK, Pack
  PROVE  /\ stage = "budget" /\ next \in 1..Len(eligible) /\ next' = next + 1
         /\ Fits(eligible[next]) /\ eligible[next] \in Item
         /\ bundle' \in Bundle /\ bundle'.overBudget = bundle.overBudget
         /\ bundle'.items = Append(bundle.items, eligible[next])
         /\ bundle'.totalTokens = bundle.totalTokens + eligible[next].tokens
         /\ bundle'.duplicates = bundle.duplicates
         /\ bundle'.belowThreshold = bundle.belowThreshold
         /\ bundle'.redundantSentences = bundle.redundantSentences
         /\ bundle'.semanticDuplicates = bundle.semanticDuplicates
         /\ UNCHANGED <<option, stage, hits, seenRecord, seenSentence, seenUnitVecs, eligible>>
<1>. DEFINE x == eligible[next]
            more == Append(bundle.items, x)
            total == bundle.totalTokens + x.tokens
<1>1. bundle \in Bundle /\ bundle.items \in Seq(Item) /\ bundle.totalTokens \in Nat
  BY BundleFields DEF BuildTypeOK
<1>2. Len(eligible) \in Nat /\ \A i \in 1..Len(eligible) : eligible[i] \in Item
  BY MemberIn DEF BuildTypeOK
<1>3. next \in 1..Len(eligible)
  BY <1>2 DEF BuildTypeOK, Pack
<1>4. x \in Item /\ x.tokens \in Nat
  BY <1>2, <1>3, ItemFields
<1>5. bundle' = [bundle EXCEPT !.items = more, !.totalTokens = total]
  BY DEF Pack
<1>6. Fits(x) /\ next' = next + 1 /\ stage = "budget"
      /\ UNCHANGED <<option, stage, hits, seenRecord, seenSentence, seenUnitVecs, eligible>>
  BY DEF Pack, seen
<1>. HIDE DEF x
<1>7. more \in Seq(Item) /\ total \in Nat
  BY <1>1, <1>4, AddedLast
<1>. HIDE DEF more, total
<1>8. /\ bundle' \in Bundle /\ bundle'.overBudget = bundle.overBudget
      /\ bundle'.items = more /\ bundle'.totalTokens = total
      /\ bundle'.duplicates = bundle.duplicates
      /\ bundle'.belowThreshold = bundle.belowThreshold
      /\ bundle'.redundantSentences = bundle.redundantSentences
      /\ bundle'.semanticDuplicates = bundle.semanticDuplicates
  BY <1>1, <1>5, <1>7 DEF Bundle
<1>. QED BY <1>3, <1>4, <1>6, <1>8 DEF x, more, total

(* The five ways of a hit, and what they have in common.                   *)
Way(hit) ==
  \/ DropBelowThreshold(hit) \/ DropDuplicate(hit) \/ DropRedundant(hit)
  \/ DropSemantic(hit) \/ Keep(hit)

LEMMA WayIs ==
  ASSUME BuildTypeOK, NEW hit \in MembraneHit, Way(hit)
  PROVE  /\ Consume(hit) /\ UNCHANGED <<option, stage, next>> /\ bundle' \in Bundle
         /\ Same(bundle, bundle')
         /\ seenSentence' \subseteq Sentence /\ seenSentence \subseteq seenSentence'
<1>1. Consume(hit) /\ UNCHANGED <<option, stage, next>>
  BY DEF Way, DropBelowThreshold, DropDuplicate, DropRedundant, DropSemantic, Keep, Fresh
<1>2. bundle' \in Bundle /\ Same(bundle, bundle')
  BY BundleSteps DEF Way
<1>3. ToSet(hit.payload) \subseteq Sentence
  <2>1. hit.payload \in Seq(Sentence)
    BY HitType
  <2>. DEFINE p == hit.payload
  <2>. HIDE DEF p
  <2>2. p \in Seq(Sentence) => ToSet(p) \subseteq Sentence
    BY DEF ToSet
  <2>. QED BY <2>1, <2>2 DEF p
<1>4. seenSentence' = seenSentence \/ seenSentence' = seenSentence \cup ToSet(hit.payload)
  BY DEF Way, DropBelowThreshold, DropDuplicate, DropRedundant, DropSemantic, Keep, Fresh, seen
<1>. QED BY <1>1, <1>2, <1>3, <1>4 DEF BuildTypeOK

LEMMA TypeWay ==
  ASSUME BuildTypeOK, ScoreInv, NEW hit \in MembraneHit, Way(hit)
  PROVE  BuildTypeOK' /\ ScoreInv'
<1>. DEFINE n == Len(eligible)
            Good == /\ eligible' \in Seq(Item) /\ n <= Len(eligible')
                    /\ seenRecord' \in Seq([key : Payload, winner : 1..Len(eligible')])
                    /\ seenUnitVecs' \in Seq([unit : Embedding, winner : 1..Len(eligible')])
                    /\ ScoreInv'
<1>1. /\ hits' \in Seq(MembraneHit) /\ UNCHANGED <<option, stage, next>> /\ bundle' \in Bundle
      /\ seenSentence' \subseteq Sentence
  BY WayIs, ConsumeAdds
<1>2. /\ n \in Nat /\ eligible \in Seq(Item)
      /\ seenRecord \in Seq([key : Payload, winner : 1..n])
      /\ seenUnitVecs \in Seq([unit : Embedding, winner : 1..n])
  BY MemberIn DEF BuildTypeOK
<1>3. CASE DropBelowThreshold(hit) \/ DropRedundant(hit)
  <2>1. UNCHANGED <<option, eligible, seenRecord, seenUnitVecs>>
    BY <1>3 DEF DropBelowThreshold, DropRedundant, seen
  <2>2. Good
    BY <1>2, <2>1 DEF ScoreInv
  <2>. QED BY <1>1, <1>2, <2>2 DEF BuildTypeOK
<1>4. CASE DropDuplicate(hit) \/ DropSemantic(hit)
  <2>1. Credits(hit) /\ UNCHANGED <<option, seenRecord, seenUnitVecs>>
    BY <1>4, DuplicateCredits, SemanticCredits DEF DropDuplicate, DropSemantic, seen
  <2>2. Good
    <3>1. /\ eligible' \in Seq(Item) /\ Len(eligible') = Len(eligible)
          /\ seenRecord' \in Seq([key : Payload, winner : 1..Len(eligible')])
          /\ seenUnitVecs' \in Seq([unit : Embedding, winner : 1..Len(eligible')])
          /\ ScoreInv'
      BY <2>1, CreditTyped
    <3>. QED BY <1>2, <3>1
  <2>. QED BY <1>1, <1>2, <2>2 DEF BuildTypeOK
<1>5. CASE Keep(hit)
  <2>1. /\ ItemOf(hit) \in Item /\ eligible' \in Seq(Item) /\ Len(eligible') = n + 1
        /\ \A i \in 1..n : eligible'[i] = eligible[i]
        /\ eligible'[n + 1] = ItemOf(hit)
        /\ \A i \in 1..Len(eligible') : i \in 1..n \/ i = n + 1
    BY <1>5, KeepAdds
  <2>2. ItemOf(hit).tokens \in DOMAIN Ranker[option.ranker] /\ option' = option
    BY <1>1, NewItem DEF BuildTypeOK
  <2>3. ScoreInv'
    BY <2>1, <2>2 DEF ScoreInv
  <2>4. n + 1 \in 1..n + 1 /\ hit.payload \in Payload
    BY <1>2, HitType
  <2>5. seenRecord' \in Seq([key : Payload, winner : 1..n + 1])
    <3>. DEFINE r == [key |-> hit.payload, winner |-> n + 1]
                V == [key : Payload, winner : 1..n + 1]
    <3>1. r \in V
      BY <2>4
    <3>2. seenRecord \in Seq(V)
      BY <1>2, Wider
    <3>3. seenRecord' = Append(seenRecord, r)
      BY <1>5, <2>1 DEF Keep
    <3>. HIDE DEF r, V
    <3>4. seenRecord' \in Seq(V)
      BY <3>1, <3>2, <3>3, AddedLast
    <3>. QED BY <3>4 DEF V
  <2>6. seenUnitVecs' \in Seq([unit : Embedding, winner : 1..n + 1])
    <3>. DEFINE r == [unit |-> hit.embedding, winner |-> n + 1]
                V == [unit : Embedding, winner : 1..n + 1]
    <3>1. hit.embedding # Absent => r \in V
      BY <2>4, HitType
    <3>2. seenUnitVecs \in Seq(V)
      BY <1>2, Wider
    <3>3. seenUnitVecs' = IF option.semanticDedup /\ hit.embedding # Absent
                            THEN Append(seenUnitVecs, r) ELSE seenUnitVecs
      BY <1>5, <2>1 DEF Keep
    <3>. HIDE DEF r, V
    <3>4. seenUnitVecs' \in Seq(V)
      BY <3>1, <3>2, <3>3, AddedLast
    <3>. QED BY <3>4 DEF V
  <2>7. Good
    BY <1>2, <2>1, <2>3, <2>5, <2>6
  <2>. QED BY <1>1, <1>2, <2>7 DEF BuildTypeOK
<1>. QED BY <1>3, <1>4, <1>5 DEF Way

LEMMA TypeStep ==
  ASSUME BuildTypeOK, ScoreInv, [BuildNext]_buildVars
  PROVE  BuildTypeOK' /\ ScoreInv'
<1>. DEFINE n == Len(eligible)
<1>1. n \in Nat /\ next \in 1..n + 1
  BY MemberIn DEF BuildTypeOK
<1>2. CASE Filter
  BY <1>2, TypeWay DEF Filter, Way
<1>3. CASE Rank
  <2>1. PICK at \in [1..n -> 1..n] : /\ eligible' \in Seq(Item) /\ Len(eligible') = n
                                     /\ \A k \in 1..n : eligible'[k] = eligible[at[k]]
    BY <1>3, RankShuffles DEF Shuffled
  <2>2. /\ UNCHANGED <<option, hits, seenRecord, seenSentence, seenUnitVecs, next, bundle>>
        /\ stage' = "budget"
    BY <1>3 DEF Rank, seen
  <2>3. \A i \in 1..n : \E k \in 1..n : eligible'[i].tokens = eligible[k].tokens
    BY <2>1
  <2>4. /\ seenRecord' \in Seq([key : Payload, winner : 1..Len(eligible')])
        /\ seenUnitVecs' \in Seq([unit : Embedding, winner : 1..Len(eligible')])
        /\ ScoreInv'
    BY <2>1, <2>2, <2>3, FindsTyped
  <2>. QED BY <1>1, <2>1, <2>2, <2>4 DEF BuildTypeOK
<1>4. CASE LeaveOut \/ Pack
  <2>1. /\ next \in 1..n /\ next' = next + 1 /\ bundle' \in Bundle
        /\ UNCHANGED <<option, stage, hits, seenRecord, seenSentence, seenUnitVecs, eligible>>
    BY <1>4, LeaveOutIs, PackIs
  <2>2. next' \in 1..n + 1
    BY <1>1, <2>1
  <2>. QED BY <2>1, <2>2 DEF BuildTypeOK, ScoreInv
<1>5. CASE Finish
  BY <1>5 DEF Finish, BuildTypeOK, ScoreInv, seen
<1>6. CASE UNCHANGED buildVars
  BY <1>6 DEF buildVars, BuildTypeOK, ScoreInv, seen
<1>. QED BY <1>2, <1>3, <1>4, <1>5, <1>6 DEF BuildNext

----------------------------------------------------------------------------
(* Provenance.                                                             *)

(* The hits are those before, and maybe one more.                          *)
Longer(hs, more) ==
  /\ Len(hs) \in Nat /\ Len(more) \in Nat /\ Len(hs) <= Len(more)
  /\ \A i \in 1..Len(hs) : i \in 1..Len(more) /\ more[i] = hs[i]

LEMMA ShippedStays ==
  ASSUME NEW o, NEW hs, NEW more, Longer(hs, more), NEW x, NEW y, Twins(y, x), NEW origin,
         Shipped(o, hs, x, origin)
  PROVE  Shipped(o, more, y, origin)
<1>1. PICK i \in 1..Len(hs) : /\ hs[i].similarity >= o.minSimilarity
                              /\ hs[i].origin = origin /\ Resembles(o, hs[i], x)
  BY DEF Shipped
<1>2. i \in 1..Len(more) /\ more[i] = hs[i]
  BY DEF Longer
<1>3. Resembles(o, hs[i], y)
  BY <1>1 DEF Resembles, Twins
<1>. QED BY <1>1, <1>2, <1>3 DEF Shipped

LEMMA SourcedStays ==
  ASSUME NEW o, NEW hs, NEW more, Longer(hs, more), NEW x, NEW y, Twins(y, x),
         y.sources = x.sources, Sourced(o, hs, x)
  PROVE  Sourced(o, more, y)
<1>1. \A k \in 1..Len(y.sources) : Shipped(o, more, y, y.sources[k])
  BY ShippedStays DEF Sourced
<1>. QED BY <1>1 DEF Sourced, Twins

LEMMA SourcedMore ==
  ASSUME NEW o, NEW hs, NEW more, Longer(hs, more), NEW x \in Item, NEW y, Twins(y, x),
         NEW origin \in Origin,
         y.sources = IF origin \in ToSet(x.sources) THEN x.sources
                     ELSE Append(x.sources, origin),
         Sourced(o, hs, x), Shipped(o, more, x, origin)
  PROVE  Sourced(o, more, y)
<1>. DEFINE s == x.sources
            n == Len(x.sources)
            r == y.sources
<1>1. /\ s \in Seq(Origin) /\ n \in Nat /\ ToSet(s) = {s[i] : i \in 1..n}
      /\ s # <<>> /\ s[1] = x.origin /\ OneToOne(s, 1..n) /\ y.origin = x.origin
      /\ \A k \in 1..n : Shipped(o, hs, x, s[k])
  BY ItemFields, MemberIn DEF Sourced, Twins, ToSet
<1>2. \A k \in 1..n : Shipped(o, more, y, s[k])
  BY <1>1, ShippedStays
<1>3. Shipped(o, more, y, origin)
  <2>1. Longer(more, more)
    BY DEF Longer
  <2>. QED BY <2>1, ShippedStays
<1>4. r = IF origin \in ToSet(s) THEN s ELSE Append(s, origin)
  OBVIOUS
<1>. HIDE DEF s, n
<1>5. CASE origin \in ToSet(s)
  <2>1. r = s
    BY <1>4, <1>5
  <2>. QED BY <1>1, <1>2, <2>1 DEF Sourced, n, s
<1>6. CASE origin \notin ToSet(s)
  <2>1. r = Append(s, origin) /\ n = Len(s)
    BY <1>4, <1>6 DEF n, s
  <2>. HIDE DEF r
  <2>2. /\ r \in Seq(Origin) /\ Len(r) = n + 1 /\ r[n + 1] = origin
        /\ \A i \in 1..n : r[i] = s[i]
    BY <1>1, <2>1, AddedLast
  <2>3. \A i \in 1..n + 1 : i \in 1..n \/ i = n + 1
    BY <1>1
  <2>4. \A k \in 1..n + 1 : Shipped(o, more, y, r[k])
    BY <1>2, <1>3, <2>2, <2>3
  <2>5. OneToOne(r, 1..n + 1)
    <3>1. \A i \in 1..n : s[i] # origin
      BY <1>1, <1>6
    <3>. QED BY <1>1, <2>2, <2>3, <3>1 DEF OneToOne
  <2>6. r # <<>> /\ r[1] = x.origin
    <3>1. 1 \in 1..n
      BY <1>1, <2>1
    <3>. QED BY <1>1, <2>2, <3>1
  <2>. QED BY <1>1, <2>2, <2>4, <2>5, <2>6 DEF Sourced, r
<1>. QED BY <1>5, <1>6

LEMMA ConsumeLonger ==
  ASSUME BuildTypeOK, NEW hit \in MembraneHit, Consume(hit)
  PROVE  Longer(hits, hits')
<1>1. /\ Len(hits) \in Nat /\ Len(hits') = Len(hits) + 1
      /\ \A i \in 1..Len(hits) : hits'[i] = hits[i]
      /\ 1..Len(hits) \subseteq 1..Len(hits')
  BY ConsumeAdds
<1>. QED BY <1>1 DEF Longer

LEMMA TwinsSame == \A x : Twins(x, x)
BY DEF Twins

LEMMA SourceWay ==
  ASSUME BuildTypeOK, Unranked, SourceInv, NEW hit \in MembraneHit, Way(hit)
  PROVE  SourceInv'
<1>1. Consume(hit) /\ UNCHANGED option /\ Longer(hits, hits')
  BY WayIs, ConsumeLonger
<1>2. /\ hit.origin \in Origin /\ Len(hits) + 1 \in 1..Len(hits')
      /\ hits'[Len(hits) + 1] = hit
  BY <1>1, HitType, ConsumeAdds
<1>3. \A i \in 1..Len(eligible) : /\ eligible[i] \in Item
                                  /\ Sourced(option, hits, eligible[i])
                                  /\ Sourced(option, hits', eligible[i])
  <2>1. \A i \in 1..Len(eligible) : /\ eligible[i] \in Item
                                    /\ Sourced(option, hits, eligible[i])
    BY MemberIn DEF SourceInv, BuildTypeOK
  <2>. QED BY <1>1, <2>1, SourcedStays, TwinsSame
<1>4. ASSUME hit.similarity >= option.minSimilarity, NEW x, Resembles(option, hit, x)
      PROVE  Shipped(option, hits', x, hit.origin)
  BY <1>2, <1>4 DEF Shipped
<1>5. CASE DropBelowThreshold(hit) \/ DropRedundant(hit)
  <2>1. UNCHANGED eligible
    BY <1>5 DEF DropBelowThreshold, DropRedundant
  <2>. QED BY <1>1, <1>3, <2>1 DEF SourceInv
<1>6. CASE DropDuplicate(hit) \/ DropSemantic(hit)
  <2>1. Credits(hit) /\ hit.similarity >= option.minSimilarity
    BY <1>6, DuplicateCredits, SemanticCredits DEF DropDuplicate, DropSemantic, Fresh
  <2>2. PICK w \in 1..Len(eligible) : /\ Credited(eligible', eligible, w, hit.origin)
                                      /\ Resembles(option, hit, eligible[w])
    BY <2>1 DEF Credits
  <2>3. Sourced(option, hits', eligible'[w])
    <3>1. /\ Twins(eligible'[w], eligible[w])
          /\ eligible'[w].sources = IF hit.origin \in ToSet(eligible[w].sources)
                                      THEN eligible[w].sources
                                      ELSE Append(eligible[w].sources, hit.origin)
      BY <2>2 DEF Credited
    <3>2. Shipped(option, hits', eligible[w], hit.origin)
      BY <1>4, <2>1, <2>2
    <3>. QED BY <1>1, <1>2, <1>3, <3>1, <3>2, SourcedMore
  <2>4. \A i \in 1..Len(eligible') : i # w => Sourced(option, hits', eligible'[i])
    BY <1>3, <2>2 DEF Credited
  <2>. QED BY <1>1, <2>3, <2>4 DEF SourceInv
<1>7. CASE Keep(hit)
  <2>. DEFINE x == ItemOf(hit)
  <2>1. /\ \A i \in 1..Len(eligible) : eligible'[i] = eligible[i]
        /\ eligible'[Len(eligible) + 1] = x
        /\ \A i \in 1..Len(eligible') : i \in 1..Len(eligible) \/ i = Len(eligible) + 1
    BY <1>7, KeepAdds
  <2>2. /\ x.origin = hit.origin /\ x.payload = hit.payload /\ x.sources = <<hit.origin>>
    BY NewItem DEF BuildTypeOK
  <2>3. hit.similarity >= option.minSimilarity
    BY <1>7 DEF Keep, Fresh
  <2>. HIDE DEF x
  <2>4. Resembles(option, hit, x)
    BY <2>2 DEF Resembles
  <2>5. Shipped(option, hits', x, hit.origin)
    BY <1>4, <2>3, <2>4
  <2>6. Sourced(option, hits', x)
    <3>. DEFINE s == <<hit.origin>>
    <3>1. s # <<>> /\ s[1] = hit.origin /\ Len(s) = 1 /\ \A i \in 1..1 : i = 1
      OBVIOUS
    <3>2. OneToOne(s, 1..1) /\ \A k \in 1..1 : s[k] = hit.origin
      BY <3>1 DEF OneToOne
    <3>3. x.sources = s
      BY <2>2
    <3>. HIDE DEF s
    <3>. QED BY <2>2, <2>5, <3>1, <3>2, <3>3 DEF Sourced
  <2>. QED BY <1>1, <1>3, <2>1, <2>6 DEF SourceInv
<1>. QED BY <1>5, <1>6, <1>7 DEF Way

LEMMA SourceStep ==
  ASSUME BuildTypeOK, ScoreInv, Unranked, SourceInv, [BuildNext]_buildVars
  PROVE  SourceInv'
<1>1. CASE Filter
  BY <1>1, SourceWay DEF Filter, Way
<1>2. CASE Rank
  <2>1. PICK at \in [1..Len(eligible) -> 1..Len(eligible)] :
          /\ Len(eligible') = Len(eligible)
          /\ \A k \in 1..Len(eligible) : eligible'[k] = eligible[at[k]]
    BY <1>2, RankShuffles DEF Shuffled
  <2>2. UNCHANGED <<option, hits>>
    BY <1>2 DEF Rank
  <2>. QED BY <2>1, <2>2 DEF SourceInv
<1>3. CASE LeaveOut \/ Pack \/ Finish \/ UNCHANGED buildVars
  <2>1. UNCHANGED <<option, hits, eligible>>
    BY <1>3 DEF LeaveOut, Pack, Finish, buildVars
  <2>. QED BY <2>1 DEF SourceInv
<1>. QED BY <1>1, <1>2, <1>3 DEF BuildNext

LEMMA ResemblesTwin ==
  ASSUME NEW o, NEW hit, NEW x, NEW y, Twins(y, x), Resembles(o, hit, x)
  PROVE  Resembles(o, hit, y)
BY DEF Resembles, Twins

(* Who is listed stays so while sources are added, and in any order.       *)
LEMMA ListedStays ==
  ASSUME NEW o, NEW hit, NEW items, NEW more, Listed(o, hit, items),
         \A i \in 1..Len(items) : \E k \in 1..Len(more) :
           /\ Twins(more[k], items[i])
           /\ ToSet(items[i].sources) \subseteq ToSet(more[k].sources)
  PROVE  Listed(o, hit, more)
<1>1. PICK i \in 1..Len(items) : /\ hit.origin \in ToSet(items[i].sources)
                                 /\ Resembles(o, hit, items[i])
  BY DEF Listed
<1>2. PICK k \in 1..Len(more) : /\ Twins(more[k], items[i])
                                /\ ToSet(items[i].sources) \subseteq ToSet(more[k].sources)
  OBVIOUS
<1>3. Resembles(o, hit, more[k])
  BY <1>1, <1>2 DEF Resembles, Twins
<1>. QED BY <1>1, <1>2, <1>3 DEF Listed

(* attribute_source leaves the origin among the sources of the winner.     *)
LEMMA CreditLists ==
  ASSUME NEW s \in Seq(Origin), NEW origin \in Origin, NEW r,
         r = IF origin \in ToSet(s) THEN s ELSE Append(s, origin)
  PROVE  origin \in ToSet(r) /\ ToSet(s) \subseteq ToSet(r)
<1>1. CASE origin \in ToSet(s)
  BY <1>1
<1>2. CASE origin \notin ToSet(s)
  <2>1. r = Append(s, origin)
    BY <1>2
  <2>. DEFINE n == Len(s)
  <2>2. /\ n \in Nat /\ r \in Seq(Origin) /\ Len(r) = n + 1 /\ r[n + 1] = origin
        /\ \A i \in 1..n : r[i] = s[i]
    BY <2>1, AddedLast, MemberIn
  <2>3. ToSet(s) = {s[i] : i \in 1..n} /\ ToSet(r) = {r[i] : i \in 1..n + 1}
    BY <2>2, MemberIn DEF ToSet
  <2>4. n + 1 \in 1..n + 1 /\ 1..n \subseteq 1..n + 1
    BY <2>2
  <2>. HIDE DEF n
  <2>. QED BY <2>2, <2>3, <2>4
<1>. QED BY <1>1, <1>2

LEMMA CreditedGain ==
  ASSUME NEW items \in Seq(Item), NEW more, NEW w \in 1..Len(items), NEW origin \in Origin,
         Credited(more, items, w, origin)
  PROVE  /\ Len(more) = Len(items) /\ origin \in ToSet(more[w].sources)
         /\ \A i \in 1..Len(items) :
              /\ Twins(more[i], items[i])
              /\ ToSet(items[i].sources) \subseteq ToSet(more[i].sources)
<1>1. /\ Len(more) = Len(items)
      /\ \A i \in 1..Len(items) : Twins(more[i], items[i])
      /\ \A i \in 1..Len(items) : i # w => more[i] = items[i]
  BY DEF Credited
<1>. DEFINE s == items[w].sources
            r == more[w].sources
<1>2. s \in Seq(Origin) /\ r = IF origin \in ToSet(s) THEN s ELSE Append(s, origin)
  BY MemberIn, ItemFields DEF Credited
<1>. HIDE DEF s, r
<1>3. origin \in ToSet(r) /\ ToSet(s) \subseteq ToSet(r)
  BY <1>2, CreditLists
<1>4. ASSUME NEW i \in 1..Len(items)
      PROVE  ToSet(items[i].sources) \subseteq ToSet(more[i].sources)
  <2>1. CASE i = w
    BY <1>3, <2>1 DEF s, r
  <2>2. CASE i # w
    <3>1. more[i] = items[i]
      BY <1>1, <2>2
    <3>. QED BY <3>1
  <2>. QED BY <2>1, <2>2
<1>. QED BY <1>1, <1>3, <1>4 DEF r

LEMMA ListedWay ==
  ASSUME BuildTypeOK, Unranked, ListedInv, NEW hit \in MembraneHit, Way(hit)
  PROVE  ListedInv'
<1>. SUFFICES ASSUME ~option.sentenceDedup
              PROVE  \A j \in 1..Len(hits') :
                       hits'[j].similarity >= option.minSimilarity =>
                         Listed(option, hits'[j], eligible')
  BY WayIs DEF ListedInv
<1>1. /\ Consume(hit) /\ hit.origin \in Origin
      /\ \A j \in 1..Len(hits') : j \in 1..Len(hits) \/ j = Len(hits) + 1
      /\ \A j \in 1..Len(hits) : hits'[j] = hits[j]
      /\ hits'[Len(hits) + 1] = hit
  BY WayIs, HitType, ConsumeAdds
<1>2. \A j \in 1..Len(hits) :
        hits[j].similarity >= option.minSimilarity => Listed(option, hits[j], eligible)
  BY DEF ListedInv
<1>3. SUFFICES /\ hit.similarity >= option.minSimilarity => Listed(option, hit, eligible')
               /\ \A x : Listed(option, x, eligible) => Listed(option, x, eligible')
  BY <1>1, <1>2
<1>4. CASE DropBelowThreshold(hit)
  <2>1. UNCHANGED eligible /\ hit.similarity < option.minSimilarity
    BY <1>4 DEF DropBelowThreshold
  <2>2. hit.similarity \in Int /\ option.minSimilarity \in Int
    BY HitType, OptionType DEF BuildTypeOK, Option
  <2>. QED BY <2>1, <2>2
<1>5. CASE DropRedundant(hit)
  BY <1>5 DEF DropRedundant, NothingNew
<1>6. CASE DropDuplicate(hit) \/ DropSemantic(hit)
  <2>1. PICK w \in 1..Len(eligible) : /\ Credited(eligible', eligible, w, hit.origin)
                                      /\ Resembles(option, hit, eligible[w])
    BY <1>6, DuplicateCredits, SemanticCredits DEF Credits
  <2>2. /\ Len(eligible') = Len(eligible) /\ hit.origin \in ToSet(eligible'[w].sources)
        /\ \A i \in 1..Len(eligible) :
             /\ Twins(eligible'[i], eligible[i])
             /\ ToSet(eligible[i].sources) \subseteq ToSet(eligible'[i].sources)
    BY <1>1, <2>1, CreditedGain DEF BuildTypeOK
  <2>3. Listed(option, hit, eligible')
    <3>1. Resembles(option, hit, eligible'[w])
      BY <2>1, <2>2, ResemblesTwin
    <3>. QED BY <2>2, <3>1 DEF Listed
  <2>4. ASSUME NEW x, Listed(option, x, eligible) PROVE Listed(option, x, eligible')
    BY <2>2, <2>4, ListedStays
  <2>. QED BY <2>3, <2>4
<1>7. CASE Keep(hit)
  <2>. DEFINE x == ItemOf(hit)
              n == Len(eligible)
  <2>1. /\ n \in Nat /\ Len(eligible') = n + 1
        /\ \A i \in 1..n : eligible'[i] = eligible[i]
        /\ eligible'[n + 1] = x
    BY <1>7, KeepAdds
  <2>2. x.payload = hit.payload /\ x.sources = <<hit.origin>>
    BY NewItem DEF BuildTypeOK
  <2>3. n + 1 \in 1..n + 1 /\ 1..n \subseteq 1..n + 1
    BY <2>1
  <2>. HIDE DEF x
  <2>4. Listed(option, hit, eligible')
    <3>1. hit.origin \in ToSet(x.sources)
      BY <2>2 DEF ToSet
    <3>2. Resembles(option, hit, x)
      BY <2>2 DEF Resembles
    <3>. QED BY <2>1, <2>3, <3>1, <3>2 DEF Listed
  <2>5. ASSUME NEW y, Listed(option, y, eligible) PROVE Listed(option, y, eligible')
    <3>1. PICK i \in 1..n : /\ y.origin \in ToSet(eligible[i].sources)
                            /\ Resembles(option, y, eligible[i])
      BY <2>5 DEF Listed
    <3>. QED BY <2>1, <2>3, <3>1 DEF Listed
  <2>. QED BY <2>4, <2>5
<1>. QED BY <1>4, <1>5, <1>6, <1>7 DEF Way

LEMMA ListedStep ==
  ASSUME BuildTypeOK, ScoreInv, Unranked, ListedInv, [BuildNext]_buildVars
  PROVE  ListedInv'
<1>1. CASE Filter
  BY <1>1, ListedWay DEF Filter, Way
<1>2. CASE Rank
  <2>1. PICK at \in [1..Len(eligible) -> 1..Len(eligible)] :
          /\ Len(eligible') = Len(eligible)
          /\ \A i \in 1..Len(eligible) : \E k \in 1..Len(eligible) : at[k] = i
          /\ \A k \in 1..Len(eligible) : eligible'[k] = eligible[at[k]]
    BY <1>2, RankShuffles DEF Shuffled
  <2>2. UNCHANGED <<option, hits>>
    BY <1>2 DEF Rank
  <2>3. ASSUME NEW i \in 1..Len(eligible)
        PROVE  \E k \in 1..Len(eligible') : eligible'[k] = eligible[i]
    <3>1. PICK k \in 1..Len(eligible) : at[k] = i
      BY <2>1
    <3>2. eligible'[k] = eligible[at[k]] /\ k \in 1..Len(eligible')
      BY <2>1
    <3>. QED BY <3>1, <3>2
  <2>4. \A i \in 1..Len(eligible) : \E k \in 1..Len(eligible') :
          /\ Twins(eligible'[k], eligible[i])
          /\ ToSet(eligible[i].sources) \subseteq ToSet(eligible'[k].sources)
    BY <2>3, TwinsSame
  <2>5. \A x : Listed(option, x, eligible) => Listed(option, x, eligible')
    BY <2>4, ListedStays
  <2>. QED BY <2>2, <2>5 DEF ListedInv
<1>3. CASE LeaveOut \/ Pack \/ Finish \/ UNCHANGED buildVars
  <2>1. UNCHANGED <<option, hits, eligible>>
    BY <1>3 DEF LeaveOut, Pack, Finish, buildVars
  <2>. QED BY <2>1 DEF ListedInv
<1>. QED BY <1>1, <1>2, <1>3 DEF BuildNext

----------------------------------------------------------------------------
(* Where the items are that were seen.                                     *)

(* What is credited has the same payloads, contents and embeddings.        *)
LEMMA CreditsTwins ==
  ASSUME BuildTypeOK, NEW hit, Credits(hit)
  PROVE  /\ Len(eligible') = Len(eligible) /\ Len(eligible) \in Nat
         /\ \A i \in 1..Len(eligible) : Twins(eligible'[i], eligible[i])
<1>1. Len(eligible) \in Nat
  BY MemberIn DEF BuildTypeOK
<1>. QED BY <1>1 DEF Credits, Credited

LEMMA UnrankedWay ==
  ASSUME BuildTypeOK, Unranked, NEW hit \in MembraneHit, Way(hit)
  PROVE  Unranked'
<1>. DEFINE n == Len(eligible)
<1>1. /\ stage = "filter" /\ UNCHANGED option
      /\ Recorded(seenRecord, eligible) /\ Embedded(option, seenUnitVecs, eligible)
  BY WayIs DEF Consume, Unranked
<1>2. /\ n \in Nat /\ seenRecord \in Seq([key : Payload, winner : 1..n])
      /\ seenUnitVecs \in Seq([unit : Embedding, winner : 1..n])
      /\ Len(seenRecord) = n /\ Len(seenUnitVecs) \in Nat
      /\ \A u \in 1..Len(seenUnitVecs) : seenUnitVecs[u].winner \in 1..n
  <2>1. n \in Nat /\ seenUnitVecs \in Seq([unit : Embedding, winner : 1..n])
        /\ seenRecord \in Seq([key : Payload, winner : 1..n])
    BY MemberIn DEF BuildTypeOK
  <2>2. /\ Len(seenUnitVecs) \in Nat
        /\ \A u \in 1..Len(seenUnitVecs) : seenUnitVecs[u] \in [unit : Embedding, winner : 1..n]
    BY <2>1, MemberIn
  <2>. QED BY <1>1, <2>1, <2>2 DEF Recorded
<1>3. CASE DropBelowThreshold(hit) \/ DropRedundant(hit)
  <2>1. UNCHANGED <<option, eligible, seenRecord, seenUnitVecs>>
    BY <1>3 DEF DropBelowThreshold, DropRedundant, seen
  <2>. QED BY <1>1, <2>1 DEF Unranked
<1>4. CASE DropDuplicate(hit) \/ DropSemantic(hit)
  <2>1. Credits(hit) /\ UNCHANGED <<option, seenRecord, seenUnitVecs>>
    BY <1>4, DuplicateCredits, SemanticCredits DEF DropDuplicate, DropSemantic, seen
  <2>2. /\ Len(eligible') = n
        /\ \A i \in 1..n : eligible'[i].payload = eligible[i].payload
                           /\ eligible'[i].embedding = eligible[i].embedding
    BY <2>1, CreditsTwins DEF Twins
  <2>3. Recorded(seenRecord, eligible')
    BY <1>1, <1>2, <2>2 DEF Recorded
  <2>4. Embedded(option, seenUnitVecs, eligible')
    BY <1>1, <1>2, <2>2 DEF Embedded
  <2>. QED BY <2>1, <2>3, <2>4 DEF Unranked
<1>5. CASE Keep(hit)
  <2>. DEFINE x == ItemOf(hit)
              r == [key |-> hit.payload, winner |-> n + 1]
              v == [unit |-> hit.embedding, winner |-> n + 1]
  <2>1. /\ Len(eligible') = n + 1
        /\ \A i \in 1..n : eligible'[i] = eligible[i]
        /\ eligible'[n + 1] = x
        /\ \A i \in 1..n + 1 : i \in 1..n \/ i = n + 1
    BY <1>5, KeepAdds
  <2>2. x.payload = hit.payload /\ x.embedding = hit.embedding
    BY NewItem DEF BuildTypeOK
  <2>3. hit.payload \in Payload /\ hit.embedding \in Embedding \cup {Absent}
    BY HitType
  <2>4. /\ seenRecord' = Append(seenRecord, r)
        /\ seenUnitVecs' = IF option.semanticDedup /\ hit.embedding # Absent
                             THEN Append(seenUnitVecs, v) ELSE seenUnitVecs
    BY <1>5, <2>1 DEF Keep
  <2>5. /\ r.key = x.payload /\ r.winner = n + 1
        /\ v.unit = x.embedding /\ v.winner = n + 1
    BY <2>2
  <2>6. n + 1 \in 1..n + 1
    BY <1>2
  <2>7. r \in [key : Payload, winner : 1..n + 1]
    BY <2>3, <2>6
  <2>8. hit.embedding # Absent => v \in [unit : Embedding, winner : 1..n + 1]
    BY <2>3, <2>6
  <2>9. /\ seenRecord \in Seq([key : Payload, winner : 1..n + 1])
        /\ seenUnitVecs \in Seq([unit : Embedding, winner : 1..n + 1])
    BY <1>2, Wider
  <2>10. r = [key |-> x.payload, winner |-> n + 1]
    BY <2>2
  <2>. HIDE DEF x, r, v
  <2>11. Recorded(seenRecord', eligible')
    <3>1. /\ Len(seenRecord') = n + 1 /\ seenRecord'[n + 1] = r
          /\ \A i \in 1..n : seenRecord'[i] = seenRecord[i]
      BY <1>2, <2>4, <2>7, <2>9, AddedLast
    <3>2. \A i \in 1..n : seenRecord'[i] = [key |-> eligible'[i].payload, winner |-> i]
      BY <1>1, <1>2, <2>1, <3>1 DEF Recorded
    <3>3. seenRecord'[n + 1] = [key |-> eligible'[n + 1].payload, winner |-> n + 1]
      BY <2>1, <2>10, <3>1
    <3>. QED BY <2>1, <3>1, <3>2, <3>3 DEF Recorded
  <2>12. Embedded(option, seenUnitVecs', eligible')
    <3>. DEFINE m == Len(seenUnitVecs)
    <3>1. /\ \A u \in 1..m : eligible'[seenUnitVecs[u].winner].embedding = seenUnitVecs[u].unit
          /\ option.semanticDedup =>
               \A i \in 1..n : eligible'[i].embedding # Absent =>
                 \E u \in 1..m : seenUnitVecs[u].unit = eligible'[i].embedding
      BY <1>1, <1>2, <2>1 DEF Embedded
    <3>2. CASE option.semanticDedup /\ hit.embedding # Absent
      <4>1. seenUnitVecs' = Append(seenUnitVecs, v)
        BY <2>4, <3>2
      <4>2. /\ Len(seenUnitVecs') = m + 1 /\ seenUnitVecs'[m + 1] = v
            /\ \A u \in 1..m : seenUnitVecs'[u] = seenUnitVecs[u]
        BY <2>8, <2>9, <3>2, <4>1, AddedLast
      <4>3. /\ \A u \in 1..m + 1 : u \in 1..m \/ u = m + 1
            /\ \A u \in 1..m : u \in 1..m + 1
            /\ m + 1 \in 1..m + 1
        BY <1>2
      <4>4. \A u \in 1..m + 1 :
              eligible'[seenUnitVecs'[u].winner].embedding = seenUnitVecs'[u].unit
        BY <2>1, <2>5, <3>1, <4>2, <4>3
      <4>5. \A i \in 1..n + 1 : eligible'[i].embedding # Absent =>
              \E u \in 1..m + 1 : seenUnitVecs'[u].unit = eligible'[i].embedding
        <5>1. \A i \in 1..n : eligible'[i].embedding # Absent =>
                \E u \in 1..m + 1 : seenUnitVecs'[u].unit = eligible'[i].embedding
          BY <3>1, <3>2, <4>2, <4>3
        <5>2. seenUnitVecs'[m + 1].unit = eligible'[n + 1].embedding
          BY <2>1, <2>5, <4>2
        <5>. QED BY <2>1, <4>3, <5>1, <5>2
      <4>. QED BY <2>1, <4>2, <4>4, <4>5 DEF Embedded
    <3>3. CASE ~(option.semanticDedup /\ hit.embedding # Absent)
      <4>1. seenUnitVecs' = seenUnitVecs
        BY <2>4, <3>3
      <4>2. option.semanticDedup => eligible'[n + 1].embedding = Absent
        BY <2>1, <2>2, <3>3 DEF x
      <4>. QED BY <2>1, <3>1, <4>1, <4>2 DEF Embedded
    <3>. QED BY <3>2, <3>3
  <2>. QED BY <1>1, <2>11, <2>12 DEF Unranked
<1>. QED BY <1>3, <1>4, <1>5 DEF Way

LEMMA UnrankedStep ==
  ASSUME BuildTypeOK, Unranked, [BuildNext]_buildVars
  PROVE  Unranked'
<1>1. CASE Filter
  BY <1>1, UnrankedWay DEF Filter, Way
<1>2. CASE Rank
  BY <1>2 DEF Rank, Unranked
<1>3. CASE LeaveOut \/ Pack \/ Finish
  <2>1. stage' # "filter"
    BY <1>3 DEF LeaveOut, Pack, Finish
  <2>. QED BY <2>1 DEF Unranked
<1>4. CASE UNCHANGED buildVars
  BY <1>4 DEF buildVars, Unranked, seen
<1>. QED BY <1>1, <1>2, <1>3, <1>4 DEF BuildNext

----------------------------------------------------------------------------
(* What was said before.                                                   *)

(* A hit past the threshold adds its sentences, under sentence dedup.      *)
LEMMA SentencesOf ==
  ASSUME BuildTypeOK, Unranked, SaidInv, option.sentenceDedup,
         NEW hit \in MembraneHit, Way(hit)
  PROVE  /\ hit.similarity >= option.minSimilarity =>
              ToSet(hit.payload) \subseteq seenSentence'
         /\ \A s \in seenSentence' : s \in seenSentence \/ s \in ToSet(hit.payload)
         /\ ~Keep(hit) /\ ~DropSemantic(hit) => seenSentence' = seenSentence
         /\ Keep(hit) => ToSet(hit.payload) \subseteq seenSentence'
<1>1. Remembered(seenSentence, hits, option, eligible)
  BY DEF SaidInv
<1>2. CASE DropBelowThreshold(hit)
  <2>1. UNCHANGED seenSentence /\ ~(hit.similarity >= option.minSimilarity)
    <3>1. hit.similarity \in Int /\ option.minSimilarity \in Int
      BY HitType, OptionType DEF Option, BuildTypeOK
    <3>. QED BY <1>2, <3>1 DEF DropBelowThreshold, seen
  <2>. QED BY <1>2, <2>1 DEF Keep, Fresh
<1>3. CASE DropDuplicate(hit)
  <2>1. UNCHANGED seenSentence
    BY <1>3 DEF DropDuplicate, seen
  <2>2. PICK w \in 1..Len(eligible) : eligible[w].payload = hit.payload
    BY <1>3, DuplicateCredits DEF Credits, DropDuplicate
  <2>3. ToSet(hit.payload) \subseteq seenSentence
    BY <1>1, <2>2 DEF Remembered
  <2>. QED BY <2>1, <2>3
<1>4. CASE DropRedundant(hit)
  <2>1. Content(hit) = <<>> /\ seenSentence' = seenSentence \cup ToSet(hit.payload)
    BY <1>4 DEF DropRedundant, Fresh, NothingNew
  <2>2. ToSet(Content(hit)) = {}
    BY <2>1 DEF ToSet
  <2>3. ToSet(hit.payload) \subseteq seenSentence
    BY <2>2, ContentIs DEF BuildTypeOK
  <2>. QED BY <2>1, <2>3
<1>5. CASE DropSemantic(hit) \/ Keep(hit)
  <2>1. seenSentence' = seenSentence \cup ToSet(hit.payload)
    BY <1>5 DEF DropSemantic, Keep, Fresh
  <2>. QED BY <1>5, <2>1
<1>. QED BY <1>2, <1>3, <1>4, <1>5 DEF Way

LEMMA SaidWay ==
  ASSUME BuildTypeOK, Unranked, SaidInv, NEW hit \in MembraneHit, Way(hit)
  PROVE  SaidInv'
<1>1. SUFFICES ASSUME option.sentenceDedup
               PROVE  /\ Remembered(seenSentence', hits', option, eligible')
                      /\ bundle'.semanticDuplicates = 0 =>
                           \A s \in seenSentence' : SaidBy(s, eligible')
  BY WayIs DEF SaidInv
<1>2. /\ Remembered(seenSentence, hits, option, eligible)
      /\ bundle.semanticDuplicates = 0 => \A s \in seenSentence : SaidBy(s, eligible)
  BY <1>1 DEF SaidInv
<1>3. /\ Consume(hit) /\ seenSentence \subseteq seenSentence'
      /\ \A i \in 1..Len(hits) : hits'[i] = hits[i]
      /\ hits'[Len(hits) + 1] = hit
      /\ \A i \in 1..Len(hits') : i \in 1..Len(hits) \/ i = Len(hits) + 1
  BY WayIs, ConsumeAdds
<1>4. /\ hit.similarity >= option.minSimilarity => ToSet(hit.payload) \subseteq seenSentence'
      /\ \A s \in seenSentence' : s \in seenSentence \/ s \in ToSet(hit.payload)
      /\ ~Keep(hit) /\ ~DropSemantic(hit) => seenSentence' = seenSentence
      /\ Keep(hit) => ToSet(hit.payload) \subseteq seenSentence'
  BY <1>1, SentencesOf
<1>5. \A i \in 1..Len(hits') : hits'[i].similarity >= option.minSimilarity =>
        ToSet(hits'[i].payload) \subseteq seenSentence'
  BY <1>2, <1>3, <1>4 DEF Remembered
<1>6. /\ bundle.semanticDuplicates \in Nat
      /\ DropSemantic(hit) => bundle'.semanticDuplicates = bundle.semanticDuplicates + 1
      /\ ~DropSemantic(hit) => bundle'.semanticDuplicates = bundle.semanticDuplicates
  BY BundleSteps, BundleFields DEF BuildTypeOK, Way
<1>7. CASE DropBelowThreshold(hit) \/ DropRedundant(hit)
  <2>1. UNCHANGED eligible
    BY <1>7 DEF DropBelowThreshold, DropRedundant
  <2>2. UNCHANGED seenSentence
    <3>1. DropBelowThreshold(hit) => UNCHANGED seenSentence
      BY DEF DropBelowThreshold, seen
    <3>2. DropRedundant(hit) => ~Keep(hit) /\ ~DropSemantic(hit)
      BY DEF DropRedundant, Keep, DropSemantic
    <3>. QED BY <1>4, <1>7, <3>1, <3>2
  <2>3. UNCHANGED bundle.semanticDuplicates
    BY <1>7, BundleSteps
  <2>4. Remembered(seenSentence', hits', option, eligible')
    BY <1>2, <1>5, <2>1, <2>2 DEF Remembered
  <2>. QED BY <1>2, <2>1, <2>2, <2>3, <2>4
<1>8. CASE DropDuplicate(hit) \/ DropSemantic(hit)
  <2>1. Credits(hit)
    BY <1>8, DuplicateCredits, SemanticCredits
  <2>2. /\ Len(eligible') = Len(eligible)
        /\ \A i \in 1..Len(eligible) : eligible'[i].payload = eligible[i].payload
                                       /\ eligible'[i].content = eligible[i].content
    BY <2>1, CreditsTwins DEF Twins
  <2>3. Remembered(seenSentence', hits', option, eligible')
    BY <1>2, <1>3, <1>5, <2>2 DEF Remembered
  <2>4. bundle'.semanticDuplicates = 0 =>
          UNCHANGED seenSentence /\ bundle.semanticDuplicates = 0
    <3>1. CASE DropSemantic(hit)
      BY <1>6, <3>1
    <3>2. CASE ~DropSemantic(hit)
      <4>1. UNCHANGED seenSentence
        BY <1>8, <3>2 DEF DropDuplicate, seen
      <4>. QED BY <1>6, <3>2, <4>1
    <3>. QED BY <3>1, <3>2
  <2>5. \A s : SaidBy(s, eligible) => SaidBy(s, eligible')
    BY <2>2 DEF SaidBy
  <2>. QED BY <1>2, <2>3, <2>4, <2>5
<1>9. CASE Keep(hit)
  <2>. DEFINE x == ItemOf(hit)
  <2>1. /\ Len(eligible) \in Nat /\ Len(eligible') = Len(eligible) + 1
        /\ \A i \in 1..Len(eligible) : eligible'[i] = eligible[i]
        /\ eligible'[Len(eligible) + 1] = x
        /\ \A i \in 1..Len(eligible') : i \in 1..Len(eligible) \/ i = Len(eligible) + 1
    BY <1>9, KeepAdds
  <2>2. x.payload = hit.payload /\ x.content = Content(hit)
    BY NewItem DEF BuildTypeOK
  <2>3. /\ ToSet(Content(hit)) \subseteq ToSet(hit.payload)
        /\ \A s : s \in ToSet(Content(hit)) <=> s \in ToSet(hit.payload) /\ s \notin seenSentence
    BY <1>1, ContentIs DEF BuildTypeOK
  <2>. HIDE DEF x
  <2>4. Remembered(seenSentence', hits', option, eligible')
    <3>1. ToSet(x.content) \cup ToSet(x.payload) \subseteq seenSentence'
      BY <1>4, <1>9, <2>2, <2>3
    <3>. QED BY <1>2, <1>3, <1>5, <2>1, <3>1 DEF Remembered
  <2>5. bundle'.semanticDuplicates = bundle.semanticDuplicates
    BY <1>9, BundleSteps
  <2>6. ASSUME bundle.semanticDuplicates = 0, NEW s \in seenSentence'
        PROVE  SaidBy(s, eligible')
    <3>0. 1..Len(eligible) \subseteq 1..Len(eligible') /\ Len(eligible) + 1 \in 1..Len(eligible')
      BY <2>1
    <3>1. CASE s \in seenSentence
      <4>1. SaidBy(s, eligible)
        BY <1>2, <2>6, <3>1
      <4>. QED BY <2>1, <3>0, <4>1 DEF SaidBy
    <3>2. CASE s \notin seenSentence
      <4>1. s \in ToSet(x.content)
        BY <1>4, <2>2, <2>3, <3>2
      <4>. QED BY <2>1, <3>0, <4>1 DEF SaidBy
    <3>. QED BY <3>1, <3>2
  <2>. QED BY <2>4, <2>5, <2>6
<1>. QED BY <1>7, <1>8, <1>9 DEF Way

LEMMA SaidStep ==
  ASSUME BuildTypeOK, ScoreInv, Unranked, SaidInv, [BuildNext]_buildVars
  PROVE  SaidInv'
<1>1. CASE Filter
  BY <1>1, SaidWay DEF Filter, Way
<1>2. CASE Rank
  <2>. DEFINE n == Len(eligible)
  <2>1. PICK at \in [1..n -> 1..n] :
          /\ Len(eligible') = n
          /\ \A i \in 1..n : \E k \in 1..n : at[k] = i
          /\ \A k \in 1..n : eligible'[k] = eligible[at[k]]
    BY <1>2, RankShuffles DEF Shuffled
  <2>2. UNCHANGED <<option, hits, seenSentence, bundle>>
    BY <1>2 DEF Rank, seen
  <2>3. \A s : SaidBy(s, eligible) => SaidBy(s, eligible')
    <3>1. ASSUME NEW i \in 1..n PROVE \E k \in 1..n : eligible'[k] = eligible[i]
      <4>1. PICK k \in 1..n : at[k] = i
        BY <2>1
      <4>2. eligible'[k] = eligible[i]
        BY <2>1, <4>1
      <4>. QED BY <4>2
    <3>. QED BY <2>1, <3>1 DEF SaidBy
  <2>4. Remembered(seenSentence, hits, option, eligible) =>
          Remembered(seenSentence, hits, option, eligible')
    BY <2>1 DEF Remembered
  <2>. QED BY <2>2, <2>3, <2>4 DEF SaidInv
<1>3. CASE LeaveOut \/ Pack
  <2>1. /\ UNCHANGED <<option, hits, seenSentence, eligible>>
        /\ bundle'.semanticDuplicates = bundle.semanticDuplicates
    BY <1>3, LeaveOutIs, PackIs
  <2>. QED BY <2>1 DEF SaidInv
<1>4. CASE Finish \/ UNCHANGED buildVars
  BY <1>4 DEF Finish, buildVars, SaidInv, seen
<1>. QED BY <1>1, <1>2, <1>3, <1>4 DEF BuildNext

----------------------------------------------------------------------------
(* No repeats.                                                             *)

LEMMA WithinEither == \A a, b : Within(a, b) <=> Within(b, a)
BY DEF Within

LEMMA DifferTwins ==
  ASSUME NEW o, NEW a, NEW b, NEW c, NEW d, Twins(c, a), Twins(d, b), Differ(o, a, b)
  PROVE  Differ(o, c, d)
BY DEF Twins, Differ

LEMMA RepeatWay ==
  ASSUME BuildTypeOK, Unranked, SaidInv, RepeatInv, NEW hit \in MembraneHit, Way(hit)
  PROVE  RepeatInv'
<1>. DEFINE n == Len(eligible)
<1>1. /\ stage = "filter" /\ UNCHANGED option
      /\ Recorded(seenRecord, eligible) /\ Embedded(option, seenUnitVecs, eligible)
  BY WayIs DEF Consume, Unranked
<1>2. CASE DropBelowThreshold(hit) \/ DropRedundant(hit)
  <2>1. UNCHANGED eligible
    BY <1>2 DEF DropBelowThreshold, DropRedundant
  <2>. QED BY <1>1, <2>1 DEF RepeatInv
<1>3. CASE DropDuplicate(hit) \/ DropSemantic(hit)
  <2>1. Credits(hit)
    BY <1>3, DuplicateCredits, SemanticCredits
  <2>2. /\ Len(eligible') = n
        /\ \A i \in 1..n : Twins(eligible'[i], eligible[i])
    BY <2>1, CreditsTwins
  <2>. QED BY <1>1, <2>2, DifferTwins DEF RepeatInv
<1>4. CASE Keep(hit)
  <2>. DEFINE x == ItemOf(hit)
  <2>1. /\ n \in Nat /\ Len(eligible') = n + 1
        /\ \A i \in 1..n : eligible'[i] = eligible[i]
        /\ eligible'[n + 1] = x
        /\ \A i \in 1..Len(eligible') : i \in 1..n \/ i = n + 1
    BY <1>4, KeepAdds
  <2>2. x.payload = hit.payload /\ x.content = Content(hit) /\ x.embedding = hit.embedding
    BY NewItem DEF BuildTypeOK
  <2>3. /\ seenRecord \in Seq([key : Payload, winner : 1..n])
        /\ seenUnitVecs \in Seq([unit : Embedding, winner : 1..n])
        /\ SameKey(hit) = 0 /\ NearDup(hit) = 0
    BY <1>4 DEF BuildTypeOK, Keep, Fresh
  <2>4. \A i \in 1..n : option.dedup => eligible[i].payload # hit.payload
    <3>1. \A i \in 1..Len(seenRecord) : option.dedup => seenRecord[i].key # hit.payload
      BY <2>1, <2>3, SameKeyIs
    <3>2. Len(seenRecord) = n /\ \A i \in 1..n : seenRecord[i].key = eligible[i].payload
      <4>1. /\ Len(seenRecord) = n
            /\ \A i \in 1..n : seenRecord[i] = [key |-> eligible[i].payload, winner |-> i]
        BY <1>1 DEF Recorded
      <4>. HIDE DEF n
      <4>. QED BY <4>1
    <3>. QED BY <3>1, <3>2
  <2>5. \A i \in 1..n : option.semanticDedup =>
          eligible[i].embedding = Absent \/ hit.embedding = Absent
            \/ ~Within(hit.embedding, eligible[i].embedding)
    <3>1. \A u \in 1..Len(seenUnitVecs) :
            option.semanticDedup /\ hit.embedding # Absent =>
              ~Within(hit.embedding, seenUnitVecs[u].unit)
      BY <2>1, <2>3, NearDupIs
    <3>2. option.semanticDedup =>
            \A i \in 1..n : eligible[i].embedding # Absent =>
              \E u \in 1..Len(seenUnitVecs) : seenUnitVecs[u].unit = eligible[i].embedding
      BY <1>1 DEF Embedded
    <3>. QED BY <3>1, <3>2
  <2>6. \A i \in 1..n : option.sentenceDedup =>
          ToSet(eligible[i].content) \cap ToSet(Content(hit)) = {}
    <3>1. option.sentenceDedup =>
            \A s : s \in ToSet(Content(hit)) => s \notin seenSentence
      BY ContentIs DEF BuildTypeOK
    <3>2. option.sentenceDedup =>
            \A i \in 1..n : ToSet(eligible[i].content) \subseteq seenSentence
      BY DEF SaidInv, Remembered
    <3>. QED BY <3>1, <3>2
  <2>. HIDE DEF x
  <2>7. \A i \in 1..n : Differ(option, eligible[i], x) /\ Differ(option, x, eligible[i])
    BY <2>2, <2>4, <2>5, <2>6, WithinEither DEF Differ
  <2>. QED BY <1>1, <2>1, <2>7 DEF RepeatInv
<1>. QED BY <1>2, <1>3, <1>4 DEF Way

LEMMA RepeatStep ==
  ASSUME BuildTypeOK, ScoreInv, Unranked, SaidInv, RepeatInv, [BuildNext]_buildVars
  PROVE  RepeatInv'
<1>1. CASE Filter
  BY <1>1, RepeatWay DEF Filter, Way
<1>2. CASE Rank
  <2>. DEFINE n == Len(eligible)
  <2>1. PICK at \in [1..n -> 1..n] :
          /\ Len(eligible') = n /\ OneToOne(at, 1..n)
          /\ \A k \in 1..n : eligible'[k] = eligible[at[k]]
    BY <1>2, RankShuffles DEF Shuffled
  <2>2. UNCHANGED option
    BY <1>2 DEF Rank
  <2>3. \A j, k \in 1..n : j # k => at[j] \in 1..n /\ at[k] \in 1..n /\ at[j] # at[k]
    BY <2>1 DEF OneToOne
  <2>. QED BY <2>1, <2>2, <2>3 DEF RepeatInv
<1>3. CASE LeaveOut \/ Pack \/ Finish \/ UNCHANGED buildVars
  <2>1. UNCHANGED <<option, eligible>>
    BY <1>3 DEF LeaveOut, Pack, Finish, buildVars
  <2>. QED BY <2>1 DEF RepeatInv
<1>. QED BY <1>1, <1>2, <1>3 DEF BuildNext

----------------------------------------------------------------------------
(* Accounts.                                                               *)

LEMMA BlankCount ==
  ASSUME BuildTypeOK, NEW hit \in MembraneHit, Consume(hit)
  PROVE  /\ Cardinality(Blank(hits)) \in Nat /\ Cardinality(Blank(hits')) \in Nat
         /\ Cardinality(Blank(hits)) <= Cardinality(Blank(hits'))
         /\ hit.payload = <<>> =>
              Cardinality(Blank(hits')) = Cardinality(Blank(hits)) + 1
<1>. DEFINE n == Len(hits)
            B == Blank(hits)
            C == Blank(hits')
<1>1. /\ n \in Nat /\ Len(hits') = n + 1 /\ hits'[n + 1] = hit
      /\ \A i \in 1..n : hits'[i] = hits[i]
      /\ \A i \in 1..n + 1 : i \in 1..n \/ i = n + 1
      /\ \A i \in 1..n : i \in 1..n + 1 /\ i # n + 1
      /\ n + 1 \in 1..n + 1
  <2>1. /\ n \in Nat /\ Len(hits') = n + 1 /\ hits'[n + 1] = hit
        /\ \A i \in 1..n : hits'[i] = hits[i]
    BY ConsumeAdds
  <2>. QED BY <2>1
<1>2. IsFiniteSet(B) /\ Cardinality(B) \in Nat
  <2>1. IsFiniteSet(1..n)
    BY <1>1, CountPlaces
  <2>2. B \subseteq 1..n
    BY DEF Blank
  <2>. HIDE DEF B, n
  <2>. QED BY <2>1, <2>2, FS_Subset, FS_CardinalityType
<1>3. C = IF hit.payload = <<>> THEN B \cup {n + 1} ELSE B
  BY <1>1 DEF Blank
<1>4. n + 1 \notin B
  BY <1>1 DEF Blank
<1>. HIDE DEF B, C, n
<1>5. Cardinality(B \cup {n + 1}) = Cardinality(B) + 1
  BY <1>2, <1>4, FS_AddElement
<1>6. Cardinality(C) = IF hit.payload = <<>> THEN Cardinality(B) + 1 ELSE Cardinality(B)
  BY <1>3, <1>5
<1>. QED BY <1>2, <1>6 DEF B, C

LEMMA AccountWay ==
  ASSUME BuildTypeOK, AccountInv, NEW hit \in MembraneHit, Way(hit)
  PROVE  AccountInv'
<1>. DEFINE blank == Cardinality(Blank(hits))
            more == Cardinality(Blank(hits'))
            m == Unitemized(hits, eligible, bundle)
            n == Unitemized(hits', eligible', bundle')
            l == Len(hits)
            k == Len(eligible)
            q == Len(eligible')
            x == bundle.duplicates
            xx == bundle'.duplicates
            y == bundle.belowThreshold
            yy == bundle'.belowThreshold
            z == bundle.semanticDuplicates
            zz == bundle'.semanticDuplicates
            r == bundle.redundantSentences
            rr == bundle'.redundantSentences
            t == Redundant(hit)
<1>1. /\ Consume(hit) /\ UNCHANGED option /\ l \in Nat /\ Len(hits') = l + 1 /\ k \in Nat
  BY WayIs, ConsumeAdds, MemberIn DEF BuildTypeOK
<1>2. /\ blank \in Nat /\ more \in Nat /\ blank <= more
      /\ hit.payload = <<>> => more = blank + 1
  BY <1>1, BlankCount
<1>3. x \in Nat /\ y \in Nat /\ z \in Nat /\ r \in Nat /\ t \in Nat
  BY BundleFields, ContentIs DEF BuildTypeOK
<1>4. m = l - k - x - y - z
  BY DEF Unitemized
<1>5. n = (l + 1) - q - xx - yy - zz
  BY <1>1 DEF Unitemized
<1>6. m >= 0 /\ (m > 0 => option.sentenceDedup) /\ m <= r + blank
  BY DEF AccountInv
<1>7. CASE DropBelowThreshold(hit) \/ DropDuplicate(hit) \/ DropSemantic(hit)
  <2>1. q = k
    <3>1. CASE DropBelowThreshold(hit)
      BY <3>1 DEF DropBelowThreshold
    <3>2. CASE DropDuplicate(hit) \/ DropSemantic(hit)
      BY <3>2, DuplicateCredits, SemanticCredits, CreditsTwins
    <3>. QED BY <1>7, <3>1, <3>2
  <2>2. rr = r
    BY <1>7, BundleSteps
  <2>3. \/ xx = x + 1 /\ yy = y /\ zz = z
        \/ xx = x /\ yy = y + 1 /\ zz = z
        \/ xx = x /\ yy = y /\ zz = z + 1
    BY <1>7, BundleSteps
  <2>. HIDE DEF m, n, l, k, q, x, y, z, xx, yy, zz, r, rr, blank, more
  <2>4. n = m
    BY <1>1, <1>3, <1>4, <1>5, <2>1, <2>3
  <2>5. n >= 0 /\ (n > 0 => option.sentenceDedup) /\ n <= rr + more
    BY <1>1, <1>2, <1>3, <1>4, <1>6, <2>2, <2>4
  <2>. QED BY <1>1, <2>5 DEF AccountInv, n, rr, more
<1>8. CASE Keep(hit)
  <2>1. q = k + 1
    BY <1>8, KeepAdds
  <2>2. rr = r + t /\ xx = x /\ yy = y /\ zz = z
    BY <1>8, BundleSteps
  <2>. HIDE DEF m, n, l, k, q, x, y, z, xx, yy, zz, r, rr, t, blank, more
  <2>3. n = m
    BY <1>1, <1>3, <1>4, <1>5, <2>1, <2>2
  <2>4. n >= 0 /\ (n > 0 => option.sentenceDedup) /\ n <= rr + more
    BY <1>1, <1>2, <1>3, <1>4, <1>6, <2>2, <2>3
  <2>. QED BY <1>1, <2>4 DEF AccountInv, n, rr, more
<1>9. CASE DropRedundant(hit)
  <2>1. q = k /\ option.sentenceDedup /\ Content(hit) = <<>>
    BY <1>9 DEF DropRedundant, NothingNew
  <2>2. rr = r + t /\ xx = x /\ yy = y /\ zz = z
    BY <1>9, BundleSteps
  <2>3. hit.payload = <<>> \/ t >= 1
    <3>1. hit.payload \in Seq(Sentence)
      BY HitType
    <3>2. t = Len(hit.payload) - 0
      BY <2>1 DEF Redundant
    <3>. QED BY <3>1, <3>2
  <2>4. q = k
    BY <2>1
  <2>. HIDE DEF m, n, l, k, q, x, y, z, xx, yy, zz, r, rr, t, blank, more
  <2>5. n = m + 1
    BY <1>1, <1>3, <1>4, <1>5, <2>2, <2>4
  <2>6. m \in Int
    BY <1>1, <1>3, <1>4
  <2>7. n >= 0 /\ n <= rr + more
    BY <1>2, <1>3, <1>6, <2>2, <2>3, <2>5, <2>6
  <2>. QED BY <1>1, <2>1, <2>7 DEF AccountInv, n, rr, more
<1>. QED BY <1>7, <1>8, <1>9 DEF Way

LEMMA AccountStep ==
  ASSUME BuildTypeOK, ScoreInv, AccountInv, [BuildNext]_buildVars
  PROVE  AccountInv'
<1>1. CASE Filter
  BY <1>1, AccountWay DEF Filter, Way
<1>2. CASE Rank
  <2>1. Len(eligible') = Len(eligible)
    BY <1>2, RankShuffles DEF Shuffled
  <2>2. UNCHANGED <<option, hits, bundle>>
    BY <1>2 DEF Rank
  <2>. QED BY <2>1, <2>2 DEF AccountInv, Unitemized
<1>3. CASE LeaveOut \/ Pack
  <2>1. /\ UNCHANGED <<option, hits, eligible>>
        /\ bundle'.duplicates = bundle.duplicates
        /\ bundle'.belowThreshold = bundle.belowThreshold
        /\ bundle'.redundantSentences = bundle.redundantSentences
        /\ bundle'.semanticDuplicates = bundle.semanticDuplicates
    BY <1>3, LeaveOutIs, PackIs
  <2>. QED BY <2>1 DEF AccountInv, Unitemized
<1>4. CASE Finish \/ UNCHANGED buildVars
  BY <1>4 DEF Finish, buildVars, AccountInv, Unitemized
<1>. QED BY <1>1, <1>2, <1>3, <1>4 DEF BuildNext

----------------------------------------------------------------------------
(* What items cost.                                                        *)

Loads(c) == [i \in 1..Len(c) |-> c[i].tokens]

LEMMA LoadsType ==
  ASSUME NEW c \in Seq(Item)
  PROVE  Loads(c) \in Seq(Nat) /\ Len(Loads(c)) = Len(c)
         /\ \A i \in 1..Len(c) : c[i].tokens \in Nat /\ Loads(c)[i] = c[i].tokens
<1>1. Len(c) \in Nat /\ \A i \in 1..Len(c) : c[i].tokens \in Nat
  BY MemberIn, ItemFields
<1>2. Loads(c) \in [1..Len(c) -> Nat]
  BY <1>1 DEF Loads
<1>3. Loads(c) \in Seq(Nat) /\ Len(Loads(c)) = Len(c)
  BY <1>1, <1>2
<1>. QED BY <1>1, <1>3 DEF Loads

LEMMA WeightTotal ==
  ASSUME NEW c \in Seq(Item)
  PROVE  Weight(c) = Total(Loads(c))
<1>. DEFINE n == Len(c)
            step == [p \in Nat \X Item |-> p[1] + p[2].tokens]
            Equation(f) ==
              f = [t \in SUBSET (1..n) |->
                     IF t = {} THEN 0 ELSE f[t \ {Max(t)}] + c[Max(t)].tokens]
            f == CHOOSE f : Equation(f)
            g == [k \in 0..n |-> f[1..k]]
<1>1. n \in Nat /\ DOMAIN c = 1..n /\ \A i \in 1..n : c[i] \in Item
  OBVIOUS
<1>2. /\ step \in [Nat \X Item -> Nat]
      /\ \A m \in Nat, s \in Item : step[m, s] = m + s.tokens
  <2>1. \A m \in Nat, s \in Item : m + s.tokens \in Nat
    BY ItemFields
  <2>. QED BY <2>1
<1>. HIDE DEF step
<1>3. PICK h \in [SUBSET (1..n) -> Nat] : FoldSolution(h, c, 0, step)
  BY <1>2, FoldSolves
<1>. HIDE DEF n
<1>4. Equation(h)
  <2>1. ASSUME NEW t \in SUBSET (1..n)
        PROVE  h[t] = IF t = {} THEN 0 ELSE h[t \ {Max(t)}] + c[Max(t)].tokens
    <3>1. /\ t # {} => Max(t) \in 1..n
          /\ h[t] = IF t = {} THEN 0 ELSE step[h[t \ {Max(t)}], c[Max(t)]]
      BY <1>3 DEF FoldSolution, n
    <3>2. h[t \ {Max(t)}] \in Nat
      OBVIOUS
    <3>. QED BY <1>1, <1>2, <3>1, <3>2
  <2>. QED BY <2>1
<1>5. Equation(f)
  <2>. HIDE DEF Equation
  <2>. QED BY <1>4
<1>6. Weight(c) = f[1..n]
  BY <1>1 DEF Weight, FoldLeft, MapThenFoldSet
<1>. HIDE DEF f
<1>7. f[{}] = 0
  BY <1>5
<1>8. ASSUME NEW k \in 1..n PROVE f[1..k] = f[1..k - 1] + c[k].tokens
  <2>1. 1..k \in SUBSET (1..n) /\ 1..k # {} /\ Max(1..k) = k /\ (1..k) \ {k} = 1..k - 1
    BY <1>1, PrefixMax
  <2>. QED BY <1>5, <2>1
<1>9. \A k \in 0..n : f[1..k] \in Int
  <2>. DEFINE S == {k \in Nat : k <= n => f[1..k] \in Int}
  <2>1. 0 \in S
    <3>1. 1..0 = {}
      OBVIOUS
    <3>. QED BY <1>7, <3>1
  <2>2. ASSUME NEW k \in S PROVE k + 1 \in S
    <3>1. SUFFICES ASSUME k + 1 <= n PROVE f[1..k + 1] \in Int
      OBVIOUS
    <3>2. k + 1 \in 1..n /\ (k + 1) - 1 = k /\ f[1..k] \in Int
      BY <1>1, <3>1
    <3>3. c[k + 1].tokens \in Int
      BY <1>1, <3>2, ItemFields
    <3>4. f[1..k + 1] = f[1..k] + c[k + 1].tokens
      BY <1>8, <3>2
    <3>. QED BY <3>2, <3>3, <3>4
  <2>3. S \in SUBSET Nat
    OBVIOUS
  <2>. HIDE DEF S
  <2>4. S = Nat
    BY <2>1, <2>2, <2>3, NatStep
  <2>. QED BY <1>1, <2>4 DEF S
<1>10. IsSeries(g, Loads(c))
  <2>1. g \in [0..n -> Int]
    BY <1>9
  <2>2. g[0] = 0
    <3>1. 1..0 = {} /\ 0 \in 0..n
      BY <1>1
    <3>. QED BY <1>7, <3>1
  <2>3. ASSUME NEW k \in 1..n PROVE g[k] = g[k - 1] + Loads(c)[k]
    <3>1. k \in 0..n /\ k - 1 \in 0..n
      BY <1>1
    <3>2. Loads(c)[k] = c[k].tokens
      BY LoadsType DEF n
    <3>. QED BY <1>8, <3>1, <3>2
  <2>. HIDE DEF g
  <2>. QED BY <2>1, <2>2, <2>3, LoadsType DEF IsSeries, n
<1>11. g[n] = f[1..n]
  BY <1>1
<1>. HIDE DEF g
<1>12. Loads(c) \in Seq(Int) /\ Len(Loads(c)) = n
  BY LoadsType DEF n
<1>. QED BY <1>6, <1>10, <1>11, <1>12, SeriesTotal

LEMMA WeightAppended ==
  ASSUME NEW c \in Seq(Item), NEW x \in Item
  PROVE  /\ Weight(c) \in Nat /\ Weight(Append(c, x)) = Weight(c) + x.tokens
         /\ Weight(<<>>) = 0
<1>. DEFINE r == Append(c, x)
            l == Append(Loads(c), x.tokens)
<1>1. /\ r \in Seq(Item) /\ Len(r) = Len(c) + 1 /\ Len(c) \in Nat
      /\ \A i \in 1..Len(c) : r[i] = c[i]
      /\ r[Len(c) + 1] = x
  BY AddedLast, MemberIn
<1>. HIDE DEF r
<1>2. /\ Loads(c) \in Seq(Nat) /\ Loads(r) \in Seq(Nat)
      /\ Len(Loads(c)) = Len(c) /\ Len(Loads(r)) = Len(c) + 1
      /\ \A i \in 1..Len(c) : Loads(c)[i] = c[i].tokens
      /\ \A i \in 1..Len(c) + 1 : Loads(r)[i] = r[i].tokens
  BY <1>1, LoadsType
<1>3. x.tokens \in Nat
  BY ItemFields
<1>4. /\ l \in Seq(Nat) /\ Len(l) = Len(c) + 1
      /\ \A i \in 1..Len(c) : l[i] = Loads(c)[i]
      /\ l[Len(c) + 1] = x.tokens
  BY <1>2, <1>3, AddedLast
<1>5. Total(l) = Total(Loads(c)) + x.tokens
  BY <1>2, <1>3, TotalAppended
<1>. HIDE DEF l
<1>6. \A i \in 1..Len(c) + 1 : i \in 1..Len(c) \/ i = Len(c) + 1
  BY <1>1
<1>7. \A i \in 1..Len(c) + 1 : Loads(r)[i] = l[i]
  BY <1>1, <1>2, <1>4, <1>6
<1>8. Loads(r) = l
  BY <1>2, <1>4, <1>7, SameItems
<1>9. Weight(c) = Total(Loads(c)) /\ Weight(r) = Total(Loads(r)) /\ Total(Loads(c)) \in Nat
  BY <1>1, <1>2, WeightTotal, TotalNatural
<1>10. Weight(<<>>) = 0
  <2>1. <<>> \in Seq(Item) /\ Len(<<>>) = 0
    OBVIOUS
  <2>2. Loads(<<>>) \in Seq(Nat) /\ Len(Loads(<<>>)) = 0
    BY <2>1, LoadsType
  <2>3. Loads(<<>>) = <<>>
    BY <2>2
  <2>. QED BY <2>1, <2>3, WeightTotal, TotalEmpty
<1>. QED BY <1>5, <1>8, <1>9, <1>10 DEF r

----------------------------------------------------------------------------
(* How often an item is in a list.                                         *)

LEMMA CountNext ==
  ASSUME NEW x, NEW s, NEW n \in Nat
  PROVE  /\ CountIn(x, s, n) \in Nat
         /\ CountIn(x, s, n + 1) = IF s[n + 1] = x THEN CountIn(x, s, n) + 1
                                   ELSE CountIn(x, s, n)
<1>. DEFINE B == {i \in 1..n : s[i] = x}
            C == {i \in 1..n + 1 : s[i] = x}
<1>1. \A i : i \in 1..n + 1 <=> i \in 1..n \/ i = n + 1
  OBVIOUS
<1>2. n + 1 \notin 1..n
  OBVIOUS
<1>3. C = IF s[n + 1] = x THEN B \cup {n + 1} ELSE B
  BY <1>1
<1>4. IsFiniteSet(B) /\ Cardinality(B) \in Nat
  <2>1. IsFiniteSet(1..n) /\ B \subseteq 1..n
    BY CountPlaces
  <2>. HIDE DEF B
  <2>. QED BY <2>1, FS_Subset, FS_CardinalityType
<1>5. n + 1 \notin B
  BY <1>2
<1>. HIDE DEF B, C
<1>6. Cardinality(B \cup {n + 1}) = Cardinality(B) + 1
  BY <1>4, <1>5, FS_AddElement
<1>. QED BY <1>3, <1>4, <1>6 DEF CountIn, B, C

LEMMA CountAlike ==
  ASSUME NEW x, NEW s, NEW r, NEW n \in Nat, \A i \in 1..n : r[i] = s[i]
  PROVE  CountIn(x, r, n) = CountIn(x, s, n)
<1>1. \A i \in 1..n : r[i] = x <=> s[i] = x
  OBVIOUS
<1>2. {i \in 1..n : s[i] = x} = {i \in 1..n : r[i] = x}
  BY <1>1
<1>. QED BY <1>2 DEF CountIn

LEMMA CountNone == \A x, s : CountIn(x, s, 0) = 0
<1>1. \A x, s : {i \in 1..0 : s[i] = x} = {}
  OBVIOUS
<1>2. Cardinality({}) = 0
  BY FS_EmptySet
<1>. QED BY <1>1, <1>2 DEF CountIn

----------------------------------------------------------------------------
(* Packing.                                                                *)

LEMMA BudgetType ==
  ASSUME BuildTypeOK
  PROVE  /\ option.tokenBudget # Absent => option.tokenBudget \in Nat
         /\ option.recordBudget # Absent => option.recordBudget \in Nat
BY OptionType DEF Option, BuildTypeOK

LEMMA EmptyPacked ==
  ASSUME BuildTypeOK, NEW items, bundle.items = <<>>, bundle.totalTokens = 0,
         bundle.overBudget = 0
  PROVE  Packed(option, items, 1, bundle)
<1>. DEFINE s == bundle.items
<1>1. s = <<>> /\ Len(s) = 0
  OBVIOUS
<1>. HIDE DEF s
<1>2. Weight(s) = 0
  <2>1. Weight(<<>>) = 0
    <3>1. <<>> \in Seq(Item) /\ Len(<<>>) = 0
      OBVIOUS
    <3>2. Loads(<<>>) \in Seq(Nat) /\ Len(Loads(<<>>)) = 0
      BY <3>1, LoadsType
    <3>3. Loads(<<>>) = <<>>
      BY <3>2
    <3>. QED BY <3>1, <3>3, WeightTotal, TotalEmpty
  <2>. QED BY <1>1, <2>1
<1>3. \A i \in 1..Len(s) : FALSE
  BY <1>1
<1>4. Falling(option, s)
  BY <1>3 DEF Falling
<1>5. \A x : CountIn(x, s, Len(s)) = 0 /\ CountIn(x, items, 1 - 1) = 0
  BY <1>1, CountNone
<1>6. /\ \A x \in Item : CountIn(x, s, Len(s)) <= CountIn(x, items, 1 - 1)
      /\ Begins(option, items, 1, s)
  BY <1>5 DEF Begins
<1>7. /\ option.tokenBudget # Absent => bundle.totalTokens <= option.tokenBudget
      /\ option.recordBudget # Absent => Len(s) <= option.recordBudget
  BY <1>1, BudgetType
<1>8. Len(s) + bundle.overBudget = 1 - 1
  BY <1>1
<1>. QED BY <1>2, <1>3, <1>4, <1>6, <1>7, <1>8 DEF Packed, s

(* What a list begins with grows by one item after the other.              *)
LEMMA PartNext ==
  ASSUME NEW items \in Seq(Item), NEW n \in 1..Len(items)
  PROVE  LET p == SubSeq(items, 1, n - 1)
             q == SubSeq(items, 1, n)
         IN  /\ p \in Seq(Item) /\ Len(p) = n - 1 /\ Len(q) = n
             /\ \A i \in 1..n - 1 : p[i] = items[i]
             /\ Weight(p) \in Nat /\ Weight(q) = Weight(p) + items[n].tokens
<1>. DEFINE p == SubSeq(items, 1, n - 1)
            q == SubSeq(items, 1, n)
            a == Append(p, items[n])
<1>1. /\ n \in Nat /\ Len(items) \in Nat /\ items[n] \in Item
      /\ \A i \in 1..n : items[i] \in Item
  BY MemberIn
<1>2. /\ p \in Seq(Item) /\ Len(p) = n - 1 /\ \A i \in 1..n - 1 : p[i] = items[i]
  BY <1>1
<1>3. /\ q \in Seq(Item) /\ Len(q) = n /\ \A i \in 1..n : q[i] = items[i]
  BY <1>1
<1>. HIDE DEF p, q
<1>4. /\ a \in Seq(Item) /\ Len(a) = n /\ a[n] = items[n]
      /\ \A i \in 1..n - 1 : a[i] = items[i]
  <2>1. (n - 1) + 1 = n
    BY <1>1
  <2>. QED BY <1>1, <1>2, <2>1, AddedLast
<1>5. \A i \in 1..n : i \in 1..n - 1 \/ i = n
  BY <1>1
<1>6. q = a
  <2>. HIDE DEF a
  <2>1. \A i \in 1..n : q[i] = a[i]
    BY <1>3, <1>4, <1>5
  <2>. QED BY <1>3, <1>4, <2>1, SameItems
<1>7. Weight(p) \in Nat /\ Weight(q) = Weight(p) + items[n].tokens
  BY <1>1, <1>2, <1>6, WeightAppended
<1>. QED BY <1>2, <1>3, <1>7 DEF p, q

(* Where all items up to the next can be paid for, the bundle is those     *)
(* before it, and has room for it.                                         *)
LEMMA PaidSoFar ==
  ASSUME NEW o \in Option, NEW items \in Seq(Item), NEW n \in 1..Len(items),
         NEW s \in Seq(Item), Len(s) <= n - 1, Begins(o, items, n, s),
         Affords(o, SubSeq(items, 1, n))
  PROVE  /\ Len(s) = n - 1 /\ \A i \in 1..n - 1 : s[i] = items[i]
         /\ o.tokenBudget # Absent => Weight(s) + items[n].tokens <= o.tokenBudget
         /\ o.recordBudget # Absent => Len(s) < o.recordBudget
<1>. DEFINE p == SubSeq(items, 1, n - 1)
            q == SubSeq(items, 1, n)
<1>1. /\ n \in Nat /\ Len(s) \in Nat /\ items[n].tokens \in Nat
      /\ o.tokenBudget # Absent => o.tokenBudget \in Nat
      /\ o.recordBudget # Absent => o.recordBudget \in Nat
  BY MemberIn, ItemFields DEF Option
<1>2. /\ p \in Seq(Item) /\ Len(p) = n - 1 /\ Len(q) = n
      /\ \A i \in 1..n - 1 : p[i] = items[i]
      /\ Weight(p) \in Nat /\ Weight(q) = Weight(p) + items[n].tokens
  BY PartNext
<1>3. Affords(o, q)
  OBVIOUS
<1>. HIDE DEF p, q
<1>4. Affords(o, p)
  BY <1>1, <1>2, <1>3 DEF Affords
<1>5. Len(s) = n - 1 /\ \A i \in 1..n - 1 : s[i] = items[i]
  <2>1. CASE n = 1
    BY <1>1, <2>1
  <2>2. CASE n # 1
    <3>1. n - 1 \in 1..n - 1
      BY <1>1, <2>2
    <3>2. n - 1 <= Len(s) /\ \A i \in 1..n - 1 : s[i] = items[i]
      BY <1>4, <3>1 DEF Begins, p
    <3>. QED BY <1>1, <3>2
  <2>. QED BY <2>1, <2>2
<1>6. s = p
  BY <1>2, <1>5, SameItems
<1>7. /\ o.tokenBudget # Absent => Weight(q) <= o.tokenBudget
      /\ o.recordBudget # Absent => Len(q) <= o.recordBudget
  BY <1>3 DEF Affords
<1>8. /\ o.tokenBudget # Absent => Weight(s) + items[n].tokens <= o.tokenBudget
      /\ o.recordBudget # Absent => Len(s) < o.recordBudget
  BY <1>1, <1>2, <1>5, <1>6, <1>7
<1>. QED BY <1>5, <1>8

LEMMA RoomIs == \A item : Fits(item) <=> Room(option, bundle, item)
BY DEF Fits, Room

LEMMA PackedLeaveOut ==
  ASSUME BuildTypeOK, Packed(option, eligible, next, bundle), LeaveOut
  PROVE  Packed(option, eligible, next + 1, bundle')
<1>. DEFINE s == bundle.items
            l == Len(bundle.items)
            y == eligible[next]
<1>1. /\ next \in Nat /\ next - 1 \in Nat /\ (next + 1) - 1 = (next - 1) + 1
      /\ (next - 1) + 1 = next
      /\ ~Room(option, bundle, y)
      /\ bundle'.overBudget = bundle.overBudget + 1 /\ bundle.overBudget \in Nat
      /\ bundle'.items = s /\ bundle'.totalTokens = bundle.totalTokens
  <2>1. /\ next \in 1..Len(eligible) /\ ~Room(option, bundle, y)
        /\ bundle'.overBudget = bundle.overBudget + 1
        /\ bundle'.items = s /\ bundle'.totalTokens = bundle.totalTokens
    BY LeaveOutIs, RoomIs
  <2>2. Len(eligible) \in Nat /\ bundle.overBudget \in Nat
    BY MemberIn, BundleFields DEF BuildTypeOK
  <2>. QED BY <2>1, <2>2
<1>2. l \in Nat
  BY MemberIn, BundleFields DEF BuildTypeOK
<1>. HIDE DEF y
<1>3. /\ l + bundle.overBudget = next - 1
      /\ bundle.totalTokens = Weight(s)
      /\ option.tokenBudget # Absent => bundle.totalTokens <= option.tokenBudget
      /\ option.recordBudget # Absent => l <= option.recordBudget
      /\ Falling(option, s)
      /\ \A i \in 1..l : \A j \in next..Len(eligible) :
           Score(option, s[i]) >= Score(option, eligible[j])
      /\ \A x \in Item : CountIn(x, s, l) <= CountIn(x, eligible, next - 1)
      /\ Begins(option, eligible, next, s)
  BY DEF Packed
<1>. HIDE DEF s, l
<1>4. l + bundle'.overBudget = (next + 1) - 1
  BY <1>1, <1>2, <1>3
<1>5. \A i \in 1..l : \A j \in next + 1..Len(eligible) :
        Score(option, s[i]) >= Score(option, eligible[j])
  <2>1. \A j \in next + 1..Len(eligible) : j \in next..Len(eligible)
    BY <1>1
  <2>. QED BY <1>3, <2>1
<1>6. ASSUME NEW x \in Item
      PROVE  CountIn(x, s, l) <= CountIn(x, eligible, (next + 1) - 1)
  <2>. DEFINE c == CountIn(x, s, l)
              d == CountIn(x, eligible, next - 1)
              e == CountIn(x, eligible, (next + 1) - 1)
  <2>1. c \in Nat /\ d \in Nat /\ e = IF y = x THEN d + 1 ELSE d
    BY <1>1, <1>2, CountNext DEF y
  <2>2. c <= d
    BY <1>3
  <2>. HIDE DEF c, d, e
  <2>3. c <= e
    BY <2>1, <2>2
  <2>. QED BY <2>3 DEF c, e
<1>7. Begins(option, eligible, next + 1, s)
  <2>1. /\ option \in Option /\ eligible \in Seq(Item) /\ s \in Seq(Item)
        /\ next \in 1..Len(eligible) /\ Len(s) <= next - 1
        /\ bundle.overBudget \in Nat
    <3>1. /\ option \in Option /\ eligible \in Seq(Item) /\ s \in Seq(Item)
          /\ next \in 1..Len(eligible) /\ bundle.overBudget \in Nat
      BY LeaveOutIs, OptionType, BundleFields DEF BuildTypeOK, s
    <3>2. Len(s) <= next - 1
      BY <1>1, <1>2, <1>3, <3>1 DEF l, s
    <3>. QED BY <3>1, <3>2
  <2>2. ~Affords(option, SubSeq(eligible, 1, next))
    <3>1. SUFFICES ASSUME Affords(option, SubSeq(eligible, 1, next)) PROVE FALSE
      OBVIOUS
    <3>2. /\ option.tokenBudget # Absent => Weight(s) + y.tokens <= option.tokenBudget
          /\ option.recordBudget # Absent => Len(s) < option.recordBudget
      BY <1>3, <2>1, <3>1, PaidSoFar DEF y
    <3>3. Room(option, bundle, y)
      BY <1>3, <3>2 DEF Room, s
    <3>. QED BY <1>1, <3>3
  <2>3. \A k \in 1..(next + 1) - 1 : k \in 1..next - 1 \/ k = next
    BY <1>1
  <2>. QED BY <1>3, <2>2, <2>3 DEF Begins
<1>8. Len(bundle'.items) = l /\ bundle'.items = s
  BY <1>1 DEF l, s
<1>. QED BY <1>1, <1>3, <1>4, <1>5, <1>6, <1>7, <1>8 DEF Packed

LEMMA PackedPack ==
  ASSUME BuildTypeOK, Falling(option, eligible), Packed(option, eligible, next, bundle), Pack
  PROVE  Packed(option, eligible, next + 1, bundle')
<1>. DEFINE s == bundle.items
            l == Len(bundle.items)
            r == bundle'.items
            y == eligible[next]
            t == bundle.totalTokens
            w == y.tokens
            n == Len(eligible)
<1>1. /\ next \in 1..n /\ Room(option, bundle, y) /\ y \in Item
      /\ bundle'.overBudget = bundle.overBudget
      /\ r = Append(s, y) /\ bundle'.totalTokens = t + w
  BY PackIs, RoomIs
<1>2. /\ n \in Nat /\ bundle.overBudget \in Nat /\ t \in Nat /\ s \in Seq(Item) /\ l \in Nat
  BY MemberIn, BundleFields DEF BuildTypeOK
<1>3. w \in Nat
  BY <1>1, ItemFields
<1>4. /\ l + bundle.overBudget = next - 1
      /\ t = Weight(s)
      /\ Falling(option, s)
      /\ \A i \in 1..l : \A j \in next..n : Score(option, s[i]) >= Score(option, eligible[j])
      /\ \A x \in Item : CountIn(x, s, l) <= CountIn(x, eligible, next - 1)
      /\ Begins(option, eligible, next, s)
  BY DEF Packed
<1>5. /\ option.tokenBudget # Absent => t + w <= option.tokenBudget
      /\ option.recordBudget # Absent => l < option.recordBudget
  BY <1>1 DEF Room
<1>6. /\ next \in Nat /\ next - 1 \in Nat /\ (next + 1) - 1 = (next - 1) + 1
      /\ (next - 1) + 1 = next /\ next \in next..n
      /\ \A j \in next + 1..n : j \in next..n /\ j \in 1..n /\ next < j
  BY <1>1, <1>2
<1>7. /\ Len(r) = l + 1 /\ \A i \in 1..l : r[i] = s[i]
      /\ r[l + 1] = y
  BY <1>1, <1>2, AddedLast
<1>8. Weight(r) = t + w
  BY <1>1, <1>2, <1>4, WeightAppended
<1>9. y = eligible[next]
  OBVIOUS
<1>10. bundle'.totalTokens = Weight(r) /\ Len(r) + bundle'.overBudget = (next + 1) - 1
  <2>. DEFINE ob == bundle.overBudget
  <2>1. ob \in Nat /\ l + ob = next - 1 /\ Len(r) = l + 1 /\ bundle'.overBudget = ob
    BY <1>1, <1>2, <1>4, <1>7
  <2>2. bundle'.totalTokens = Weight(r)
    BY <1>1, <1>8
  <2>. HIDE DEF r, s, l, t, w, y, n, ob
  <2>3. l + 1 + ob = (next + 1) - 1
    BY <1>2, <1>6, <2>1
  <2>. QED BY <2>1, <2>2, <2>3
<1>11. \A i \in 1..l + 1 : i \in 1..l \/ i = l + 1
  BY <1>2
<1>12. /\ option.tokenBudget # Absent => bundle'.totalTokens <= option.tokenBudget
       /\ option.recordBudget # Absent => Len(r) <= option.recordBudget
  <2>. HIDE DEF r, s, l, t, w, y, n
  <2>. QED BY <1>1, <1>2, <1>5, <1>7, BudgetType
<1>13. Falling(option, r)
  <2>. HIDE DEF r, s, l, t, w, y, n
  <2>1. ASSUME NEW i \in 1..l + 1, NEW j \in 1..l + 1, i < j
        PROVE  Score(option, r[i]) >= Score(option, r[j])
    <3>1. i \in 1..l
      BY <1>2, <2>1
    <3>2. CASE j \in 1..l
      <4>1. Score(option, s[i]) >= Score(option, s[j])
        BY <1>4, <2>1, <3>1, <3>2 DEF Falling, l, s
      <4>. QED BY <1>7, <3>1, <3>2, <4>1
    <3>3. CASE j = l + 1
      <4>1. Score(option, s[i]) >= Score(option, eligible[next])
        BY <1>4, <1>6, <3>1
      <4>. QED BY <1>7, <1>9, <3>1, <3>3, <4>1
    <3>. QED BY <1>11, <3>2, <3>3
  <2>. QED BY <1>7, <2>1 DEF Falling
<1>14. \A i \in 1..l + 1 : \A j \in next + 1..n :
         Score(option, r[i]) >= Score(option, eligible[j])
  <2>1. \A j \in next + 1..n : Score(option, eligible[next]) >= Score(option, eligible[j])
    BY <1>1, <1>6 DEF Falling
  <2>. HIDE DEF r, s, l, t, w, y, n
  <2>. QED BY <1>4, <1>6, <1>7, <1>9, <1>11, <2>1
<1>15. ASSUME NEW x \in Item
       PROVE  CountIn(x, r, Len(r)) <= CountIn(x, eligible, (next + 1) - 1)
  <2>. DEFINE c == CountIn(x, s, l)
              b == CountIn(x, r, Len(r))
              d == CountIn(x, eligible, next - 1)
              e == CountIn(x, eligible, (next + 1) - 1)
  <2>. HIDE DEF r, s, l, t, w, n
  <2>1. c \in Nat /\ d \in Nat /\ e = IF y = x THEN d + 1 ELSE d
    BY <1>2, <1>6, CountNext
  <2>2. b = IF y = x THEN c + 1 ELSE c
    <3>1. CountIn(x, r, l) = c
      BY <1>2, <1>7, CountAlike
    <3>2. CountIn(x, r, l + 1) = IF r[l + 1] = x THEN CountIn(x, r, l) + 1
                                 ELSE CountIn(x, r, l)
      BY <1>2, CountNext
    <3>. QED BY <1>7, <3>1, <3>2
  <2>3. c <= d
    BY <1>4
  <2>. HIDE DEF b, c, d, e
  <2>4. b <= e
    BY <2>1, <2>2, <2>3
  <2>. QED BY <2>4 DEF b, e
<1>16. Begins(option, eligible, next + 1, r)
  <2>1. /\ option \in Option /\ eligible \in Seq(Item)
    BY OptionType DEF BuildTypeOK
  <2>2. l <= next - 1
    BY <1>2, <1>4, <1>6
  <2>3. \A k \in 1..(next + 1) - 1 : k \in 1..next - 1 \/ k = next
    BY <1>6
  <2>. HIDE DEF r, t, w, n, y
  <2>4. ASSUME NEW k \in 1..next - 1, Affords(option, SubSeq(eligible, 1, k))
        PROVE  k <= l + 1 /\ \A i \in 1..k : r[i] = eligible[i]
    <3>1. k <= Len(s) /\ \A i \in 1..k : s[i] = eligible[i]
      BY <1>4, <2>4 DEF Begins
    <3>2. \A i \in 1..k : i \in 1..l
      BY <1>2, <3>1
    <3>. HIDE DEF s
    <3>. QED BY <1>2, <1>7, <3>1, <3>2
  <2>5. ASSUME Affords(option, SubSeq(eligible, 1, next))
        PROVE  next <= l + 1 /\ \A i \in 1..next : r[i] = eligible[i]
    <3>1. Len(s) = next - 1 /\ \A i \in 1..next - 1 : s[i] = eligible[i]
      BY <1>1, <1>2, <1>4, <2>1, <2>2, <2>5, PaidSoFar DEF n
    <3>2. \A i \in 1..next : i \in 1..next - 1 \/ i = next
      BY <1>6
    <3>3. l = next - 1 /\ l + 1 = next
      BY <1>6, <3>1
    <3>. HIDE DEF s, l
    <3>4. \A i \in 1..next - 1 : r[i] = eligible[i]
      BY <1>7, <3>1, <3>3
    <3>5. r[next] = eligible[next]
      BY <1>7, <1>9, <3>3
    <3>6. next <= l + 1
      BY <1>6, <3>3
    <3>. QED BY <3>2, <3>4, <3>5, <3>6
  <2>. QED BY <1>7, <2>3, <2>4, <2>5 DEF Begins
<1>. QED BY <1>7, <1>10, <1>12, <1>13, <1>14, <1>15, <1>16 DEF Packed

LEMMA PackStep ==
  ASSUME BuildTypeOK, ScoreInv, PackInv, [BuildNext]_buildVars
  PROVE  PackInv'
<1>1. CASE Filter
  <2>1. PICK hit \in MembraneHit : Way(hit)
    BY <1>1 DEF Filter, Way
  <2>2. /\ stage = "filter" /\ UNCHANGED <<stage, next>> /\ Same(bundle, bundle')
    BY <2>1, WayIs DEF Consume
  <2>. QED BY <2>2 DEF PackInv, Same
<1>2. CASE Rank
  <2>1. /\ stage = "filter" /\ stage' = "budget" /\ UNCHANGED <<option, next, bundle>>
    BY <1>2 DEF Rank
  <2>2. Falling(option, eligible')
    BY <1>2, RankShuffles
  <2>3. next = 1 /\ Packed(option, eligible', 1, bundle)
    BY <2>1, EmptyPacked DEF PackInv
  <2>. QED BY <2>1, <2>2, <2>3 DEF PackInv
<1>3. CASE LeaveOut
  <2>1. stage = "budget" /\ next' = next + 1 /\ UNCHANGED <<option, stage, eligible>>
    BY <1>3, LeaveOutIs
  <2>2. Falling(option, eligible) /\ Packed(option, eligible, next + 1, bundle')
    BY <1>3, <2>1, PackedLeaveOut DEF PackInv
  <2>. QED BY <2>1, <2>2 DEF PackInv
<1>4. CASE Pack
  <2>1. stage = "budget" /\ next' = next + 1 /\ UNCHANGED <<option, stage, eligible>>
    BY <1>4, PackIs
  <2>2. Falling(option, eligible) /\ Packed(option, eligible, next + 1, bundle')
    BY <1>4, <2>1, PackedPack DEF PackInv
  <2>. QED BY <2>1, <2>2 DEF PackInv
<1>5. CASE Finish
  <2>1. /\ stage = "budget" /\ stage' = "done" /\ next > Len(eligible)
        /\ UNCHANGED <<option, eligible, next, bundle>>
    BY <1>5 DEF Finish
  <2>2. next = Len(eligible) + 1
    <3>1. next \in 1..Len(eligible) + 1 /\ Len(eligible) \in Nat
      BY MemberIn DEF BuildTypeOK
    <3>. QED BY <2>1, <3>1
  <2>. QED BY <2>1, <2>2 DEF PackInv
<1>6. CASE UNCHANGED buildVars
  BY <1>6 DEF buildVars, PackInv
<1>. QED BY <1>1, <1>2, <1>3, <1>4, <1>5, <1>6 DEF BuildNext

----------------------------------------------------------------------------
(* The invariant, and what follows.                                        *)

LEMMA BuildInitInv == BuildInit => BuildInv
<1>. SUFFICES ASSUME BuildInit PROVE BuildInv
  OBVIOUS
<1>1. /\ stage = "filter" /\ hits = <<>> /\ seenRecord = <<>> /\ seenSentence = {}
      /\ seenUnitVecs = <<>> /\ eligible = <<>> /\ next = 1 /\ bundle = EmptyBundle
  BY DEF BuildInit
<1>2. /\ bundle.items = <<>> /\ bundle.totalTokens = 0 /\ bundle.overBudget = 0
      /\ bundle.duplicates = 0 /\ bundle.belowThreshold = 0
      /\ bundle.redundantSentences = 0 /\ bundle.semanticDuplicates = 0
  BY <1>1 DEF EmptyBundle
<1>3. Len(hits) = 0 /\ Len(eligible) = 0 /\ Len(seenRecord) = 0 /\ Len(seenUnitVecs) = 0
  BY <1>1
<1>4. \A i \in 1..0 : FALSE
  OBVIOUS
<1>5. BuildTypeOK /\ ScoreInv
  BY TypeInit
<1>6. Unranked
  BY <1>3, <1>4 DEF Unranked, Recorded, Embedded
<1>7. SaidInv
  BY <1>1, <1>3, <1>4 DEF SaidInv, Remembered
<1>8. SourceInv /\ ListedInv /\ RepeatInv
  BY <1>3, <1>4 DEF SourceInv, ListedInv, RepeatInv
<1>9. AccountInv
  <2>1. Blank(hits) = {}
    BY <1>3, <1>4 DEF Blank
  <2>2. Cardinality(Blank(hits)) = 0
    BY <2>1, FS_EmptySet
  <2>3. Unitemized(hits, eligible, bundle) = 0
    BY <1>2, <1>3 DEF Unitemized
  <2>. QED BY <1>2, <2>2, <2>3 DEF AccountInv
<1>10. PackInv
  BY <1>1, <1>2 DEF PackInv
<1>. QED BY <1>5, <1>6, <1>7, <1>8, <1>9, <1>10 DEF BuildInv

LEMMA BuildStepInv == BuildInv /\ [BuildNext]_buildVars => BuildInv'
<1>. SUFFICES ASSUME BuildInv, [BuildNext]_buildVars PROVE BuildInv'
  OBVIOUS
<1>1. /\ BuildTypeOK /\ ScoreInv /\ Unranked /\ SaidInv /\ SourceInv /\ ListedInv
      /\ RepeatInv /\ AccountInv /\ PackInv
  BY DEF BuildInv
<1>2. BuildTypeOK' /\ ScoreInv'
  BY <1>1, TypeStep
<1>3. Unranked' /\ SaidInv' /\ SourceInv' /\ ListedInv'
  BY <1>1, UnrankedStep, SaidStep, SourceStep, ListedStep
<1>4. RepeatInv' /\ AccountInv' /\ PackInv'
  BY <1>1, RepeatStep, AccountStep, PackStep
<1>. QED BY <1>2, <1>3, <1>4 DEF BuildInv

LEMMA BuildAlways == BuildSpec => []BuildInv
<1>. QED BY BuildInitInv, BuildStepInv, PTL DEF BuildSpec

(* The builder's lists, counters and items are of their types, whatever    *)
(* hits it is given and however it is configured (context.rs, build).      *)
THEOREM BuildTypeCorrect == BuildSpec => []BuildTypeOK
<1>1. BuildInv => BuildTypeOK
  BY DEF BuildInv
<1>. QED BY <1>1, BuildAlways, PTL

(* The origins an item lists each shipped a hit that supports it, its own  *)
(* first, none twice; and without sentence dedup whoever shipped a repeat  *)
(* of an item past the threshold is listed (attribute_source).             *)
THEOREM SourcesAlwaysTrue == BuildSpec => []SourcesTrue
<1>1. ASSUME BuildInv PROVE SourcesTrue
  <2>1. /\ DOMAIN eligible = 1..Len(eligible) /\ DOMAIN hits = 1..Len(hits)
        /\ \A i \in 1..Len(eligible) : /\ eligible[i] \in Item
                                       /\ Sourced(option, hits, eligible[i])
    BY <1>1, MemberIn DEF BuildInv, BuildTypeOK, SourceInv
  <2>2. ASSUME NEW x \in Item, Sourced(option, hits, x)
        PROVE  /\ x.sources[1] = x.origin /\ IsInjective(x.sources)
               /\ \A o \in ToSet(x.sources) :
                    \E h \in Passed : h.origin = o /\ Supports(h, x)
    <3>1. DOMAIN x.sources = 1..Len(x.sources)
      BY ItemFields, MemberIn
    <3>2. IsInjective(x.sources)
      BY <2>2, <3>1 DEF Sourced, IsInjective, OneToOne
    <3>3. ASSUME NEW k \in 1..Len(x.sources)
          PROVE  \E h \in Passed : h.origin = x.sources[k] /\ Supports(h, x)
      <4>1. PICK i \in 1..Len(hits) : /\ hits[i].similarity >= option.minSimilarity
                                      /\ hits[i].origin = x.sources[k]
                                      /\ Resembles(option, hits[i], x)
        BY <2>2 DEF Sourced, Shipped
      <4>2. hits[i] \in Passed /\ Supports(hits[i], x)
        BY <2>1, <4>1 DEF Passed, Supports, Repeats, Resembles
      <4>. QED BY <4>1, <4>2
    <3>4. ToSet(x.sources) = {x.sources[k] : k \in 1..Len(x.sources)}
      BY <3>1 DEF ToSet
    <3>. QED BY <2>2, <3>2, <3>3, <3>4 DEF Sourced
  <2>3. ASSUME ~option.sentenceDedup, NEW h \in Passed
        PROVE  \E item \in ToSet(eligible) :
                 h.origin \in ToSet(item.sources) /\ Repeats(h, item)
    <3>1. PICK j \in 1..Len(hits) : h = hits[j] /\ hits[j].similarity >= option.minSimilarity
      BY <2>1 DEF Passed
    <3>2. Listed(option, h, eligible)
      BY <1>1, <2>3, <3>1 DEF BuildInv, ListedInv
    <3>3. PICK i \in 1..Len(eligible) : /\ h.origin \in ToSet(eligible[i].sources)
                                        /\ Resembles(option, h, eligible[i])
      BY <3>2 DEF Listed
    <3>4. eligible[i] \in ToSet(eligible)
      BY <2>1 DEF ToSet
    <3>5. Repeats(h, eligible[i])
      BY <3>3 DEF Repeats, Resembles
    <3>. QED BY <3>3, <3>4, <3>5
  <2>. QED BY <2>1, <2>2, <2>3 DEF SourcesTrue
<1>. QED BY <1>1, BuildAlways, PTL

(* No two items of a bundle repeat one another: no copies, no near         *)
(* embeddings, no sentence twice, where these dedups are on (build).       *)
THEOREM NothingRepeats == BuildSpec => []NoRepeats
<1>1. ASSUME BuildInv PROVE NoRepeats
  <2>1. /\ DOMAIN eligible = 1..Len(eligible)
        /\ \A i, j \in 1..Len(eligible) : i < j => i # j
    <3>1. DOMAIN eligible = 1..Len(eligible) /\ Len(eligible) \in Nat
      BY <1>1, MemberIn DEF BuildInv, BuildTypeOK
    <3>. QED BY <3>1
  <2>2. \A i, j \in 1..Len(eligible) : i # j => Differ(option, eligible[i], eligible[j])
    BY <1>1 DEF BuildInv, RepeatInv
  <2>3. ASSUME NEW x, NEW y, Differ(option, x, y)
        PROVE  /\ option.dedup => x.payload # y.payload
               /\ option.semanticDedup => \/ Absent \in {x.embedding, y.embedding}
                                          \/ ~Within(x.embedding, y.embedding)
               /\ option.sentenceDedup => ToSet(x.content) \cap ToSet(y.content) = {}
    BY <2>3 DEF Differ
  <2>. QED BY <2>1, <2>2, <2>3 DEF NoRepeats
<1>. QED BY <1>1, BuildAlways, PTL

(* The count of the properties.                                            *)
LEMMA CountIs ==
  ASSUME NEW s \in Seq(Item), NEW x
  PROVE  /\ Count(x, s) = CountIn(x, s, Len(s)) /\ Count(x, s) \in Nat
         /\ Count(x, s) > 0 <=> \E i \in 1..Len(s) : s[i] = x
<1>. DEFINE B == {i \in 1..Len(s) : s[i] = x}
<1>1. DOMAIN s = 1..Len(s) /\ Len(s) \in Nat
  BY MemberIn
<1>2. Count(x, s) = Cardinality(B) /\ CountIn(x, s, Len(s)) = Cardinality(B)
  BY <1>1 DEF Count, CountIn
<1>3. IsFiniteSet(B) /\ Cardinality(B) \in Nat
  <2>1. IsFiniteSet(1..Len(s)) /\ B \subseteq 1..Len(s)
    BY <1>1, CountPlaces
  <2>. HIDE DEF B
  <2>. QED BY <2>1, FS_Subset, FS_CardinalityType
<1>4. B # {} <=> \E i \in 1..Len(s) : s[i] = x
  OBVIOUS
<1>. HIDE DEF B
<1>5. Cardinality(B) > 0 <=> B # {}
  BY <1>3, FS_EmptySet
<1>. QED BY <1>2, <1>3, <1>4, <1>5

LEMMA DonePacked ==
  ASSUME BuildInv, stage = "done"
  PROVE  /\ bundle.items \in Seq(Item) /\ eligible \in Seq(Item)
         /\ Len(bundle.items) \in Nat /\ Len(eligible) \in Nat /\ bundle.overBudget \in Nat
         /\ Len(bundle.items) + bundle.overBudget = Len(eligible)
         /\ bundle.totalTokens = Weight(bundle.items)
         /\ option.tokenBudget # Absent => bundle.totalTokens <= option.tokenBudget
         /\ option.recordBudget # Absent => Len(bundle.items) <= option.recordBudget
         /\ Falling(option, bundle.items)
         /\ \A x \in Item : Count(x, bundle.items) <= Count(x, eligible)
         /\ Begins(option, eligible, Len(eligible) + 1, bundle.items)
<1>1. /\ bundle.items \in Seq(Item) /\ eligible \in Seq(Item)
      /\ Len(bundle.items) \in Nat /\ Len(eligible) \in Nat /\ bundle.overBudget \in Nat
  BY MemberIn, BundleFields DEF BuildInv, BuildTypeOK
<1>2. Packed(option, eligible, next, bundle) /\ next = Len(eligible) + 1
  BY DEF BuildInv, PackInv
<1>3. next - 1 = Len(eligible)
  BY <1>1, <1>2
<1>4. /\ Len(bundle.items) + bundle.overBudget = Len(eligible)
      /\ bundle.totalTokens = Weight(bundle.items)
      /\ option.tokenBudget # Absent => bundle.totalTokens <= option.tokenBudget
      /\ option.recordBudget # Absent => Len(bundle.items) <= option.recordBudget
      /\ Falling(option, bundle.items)
      /\ \A x \in Item :
           CountIn(x, bundle.items, Len(bundle.items)) <= CountIn(x, eligible, Len(eligible))
      /\ Begins(option, eligible, Len(eligible) + 1, bundle.items)
  BY <1>2, <1>3 DEF Packed
<1>5. \A x \in Item :
        /\ Count(x, bundle.items) = CountIn(x, bundle.items, Len(bundle.items))
        /\ Count(x, eligible) = CountIn(x, eligible, Len(eligible))
  BY <1>1, CountIs
<1>. QED BY <1>1, <1>4, <1>5

(* A finished bundle keeps its budgets, is in the order of the ranking,    *)
(* and begins with as much of it as the budgets pay for (the second loop   *)
(* of build).                                                              *)
THEOREM BundlesPackedByRank == BuildSpec => []PackedByRank
<1>1. ASSUME BuildInv, stage = "done"
      PROVE  PackedByRank
  <2>. DEFINE s == bundle.items
  <2>1. /\ s \in Seq(Item) /\ eligible \in Seq(Item)
        /\ Len(s) \in Nat /\ Len(eligible) \in Nat
        /\ bundle.totalTokens = Weight(s)
        /\ option.tokenBudget # Absent => bundle.totalTokens <= option.tokenBudget
        /\ option.recordBudget # Absent => Len(s) <= option.recordBudget
        /\ Falling(option, s)
        /\ \A x \in Item : Count(x, s) <= Count(x, eligible)
        /\ Begins(option, eligible, Len(eligible) + 1, s)
    BY <1>1, DonePacked
  <2>2. ToSet(s) \subseteq Item
    <3>1. \A u \in Seq(Item) : ToSet(u) \subseteq Item
      BY MemberIn DEF ToSet
    <3>. QED BY <2>1, <3>1
  <2>3. DOMAIN s = 1..Len(s) /\ DOMAIN eligible = 1..Len(eligible)
    BY <2>1, MemberIn
  <2>4. \A i, j \in DOMAIN s : i < j => RankScore(s[i]) >= RankScore(s[j])
    <3>1. \A x : RankScore(x) = Score(option, x)
      BY DEF RankScore, Score
    <3>. QED BY <2>1, <2>3, <3>1 DEF Falling
  <2>5. \A u : TotalTokens(u) = Weight(u) /\ (Affordable(u) <=> Affords(option, u))
    BY DEF TotalTokens, Weight, Affordable, Affords
  <2>6. bundle.totalTokens = TotalTokens(s) /\ Affordable(s)
    BY <2>1, <2>5 DEF Affords
  <2>7. ASSUME NEW n \in DOMAIN eligible, Affordable(SubSeq(eligible, 1, n))
        PROVE  IsPrefix(SubSeq(eligible, 1, n), s)
    <3>. DEFINE q == SubSeq(eligible, 1, n)
    <3>1. n \in 1..Len(eligible) /\ n \in Nat /\ n \in 1..(Len(eligible) + 1) - 1
      BY <2>1, <2>3, <2>7
    <3>2. n <= Len(s) /\ \A i \in 1..n : s[i] = eligible[i]
      BY <2>1, <2>5, <2>7, <3>1 DEF Begins
    <3>3. q \in Seq(Item) /\ Len(q) = n /\ DOMAIN q = 1..n /\ \A i \in 1..n : q[i] = eligible[i]
      BY <2>1, <3>1, MemberIn
    <3>. HIDE DEF s, q
    <3>. DEFINE u == SubSeq(q, 1, n)
                v == SubSeq(s, 1, n)
    <3>4. /\ u \in Seq(Item) /\ Len(u) = n /\ \A i \in 1..n : u[i] = q[i]
      BY <3>1, <3>3
    <3>5. /\ v \in Seq(Item) /\ Len(v) = n /\ \A i \in 1..n : v[i] = s[i]
      BY <2>1, <3>1, <3>2
    <3>. HIDE DEF u, v
    <3>6. u = v
      BY <3>2, <3>3, <3>4, <3>5, SameItems
    <3>7. IsPrefix(q, s)
      BY <3>2, <3>3, <3>6 DEF IsPrefix, u, v
    <3>. QED BY <3>7 DEF q
  <2>. QED BY <2>1, <2>2, <2>4, <2>6, <2>7 DEF PackedByRank
<1>2. BuildInv => PackedByRank
  BY <1>1 DEF PackedByRank
<1>. QED BY <1>2, BuildAlways, PTL

(* The counters of a bundle account for every hit, up to those that said   *)
(* nothing new, of which the redundant sentences are counted, and blank    *)
(* ones (ContextBundle).                                                   *)
THEOREM HitsAllAccounted == BuildSpec => []AllAccounted
<1>1. ASSUME BuildInv, stage = "done"
      PROVE  AllAccounted
  <2>. DEFINE lost == Len(hits) - Len(bundle.items) - bundle.duplicates
                        - bundle.belowThreshold - bundle.overBudget
                        - bundle.semanticDuplicates
              n == Unitemized(hits, eligible, bundle)
              blank == {i \in DOMAIN hits : hits[i].payload = <<>>}
              h == Len(hits)
              k == Len(bundle.items)
              e == Len(eligible)
              o == bundle.overBudget
              x == bundle.duplicates
              y == bundle.belowThreshold
              z == bundle.semanticDuplicates
  <2>1. blank = Blank(hits) /\ h \in Nat
    BY <1>1, MemberIn DEF BuildInv, BuildTypeOK, Blank
  <2>2. /\ n >= 0 /\ (n > 0 => option.sentenceDedup)
        /\ n <= bundle.redundantSentences + Cardinality(Blank(hits))
    BY <1>1 DEF BuildInv, AccountInv
  <2>3. k \in Nat /\ e \in Nat /\ o \in Nat /\ k + o = e
    BY <1>1, DonePacked
  <2>4. x \in Nat /\ y \in Nat /\ z \in Nat
    BY <1>1, BundleFields DEF BuildInv, BuildTypeOK
  <2>5. lost = h - k - x - y - o - z /\ n = h - e - x - y - z
    BY DEF Unitemized
  <2>. HIDE DEF lost, n, h, k, e, o, x, y, z, blank
  <2>6. lost = n
    BY <2>1, <2>3, <2>4, <2>5
  <2>7. /\ lost >= 0 /\ (lost > 0 => option.sentenceDedup)
        /\ lost <= bundle.redundantSentences + Cardinality(blank)
    BY <2>1, <2>2, <2>6
  <2>. QED BY <2>7 DEF AllAccounted, lost, blank
<1>2. BuildInv => AllAccounted
  BY <1>1 DEF AllAccounted
<1>. QED BY <1>2, BuildAlways, PTL

(* Under sentence dedup alone, and without a budget, the bundle says all   *)
(* that its hits said (ContextBuilder::sentence_dedup).                    *)
THEOREM SentencesAlwaysKept == BuildSpec => []SentencesKept
<1>1. ASSUME BuildInv, stage = "done", option.sentenceDedup, bundle.semanticDuplicates = 0,
             option.tokenBudget = Absent, option.recordBudget = Absent,
             NEW g \in Passed, NEW s \in ToSet(g.payload)
      PROVE  \E i \in DOMAIN bundle.items : s \in ToSet(bundle.items[i].content)
  <2>1. DOMAIN hits = 1..Len(hits) /\ DOMAIN bundle.items = 1..Len(bundle.items)
    BY <1>1, MemberIn, BundleFields DEF BuildInv, BuildTypeOK
  <2>2. PICK i \in 1..Len(hits) : hits[i] = g /\ hits[i].similarity >= option.minSimilarity
    BY <1>1, <2>1 DEF Passed
  <2>3. s \in seenSentence
    <3>1. Remembered(seenSentence, hits, option, eligible)
      BY <1>1 DEF BuildInv, SaidInv
    <3>. QED BY <1>1, <2>2, <3>1 DEF Remembered
  <2>4. PICK j \in 1..Len(eligible) : s \in ToSet(eligible[j].content)
    BY <1>1, <2>3 DEF BuildInv, SaidInv, SaidBy
  <2>5. Len(eligible) \in Nat /\ Begins(option, eligible, Len(eligible) + 1, bundle.items)
    BY <1>1, DonePacked
  <2>6. Affords(option, SubSeq(eligible, 1, j))
    BY <1>1 DEF Affords
  <2>7. j \in 1..(Len(eligible) + 1) - 1
    BY <2>4, <2>5
  <2>8. j <= Len(bundle.items) /\ bundle.items[j] = eligible[j]
    BY <2>5, <2>6, <2>7 DEF Begins
  <2>9. j \in DOMAIN bundle.items
    BY <1>1, <2>1, <2>4, <2>8, DonePacked
  <2>. QED BY <2>4, <2>8, <2>9
<1>2. BuildInv => SentencesKept
  BY <1>1 DEF SentencesKept
<1>. QED BY <1>2, BuildAlways, PTL
=============================================================================
