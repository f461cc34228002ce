-------------------------- MODULE HansaOpen_proofs --------------------------
(***************************************************************************)
(* Theorems about HansaOpen, for any number of processes, tenants and      *)
(* links and any place at which an open fails or dies, as long as no two   *)
(* opens with the same cache directory overlap; and about what an open     *)
(* trusts when it replays a chain, for any length of log and any record    *)
(* signed: the loop of `replay` is what Chain says of it (ChainReplay),    *)
(* the hash chain detects whatever is lost, repeated or reordered but for  *)
(* the end, and a signature vouches for one statement only (Signatures).   *)
(***************************************************************************)
EXTENDS HansaOpen, Chain_proofs, DataLemmas, Signatures, ChainReplay

LOCAL INSTANCE SequencesExt
LOCAL INSTANCE Folds

----------------------------------------------------------------------------
(* What makes the properties inductive.                                    *)

Busy == {"read", "check", "store", "write", "rename"}

(* What is found, extended, compacted, copied or put back is a chain.      *)
LogInv ==
  /\ log = <<>> \/ Valid(log, Owner)
  /\ mirror = <<>> \/ Valid(mirror, Owner)

AloneInv == \A p, q \in Proc : pc[p] \in Busy /\ pc[q] \in Busy => p = q

(* Not rolled back: `later` is longer, or it is the same.                  *)
NotBehind(later, earlier) ==
  Len(later) >= Len(earlier) /\ (Len(later) = Len(earlier) => later = earlier)

(* The head file is always the longest chain accepted; the one process     *)
(* that may replace it has checked its own chain against that.             *)
CacheInv == head = IF verified = <<>> THEN None ELSE HeadOf(verified)

StoreInv ==
  \A p \in Proc :
    /\ fd[p] = IF pc[p] = "write" THEN "tmp" ELSE "closed"
    /\ pc[p] \in Busy => floor[p] = verified
    /\ pc[p] \in {"check", "store", "write", "rename"} => seen[p] # <<>>
    /\ pc[p] \in {"store", "write", "rename", "open"} => NotBehind(seen[p], floor[p])
    /\ pc[p] = "rename" => tmp = HeadOf(seen[p])

(* As long as nothing is put back, the registry's history continues all    *)
(* that was accepted and all that is about to be.                          *)
AlarmInv ==
  /\ \A p \in Proc : pc[p] = "regressed" => restored
  /\ ~restored =>
       /\ Continues(History(log), verified)
       /\ \A p \in Proc : pc[p] \in {"check", "store", "write", "rename"} =>
            Continues(History(log), seen[p]) /\ Continues(seen[p], verified)

Inv == TypeOK /\ LogInv /\ AloneInv /\ CacheInv /\ StoreInv /\ AlarmInv

LEMMA InvInit == Init => Inv
<1>. SUFFICES ASSUME Init PROVE Inv
  OBVIOUS
<1>1. History(<<>>) = <<>> /\ <<>> \in Seq(Content) /\ <<>> \in Seq(Link)
  BY DEF History
<1>2. TypeOK
  BY <1>1 DEF Init, TypeOK, HeadFile
<1>3. LogInv /\ AloneInv /\ CacheInv /\ StoreInv
  BY DEF Init, LogInv, AloneInv, CacheInv, StoreInv, Busy
<1>4. AlarmInv
  BY <1>1, ContinuesSelf DEF Init, AlarmInv
<1>. QED BY <1>2, <1>3, <1>4 DEF Inv

(* Histories have the type of histories.                                   *)
LEMMA Histories ==
  ASSUME TypeOK
  PROVE  /\ History(log) \in Seq(Content) /\ verified \in Seq(Content)
         /\ \A p \in Proc : seen[p] \in Seq(Content) /\ floor[p] \in Seq(Content)
BY HistoryType DEF TypeOK

----------------------------------------------------------------------------
(* The registry.                                                           *)

LEMMA RegistryStep ==
  ASSUME Inv, UNCHANGED <<cache, opening>>,
         log' \in Seq(Link), log' = <<>> \/ Valid(log', Owner),
         mirror' \in Seq(Link), mirror' = <<>> \/ Valid(mirror', Owner),
         (restored' = restored /\ Continues(History(log'), History(log))) \/ restored' = TRUE
  PROVE  Inv'
<1>1. TypeOK' /\ LogInv'
  BY DEF Inv, TypeOK, LogInv, cache, opening
<1>2. AloneInv' /\ CacheInv' /\ StoreInv'
  BY DEF Inv, AloneInv, CacheInv, StoreInv, cache, opening
<1>3. AlarmInv'
  <2>1. CASE restored' = restored /\ Continues(History(log'), History(log))
    <3>1. History(log') \in Seq(Content)
      BY HistoryType
    <3>2. \A h \in Seq(Content) : Continues(History(log), h) => Continues(History(log'), h)
      BY <2>1, <3>1, Histories, ContinuesTrans DEF Inv
    <3>. QED BY <2>1, <3>2, Histories DEF Inv, AlarmInv, opening
  <2>2. CASE restored' = TRUE
    BY <2>2 DEF AlarmInv
  <2>. QED BY <2>1, <2>2
<1>. QED BY <1>1, <1>2, <1>3 DEF Inv

LEMMA PublishStep ==
  ASSUME Inv, NEW b \in Change, Publish(b)
  PROVE  Inv'
<1>1. log \in Seq(Link) /\ Valid(log, Owner) /\ Owner \in Skipper
  BY OpenAssumption DEF Publish, MayExtend, Inv, TypeOK, LogInv
<1>2. log' \in Seq(Link) /\ Valid(log', Owner) /\ Continues(History(log'), History(log))
  BY <1>1, SigningContinues DEF Publish
<1>. QED BY <1>2, RegistryStep DEF Publish, Inv, TypeOK, LogInv

LEMMA CompactStep ==
  ASSUME Inv, Compact
  PROVE  Inv'
<1>1. log \in Seq(Link) /\ Valid(log, Owner) /\ Owner \in Skipper
  BY OpenAssumption DEF Compact, MayExtend, Inv, TypeOK, LogInv
<1>2. log' \in Seq(Link) /\ Valid(log', Owner) /\ Continues(History(log'), History(log))
  BY <1>1, SigningContinues DEF Compact
<1>. QED BY <1>2, RegistryStep DEF Compact, Inv, TypeOK, LogInv

LEMMA MirrorStep ==
  ASSUME Inv, CopyMirror \/ RestoreMirror
  PROVE  Inv'
<1>1. Continues(History(log), History(log))
  BY Histories, ContinuesSelf DEF Inv
<1>. QED BY <1>1, RegistryStep DEF CopyMirror, RestoreMirror, Inv, TypeOK, LogInv

----------------------------------------------------------------------------
(* Hansa::open up to the replay.                                           *)

(* Whoever holds a skipper and opens this hansa holds its own.             *)
LEMMA FoundsAsOwner ==
  ASSUME NEW config \in Config, config.skipper # None, Resolved(config) = Owner
  PROVE  config.skipper = Owner
BY OpenAssumption, NoneAssumption DEF Resolved

(* A founder starts a chain of the hansa's own.                            *)
LEMMA Founded ==
  ASSUME NEW d \in Dim
  PROVE  <<GenesisLink(Owner, d)>> \in Seq(Link) /\ Valid(<<GenesisLink(Owner, d)>>, Owner)
<1>1. GenesisLink(Owner, d) \in Link /\ RootOk(GenesisLink(Owner, d), Owner)
  BY GenesisType, SignedRoots, OpenAssumption
<1>. QED BY <1>1, RootAlone

LEMMA BeginStep ==
  ASSUME ~Overlap, Inv, NEW p \in Proc, FoundOrFind(p) \/ RequireFounded(p)
  PROVE  Inv'
<1>1. Begin(p)
  BY DEF FoundOrFind, RequireFounded
<1>2. log' = log \/ (log = <<>> /\ \E d \in Dim : log' = <<GenesisLink(Owner, d)>>)
  BY FoundsAsOwner DEF FoundOrFind, RequireFounded
<1>3. log' \in Seq(Link) /\ (log' = <<>> \/ Valid(log', Owner))
  BY <1>2, Founded DEF Inv, TypeOK, LogInv
<1>4. \A q \in Proc : pc[q] \notin Busy /\ (q # p => pc'[q] = pc[q])
  BY <1>1 DEF Begin, Busy, Inv, TypeOK
<1>5. pc'[p] = "read" /\ floor'[p] = verified /\ \A q \in Proc : q # p => floor'[q] = floor[q]
  BY <1>1 DEF Begin, Inv, TypeOK
<1>6. TypeOK'
  BY <1>1, <1>3 DEF Begin, Inv, TypeOK, cache
<1>7. LogInv' /\ AloneInv' /\ CacheInv'
  BY <1>1, <1>3, <1>4 DEF Begin, Inv, LogInv, AloneInv, CacheInv, cache
<1>8. StoreInv'
  BY <1>1, <1>4, <1>5 DEF Begin, Inv, StoreInv, Busy, cache
<1>9. AlarmInv'
  <2>1. ~restored => Continues(History(log'), verified)
    <3>1. CASE log' = log
      BY <3>1 DEF Inv, AlarmInv
    <3>2. CASE log = <<>>
      <4>1. ~restored => verified = <<>>
        <5>1. ~restored => Continues(<<>>, verified)
          BY <3>2 DEF Inv, AlarmInv, History
        <5>. QED BY <5>1, Histories DEF Continues, Inv
      <4>2. History(log') \in Seq(Content)
        BY <1>3, HistoryType
      <4>. QED BY <4>1, <4>2, ContinuesSelf
    <3>. QED BY <1>2, <3>1, <3>2
  <2>. QED BY <1>1, <1>4, <1>5, <2>1 DEF Begin, Inv, AlarmInv, Busy
<1>. QED BY <1>6, <1>7, <1>8, <1>9 DEF Inv

(* A step of the process that opens, which leaves the cache alone.         *)
LEMMA GoesOn ==
  ASSUME Inv, NEW p \in Proc, NEW where, pc' = [pc EXCEPT ![p] = where],
         pc[p] \in Busy, where \notin {"closed", "read", "write", "rename"},
         UNCHANGED <<registry, cache, verified, floor>>,
         seen' \in [Proc -> Seq(Content)],
         \A q \in Proc : q # p => seen'[q] = seen[q],
         TypeOK',
         where = "check" \/ where = "store" => seen'[p] # <<>>,
         where = "store" \/ where = "open" => NotBehind(seen'[p], floor[p]),
         where = "regressed" => restored,
         ~restored /\ where \in Busy =>
           Continues(History(log), seen'[p]) /\ Continues(seen'[p], verified),
         pc[p] # "write"
  PROVE  Inv'
<1>1. /\ pc'[p] = where /\ \A q \in Proc : q # p => pc'[q] = pc[q] /\ pc[q] \notin Busy
  BY DEF Inv, TypeOK, AloneInv
<1>2. LogInv' /\ CacheInv'
  BY DEF Inv, LogInv, CacheInv, registry, cache
<1>3. AloneInv'
  BY <1>1 DEF AloneInv
<1>4. StoreInv'
  BY <1>1 DEF Inv, StoreInv, Busy, cache
<1>5. AlarmInv'
  BY <1>1 DEF Inv, AlarmInv, Busy, registry
<1>. QED BY <1>2, <1>3, <1>4, <1>5 DEF Inv

LEMMA ReadStep ==
  ASSUME Inv, NEW p \in Proc, ReadChain(p) \/ OpenUnchecked(p)
  PROVE  Inv'
<1>1. PICK where \in {"check", "unchecked"} : pc' = [pc EXCEPT ![p] = where]
  BY DEF ReadChain, OpenUnchecked
<1>2. /\ pc[p] = "read" /\ pc[p] \in Busy /\ Valid(log, Owner)
      /\ seen' = [seen EXCEPT ![p] = History(log)]
      /\ UNCHANGED <<registry, cache, verified, floor>>
  BY DEF ReadChain, OpenUnchecked, Busy
<1>3. History(log) \in Seq(Content) /\ Continues(History(log), History(log))
  BY Histories, ContinuesSelf DEF Inv
<1>4. History(log) # <<>>
  <2>1. log \in Seq(Link) /\ HeadLink(log) \in Link /\ History(log) = HeadHash(log)
    BY <1>2, ChainEnds DEF Inv, TypeOK
  <2>2. HeadLink(log).prev \in Seq(Content)
    BY <2>1 DEF Link
  <2>. QED BY <2>1, <2>2 DEF HeadHash, Hash
<1>5. seen'[p] = History(log) /\ \A q \in Proc : q # p => seen'[q] = seen[q]
  BY <1>2 DEF Inv, TypeOK
<1>6. seen' \in [Proc -> Seq(Content)]
  BY <1>2, <1>3 DEF Inv, TypeOK
<1>7. TypeOK'
  BY <1>1, <1>2, <1>6 DEF Inv, TypeOK, registry, cache
<1>8. ~restored => Continues(History(log), verified)
  BY DEF Inv, AlarmInv
<1>. QED BY <1>1, <1>2, <1>3, <1>4, <1>5, <1>6, <1>7, <1>8, GoesOn

----------------------------------------------------------------------------
(* HeadCache::check_and_record.                                            *)

(* What a chain not refused is worth.                                      *)
LEMMA RegressedMeans ==
  ASSUME NEW old \in Seq(Content), NEW new \in Seq(Content)
  PROVE  Regressed(HeadOf(old), HeadOf(new)) <=> ~NotBehind(new, old)
<1>1. Len(old) \in Nat /\ Len(new) \in Nat
  OBVIOUS
<1>2. /\ HeadOf(old).seq = Len(old) - 1 /\ HeadOf(old).hash = old
      /\ HeadOf(new).seq = Len(new) - 1 /\ HeadOf(new).hash = new
  BY DEF HeadOf
<1>. QED BY <1>1, <1>2 DEF Regressed, NotBehind

LEMMA CheckStep ==
  ASSUME Inv, NEW p \in Proc, CheckPasses(p) \/ CheckRefuses(p)
  PROVE  Inv'
<1>1. /\ pc[p] = "check" /\ pc[p] \in Busy /\ seen[p] # <<>> /\ floor[p] = verified
      /\ UNCHANGED <<registry, cache, seen, verified, floor>>
      /\ seen[p] \in Seq(Content) /\ verified \in Seq(Content)
  BY DEF CheckPasses, CheckRefuses, Busy, Inv, TypeOK, StoreInv
<1>2. ~restored => Continues(History(log), seen[p]) /\ Continues(seen[p], verified)
  BY <1>1 DEF Inv, AlarmInv
<1>3. CASE CheckPasses(p)
  <2>1. NotBehind(seen[p], verified)
    <3>1. CASE verified = <<>>
      BY <1>1, <3>1 DEF NotBehind
    <3>2. CASE verified # <<>>
      <4>1. head = HeadOf(verified) /\ head # None
        BY <1>1, <3>2, OpenAssumption DEF CacheInv, Inv, HeadOf, HeadRecord
      <4>. QED BY <1>1, <1>3, <4>1, RegressedMeans DEF CheckPasses
    <3>. QED BY <3>1, <3>2
  <2>2. TypeOK'
    BY <1>1, <1>3 DEF CheckPasses, Inv, TypeOK, registry, cache
  <2>3. pc' = [pc EXCEPT ![p] = "store"] /\ seen' \in [Proc -> Seq(Content)]
    BY <1>1, <1>3 DEF CheckPasses, Inv, TypeOK
  <2>4. /\ \A q \in Proc : q # p => seen'[q] = seen[q]
        /\ seen'[p] # <<>> /\ NotBehind(seen'[p], floor[p])
        /\ ~restored =>
             Continues(History(log), seen'[p]) /\ Continues(seen'[p], verified)
    BY <1>1, <1>2, <2>1
  <2>5. UNCHANGED <<registry, cache, verified, floor>> /\ pc[p] # "write"
    BY <1>1
  <2>. QED BY <1>1, <1>3, <2>2, <2>3, <2>4, <2>5, GoesOn DEF CheckPasses, Busy
<1>4. CASE CheckRefuses(p)
  <2>1. head = HeadOf(verified)
    BY <1>4 DEF CheckRefuses, Inv, CacheInv
  <2>2. ~NotBehind(seen[p], verified)
    BY <1>1, <1>4, <2>1, RegressedMeans DEF CheckRefuses
  <2>3. restored
    <3>1. Continues(seen[p], verified) => NotBehind(seen[p], verified)
      BY <1>1, ContinuesSame DEF NotBehind, Continues
    <3>. QED BY <1>2, <2>2, <3>1
  <2>4. TypeOK'
    BY <1>1, <1>4 DEF CheckRefuses, Inv, TypeOK, registry, cache
  <2>. QED BY <1>1, <1>4, <2>3, <2>4, GoesOn DEF CheckRefuses, Busy, Inv, TypeOK
<1>. QED BY <1>3, <1>4

(* Truncating and filling the temporary file concerns no one else.         *)
LEMMA StoreStep ==
  ASSUME Inv, NEW p \in Proc, StoreTruncate(p) \/ StoreFill(p)
  PROVE  Inv'
<1>1. /\ pc[p] \in {"store", "write"} /\ pc[p] \in Busy /\ seen[p] # <<>>
      /\ NotBehind(seen[p], floor[p]) /\ seen[p] \in Seq(Content)
      /\ floor[p] = verified
      /\ fd[p] = IF pc[p] = "write" THEN "tmp" ELSE "closed"
      /\ UNCHANGED <<registry, seen, verified, floor>>
  BY DEF StoreTruncate, StoreFill, Inv, StoreInv, TypeOK, Busy
<1>2. \A q \in Proc : q # p => pc'[q] = pc[q] /\ pc[q] \notin Busy /\ fd'[q] = fd[q]
  BY <1>1 DEF StoreTruncate, StoreFill, Inv, AloneInv, TypeOK
<1>3. HeadOf(seen[p]) \in HeadFile
  BY <1>1 DEF HeadOf, HeadFile, HeadRecord
<1>4. /\ UNCHANGED head
      /\ \/ pc'[p] = "write" /\ fd'[p] = "tmp" /\ tmp' = Torn
         \/ pc'[p] = "rename" /\ fd'[p] = "closed" /\ tmp' = HeadOf(seen[p])
  <2>1. CASE StoreTruncate(p)
    BY <2>1 DEF StoreTruncate, Inv, TypeOK
  <2>2. CASE StoreFill(p)
    BY <1>1, <2>2 DEF StoreFill, Inv, TypeOK
  <2>. QED BY <2>1, <2>2
<1>5. TypeOK'
  <2>1. tmp' \in HeadFile
    BY <1>3, <1>4 DEF HeadFile
  <2>2. pc' \in [Proc -> {"closed", "read", "check", "store", "write", "rename",
                         "open", "regressed", "unchecked"}]
        /\ fd' \in [Proc -> {"closed", "tmp", "head", "unlinked"}]
    BY DEF StoreTruncate, StoreFill, Inv, TypeOK
  <2>. QED BY <1>1, <1>4, <2>1, <2>2 DEF Inv, TypeOK, registry
<1>6. LogInv' /\ CacheInv'
  BY <1>1, <1>4 DEF Inv, LogInv, CacheInv, registry
<1>7. AloneInv'
  BY <1>2 DEF AloneInv
<1>8. StoreInv'
  BY <1>1, <1>2, <1>4 DEF Inv, StoreInv, Busy
<1>9. AlarmInv'
  BY <1>1, <1>2, <1>4 DEF Inv, AlarmInv, Busy, registry
<1>. QED BY <1>5, <1>6, <1>7, <1>8, <1>9 DEF Inv

(* What is renamed over the head file is the longest chain accepted.       *)
LEMMA RenameStep ==
  ASSUME Inv, NEW p \in Proc, StoreRename(p)
  PROVE  Inv'
<1>1. /\ pc[p] = "rename" /\ pc[p] \in Busy /\ seen[p] # <<>>
      /\ NotBehind(seen[p], verified) /\ floor[p] = verified
      /\ seen[p] \in Seq(Content) /\ verified \in Seq(Content)
      /\ tmp = HeadOf(seen[p])
  BY DEF StoreRename, Inv, StoreInv, TypeOK, Busy
<1>2. \A q \in Proc : q # p => pc'[q] = pc[q] /\ pc[q] \notin Busy
  BY <1>1 DEF StoreRename, Inv, AloneInv, TypeOK
<1>3. \A q \in Proc : fd[q] = "closed"
  BY <1>1, <1>2 DEF Inv, StoreInv, Busy
<1>4. fd' = [q \in Proc |-> "closed"]
  BY <1>3 DEF StoreRename, AfterRename
<1>5. verified' = seen[p]
  <2>1. Len(seen[p]) \in Nat /\ Len(verified) \in Nat
    BY <1>1
  <2>. QED BY <1>1, <2>1 DEF StoreRename, Longer, NotBehind
<1>6. /\ head' = HeadOf(seen[p]) /\ tmp' = None /\ pc'[p] = "open"
      /\ UNCHANGED <<registry, seen, floor>>
  BY <1>1 DEF StoreRename, Inv, TypeOK
<1>7. TypeOK'
  <2>1. head' \in HeadFile /\ tmp' \in HeadFile
    BY <1>6 DEF StoreRename, Inv, TypeOK, HeadFile
  <2>. QED BY <1>1, <1>4, <1>5, <1>6, <2>1 DEF StoreRename, Inv, TypeOK, registry
<1>8. LogInv' /\ CacheInv'
  BY <1>1, <1>5, <1>6 DEF Inv, LogInv, CacheInv, registry
<1>9. AloneInv'
  BY <1>2, <1>6 DEF AloneInv, Busy
<1>10. StoreInv'
  BY <1>1, <1>2, <1>4, <1>6 DEF Inv, StoreInv, Busy
<1>11. AlarmInv'
  BY <1>1, <1>2, <1>5, <1>6 DEF Inv, AlarmInv, Busy, registry
<1>. QED BY <1>7, <1>8, <1>9, <1>10, <1>11 DEF Inv

(* An open that fails, and a process that ends, take nothing with them.    *)
LEMMA CloseStep ==
  ASSUME Inv, NEW p \in Proc, Close(p)
  PROVE  Inv'
<1>1. /\ pc'[p] = "closed" /\ fd'[p] = "closed"
      /\ UNCHANGED <<registry, head, tmp, verified>>
      /\ \A q \in Proc : q # p => /\ pc'[q] = pc[q] /\ fd'[q] = fd[q]
                                 /\ seen'[q] = seen[q] /\ floor'[q] = floor[q]
  BY DEF Close, Inv, TypeOK
<1>2. TypeOK'
  <2>1. <<>> \in Seq(Content)
    OBVIOUS
  <2>. QED BY <2>1 DEF Close, Inv, TypeOK, registry
<1>3. LogInv' /\ CacheInv'
  BY <1>1 DEF Inv, LogInv, CacheInv, registry
<1>4. AloneInv'
  BY <1>1 DEF Inv, AloneInv, Busy
<1>5. StoreInv'
  BY <1>1 DEF Inv, StoreInv, Busy
<1>6. AlarmInv'
  BY <1>1 DEF Inv, AlarmInv, registry
<1>. QED BY <1>2, <1>3, <1>4, <1>5, <1>6 DEF Inv

----------------------------------------------------------------------------
LEMMA InvNext ==
  ASSUME ~Overlap
  PROVE  Inv /\ [Next]_vars => Inv'
<1>. SUFFICES ASSUME Inv, [Next]_vars PROVE Inv'
  OBVIOUS
<1>1. CASE UNCHANGED vars
  BY <1>1 DEF vars, Inv, TypeOK, LogInv, AloneInv, CacheInv, StoreInv, AlarmInv
<1>2. ASSUME NEW p \in Proc, Step(p) PROVE Inv'
  BY <1>2, BeginStep, ReadStep, CheckStep, StoreStep, RenameStep, CloseStep DEF Step
<1>3. ASSUME NEW t \in Tenant, Publish([kind |-> "revoke", tenant |-> t])
      PROVE  Inv'
  <2>1. [kind |-> "revoke", tenant |-> t] \in Change
    BY DEF Change
  <2>. QED BY <1>3, <2>1, PublishStep
<1>4. ASSUME NEW t \in Tenant, log # <<>>,
             Publish([kind |-> "admit", tenant |-> t, dim |-> DimOf(log)])
      PROVE  Inv'
  <2>1. DimOf(log) \in Dim
    BY <1>4, ChainEnds DEF Inv, TypeOK, LogInv
  <2>2. [kind |-> "admit", tenant |-> t, dim |-> DimOf(log)] \in Change
    BY <2>1 DEF Change
  <2>. QED BY <1>4, <2>2, PublishStep
<1>. QED BY <1>1, <1>2, <1>3, <1>4, CompactStep, MirrorStep DEF Next

LEMMA InvAlways ==
  ASSUME ~Overlap
  PROVE  Spec => []Inv
<1>1. Inv /\ [Next]_vars => Inv'
  BY InvNext
<1>. QED BY <1>1, InvInit, PTL DEF Spec

----------------------------------------------------------------------------
(* Theorems.                                                               *)

(* A returning member is never rolled back, nor led aside onto a fork of   *)
(* the same length: not by a registry put back to any earlier copy, at any *)
(* moment, as long as its opens follow one another.                        *)
THEOREM NeverRolledBack ==
  ASSUME ~Overlap
  PROVE  Spec => []RollbackRefused
<1>1. Inv => RollbackRefused
  BY DEF Inv, StoreInv, NotBehind, RollbackRefused
<1>. QED BY <1>1, InvAlways, PTL

(* ChainRegressed is never a false alarm: the registry was put back; and   *)
(* every chain that founding, changes and compactions leave is accepted by *)
(* the members' replay.                                                    *)
THEOREM NeverFalseAlarm ==
  ASSUME ~Overlap
  PROVE  Spec => []NoFalseAlarm
<1>1. Inv => NoFalseAlarm
  BY DEF Inv, LogInv, AlarmInv, NoFalseAlarm
<1>. QED BY <1>1, InvAlways, PTL

(* The head cache remembers the longest chain accepted, wherever an open   *)
(* between its check and its rename fails or dies.                         *)
THEOREM CacheAlwaysRemembers ==
  ASSUME ~Overlap
  PROVE  Spec => []CacheRemembers
<1>1. Inv => CacheRemembers
  <2>. SUFFICES ASSUME Inv, verified # <<>>
                PROVE  head \notin {None, Torn} /\ head.seq >= Len(verified) - 1
    BY DEF CacheRemembers
  <2>1. head = HeadOf(verified) /\ Len(verified) \in Nat \ {0}
    BY EmptySeq DEF Inv, TypeOK, CacheInv
  <2>2. head \in HeadRecord /\ head.seq = Len(verified) - 1
    BY <2>1, Histories DEF Inv, HeadOf, HeadRecord
  <2>. QED BY <2>1, <2>2, OpenAssumption
<1>. QED BY <1>1, InvAlways, PTL

----------------------------------------------------------------------------
(* ChainReplay: what the loop has read of a chain.                         *)

StateOf(chain) ==
  [ok |-> TRUE, skipper |-> chain[1].signer, dim |-> DimOf(chain),
   active |-> Active(chain), seq |-> HeadSeq(chain), hash |-> HeadHash(chain)]

ReplayState ==
  {Refused} \cup [ok : {TRUE}, skipper : Skipper, dim : Dim, active : Members,
                  seq : Nat, hash : Seq(Content)]

(* A log is a chain when all but its last link are, and that extends them. *)
LEMMA ValidOneMore ==
  ASSUME NEW chain \in Seq(Link), chain # <<>>, NEW l \in Link, NEW id
  PROVE  Valid(Append(chain, l), id) <=>
           Valid(chain, id) /\ ExtendsOk(l, HeadLink(chain), chain[1].signer)
<1>. DEFINE longer == Append(chain, l)
            n == Len(chain)
<1>1. /\ n \in Nat \ {0} /\ Len(longer) = n + 1
      /\ \A i \in 1..n : longer[i] = chain[i]
      /\ longer[n + 1] = l /\ longer # <<>> /\ longer[1] = chain[1]
  OBVIOUS
<1>2. ASSUME Valid(longer, id) PROVE Valid(chain, id) /\ ExtendsOk(l, HeadLink(chain), chain[1].signer)
  <2>. HIDE DEF longer
  <2>1. ASSUME NEW i \in 2..n PROVE ExtendsOk(chain[i], chain[i - 1], chain[1].signer)
    <3>1. i \in 2..Len(longer) /\ i \in 1..n /\ i - 1 \in 1..n
      BY <1>1
    <3>. QED BY <1>1, <1>2, <3>1 DEF Valid
  <2>2. n + 1 \in 2..Len(longer) /\ (n + 1) - 1 = n /\ n \in 1..n
    BY <1>1
  <2>3. ExtendsOk(longer[n + 1], longer[(n + 1) - 1], longer[1].signer)
    BY <1>2, <2>2 DEF Valid
  <2>4. ExtendsOk(l, chain[n], chain[1].signer)
    BY <1>1, <2>2, <2>3
  <2>. QED BY <1>1, <1>2, <2>1, <2>4 DEF Valid, HeadLink
<1>. QED BY <1>2, ValidExtends

(* Apply is what one link more does to the members.                        *)
LEMMA ApplyType ==
  ASSUME NEW active \in Members, NEW l \in Link, l.body.kind \in {"admit", "revoke"}
  PROVE  /\ Apply(active, l.body) \in Members
         /\ Apply(active, l.body) =
              [t \in Tenant |-> IF Names(l.body, t) THEN Outcome(l.body) ELSE active[t]]
<1>1. /\ l.body.tenant \in Tenant
      /\ l.body.kind = "admit" => l.body.dim \in Dim
  BY DEF Link, Body, Change
<1>2. Apply(active, l.body) = [active EXCEPT ![l.body.tenant] = Outcome(l.body)]
  BY DEF Apply, Outcome
<1>. QED BY <1>1, <1>2 DEF Members, Names, Outcome

LEMMA StepType ==
  ASSUME NEW state \in ReplayState, NEW l \in Link
  PROVE  ReplayStep(state, l) \in ReplayState
<1>1. CASE Accepts(state, l)
  <2>1. state \in [ok : {TRUE}, skipper : Skipper, dim : Dim, active : Members,
                   seq : Nat, hash : Seq(Content)]
    <3>1. state.ok /\ ~Refused.ok
      BY <1>1 DEF Accepts, Refused
    <3>. QED BY <3>1 DEF ReplayState
  <2>2. l.body.kind \in {"admit", "revoke"} /\ l.seq \in Nat
    BY <1>1 DEF Accepts, Link, Body, Change
  <2>3. Apply(state.active, l.body) \in Members /\ Hash(l) \in Seq(Content)
    BY <2>1, <2>2, ApplyType, HashType
  <2>. QED BY <1>1, <2>1, <2>2, <2>3 DEF ReplayStep, ReplayState
<1>2. CASE ~Accepts(state, l)
  BY <1>2 DEF ReplayStep, ReplayState
<1>. QED BY <1>1, <1>2

(* One turn of the loop takes the state of a chain to that of a chain with *)
(* one link more, or refuses.                                              *)
LEMMA StepAgrees ==
  ASSUME NEW chain \in Seq(Link), NEW id, Valid(chain, id), NEW l \in Link
  PROVE  ReplayStep(StateOf(chain), l) =
           IF Valid(Append(chain, l), id) THEN StateOf(Append(chain, l)) ELSE Refused
<1>. DEFINE longer == Append(chain, l)
<1>1. chain # <<>> /\ Len(chain) \in Nat /\ Active(chain) \in Members
  BY ChainEnds, ActiveType
<1>2. Accepts(StateOf(chain), l) <=> Valid(longer, id)
  <2>1. Accepts(StateOf(chain), l) <=> ExtendsOk(l, HeadLink(chain), chain[1].signer)
    BY DEF Accepts, StateOf, ExtendsOk, HeadSeq, HeadHash, Link, Body, Change
  <2>. QED BY <1>1, <2>1, ValidOneMore
<1>3. CASE Valid(longer, id)
  <2>1. longer[1] = chain[1] /\ HeadLink(longer) = l
    BY <1>1 DEF HeadLink
  <2>2. l.body.kind \in {"admit", "revoke"}
    BY <1>1, <1>3, ValidOneMore DEF ExtendsOk
  <2>3. Apply(Active(chain), l.body) = Active(longer)
    BY <1>1, <2>2, ApplyType, ActiveExtends
  <2>4. ReplayStep(StateOf(chain), l) =
          [ok |-> TRUE, skipper |-> chain[1].signer, dim |-> DimOf(chain),
           active |-> Apply(Active(chain), l.body), seq |-> l.seq, hash |-> Hash(l)]
    BY <1>2, <1>3 DEF ReplayStep, StateOf
  <2>. HIDE DEF longer
  <2>. QED BY <1>3, <2>1, <2>3, <2>4 DEF StateOf, DimOf, HeadSeq, HeadHash, longer
<1>4. CASE ~Valid(longer, id)
  BY <1>2, <1>4 DEF ReplayStep
<1>. QED BY <1>3, <1>4

LEMMA RefusedStays ==
  ASSUME NEW l
  PROVE  ReplayStep(Refused, l) = Refused
BY DEF ReplayStep, Accepts, Refused

----------------------------------------------------------------------------
(* The loop as a series of states.                                         *)
IsReading(g, start, rest) ==
  /\ g[0] = start
  /\ \A k \in 1..Len(rest) : g[k] = ReplayStep(g[k - 1], rest[k])

Folded(start, rest) == FoldLeft(ReplayStep, start, rest)

LEMMA FoldReads ==
  ASSUME NEW start \in ReplayState, NEW rest \in Seq(Link)
  PROVE  \E g : IsReading(g, start, rest) /\ Folded(start, rest) = g[Len(rest)]
<1>. DEFINE n == Len(rest)
            V == ReplayState
            step == [p \in (1..n) \X V |-> ReplayStep(p[2], rest[p[1]])]
            Equation(f) ==
              f = [t \in SUBSET (1..n) |->
                     IF t = {} THEN start
                     ELSE ReplayStep(f[t \ {Max(t)}], rest[Max(t)])]
            f == CHOOSE f : Equation(f)
            g == [k \in 0..n |-> f[1..k]]
<1>1. n \in Nat /\ DOMAIN rest = 1..n /\ \A i \in 1..n : rest[i] \in Link
  OBVIOUS
<1>. HIDE DEF n, V
<1>0. \A t : Max(t) = Greatest(t)
  BY DEF Max, Greatest
<1>2. \A i \in 1..n, v \in V : ReplayStep(v, rest[i]) \in V
  BY <1>1, StepType DEF V
<1>3. step \in [(1..n) \X V -> V] /\ \A i \in 1..n, v \in V : step[i, v] = ReplayStep(v, rest[i])
  BY <1>2
<1>4. PICK h \in [SUBSET (1..n) -> V] : FoldEquation(h, n, start, step)
  <2>. HIDE DEF step
  <2>1. start \in V
    BY DEF V
  <2>2. Foldable(V, n, start, step)
    BY <1>1, <1>3, <2>1, FoldExists
  <2>. QED BY <2>2 DEF Foldable
<1>5. Equation(h)
  <2>. HIDE DEF step
  <2>1. ASSUME NEW t \in SUBSET (1..n)
        PROVE  h[t] = IF t = {} THEN start ELSE ReplayStep(h[t \ {Max(t)}], rest[Max(t)])
    <3>1. CASE t # {}
      <4>1. Max(t) \in 1..n
        BY <1>0, <1>1, <3>1, GreatestIn
      <4>2. h[t] = step[Max(t), h[t \ {Max(t)}]] /\ h[t \ {Max(t)}] \in V
        BY <1>0, <1>4, <3>1, <4>1 DEF FoldEquation
      <4>. QED BY <1>3, <3>1, <4>1, <4>2
    <3>2. CASE t = {}
      BY <1>4, <3>2 DEF FoldEquation
    <3>. QED BY <3>1, <3>2
  <2>. QED BY <2>1
<1>6. Equation(f)
  <2>. HIDE DEF Equation
  <2>. QED BY <1>5
<1>7. Folded(start, rest) = f[1..n]
  BY <1>1 DEF Folded, FoldLeft, MapThenFoldSet
<1>8. f[{}] = start
  <2>. HIDE DEF f
  <2>. QED BY <1>6
<1>9. ASSUME NEW k \in 1..n PROVE f[1..k] = ReplayStep(f[1..k - 1], rest[k])
  <2>. HIDE DEF f
  <2>1. 1..k \in SUBSET (1..n) /\ 1..k # {} /\ Max(1..k) = k /\ (1..k) \ {k} = 1..k - 1
    BY <1>0, <1>1, PrefixStep
  <2>. QED BY <1>6, <2>1
<1>10. IsReading(g, start, rest)
  <2>. HIDE DEF f
  <2>1. 1..0 = {} /\ g[0] = start
    BY <1>1, <1>8
  <2>2. ASSUME NEW k \in 1..n PROVE g[k] = ReplayStep(g[k - 1], rest[k])
    <3>1. k \in 0..n /\ k - 1 \in 0..n
      BY <1>1
    <3>. QED BY <1>9, <3>1
  <2>. HIDE DEF g
  <2>. QED BY <2>1, <2>2 DEF IsReading, n
<1>11. Folded(start, rest) = g[n]
  <2>. HIDE DEF f
  <2>. QED BY <1>1, <1>7
<1>. HIDE DEF f, g
<1>. QED BY <1>10, <1>11 DEF n

----------------------------------------------------------------------------
(* The first k + 1 links.                                                  *)
Prefix(chain, k) == SubSeq(chain, 1, k + 1)

LEMMA PrefixType ==
  ASSUME NEW chain \in Seq(Link), NEW k \in 0..Len(chain) - 1
  PROVE  /\ Prefix(chain, k) \in Seq(Link) /\ Prefix(chain, k) # <<>>
         /\ Len(Prefix(chain, k)) = k + 1
         /\ \A i \in 1..k + 1 : Prefix(chain, k)[i] = chain[i]
<1>1. Len(chain) \in Nat /\ k \in Nat /\ k + 1 \in 1..Len(chain) /\ \A i \in 1..k + 1 : chain[i] \in Link
  OBVIOUS
<1>2. /\ Prefix(chain, k) \in Seq(Link) /\ Len(Prefix(chain, k)) = (k + 1) - 1 + 1
      /\ \A i \in 1..(k + 1) - 1 + 1 : Prefix(chain, k)[i] = chain[1 + i - 1]
  BY <1>1, SubSeqProperties DEF Prefix
<1>3. Len(Prefix(chain, k)) = k + 1 /\ \A i \in 1..k + 1 : Prefix(chain, k)[i] = chain[i]
  BY <1>1, <1>2
<1>. QED BY <1>1, <1>2, <1>3

LEMMA PrefixGrows ==
  ASSUME NEW chain \in Seq(Link), NEW k \in 0..Len(chain) - 2
  PROVE  Prefix(chain, k + 1) = Append(Prefix(chain, k), chain[k + 2])
<1>. DEFINE a == Prefix(chain, k + 1)
            b == Append(Prefix(chain, k), chain[k + 2])
<1>1. /\ Len(chain) \in Nat /\ k \in 0..Len(chain) - 1 /\ k + 1 \in 0..Len(chain) - 1
      /\ chain[k + 2] \in Link /\ k \in Nat
  OBVIOUS
<1>2. a \in Seq(Link) /\ Len(a) = k + 2 /\ \A i \in 1..k + 2 : a[i] = chain[i]
  <2>1. /\ a \in Seq(Link) /\ Len(a) = (k + 1) + 1
        /\ \A i \in 1..(k + 1) + 1 : a[i] = chain[i]
    BY <1>1, PrefixType
  <2>. HIDE DEF a
  <2>. QED BY <1>1, <2>1
<1>3. b \in Seq(Link) /\ Len(b) = k + 2 /\ \A i \in 1..k + 2 : b[i] = chain[i]
  <2>. DEFINE c == Prefix(chain, k)
  <2>1. c \in Seq(Link) /\ Len(c) = k + 1 /\ \A i \in 1..k + 1 : c[i] = chain[i]
    BY <1>1, PrefixType
  <2>. HIDE DEF c
  <2>2. /\ Append(c, chain[k + 2]) \in Seq(Link) /\ Len(Append(c, chain[k + 2])) = k + 2
        /\ \A i \in 1..k + 2 : Append(c, chain[k + 2])[i] = chain[i]
    BY <1>1, <2>1
  <2>. QED BY <2>2 DEF c
<1>. HIDE DEF a, b
<1>4. a = b
  BY <1>1, <1>2, <1>3, SeqEqual
<1>. QED BY <1>4 DEF a, b

(* The loop accepts the chains, and what it makes of one is its state.     *)
LEMMA ReplayMeans ==
  ASSUME NEW chain \in Seq(Link), chain # <<>>, NEW id
  PROVE  Replay(chain, id) = IF Valid(chain, id) THEN StateOf(chain) ELSE Refused
<1>1. CASE ~RootOk(chain[1], id)
  BY <1>1 DEF Replay, Valid
<1>2. CASE RootOk(chain[1], id)
  <2>. DEFINE start == RootState(chain[1])
              rest == Tail(chain)
              n == Len(chain) - 1
              Means(v, k) == v = IF Valid(Prefix(chain, k), id)
                                 THEN StateOf(Prefix(chain, k)) ELSE Refused
  <2>1. /\ n \in Nat /\ rest \in Seq(Link) /\ Len(rest) = n
        /\ \A i \in 1..n : rest[i] = chain[i + 1]
        /\ chain[1] \in Link
    BY HeadTailProperties
  <2>2. start = StateOf(<<chain[1]>>) /\ start \in ReplayState
    <3>1. chain[1].body.kind \in {"genesis", "checkpoint"}
      BY <1>2 DEF RootOk
    <3>2. /\ <<chain[1]>> \in Seq(Link) /\ <<chain[1]>> # <<>> /\ <<chain[1]>>[1] = chain[1]
          /\ HeadLink(<<chain[1]>>) = chain[1]
      BY <2>1 DEF HeadLink
    <3>3. Active(<<chain[1]>>) = RootMembers(chain[1]) /\ Active(<<chain[1]>>) \in Members
      BY <2>1, <3>1, <3>2, ActiveOfRoot, ActiveType
    <3>4. start = StateOf(<<chain[1]>>)
      BY <3>2, <3>3 DEF StateOf, RootState, DimOf, HeadSeq, HeadHash
    <3>5. /\ chain[1].signer \in Skipper /\ chain[1].body.dim \in Dim /\ chain[1].seq \in Nat
          /\ Hash(chain[1]) \in Seq(Content)
      BY <2>1, <3>1, HashType DEF Link, Body, Change
    <3>6. start \in ReplayState
      BY <3>3, <3>5 DEF RootState, ReplayState
    <3>. QED BY <3>4, <3>6
  <2>3. PICK g : IsReading(g, start, rest) /\ Folded(start, rest) = g[Len(rest)]
    <3>. HIDE DEF start, rest
    <3>. QED BY <2>1, <2>2, FoldReads
  <2>. HIDE DEF start, rest, n
  <2>4. Means(g[0], 0)
    <3>1. 0 \in 0..Len(chain) - 1
      BY <2>1 DEF n
    <3>2. /\ Prefix(chain, 0) \in Seq(Link) /\ Len(Prefix(chain, 0)) = 1
          /\ Prefix(chain, 0)[1] = chain[1]
      <4>1. /\ Prefix(chain, 0) \in Seq(Link) /\ Len(Prefix(chain, 0)) = 0 + 1
            /\ \A i \in 1..0 + 1 : Prefix(chain, 0)[i] = chain[i]
        BY <3>1, PrefixType
      <4>. QED BY <4>1
    <3>3. Prefix(chain, 0) = <<chain[1]>>
      <4>1. <<chain[1]>> \in Seq(Link) /\ Len(<<chain[1]>>) = 1 /\ <<chain[1]>>[1] = chain[1]
        BY <2>1
      <4>. QED BY <3>2, <4>1, SeqEqual
    <3>4. Valid(<<chain[1]>>, id)
      BY <1>2, RootAlone
    <3>. QED BY <2>2, <2>3, <3>3, <3>4 DEF IsReading
  <2>5. ASSUME NEW k \in Nat, k + 1 <= n, Means(g[k], k)
        PROVE  Means(g[k + 1], k + 1)
    <3>. DEFINE p == Prefix(chain, k)
                l == chain[k + 2]
    <3>1. k \in 0..Len(chain) - 2 /\ k \in 0..Len(chain) - 1 /\ Len(chain) \in Nat
      BY <2>1, <2>5 DEF n
    <3>2. p \in Seq(Link) /\ p # <<>> /\ l \in Link /\ Prefix(chain, k + 1) = Append(p, l)
      BY <3>1, PrefixType, PrefixGrows
    <3>3. g[k + 1] = ReplayStep(g[k], l)
      <4>1. k + 1 \in 1..n /\ (k + 1) - 1 = k /\ (k + 1) + 1 = k + 2
        BY <2>1, <2>5
      <4>. QED BY <2>1, <2>3, <4>1 DEF IsReading
    <3>. HIDE DEF p, l
    <3>4. CASE Valid(p, id)
      <4>1. g[k] = StateOf(p)
        BY <2>5, <3>4 DEF p
      <4>. QED BY <3>2, <3>3, <3>4, <4>1, StepAgrees
    <3>5. CASE ~Valid(p, id)
      <4>1. g[k] = Refused
        BY <2>5, <3>5 DEF p
      <4>2. ~Valid(Append(p, l), id)
        BY <3>2, <3>5, ValidOneMore
      <4>. QED BY <3>2, <3>3, <4>1, <4>2, RefusedStays
    <3>. QED BY <3>4, <3>5
  <2>. DEFINE S == {k \in Nat : k <= n => Means(g[k], k)}
  <2>. HIDE DEF Means
  <2>6. S \in SUBSET Nat /\ 0 \in S /\ \A k \in S : k + 1 \in S
    <3>1. ASSUME NEW k \in S PROVE k + 1 \in S
      <4>1. CASE k + 1 <= n
        BY <2>1, <2>5, <4>1
      <4>. QED BY <4>1
    <3>. QED BY <2>4, <3>1
  <2>7. S = Nat
    <3>. HIDE DEF S
    <3>. QED BY <2>6, NatStep
  <2>8. Means(g[n], n)
    BY <2>1, <2>7
  <2>9. Prefix(chain, n) = chain
    <3>1. n \in 0..Len(chain) - 1 /\ n + 1 = Len(chain)
      BY <2>1 DEF n
    <3>2. /\ Prefix(chain, n) \in Seq(Link) /\ Len(Prefix(chain, n)) = Len(chain)
          /\ \A i \in 1..Len(chain) : Prefix(chain, n)[i] = chain[i]
      BY <3>1, PrefixType
    <3>. QED BY <3>2, SeqEqual
  <2>10. Replay(chain, id) = g[n]
    <3>1. Replay(chain, id) = Folded(start, rest)
      <4>. DEFINE folded == FoldLeft(ReplayStep, RootState(chain[1]), Tail(chain))
      <4>1. Replay(chain, id) = IF chain = <<>> \/ ~RootOk(chain[1], id) THEN Refused ELSE folded
        BY Zenon DEF Replay
      <4>2. folded = Folded(start, rest)
        BY Zenon DEF Folded, start, rest
      <4>. HIDE DEF folded
      <4>. QED BY <1>2, <4>1, <4>2
    <3>. QED BY <2>1, <2>3, <3>1
  <2>. QED BY <2>8, <2>9, <2>10 DEF Means
<1>. QED BY <1>1, <1>2

----------------------------------------------------------------------------
(* What is lost, repeated or reordered.                                    *)

(* The numbers of a chain rise by one.                                     *)
LEMMA NumbersRise ==
  ASSUME NEW chain \in Seq(Link), NEW id, Valid(chain, id)
  PROVE  \A i \in 1..Len(chain) : chain[i].seq = chain[1].seq + i - 1 /\ chain[i].seq \in Nat
<1>. DEFINE n == Len(chain)
            S == {k \in Nat : k + 1 <= n => chain[k + 1].seq = chain[1].seq + k}
<1>1. n \in Nat /\ \A i \in 1..n : chain[i].seq \in Nat
  <2>1. n \in Nat /\ \A i \in 1..n : chain[i] \in Link
    OBVIOUS
  <2>. QED BY <2>1 DEF Link
<1>2. \A i \in 2..n : chain[i].seq = chain[i - 1].seq + 1
  BY DEF Valid, ExtendsOk
<1>. HIDE DEF n
<1>3. 0 \in S
  <2>1. 0 + 1 = 1 /\ 1 <= n => chain[1].seq = chain[1].seq + 0
    BY <1>1
  <2>. QED BY <2>1
<1>4. ASSUME NEW k \in S PROVE k + 1 \in S
  <2>1. CASE (k + 1) + 1 <= n
    <3>1. /\ (k + 1) + 1 \in 2..n /\ ((k + 1) + 1) - 1 = k + 1 /\ k + 1 \in 1..n /\ 1 \in 1..n
          /\ chain[k + 1].seq = chain[1].seq + k
      BY <1>1, <2>1
    <3>2. chain[(k + 1) + 1].seq = chain[k + 1].seq + 1
      BY <1>2, <3>1
    <3>3. chain[1].seq \in Nat
      BY <1>1, <3>1
    <3>. QED BY <3>1, <3>2, <3>3
  <2>. QED BY <2>1
<1>5. S = Nat
  <2>1. S \in SUBSET Nat
    OBVIOUS
  <2>. HIDE DEF S
  <2>. QED BY <1>3, <1>4, <2>1, NatStep
<1>6. ASSUME NEW i \in 1..n PROVE chain[i].seq = chain[1].seq + i - 1 /\ chain[i].seq \in Nat
  <2>1. i - 1 \in S /\ (i - 1) + 1 = i /\ i <= n
    <3>1. i - 1 \in Nat /\ (i - 1) + 1 = i /\ i <= n
      BY <1>1
    <3>. HIDE DEF S
    <3>. QED BY <1>5, <3>1
  <2>2. chain[1].seq \in Nat /\ chain[i].seq \in Nat
    BY <1>1
  <2>. QED BY <2>1, <2>2
<1>. QED BY <1>6 DEF n

(* No link but the first can be a root.                                    *)
LEMMA NoOtherRoot ==
  ASSUME NEW chain \in Seq(Link), NEW id, Valid(chain, id), NEW i \in 2..Len(chain)
  PROVE  ~RootOk(chain[i], None)
BY DEF Valid, ExtendsOk, RootOk

LEMMA LostIsSeen ==
  ASSUME NEW chain \in Seq(Link), Valid(chain, None), NEW i \in 1..Len(chain) - 1
  PROVE  ~Valid(Without(chain, i), None)
<1>. DEFINE n == Len(chain)
            a == SubSeq(chain, 1, i - 1)
            b == SubSeq(chain, i + 1, n)
            w == Without(chain, i)
<1>1. n \in Nat /\ i \in 1..n - 1 /\ \A k \in 1..n : chain[k] \in Link
  OBVIOUS
<1>2. a \in Seq(Link) /\ Len(a) = i - 1 /\ \A k \in 1..i - 1 : a[k] = chain[k]
  <2>1. 1 \in Int /\ i - 1 \in Int /\ \A k \in 1..i - 1 : chain[k] \in Link
    BY <1>1
  <2>2. /\ a \in Seq(Link) /\ Len(a) = (IF 1 <= i - 1 THEN i - 1 - 1 + 1 ELSE 0)
        /\ \A k \in 1..i - 1 - 1 + 1 : a[k] = chain[1 + k - 1]
    BY <2>1, SubSeqProperties
  <2>. HIDE DEF a
  <2>. QED BY <1>1, <2>2
<1>3. b \in Seq(Link) /\ Len(b) = n - i /\ b[1] = chain[i + 1]
  <2>. HIDE DEF n
  <2>1. i + 1 \in Int /\ n \in Int /\ \A k \in i + 1..n : chain[k] \in Link
    BY <1>1
  <2>2. /\ b \in Seq(Link) /\ Len(b) = (IF i + 1 <= n THEN n - (i + 1) + 1 ELSE 0)
        /\ \A k \in 1..n - (i + 1) + 1 : b[k] = chain[i + 1 + k - 1]
    BY <2>1, SubSeqProperties
  <2>3. 1 \in 1..n - (i + 1) + 1 /\ i + 1 + 1 - 1 = i + 1
    BY <1>1
  <2>. HIDE DEF b
  <2>. QED BY <1>1, <2>2, <2>3
<1>4. w = a \o b
  BY DEF Without
<1>. HIDE DEF a, b, w, n
<1>5. /\ Len(w) = n - 1 /\ w[i] = chain[i + 1]
      /\ i > 1 => w[i - 1] = chain[i - 1]
  <2>1. /\ Len(w) = Len(a) + Len(b)
        /\ \A k \in 1..Len(a) + Len(b) :
             w[k] = IF k <= Len(a) THEN a[k] ELSE b[k - Len(a)]
    BY <1>2, <1>3, <1>4, ConcatProperties
  <2>2. /\ i \in 1..Len(a) + Len(b) /\ ~(i <= Len(a)) /\ i - Len(a) = 1
        /\ i > 1 => /\ i - 1 \in 1..Len(a) + Len(b) /\ i - 1 <= Len(a)
                    /\ i - 1 \in 1..i - 1
    BY <1>1, <1>2, <1>3
  <2>3. Len(a) + Len(b) = n - 1
    BY <1>1, <1>2, <1>3
  <2>. QED BY <1>2, <1>3, <2>1, <2>2, <2>3
<1>6. CASE i = 1
  <2>1. i + 1 \in 2..Len(chain)
    BY <1>1 DEF n
  <2>2. ~RootOk(w[1], None)
    BY <1>5, <1>6, <2>1, NoOtherRoot
  <2>. QED BY <2>2 DEF Valid, w
<1>7. CASE i > 1
  <2>1. i \in 2..Len(w) /\ i + 1 \in 1..n /\ i - 1 \in 1..n
    BY <1>1, <1>5, <1>7
  <2>2. w[i].seq = chain[1].seq + (i + 1) - 1 /\ w[i - 1].seq = chain[1].seq + (i - 1) - 1
    BY <1>5, <1>7, <2>1, NumbersRise DEF n
  <2>3. chain[1].seq \in Nat
    <3>1. chain[1] \in Link
      BY <1>1 DEF n
    <3>. QED BY <3>1 DEF Link
  <2>4. ~ExtendsOk(w[i], w[i - 1], w[1].signer)
    BY <1>1, <2>2, <2>3 DEF ExtendsOk
  <2>. QED BY <2>1, <2>4 DEF Valid, w
<1>. QED BY <1>1, <1>6, <1>7

LEMMA RepeatIsSeen ==
  ASSUME NEW chain \in Seq(Link), Valid(chain, None), NEW i \in 1..Len(chain)
  PROVE  ~Valid(Repeated(chain, i), None)
<1>. DEFINE n == Len(chain)
            a == SubSeq(chain, 1, i)
            b == SubSeq(chain, i, n)
            w == Repeated(chain, i)
<1>1. n \in Nat /\ i \in 1..n /\ \A k \in 1..n : chain[k] \in Link
  OBVIOUS
<1>2. a \in Seq(Link) /\ Len(a) = i /\ a[i] = chain[i]
  <2>1. 1 \in Int /\ i \in Int /\ \A k \in 1..i : chain[k] \in Link
    BY <1>1
  <2>2. /\ a \in Seq(Link) /\ Len(a) = (IF 1 <= i THEN i - 1 + 1 ELSE 0)
        /\ \A k \in 1..i - 1 + 1 : a[k] = chain[1 + k - 1]
    BY <2>1, SubSeqProperties
  <2>. HIDE DEF a
  <2>3. i \in 1..i - 1 + 1 /\ 1 + i - 1 = i /\ 1 <= i /\ i - 1 + 1 = i
    BY <1>1
  <2>. QED BY <2>2, <2>3
<1>3. b \in Seq(Link) /\ Len(b) = n - i + 1 /\ b[1] = chain[i]
  <2>. HIDE DEF n
  <2>1. i \in Int /\ n \in Int /\ \A k \in i..n : chain[k] \in Link
    BY <1>1
  <2>2. /\ b \in Seq(Link) /\ Len(b) = (IF i <= n THEN n - i + 1 ELSE 0)
        /\ \A k \in 1..n - i + 1 : b[k] = chain[i + k - 1]
    BY <2>1, SubSeqProperties
  <2>3. 1 \in 1..n - i + 1 /\ i + 1 - 1 = i
    BY <1>1
  <2>. HIDE DEF b
  <2>. QED BY <1>1, <2>2, <2>3
<1>4. w = a \o b
  BY DEF Repeated
<1>. HIDE DEF a, b, w, n
<1>5. Len(w) = n + 1 /\ w[i + 1] = chain[i] /\ w[i] = chain[i]
  <2>1. /\ Len(w) = Len(a) + Len(b)
        /\ \A k \in 1..Len(a) + Len(b) :
             w[k] = IF k <= Len(a) THEN a[k] ELSE b[k - Len(a)]
    BY <1>2, <1>3, <1>4, ConcatProperties
  <2>2. Len(a) + Len(b) = n + 1
    BY <1>1, <1>2, <1>3
  <2>3. i \in 1..n + 1 /\ i + 1 \in 1..n + 1 /\ i <= i /\ ~(i + 1 <= i) /\ (i + 1) - i = 1
    BY <1>1
  <2>. QED BY <1>2, <1>3, <2>1, <2>2, <2>3
<1>6. i + 1 \in 2..Len(w) /\ (i + 1) - 1 = i /\ chain[i].seq \in Nat
  <2>1. i + 1 \in 2..Len(w) /\ (i + 1) - 1 = i
    BY <1>1, <1>5
  <2>. QED BY <1>1, <2>1 DEF Link
<1>7. ~ExtendsOk(w[i + 1], w[i], w[1].signer)
  BY <1>5, <1>6 DEF ExtendsOk
<1>. QED BY <1>6, <1>7 DEF Valid, w

LEMMA SwapIsSeen ==
  ASSUME NEW chain \in Seq(Link), Valid(chain, None),
         NEW i \in 1..Len(chain), NEW j \in 1..Len(chain), i < j
  PROVE  ~Valid(Swapped(chain, i, j), None)
<1>. DEFINE n == Len(chain)
            w == Swapped(chain, i, j)
<1>1. /\ n \in Nat /\ Len(w) = n /\ w[i] = chain[j]
      /\ i > 1 => w[i - 1] = chain[i - 1]
  BY DEF Swapped
<1>. HIDE DEF w, n
<1>2. CASE i = 1
  <2>1. j \in 2..Len(chain)
    BY <1>2
  <2>2. ~RootOk(w[1], None)
    BY <1>1, <1>2, <2>1, NoOtherRoot
  <2>. QED BY <2>2 DEF Valid, w
<1>3. CASE i > 1
  <2>1. i \in 2..Len(w) /\ i - 1 \in 1..Len(chain) /\ i \in Nat /\ j \in Nat
    BY <1>1, <1>3 DEF n
  <2>2. chain[j].seq = chain[1].seq + j - 1 /\ chain[i - 1].seq = chain[1].seq + (i - 1) - 1
    BY <2>1, NumbersRise
  <2>3. chain[1].seq \in Nat
    <3>1. chain[1] \in Link
      BY <2>1
    <3>. QED BY <3>1 DEF Link
  <2>4. ~ExtendsOk(w[i], w[i - 1], w[1].signer)
    <3>1. w[i].seq = chain[j].seq /\ w[i - 1].seq = chain[i - 1].seq
      BY <1>1, <1>3, <2>1
    <3>2. w[i].seq # w[i - 1].seq + 1
      BY <1>3, <2>1, <2>2, <2>3, <3>1
    <3>. QED BY <3>2 DEF ExtendsOk
  <2>. QED BY <2>1, <2>4 DEF Valid, w
<1>. QED BY <1>2, <1>3

----------------------------------------------------------------------------
(* Logs are sequences of links.                                            *)
LinksInv == links \in Seq(Link) /\ links # <<>>

LEMMA LinksInit == ReplayInit => LinksInv
<1>. SUFFICES ASSUME ReplayInit PROVE LinksInv
  OBVIOUS
<1>1. \A h \in {<<>>} \cup OlderHash : h \in Seq(Content)
  <2>1. \A h \in OlderHash : h \in Seq(Content)
    BY GenesisType, HashType DEF OlderHash
  <2>2. <<>> \in Seq(Content)
    OBVIOUS
  <2>. QED BY <2>1, <2>2
<1>2. PICK root \in AnyLink({0, 1}, {<<>>} \cup OlderHash) : links = <<root>>
  BY DEF ReplayInit
<1>3. root \in Link
  <2>1. root.seq \in Nat /\ root.prev \in Seq(Content)
    BY <1>1, <1>2 DEF AnyLink
  <2>. QED BY <1>2, <2>1 DEF AnyLink, Link
<1>. QED BY <1>2, <1>3 DEF LinksInv

LEMMA LinksNext == LinksInv /\ [ReplayNext]_links => LinksInv'
<1>. SUFFICES ASSUME LinksInv, ReplayNext PROVE LinksInv'
  BY DEF LinksInv
<1>1. HeadLink(links) \in Link /\ links[1] \in Link
  BY DEF LinksInv, HeadLink
<1>2. /\ HeadSeq(links) \in Nat /\ HeadHash(links) \in Seq(Content)
      /\ links[1].prev \in Seq(Content) /\ Hash(links[1]) \in Seq(Content)
  BY <1>1, HashType DEF HeadSeq, HeadHash, Link
<1>3. PICK l \in AnyLink({HeadSeq(links), HeadSeq(links) + 1, HeadSeq(links) + 2},
                         {HeadHash(links), links[1].prev, Hash(links[1])}) :
        links' = Append(links, l)
  BY DEF ReplayNext, Extend
<1>4. l \in Link
  BY <1>2 DEF AnyLink, Link
<1>. QED BY <1>3, <1>4 DEF LinksInv

LEMMA LinksHold == ReplaySpec => []LinksInv
BY LinksInit, LinksNext, PTL DEF ReplaySpec

(* The loop of `replay` accepts exactly the logs Valid describes, and      *)
(* derives exactly Active, DimOf and the head from them, for every log       *)
(* that can be written, pinned to whichever hansa id.                      *)
THEOREM ReplayAgrees == ReplaySpec => []LoopAgrees
<1>1. LinksInv => LoopAgrees
  <2>. SUFFICES ASSUME LinksInv, NEW id \in Skipper \cup {None}
                PROVE  LET out == Replay(links, id)
                       IN  /\ out.ok <=> Valid(links, id)
                           /\ out.ok => /\ out.active = Active(links)
                                        /\ out.dim = DimOf(links)
                                        /\ out.seq = HeadSeq(links)
                                        /\ out.hash = HeadHash(links)
    BY DEF LoopAgrees
  <2>1. Replay(links, id) = IF Valid(links, id) THEN StateOf(links) ELSE Refused
    BY ReplayMeans DEF LinksInv
  <2>2. CASE Valid(links, id)
    BY <2>1, <2>2 DEF StateOf
  <2>3. CASE ~Valid(links, id)
    BY <2>1, <2>3 DEF Refused
  <2>. QED BY <2>2, <2>3
<1>. QED BY <1>1, LinksHold, PTL

(* Whoever drops, repeats or swaps links of a chain of any length, the     *)
(* result is refused, unless it only cut off the end.                      *)
THEOREM TamperingSeen == ReplaySpec => []OnlyTruncationPasses
<1>1. LinksInv => OnlyTruncationPasses
  <2>. SUFFICES ASSUME LinksInv, Valid(links, None), NEW i \in 1..Len(links)
                PROVE  /\ i < Len(links) => ~Valid(Without(links, i), None)
                       /\ ~Valid(Repeated(links, i), None)
                       /\ \A j \in 1..Len(links) : i < j => ~Valid(Swapped(links, i, j), None)
    BY DEF OnlyTruncationPasses
  <2>1. links \in Seq(Link) /\ (i < Len(links) => i \in 1..Len(links) - 1)
    BY DEF LinksInv
  <2>2. i < Len(links) => ~Valid(Without(links, i), None)
    BY <2>1, LostIsSeen
  <2>3. ~Valid(Repeated(links, i), None)
    BY <2>1, RepeatIsSeen
  <2>4. \A j \in 1..Len(links) : i < j => ~Valid(Swapped(links, i, j), None)
    BY <2>1, SwapIsSeen
  <2>. QED BY <2>2, <2>3, <2>4
<1>. QED BY <1>1, LinksHold, PTL

----------------------------------------------------------------------------
(* Signatures: what can be read from the bytes that are signed.            *)

LEMMA SaysToo ==
  ASSUME NEW a, NEW b, NEW x, NEW y, NEW u, NEW v, Says(a, b, x, y), x = y => u = v
  PROVE  Says(a, b, u, v)
BY DEF Says

LEMMA FixedSays ==
  ASSUME NEW x \in Nat, NEW y \in Nat
  PROVE  Fixed(x) \in Seq(Nat) /\ Says(Fixed(x), Fixed(y), x, y)
<1>1. Says(<<x>>, <<y>>, x, y)
  BY SymbolSays
<1>2. <<x>> \in Seq(Nat)
  OBVIOUS
<1>. QED BY <1>1, <1>2 DEF Fixed

Begins(a, x) == a \in Seq(Nat) /\ Len(a) >= 1 /\ a[1] = x

LEMMA FixedBegins ==
  ASSUME NEW x \in Nat
  PROVE  Begins(Fixed(x), x)
BY DEF Begins, Fixed

LEMMA JoinBegins ==
  ASSUME NEW a, NEW x, Begins(a, x), NEW b \in Seq(Nat)
  PROVE  Begins(a \o b, x)
<1>1. a \in Seq(Nat) /\ Len(a) >= 1 /\ a[1] = x /\ Len(a) \in Nat /\ Len(b) \in Nat
  BY DEF Begins
<1>2. /\ a \o b \in Seq(Nat) /\ Len(a \o b) = Len(a) + Len(b)
      /\ \A i \in 1..Len(a) : (a \o b)[i] = a[i]
  BY <1>1, Joined
<1>. QED BY <1>1, <1>2 DEF Begins

LEMMA BeginningsDiffer ==
  ASSUME NEW a, NEW b, NEW x, NEW y, Begins(a, x), Begins(b, y), x # y, NEW u, NEW v
  PROVE  Says(a, b, u, v)
<1>. SUFFICES ASSUME NEW s \in Seq(Nat), NEW t \in Seq(Nat), a \o s = b \o t
              PROVE  FALSE
  BY DEF Says
<1>1. Begins(a \o s, x) /\ Begins(b \o t, y)
  BY JoinBegins
<1>. QED BY <1>1 DEF Begins

(* Two texts of different lengths differ in the first symbol.              *)
LEMMA BytesSay ==
  ASSUME NEW b \in Seq(Nat), NEW c \in Seq(Nat)
  PROVE  Bytes(b) \in Seq(Nat) /\ Says(Bytes(b), Bytes(c), b, c)
<1>1. Len(b) \in Nat /\ Len(c) \in Nat
  OBVIOUS
<1>2. /\ Fixed(Len(b)) \in Seq(Nat) /\ Fixed(Len(c)) \in Seq(Nat)
      /\ Says(Fixed(Len(b)), Fixed(Len(c)), Len(b), Len(c))
  BY <1>1, FixedSays
<1>3. Len(b) = Len(c) => Says(b, c, b, c)
  BY CutSays
<1>4. Says(Bytes(b), Bytes(c), <<Len(b), b>>, <<Len(c), c>>)
  BY <1>2, <1>3, JoinSays DEF Bytes
<1>5. Bytes(b) \in Seq(Nat)
  BY <1>2 DEF Bytes
<1>. QED BY <1>4, <1>5 DEF Says

(* An option says whether there is something, and what, as long as that is *)
(* said where there is something on both sides.                            *)
LEMMA OptionalSays ==
  ASSUME NEW x, NEW y, NEW b, NEW c,
         x # Absent => b \in Seq(Nat), y # Absent => c \in Seq(Nat),
         x # Absent /\ y # Absent => Says(b, c, x, y)
  PROVE  /\ Optional(x, b) \in Seq(Nat) /\ Optional(y, c) \in Seq(Nat)
         /\ Says(Optional(x, b), Optional(y, c), x, y)
<1>1. /\ Fixed(0) \in Seq(Nat) /\ Fixed(1) \in Seq(Nat)
      /\ \A i, j \in {0, 1} : Says(Fixed(i), Fixed(j), i, j)
  BY FixedSays
<1>2. Optional(x, b) \in Seq(Nat) /\ Optional(y, c) \in Seq(Nat)
  BY <1>1 DEF Optional
<1>3. CASE x # Absent /\ y # Absent
  <2>1. Says(Fixed(1) \o b, Fixed(1) \o c, <<1, x>>, <<1, y>>)
    BY <1>1, <1>3, JoinSays
  <2>2. Optional(x, b) = Fixed(1) \o b /\ Optional(y, c) = Fixed(1) \o c
    BY <1>3 DEF Optional
  <2>. QED BY <1>2, <2>1, <2>2 DEF Says
<1>4. CASE x = Absent /\ y = Absent
  <2>1. Optional(x, b) = Fixed(0) /\ Optional(y, c) = Fixed(0)
    BY <1>4 DEF Optional
  <2>. QED BY <1>1, <1>2, <1>4, <2>1 DEF Says
<1>5. CASE x = Absent /\ y # Absent
  <2>1. Begins(Optional(x, b), 0) /\ Begins(Optional(y, c), 1)
    BY <1>5, FixedBegins, JoinBegins DEF Optional
  <2>2. Says(Optional(x, b), Optional(y, c), x, y)
    BY <2>1, BeginningsDiffer
  <2>. QED BY <1>2, <2>2
<1>6. CASE x # Absent /\ y = Absent
  <2>1. Begins(Optional(x, b), 1) /\ Begins(Optional(y, c), 0)
    BY <1>6, FixedBegins, JoinBegins DEF Optional
  <2>. QED BY <1>2, <2>1, BeginningsDiffer
<1>. QED BY <1>2, <1>3, <1>4, <1>5, <1>6

AuthBytes(auth) == IF auth = Absent THEN <<>> ELSE Bytes(auth[1]) \o Bytes(auth[2])

TextBytes(text) == IF text = Absent THEN <<>> ELSE Bytes(text)

LEMMA AuthSays ==
  ASSUME NEW x \in (Text \X Text) \cup {Absent}, NEW y \in (Text \X Text) \cup {Absent}
  PROVE  /\ Optional(x, AuthBytes(x)) \in Seq(Nat)
         /\ Says(Optional(x, AuthBytes(x)), Optional(y, AuthBytes(y)), x, y)
<1>1. ASSUME NEW z \in (Text \X Text) \cup {Absent}, z # Absent
      PROVE  /\ z[1] \in Seq(Nat) /\ z[2] \in Seq(Nat) /\ z = <<z[1], z[2]>>
             /\ AuthBytes(z) = Bytes(z[1]) \o Bytes(z[2])
             /\ Bytes(z[1]) \in Seq(Nat) /\ Bytes(z[2]) \in Seq(Nat)
             /\ AuthBytes(z) \in Seq(Nat)
  <2>1. z \in Text \X Text
    BY <1>1
  <2>2. z[1] \in Seq(Nat) /\ z[2] \in Seq(Nat) /\ z = <<z[1], z[2]>>
    BY <2>1, SignaturesAssumption
  <2>3. Bytes(z[1]) \in Seq(Nat) /\ Bytes(z[2]) \in Seq(Nat)
    BY <2>2, BytesSay
  <2>. QED BY <1>1, <2>2, <2>3 DEF AuthBytes
<1>2. ASSUME x # Absent, y # Absent PROVE Says(AuthBytes(x), AuthBytes(y), x, y)
  <2>1. /\ x[1] \in Seq(Nat) /\ x[2] \in Seq(Nat) /\ x = <<x[1], x[2]>>
        /\ AuthBytes(x) = Bytes(x[1]) \o Bytes(x[2])
        /\ Bytes(x[1]) \in Seq(Nat) /\ Bytes(x[2]) \in Seq(Nat)
    BY <1>1, <1>2
  <2>2. /\ y[1] \in Seq(Nat) /\ y[2] \in Seq(Nat) /\ y = <<y[1], y[2]>>
        /\ AuthBytes(y) = Bytes(y[1]) \o Bytes(y[2])
        /\ Bytes(y[1]) \in Seq(Nat) /\ Bytes(y[2]) \in Seq(Nat)
    BY <1>1, <1>2
  <2>3. Says(Bytes(x[1]), Bytes(y[1]), x[1], y[1]) /\ Says(Bytes(x[2]), Bytes(y[2]), x[2], y[2])
    BY <2>1, <2>2, BytesSay
  <2>4. Says(AuthBytes(x), AuthBytes(y), <<x[1], x[2]>>, <<y[1], y[2]>>)
    BY <2>1, <2>2, <2>3, JoinSays
  <2>. QED BY <2>1, <2>2, <2>4
<1>. QED BY <1>1, <1>2, OptionalSays

LEMMA TextSays ==
  ASSUME NEW x \in Text \cup {Absent}, NEW y \in Text \cup {Absent}
  PROVE  /\ Optional(x, TextBytes(x)) \in Seq(Nat)
         /\ Says(Optional(x, TextBytes(x)), Optional(y, TextBytes(y)), x, y)
<1>1. \A z \in Text : z \in Seq(Nat)
  BY SignaturesAssumption
<1>2. x # Absent => TextBytes(x) \in Seq(Nat) /\ TextBytes(x) = Bytes(x) /\ x \in Seq(Nat)
  BY <1>1, BytesSay DEF TextBytes
<1>3. y # Absent => TextBytes(y) \in Seq(Nat) /\ TextBytes(y) = Bytes(y) /\ y \in Seq(Nat)
  BY <1>1, BytesSay DEF TextBytes
<1>4. x # Absent /\ y # Absent => Says(TextBytes(x), TextBytes(y), x, y)
  BY <1>2, <1>3, BytesSay
<1>. QED BY <1>2, <1>3, <1>4, OptionalSays

(* The three kinds of location.                                            *)
IsPath(p) ==
  /\ p = [kind |-> "path", path |-> p.path] /\ p.path \in Text
  /\ LocationBytes(p) = Fixed(0) \o Bytes(p.path)

IsResp(p) ==
  /\ p = [kind |-> "resp3", endpoint |-> p.endpoint, auth |-> p.auth]
  /\ p.endpoint \in Text /\ p.auth \in (Text \X Text) \cup {Absent}
  /\ LocationBytes(p) = (Fixed(1) \o Bytes(p.endpoint)) \o Optional(p.auth, AuthBytes(p.auth))

IsHttp(p) ==
  /\ p = [kind |-> "http", base_url |-> p.base_url, bearer |-> p.bearer]
  /\ p.base_url \in Text /\ p.bearer \in Text \cup {Absent}
  /\ LocationBytes(p) = (Fixed(2) \o Bytes(p.base_url)) \o Optional(p.bearer, TextBytes(p.bearer))

LEMMA LocationIs ==
  ASSUME NEW p \in Location
  PROVE  /\ IsPath(p) \/ IsResp(p) \/ IsHttp(p)
         /\ IsPath(p) => Begins(LocationBytes(p), 0)
         /\ IsResp(p) => Begins(LocationBytes(p), 1)
         /\ IsHttp(p) => Begins(LocationBytes(p), 2)
<1>1. \A t \in Text : t \in Seq(Nat) /\ Bytes(t) \in Seq(Nat)
  BY SignaturesAssumption, BytesSay
<1>2. IsPath(p) \/ IsResp(p) \/ IsHttp(p)
  <2>1. CASE p \in [kind : {"path"}, path : Text]
    <3>1. p = [kind |-> "path", path |-> p.path] /\ p.path \in Text
      BY <2>1
    <3>2. LocationBytes(p) = Fixed(0) \o Bytes(p.path)
      BY <3>1 DEF LocationBytes
    <3>. QED BY <3>1, <3>2 DEF IsPath
  <2>2. CASE p \in [kind : {"resp3"}, endpoint : Text, auth : (Text \X Text) \cup {Absent}]
    <3>1. /\ p = [kind |-> "resp3", endpoint |-> p.endpoint, auth |-> p.auth]
          /\ p.endpoint \in Text /\ p.auth \in (Text \X Text) \cup {Absent}
      BY <2>2
    <3>2. p.kind = "resp3"
      BY <2>2
    <3>3. LocationBytes(p) = (Fixed(1) \o Bytes(p.endpoint)) \o Optional(p.auth, AuthBytes(p.auth))
      BY <3>2 DEF LocationBytes, AuthBytes
    <3>. QED BY <3>1, <3>3 DEF IsResp
  <2>3. CASE p \in [kind : {"http"}, base_url : Text, bearer : Text \cup {Absent}]
    <3>1. /\ p = [kind |-> "http", base_url |-> p.base_url, bearer |-> p.bearer]
          /\ p.base_url \in Text /\ p.bearer \in Text \cup {Absent}
      BY <2>3
    <3>2. p.kind = "http"
      BY <2>3
    <3>3. LocationBytes(p) = (Fixed(2) \o Bytes(p.base_url)) \o Optional(p.bearer, TextBytes(p.bearer))
      BY <3>2 DEF LocationBytes, TextBytes
    <3>. QED BY <3>1, <3>3 DEF IsHttp
  <2>. QED BY <2>1, <2>2, <2>3 DEF Location
<1>3. IsPath(p) => Begins(LocationBytes(p), 0)
  BY <1>1, FixedBegins, JoinBegins DEF IsPath
<1>4. IsResp(p) => Begins(LocationBytes(p), 1)
  <2>. SUFFICES ASSUME IsResp(p) PROVE Begins(LocationBytes(p), 1)
    OBVIOUS
  <2>1. Begins(Fixed(1) \o Bytes(p.endpoint), 1)
    BY <1>1, FixedBegins, JoinBegins DEF IsResp
  <2>2. Optional(p.auth, AuthBytes(p.auth)) \in Seq(Nat)
    BY AuthSays DEF IsResp
  <2>. QED BY <2>1, <2>2, JoinBegins DEF IsResp
<1>5. IsHttp(p) => Begins(LocationBytes(p), 2)
  <2>. SUFFICES ASSUME IsHttp(p) PROVE Begins(LocationBytes(p), 2)
    OBVIOUS
  <2>1. Begins(Fixed(2) \o Bytes(p.base_url), 2)
    BY <1>1, FixedBegins, JoinBegins DEF IsHttp
  <2>2. Optional(p.bearer, TextBytes(p.bearer)) \in Seq(Nat)
    BY TextSays DEF IsHttp
  <2>. QED BY <2>1, <2>2, JoinBegins DEF IsHttp
<1>. QED BY <1>2, <1>3, <1>4, <1>5

LEMMA LocationSays ==
  ASSUME NEW p \in Location, NEW q \in Location
  PROVE  /\ LocationBytes(p) \in Seq(Nat)
         /\ Says(LocationBytes(p), LocationBytes(q), p, q)
<1>. DEFINE Told == Says(LocationBytes(p), LocationBytes(q), p, q)
<1>1. \A t \in Text : t \in Seq(Nat) /\ Bytes(t) \in Seq(Nat)
  BY SignaturesAssumption, BytesSay
<1>2. /\ Fixed(0) \in Seq(Nat) /\ Fixed(1) \in Seq(Nat) /\ Fixed(2) \in Seq(Nat)
      /\ Says(Fixed(0), Fixed(0), 0, 0) /\ Says(Fixed(1), Fixed(1), 1, 1)
      /\ Says(Fixed(2), Fixed(2), 2, 2)
  BY FixedSays
<1>3. ASSUME IsPath(p), IsPath(q) PROVE Told
  <2>1. Says(Bytes(p.path), Bytes(q.path), p.path, q.path)
    BY <1>1, <1>3, BytesSay DEF IsPath
  <2>2. Says(Fixed(0) \o Bytes(p.path), Fixed(0) \o Bytes(q.path), <<0, p.path>>, <<0, q.path>>)
    BY <1>1, <1>2, <1>3, <2>1, JoinSays DEF IsPath
  <2>3. p.path = q.path => p = q
    BY <1>3 DEF IsPath
  <2>4. Says(Fixed(0) \o Bytes(p.path), Fixed(0) \o Bytes(q.path), p, q)
    BY <2>2, <2>3, SaysToo
  <2>. QED BY <1>3, <2>4 DEF IsPath
<1>4. ASSUME IsResp(p), IsResp(q) PROVE Told
  <2>. DEFINE a == Fixed(1) \o Bytes(p.endpoint)
              b == Fixed(1) \o Bytes(q.endpoint)
              c == Optional(p.auth, AuthBytes(p.auth))
              d == Optional(q.auth, AuthBytes(q.auth))
  <2>1. Says(Bytes(p.endpoint), Bytes(q.endpoint), p.endpoint, q.endpoint)
    BY <1>1, <1>4, BytesSay DEF IsResp
  <2>2. Says(a, b, <<1, p.endpoint>>, <<1, q.endpoint>>)
    BY <1>1, <1>2, <1>4, <2>1, JoinSays DEF IsResp
  <2>3. a \in Seq(Nat) /\ b \in Seq(Nat)
    BY <1>1, <1>2, <1>4 DEF IsResp
  <2>4. Says(c, d, p.auth, q.auth) /\ c \in Seq(Nat) /\ d \in Seq(Nat)
    BY <1>4, AuthSays DEF IsResp
  <2>5. LocationBytes(p) = a \o c /\ LocationBytes(q) = b \o d
    BY <1>4 DEF IsResp
  <2>. HIDE DEF a, b, c, d
  <2>6. Says(a \o c, b \o d, <<<<1, p.endpoint>>, p.auth>>, <<<<1, q.endpoint>>, q.auth>>)
    BY <2>2, <2>3, <2>4, JoinSays
  <2>7. p.endpoint = q.endpoint /\ p.auth = q.auth => p = q
    BY <1>4 DEF IsResp
  <2>8. Says(a \o c, b \o d, p, q)
    BY <2>6, <2>7, SaysToo
  <2>. QED BY <2>5, <2>8
<1>5. ASSUME IsHttp(p), IsHttp(q) PROVE Told
  <2>. DEFINE a == Fixed(2) \o Bytes(p.base_url)
              b == Fixed(2) \o Bytes(q.base_url)
              c == Optional(p.bearer, TextBytes(p.bearer))
              d == Optional(q.bearer, TextBytes(q.bearer))
  <2>1. Says(Bytes(p.base_url), Bytes(q.base_url), p.base_url, q.base_url)
    BY <1>1, <1>5, BytesSay DEF IsHttp
  <2>2. Says(a, b, <<2, p.base_url>>, <<2, q.base_url>>)
    BY <1>1, <1>2, <1>5, <2>1, JoinSays DEF IsHttp
  <2>3. a \in Seq(Nat) /\ b \in Seq(Nat)
    BY <1>1, <1>2, <1>5 DEF IsHttp
  <2>4. Says(c, d, p.bearer, q.bearer) /\ c \in Seq(Nat) /\ d \in Seq(Nat)
    BY <1>5, TextSays DEF IsHttp
  <2>5. LocationBytes(p) = a \o c /\ LocationBytes(q) = b \o d
    BY <1>5 DEF IsHttp
  <2>. HIDE DEF a, b, c, d
  <2>6. Says(a \o c, b \o d, <<<<2, p.base_url>>, p.bearer>>, <<<<2, q.base_url>>, q.bearer>>)
    BY <2>2, <2>3, <2>4, JoinSays
  <2>7. p.base_url = q.base_url /\ p.bearer = q.bearer => p = q
    BY <1>5 DEF IsHttp
  <2>8. Says(a \o c, b \o d, p, q)
    BY <2>6, <2>7, SaysToo
  <2>. QED BY <2>5, <2>8
<1>6. ASSUME \/ IsPath(p) /\ (IsResp(q) \/ IsHttp(q))
             \/ IsResp(p) /\ (IsPath(q) \/ IsHttp(q))
             \/ IsHttp(p) /\ (IsPath(q) \/ IsResp(q))
      PROVE  Told
  <2>1. \E i, j \in 0..2 : i # j /\ Begins(LocationBytes(p), i) /\ Begins(LocationBytes(q), j)
    BY <1>6, LocationIs
  <2>. QED BY <2>1, BeginningsDiffer
<1>7. Told
  <2>. HIDE DEF Told
  <2>. QED BY <1>3, <1>4, <1>5, <1>6, LocationIs DEF Told
<1>8. LocationBytes(p) \in Seq(Nat)
  BY LocationIs DEF Begins
<1>. QED BY <1>7, <1>8

LEMMA MemberSays ==
  ASSUME NEW m \in MemberRecord, NEW n \in MemberRecord
  PROVE  /\ MemberBytes(m) \in Seq(Nat)
         /\ Says(MemberBytes(m), MemberBytes(n), m, n)
<1>1. /\ m.tenant_id \in Nat /\ m.embedding_dim \in Nat /\ m.joined_at \in Nat
      /\ m.tenant_location \in Location
      /\ m = [tenant_id |-> m.tenant_id, tenant_location |-> m.tenant_location,
              embedding_dim |-> m.embedding_dim, joined_at |-> m.joined_at]
  BY SignaturesAssumption DEF MemberRecord
<1>2. /\ n.tenant_id \in Nat /\ n.embedding_dim \in Nat /\ n.joined_at \in Nat
      /\ n.tenant_location \in Location
      /\ n = [tenant_id |-> n.tenant_id, tenant_location |-> n.tenant_location,
              embedding_dim |-> n.embedding_dim, joined_at |-> n.joined_at]
  BY SignaturesAssumption DEF MemberRecord
<1>. DEFINE one(r) == Fixed(r.tenant_id)
            two(r) == one(r) \o Fixed(r.embedding_dim)
            three(r) == two(r) \o Fixed(r.joined_at)
<1>3. one(m) \in Seq(Nat) /\ one(n) \in Seq(Nat) /\ Says(one(m), one(n), m.tenant_id, n.tenant_id)
  BY <1>1, <1>2, FixedSays
<1>. HIDE DEF one
<1>4. /\ two(m) \in Seq(Nat) /\ two(n) \in Seq(Nat)
      /\ Says(two(m), two(n), <<m.tenant_id, m.embedding_dim>>, <<n.tenant_id, n.embedding_dim>>)
  BY <1>1, <1>2, <1>3, FixedSays, JoinSays
<1>. HIDE DEF two
<1>5. /\ three(m) \in Seq(Nat) /\ three(n) \in Seq(Nat)
      /\ Says(three(m), three(n), <<<<m.tenant_id, m.embedding_dim>>, m.joined_at>>,
                                  <<<<n.tenant_id, n.embedding_dim>>, n.joined_at>>)
  <2>1. /\ Fixed(m.joined_at) \in Seq(Nat) /\ Fixed(n.joined_at) \in Seq(Nat)
        /\ Says(Fixed(m.joined_at), Fixed(n.joined_at), m.joined_at, n.joined_at)
    BY <1>1, <1>2, FixedSays
  <2>2. three(m) \in Seq(Nat) /\ three(n) \in Seq(Nat)
    BY <1>4, <2>1
  <2>. QED BY <1>4, <2>1, <2>2, JoinSays
<1>6. /\ MemberBytes(m) = three(m) \o LocationBytes(m.tenant_location)
      /\ MemberBytes(n) = three(n) \o LocationBytes(n.tenant_location)
  BY DEF MemberBytes, one, two
<1>. HIDE DEF three
<1>7. /\ LocationBytes(m.tenant_location) \in Seq(Nat)
      /\ LocationBytes(n.tenant_location) \in Seq(Nat)
      /\ Says(LocationBytes(m.tenant_location), LocationBytes(n.tenant_location),
              m.tenant_location, n.tenant_location)
  BY <1>1, <1>2, LocationSays
<1>8. Says(MemberBytes(m), MemberBytes(n),
           <<<<<<m.tenant_id, m.embedding_dim>>, m.joined_at>>, m.tenant_location>>,
           <<<<<<n.tenant_id, n.embedding_dim>>, n.joined_at>>, n.tenant_location>>)
  BY <1>5, <1>6, <1>7, JoinSays
<1>9. MemberBytes(m) \in Seq(Nat)
  BY <1>5, <1>6, <1>7
<1>. QED BY <1>1, <1>2, <1>8, <1>9 DEF Says

(* The members of a checkpoint, once their number is known.                *)
MemberList == BoundedSeq(MemberRecord, MaxMembers)

ListBytes(list) == Flattened([i \in DOMAIN list |-> Bytes(MemberBytes(list[i]))])

LEMMA ListIs ==
  ASSUME NEW list \in MemberList
  PROVE  /\ list \in Seq(MemberRecord) /\ Len(list) \in Nat
         /\ [i \in DOMAIN list |-> Bytes(MemberBytes(list[i]))] \in Seq(Seq(Nat))
         /\ ListBytes(list) \in Seq(Nat)
<1>1. PICK n \in 0..MaxMembers : list \in [1..n -> MemberRecord]
  BY DEF MemberList, BoundedSeq, SeqOf
<1>2. n \in Nat
  BY <1>1, SignaturesAssumption
<1>3. \A i \in 1..n : list[i] \in MemberRecord
  BY <1>1
<1>4. list \in Seq(MemberRecord) /\ DOMAIN list = 1..n
  BY <1>1, <1>2
<1>. DEFINE coded == [i \in DOMAIN list |-> Bytes(MemberBytes(list[i]))]
<1>5. \A i \in 1..n : Bytes(MemberBytes(list[i])) \in Seq(Nat)
  BY <1>3, MemberSays, BytesSay
<1>6. coded \in Seq(Seq(Nat))
  <2>1. coded \in [1..n -> Seq(Nat)]
    BY <1>4, <1>5
  <2>. HIDE DEF coded
  <2>. QED BY <1>2, <2>1
<1>7. Flattened(coded) \in Seq(Nat)
  <2>. HIDE DEF coded
  <2>. QED BY <1>6, FlattenIs
<1>8. Len(list) \in Nat
  BY <1>4
<1>. QED BY <1>4, <1>6, <1>7, <1>8 DEF ListBytes

LEMMA ListSays ==
  ASSUME NEW list \in MemberList, NEW other \in MemberList, Len(list) = Len(other)
  PROVE  Says(ListBytes(list), ListBytes(other), list, other)
<1>. DEFINE ss == [i \in DOMAIN list |-> Bytes(MemberBytes(list[i]))]
            tt == [i \in DOMAIN other |-> Bytes(MemberBytes(other[i]))]
            n == Len(list)
<1>1. /\ list \in Seq(MemberRecord) /\ other \in Seq(MemberRecord)
      /\ ss \in Seq(Seq(Nat)) /\ tt \in Seq(Seq(Nat))
  BY ListIs
<1>2. /\ n \in Nat /\ DOMAIN list = 1..n /\ DOMAIN other = 1..n
      /\ \A i \in 1..n : list[i] \in MemberRecord /\ other[i] \in MemberRecord
  BY <1>1
<1>3. /\ Len(ss) = n /\ Len(tt) = n
      /\ \A i \in 1..n : ss[i] = Bytes(MemberBytes(list[i])) /\ tt[i] = Bytes(MemberBytes(other[i]))
  BY <1>1, <1>2
<1>4. ListBytes(list) = Flattened(ss) /\ ListBytes(other) = Flattened(tt)
  BY DEF ListBytes
<1>. HIDE DEF ss, tt, n
<1>5. \A i \in 1..n : Says(ss[i], tt[i], list[i], other[i])
  <2>. SUFFICES ASSUME NEW i \in 1..n PROVE Says(ss[i], tt[i], list[i], other[i])
    OBVIOUS
  <2>. DEFINE a == MemberBytes(list[i])
              b == MemberBytes(other[i])
  <2>1. a \in Seq(Nat) /\ b \in Seq(Nat) /\ Says(a, b, list[i], other[i])
    BY <1>2, MemberSays
  <2>2. ss[i] = Bytes(a) /\ tt[i] = Bytes(b)
    BY <1>3
  <2>. HIDE DEF a, b
  <2>3. Says(Bytes(a), Bytes(b), a, b)
    BY <2>1, BytesSay
  <2>4. a = b => list[i] = other[i]
    <3>1. a \o <<>> = b \o <<>> /\ <<>> \in Seq(Nat) => list[i] = other[i]
      BY <2>1 DEF Says
    <3>. QED BY <3>1
  <2>. QED BY <2>2, <2>3, <2>4, SaysToo
<1>6. WholeSays(ss, tt, list, other)
  <2>1. EachSays(ss, tt, list, other)
    BY <1>3, <1>5 DEF EachSays
  <2>. QED BY <1>1, <1>3, <2>1, FlatSays
<1>7. (\A i \in 1..n : list[i] = other[i]) => list = other
  BY <1>1, SameItems DEF n
<1>. QED BY <1>3, <1>4, <1>6, <1>7 DEF Says, WholeSays

LEMMA FieldSays ==
  ASSUME NEW a \in Seq(Nat), NEW b \in Seq(Nat), NEW x, NEW y, Says(a, b, x, y),
         NEW i \in Nat, NEW j \in Nat
  PROVE  /\ a \o Fixed(i) \in Seq(Nat) /\ b \o Fixed(j) \in Seq(Nat)
         /\ Says(a \o Fixed(i), b \o Fixed(j), <<x, i>>, <<y, j>>)
<1>1. Fixed(i) \in Seq(Nat) /\ Fixed(j) \in Seq(Nat) /\ Says(Fixed(i), Fixed(j), i, j)
  BY FixedSays
<1>. QED BY <1>1, JoinSays

LEMMA GenesisSays ==
  ASSUME NEW g \in Genesis, NEW h \in Genesis
  PROVE  GenesisBytes(g) \in Seq(Nat) /\ Says(GenesisBytes(g), GenesisBytes(h), g, h)
<1>1. \A r \in Genesis :
        /\ r.v \in Nat /\ r.hansa_id \in Nat /\ r.skipper_pub \in Nat
        /\ r.embedding_dim \in Nat /\ r.created_at \in Nat /\ r.rotation_allowed \in Nat
  BY SignaturesAssumption DEF Genesis, GENESIS_V
<1>. DEFINE b1(r) == Fixed(r.v)
            b2(r) == b1(r) \o Fixed(r.hansa_id)
            b3(r) == b2(r) \o Fixed(r.skipper_pub)
            b4(r) == b3(r) \o Fixed(r.embedding_dim)
            b5(r) == b4(r) \o Fixed(r.created_at)
            b6(r) == b5(r) \o Fixed(r.rotation_allowed)
            f2(r) == <<r.v, r.hansa_id>>
            f3(r) == <<f2(r), r.skipper_pub>>
            f4(r) == <<f3(r), r.embedding_dim>>
            f5(r) == <<f4(r), r.created_at>>
            f6(r) == <<f5(r), r.rotation_allowed>>
<1>2. GenesisBytes(g) = b6(g) /\ GenesisBytes(h) = b6(h)
  BY DEF GenesisBytes
<1>3. f6(g) = f6(h) => g = h
  BY DEF Genesis
<1>4. b1(g) \in Seq(Nat) /\ b1(h) \in Seq(Nat) /\ Says(b1(g), b1(h), g.v, h.v)
  BY <1>1, FixedSays
<1>. HIDE DEF b1
<1>5. b2(g) \in Seq(Nat) /\ b2(h) \in Seq(Nat) /\ Says(b2(g), b2(h), f2(g), f2(h))
  BY <1>1, <1>4, FieldSays
<1>. HIDE DEF b2, f2
<1>6. b3(g) \in Seq(Nat) /\ b3(h) \in Seq(Nat) /\ Says(b3(g), b3(h), f3(g), f3(h))
  BY <1>1, <1>5, FieldSays
<1>. HIDE DEF b3, f3
<1>7. b4(g) \in Seq(Nat) /\ b4(h) \in Seq(Nat) /\ Says(b4(g), b4(h), f4(g), f4(h))
  BY <1>1, <1>6, FieldSays
<1>. HIDE DEF b4, f4
<1>8. b5(g) \in Seq(Nat) /\ b5(h) \in Seq(Nat) /\ Says(b5(g), b5(h), f5(g), f5(h))
  BY <1>1, <1>7, FieldSays
<1>. HIDE DEF b5, f5
<1>9. b6(g) \in Seq(Nat) /\ b6(h) \in Seq(Nat) /\ Says(b6(g), b6(h), f6(g), f6(h))
  BY <1>1, <1>8, FieldSays
<1>. HIDE DEF b6, f6
<1>. QED BY <1>2, <1>3, <1>9, SaysToo

(* The four kinds of body.                                                 *)
IsGenesis(b) ==
  /\ b = [kind |-> "genesis", genesis |-> b.genesis]
  /\ b.genesis \in Genesis
  /\ BodyBytes(b) = Fixed(0) \o GenesisBytes(b.genesis)

IsAdmit(b) ==
  /\ b = [kind |-> "admit", member |-> b.member, member_pub |-> b.member_pub]
  /\ b.member \in MemberRecord /\ b.member_pub \in Key \cup {Absent}
  /\ BodyBytes(b) = (Fixed(1) \o Bytes(MemberBytes(b.member))) \o
                      Optional(b.member_pub, Fixed(b.member_pub))

IsRevoke(b) ==
  /\ b = [kind |-> "revoke", tenant_id |-> b.tenant_id, at |-> b.at, reason |-> b.reason]
  /\ b.tenant_id \in Nat /\ b.at \in Nat /\ b.reason \in Text \cup {Absent}
  /\ BodyBytes(b) = ((Fixed(2) \o Fixed(b.tenant_id)) \o Fixed(b.at)) \o
                      Optional(b.reason, TextBytes(b.reason))

IsCheckpoint(b) ==
  /\ b = [kind |-> "checkpoint", members |-> b.members,
          embedding_dim |-> b.embedding_dim, at |-> b.at]
  /\ b.members \in MemberList /\ b.embedding_dim \in Nat /\ b.at \in Nat
  /\ BodyBytes(b) = (((Fixed(3) \o Fixed(b.embedding_dim)) \o Fixed(b.at)) \o
                       Fixed(Len(b.members))) \o ListBytes(b.members)

LEMMA PubSays ==
  ASSUME NEW x \in Key \cup {Absent}, NEW y \in Key \cup {Absent}
  PROVE  /\ Optional(x, Fixed(x)) \in Seq(Nat)
         /\ Says(Optional(x, Fixed(x)), Optional(y, Fixed(y)), x, y)
<1>1. /\ x # Absent => x \in Nat /\ Fixed(x) \in Seq(Nat)
      /\ y # Absent => y \in Nat /\ Fixed(y) \in Seq(Nat)
  BY SignaturesAssumption, FixedSays
<1>2. x # Absent /\ y # Absent => Says(Fixed(x), Fixed(y), x, y)
  BY <1>1, FixedSays
<1>. QED BY <1>1, <1>2, OptionalSays

LEMMA BodyIs ==
  ASSUME NEW b \in LinkBody
  PROVE  IsGenesis(b) \/ IsAdmit(b) \/ IsRevoke(b) \/ IsCheckpoint(b)
<1>0. CASE b \in [kind : {"genesis"}, genesis : Genesis]
  <2>1. b.kind = "genesis"
    BY <1>0
  <2>2. BodyBytes(b) = Fixed(0) \o GenesisBytes(b.genesis)
    BY <2>1 DEF BodyBytes
  <2>. QED BY <1>0, <2>2 DEF IsGenesis
<1>1. CASE b \in [kind : {"admit"}, member : MemberRecord, member_pub : Key \cup {Absent}]
  <2>1. b.kind = "admit"
    BY <1>1
  <2>2. BodyBytes(b) = (Fixed(1) \o Bytes(MemberBytes(b.member))) \o
                         Optional(b.member_pub, Fixed(b.member_pub))
    BY <2>1 DEF BodyBytes
  <2>. QED BY <1>1, <2>2 DEF IsAdmit
<1>2. CASE b \in [kind : {"revoke"}, tenant_id : Id, at : Time, reason : Text \cup {Absent}]
  <2>1. b.kind = "revoke"
    BY <1>2
  <2>2. BodyBytes(b) = ((Fixed(2) \o Fixed(b.tenant_id)) \o Fixed(b.at)) \o
                         Optional(b.reason, TextBytes(b.reason))
    BY <2>1 DEF BodyBytes, TextBytes
  <2>3. b.tenant_id \in Nat /\ b.at \in Nat
    BY <1>2, SignaturesAssumption
  <2>. QED BY <1>2, <2>2, <2>3 DEF IsRevoke
<1>3. CASE b \in [kind : {"checkpoint"}, members : MemberList, embedding_dim : Width,
                  at : Time]
  <2>1. b.kind = "checkpoint"
    BY <1>3
  <2>2. BodyBytes(b) = (((Fixed(3) \o Fixed(b.embedding_dim)) \o Fixed(b.at)) \o
                          Fixed(Len(b.members))) \o ListBytes(b.members)
    BY <2>1 DEF BodyBytes, ListBytes, FlattenSeq, Flattened
  <2>3. b.embedding_dim \in Nat /\ b.at \in Nat
    BY <1>3, SignaturesAssumption
  <2>. QED BY <1>3, <2>2, <2>3 DEF IsCheckpoint
<1>. QED BY <1>0, <1>1, <1>2, <1>3 DEF LinkBody, MemberList

LEMMA BodyBegins ==
  ASSUME NEW b
  PROVE  /\ IsGenesis(b) => Begins(BodyBytes(b), 0)
         /\ IsAdmit(b) => Begins(BodyBytes(b), 1)
         /\ IsRevoke(b) => Begins(BodyBytes(b), 2)
         /\ IsCheckpoint(b) => Begins(BodyBytes(b), 3)
<1>0. ASSUME IsGenesis(b) PROVE Begins(BodyBytes(b), 0)
  <2>1. GenesisBytes(b.genesis) \in Seq(Nat)
    BY <1>0, GenesisSays DEF IsGenesis
  <2>. QED BY <1>0, <2>1, FixedBegins, JoinBegins DEF IsGenesis
<1>1. ASSUME IsAdmit(b) PROVE Begins(BodyBytes(b), 1)
  <2>1. Bytes(MemberBytes(b.member)) \in Seq(Nat)
    BY <1>1, MemberSays, BytesSay DEF IsAdmit
  <2>2. Optional(b.member_pub, Fixed(b.member_pub)) \in Seq(Nat)
    BY <1>1, PubSays DEF IsAdmit
  <2>3. Begins(Fixed(1) \o Bytes(MemberBytes(b.member)), 1)
    BY <2>1, FixedBegins, JoinBegins
  <2>. QED BY <1>1, <2>2, <2>3, JoinBegins DEF IsAdmit
<1>2. ASSUME IsRevoke(b) PROVE Begins(BodyBytes(b), 2)
  <2>1. Fixed(b.tenant_id) \in Seq(Nat) /\ Fixed(b.at) \in Seq(Nat)
    BY <1>2, FixedSays DEF IsRevoke
  <2>2. Optional(b.reason, TextBytes(b.reason)) \in Seq(Nat)
    BY <1>2, TextSays DEF IsRevoke
  <2>3. Begins((Fixed(2) \o Fixed(b.tenant_id)) \o Fixed(b.at), 2)
    BY <2>1, FixedBegins, JoinBegins
  <2>. QED BY <1>2, <2>2, <2>3, JoinBegins DEF IsRevoke
<1>3. ASSUME IsCheckpoint(b) PROVE Begins(BodyBytes(b), 3)
  <2>1. ListBytes(b.members) \in Seq(Nat) /\ Len(b.members) \in Nat
    BY <1>3, ListIs DEF IsCheckpoint
  <2>2. /\ Fixed(b.embedding_dim) \in Seq(Nat) /\ Fixed(b.at) \in Seq(Nat)
        /\ Fixed(Len(b.members)) \in Seq(Nat)
    BY <1>3, <2>1, FixedSays DEF IsCheckpoint
  <2>3. Begins((Fixed(3) \o Fixed(b.embedding_dim)) \o Fixed(b.at), 3)
    BY <2>2, FixedBegins, JoinBegins
  <2>4. Begins(((Fixed(3) \o Fixed(b.embedding_dim)) \o Fixed(b.at)) \o Fixed(Len(b.members)), 3)
    BY <2>2, <2>3, JoinBegins
  <2>. QED BY <1>3, <2>1, <2>4, JoinBegins DEF IsCheckpoint
<1>. QED BY <1>0, <1>1, <1>2, <1>3

LEMMA GenesisBodySays ==
  ASSUME NEW b, NEW c, IsGenesis(b), IsGenesis(c)
  PROVE  Says(BodyBytes(b), BodyBytes(c), b, c)
<1>. DEFINE u == GenesisBytes(b.genesis)
            v == GenesisBytes(c.genesis)
<1>1. u \in Seq(Nat) /\ v \in Seq(Nat) /\ Says(u, v, b.genesis, c.genesis)
  BY GenesisSays DEF IsGenesis
<1>2. Fixed(0) \in Seq(Nat) /\ Says(Fixed(0), Fixed(0), 0, 0)
  BY FixedSays
<1>3. BodyBytes(b) = Fixed(0) \o u /\ BodyBytes(c) = Fixed(0) \o v
  BY DEF IsGenesis
<1>4. b.genesis = c.genesis => b = c
  BY DEF IsGenesis
<1>. HIDE DEF u, v
<1>5. Says(Fixed(0) \o u, Fixed(0) \o v, <<0, b.genesis>>, <<0, c.genesis>>)
  BY <1>1, <1>2, JoinSays
<1>. QED BY <1>3, <1>4, <1>5, SaysToo

LEMMA AdmitSays ==
  ASSUME NEW b, NEW c, IsAdmit(b), IsAdmit(c)
  PROVE  Says(BodyBytes(b), BodyBytes(c), b, c)
<1>. DEFINE x == MemberBytes(b.member)
            y == MemberBytes(c.member)
            u == Optional(b.member_pub, Fixed(b.member_pub))
            v == Optional(c.member_pub, Fixed(c.member_pub))
            one(z) == Fixed(1) \o Bytes(z)
<1>1. x \in Seq(Nat) /\ y \in Seq(Nat) /\ Says(x, y, b.member, c.member)
  BY MemberSays DEF IsAdmit
<1>2. u \in Seq(Nat) /\ v \in Seq(Nat) /\ Says(u, v, b.member_pub, c.member_pub)
  BY PubSays DEF IsAdmit
<1>3. BodyBytes(b) = one(x) \o u /\ BodyBytes(c) = one(y) \o v
  BY DEF IsAdmit
<1>. HIDE DEF x, y, u, v
<1>4. one(x) \in Seq(Nat) /\ one(y) \in Seq(Nat) /\ Says(one(x), one(y), <<1, x>>, <<1, y>>)
  <2>1. /\ Fixed(1) \in Seq(Nat) /\ Says(Fixed(1), Fixed(1), 1, 1)
        /\ Bytes(x) \in Seq(Nat) /\ Bytes(y) \in Seq(Nat) /\ Says(Bytes(x), Bytes(y), x, y)
    BY <1>1, FixedSays, BytesSay
  <2>2. one(x) \in Seq(Nat) /\ one(y) \in Seq(Nat)
    BY <2>1
  <2>. QED BY <2>1, <2>2, JoinSays
<1>. HIDE DEF one
<1>5. Says(one(x) \o u, one(y) \o v, <<<<1, x>>, b.member_pub>>, <<<<1, y>>, c.member_pub>>)
  BY <1>2, <1>4, JoinSays
<1>6. x = y => b.member = c.member
  <2>1. x \o <<>> = y \o <<>> /\ <<>> \in Seq(Nat) => b.member = c.member
    BY <1>1 DEF Says
  <2>. QED BY <2>1
<1>7. x = y /\ b.member_pub = c.member_pub => b = c
  BY <1>6 DEF IsAdmit
<1>. QED BY <1>3, <1>5, <1>7, SaysToo

LEMMA RevokeSays ==
  ASSUME NEW b, NEW c, IsRevoke(b), IsRevoke(c)
  PROVE  Says(BodyBytes(b), BodyBytes(c), b, c)
<1>. DEFINE u == Optional(b.reason, TextBytes(b.reason))
            v == Optional(c.reason, TextBytes(c.reason))
            one(r) == Fixed(2) \o Fixed(r.tenant_id)
            two(r) == one(r) \o Fixed(r.at)
<1>1. u \in Seq(Nat) /\ v \in Seq(Nat) /\ Says(u, v, b.reason, c.reason)
  BY TextSays DEF IsRevoke
<1>2. BodyBytes(b) = two(b) \o u /\ BodyBytes(c) = two(c) \o v
  BY DEF IsRevoke
<1>. HIDE DEF u, v
<1>3. /\ one(b) \in Seq(Nat) /\ one(c) \in Seq(Nat)
      /\ Says(one(b), one(c), <<2, b.tenant_id>>, <<2, c.tenant_id>>)
  <2>1. /\ Fixed(2) \in Seq(Nat) /\ Says(Fixed(2), Fixed(2), 2, 2)
        /\ Fixed(b.tenant_id) \in Seq(Nat) /\ Fixed(c.tenant_id) \in Seq(Nat)
        /\ Says(Fixed(b.tenant_id), Fixed(c.tenant_id), b.tenant_id, c.tenant_id)
    BY FixedSays DEF IsRevoke
  <2>2. one(b) \in Seq(Nat) /\ one(c) \in Seq(Nat)
    BY <2>1
  <2>. QED BY <2>1, <2>2, JoinSays
<1>. HIDE DEF one
<1>4. /\ two(b) \in Seq(Nat) /\ two(c) \in Seq(Nat)
      /\ Says(two(b), two(c), <<<<2, b.tenant_id>>, b.at>>, <<<<2, c.tenant_id>>, c.at>>)
  <2>1. /\ Fixed(b.at) \in Seq(Nat) /\ Fixed(c.at) \in Seq(Nat)
        /\ Says(Fixed(b.at), Fixed(c.at), b.at, c.at)
    BY FixedSays DEF IsRevoke
  <2>2. two(b) \in Seq(Nat) /\ two(c) \in Seq(Nat)
    BY <1>3, <2>1
  <2>. QED BY <1>3, <2>1, <2>2, JoinSays
<1>. HIDE DEF two
<1>5. Says(two(b) \o u, two(c) \o v, <<<<<<2, b.tenant_id>>, b.at>>, b.reason>>,
                                     <<<<<<2, c.tenant_id>>, c.at>>, c.reason>>)
  BY <1>1, <1>4, JoinSays
<1>6. b.tenant_id = c.tenant_id /\ b.at = c.at /\ b.reason = c.reason => b = c
  BY DEF IsRevoke
<1>. QED BY <1>2, <1>5, <1>6, SaysToo

LEMMA CheckpointSays ==
  ASSUME NEW b, NEW c, IsCheckpoint(b), IsCheckpoint(c)
  PROVE  Says(BodyBytes(b), BodyBytes(c), b, c)
<1>. DEFINE u == ListBytes(b.members)
            v == ListBytes(c.members)
            one(r) == Fixed(3) \o Fixed(r.embedding_dim)
            two(r) == one(r) \o Fixed(r.at)
            three(r) == two(r) \o Fixed(Len(r.members))
<1>1. /\ u \in Seq(Nat) /\ v \in Seq(Nat) /\ Len(b.members) \in Nat /\ Len(c.members) \in Nat
      /\ Len(b.members) = Len(c.members) => Says(u, v, b.members, c.members)
  BY ListIs, ListSays DEF IsCheckpoint
<1>2. BodyBytes(b) = three(b) \o u /\ BodyBytes(c) = three(c) \o v
  BY DEF IsCheckpoint
<1>. HIDE DEF u, v
<1>3. /\ one(b) \in Seq(Nat) /\ one(c) \in Seq(Nat)
      /\ Says(one(b), one(c), <<3, b.embedding_dim>>, <<3, c.embedding_dim>>)
  <2>1. /\ Fixed(3) \in Seq(Nat) /\ Says(Fixed(3), Fixed(3), 3, 3)
        /\ Fixed(b.embedding_dim) \in Seq(Nat) /\ Fixed(c.embedding_dim) \in Seq(Nat)
        /\ Says(Fixed(b.embedding_dim), Fixed(c.embedding_dim), b.embedding_dim, c.embedding_dim)
    BY FixedSays DEF IsCheckpoint
  <2>2. one(b) \in Seq(Nat) /\ one(c) \in Seq(Nat)
    BY <2>1
  <2>. QED BY <2>1, <2>2, JoinSays
<1>. HIDE DEF one
<1>. DEFINE said(r) == <<<<3, r.embedding_dim>>, r.at>>
<1>4. two(b) \in Seq(Nat) /\ two(c) \in Seq(Nat) /\ Says(two(b), two(c), said(b), said(c))
  <2>1. /\ Fixed(b.at) \in Seq(Nat) /\ Fixed(c.at) \in Seq(Nat)
        /\ Says(Fixed(b.at), Fixed(c.at), b.at, c.at)
    BY FixedSays DEF IsCheckpoint
  <2>2. two(b) \in Seq(Nat) /\ two(c) \in Seq(Nat)
    BY <1>3, <2>1
  <2>. QED BY <1>3, <2>1, <2>2, JoinSays
<1>5. said(b) = said(c) => b.embedding_dim = c.embedding_dim /\ b.at = c.at
  OBVIOUS
<1>. HIDE DEF two, said
<1>6. /\ three(b) \in Seq(Nat) /\ three(c) \in Seq(Nat)
      /\ Says(three(b), three(c), <<said(b), Len(b.members)>>, <<said(c), Len(c.members)>>)
  <2>1. /\ Fixed(Len(b.members)) \in Seq(Nat) /\ Fixed(Len(c.members)) \in Seq(Nat)
        /\ Says(Fixed(Len(b.members)), Fixed(Len(c.members)), Len(b.members), Len(c.members))
    BY <1>1, FixedSays
  <2>2. three(b) \in Seq(Nat) /\ three(c) \in Seq(Nat)
    BY <1>4, <2>1
  <2>. QED BY <1>4, <2>1, <2>2, JoinSays
<1>. HIDE DEF three
<1>7. <<said(b), Len(b.members)>> = <<said(c), Len(c.members)>> => Says(u, v, b.members, c.members)
  BY <1>1
<1>8. Says(three(b) \o u, three(c) \o v, <<<<said(b), Len(b.members)>>, b.members>>,
                                         <<<<said(c), Len(c.members)>>, c.members>>)
  BY <1>1, <1>6, <1>7, JoinSays
<1>9. said(b) = said(c) /\ b.members = c.members => b = c
  BY <1>5 DEF IsCheckpoint
<1>. QED BY <1>2, <1>8, <1>9, SaysToo

LEMMA BodySays ==
  ASSUME NEW b \in LinkBody, NEW c \in LinkBody
  PROVE  BodyBytes(b) \in Seq(Nat) /\ Says(BodyBytes(b), BodyBytes(c), b, c)
<1>1. BodyBytes(b) \in Seq(Nat)
  BY BodyIs, BodyBegins DEF Begins
<1>2. \/ IsGenesis(b) \/ IsAdmit(b) \/ IsRevoke(b) \/ IsCheckpoint(b)
  BY BodyIs
<1>3. \/ IsGenesis(c) \/ IsAdmit(c) \/ IsRevoke(c) \/ IsCheckpoint(c)
  BY BodyIs
<1>4. CASE \/ IsGenesis(b) /\ IsGenesis(c)
           \/ IsAdmit(b) /\ IsAdmit(c)
           \/ IsRevoke(b) /\ IsRevoke(c)
           \/ IsCheckpoint(b) /\ IsCheckpoint(c)
  BY <1>1, <1>4, GenesisBodySays, AdmitSays, RevokeSays, CheckpointSays
<1>5. CASE \/ IsGenesis(b) /\ (IsAdmit(c) \/ IsRevoke(c) \/ IsCheckpoint(c))
           \/ IsAdmit(b) /\ (IsGenesis(c) \/ IsRevoke(c) \/ IsCheckpoint(c))
           \/ IsRevoke(b) /\ (IsGenesis(c) \/ IsAdmit(c) \/ IsCheckpoint(c))
           \/ IsCheckpoint(b) /\ (IsGenesis(c) \/ IsAdmit(c) \/ IsRevoke(c))
  <2>1. \E i, j \in 0..3 : i # j /\ Begins(BodyBytes(b), i) /\ Begins(BodyBytes(c), j)
    BY <1>5, BodyBegins
  <2>2. Says(BodyBytes(b), BodyBytes(c), b, c)
    BY <2>1, BeginningsDiffer
  <2>. QED BY <1>1, <2>2
<1>. QED BY <1>2, <1>3, <1>4, <1>5

LEMMA LinkSays ==
  ASSUME NEW l \in LinkRecord, NEW m \in LinkRecord
  PROVE  LinkBytes(l) \in Seq(Nat) /\ Says(LinkBytes(l), LinkBytes(m), l, m)
<1>1. /\ l.seq \in Nat /\ l.prev \in Nat /\ l.signed_by \in Nat /\ l.body \in LinkBody
      /\ m.seq \in Nat /\ m.prev \in Nat /\ m.signed_by \in Nat /\ m.body \in LinkBody
      /\ l = [seq |-> l.seq, prev |-> l.prev, body |-> l.body, signed_by |-> l.signed_by]
      /\ m = [seq |-> m.seq, prev |-> m.prev, body |-> m.body, signed_by |-> m.signed_by]
  BY SignaturesAssumption DEF LinkRecord
<1>. DEFINE place(r) == Fixed(r.seq) \o Fixed(r.prev)
            most(r) == place(r) \o BodyBytes(r.body)
            told(r) == <<<<r.seq, r.prev>>, r.body>>
<1>2. /\ place(l) \in Seq(Nat) /\ place(m) \in Seq(Nat)
      /\ Says(place(l), place(m), <<l.seq, l.prev>>, <<m.seq, m.prev>>)
  <2>1. /\ Fixed(l.seq) \in Seq(Nat) /\ Fixed(m.seq) \in Seq(Nat)
        /\ Fixed(l.prev) \in Seq(Nat) /\ Fixed(m.prev) \in Seq(Nat)
        /\ Says(Fixed(l.seq), Fixed(m.seq), l.seq, m.seq)
        /\ Says(Fixed(l.prev), Fixed(m.prev), l.prev, m.prev)
    BY <1>1, FixedSays
  <2>2. place(l) \in Seq(Nat) /\ place(m) \in Seq(Nat)
    BY <2>1
  <2>. QED BY <2>1, <2>2, JoinSays
<1>. HIDE DEF place
<1>3. most(l) \in Seq(Nat) /\ most(m) \in Seq(Nat) /\ Says(most(l), most(m), told(l), told(m))
  <2>1. /\ BodyBytes(l.body) \in Seq(Nat) /\ BodyBytes(m.body) \in Seq(Nat)
        /\ Says(BodyBytes(l.body), BodyBytes(m.body), l.body, m.body)
    BY <1>1, BodySays
  <2>2. most(l) \in Seq(Nat) /\ most(m) \in Seq(Nat)
    BY <1>2, <2>1
  <2>. QED BY <1>2, <2>1, <2>2, JoinSays
<1>4. told(l) = told(m) /\ l.signed_by = m.signed_by => l = m
  BY <1>1
<1>5. /\ LinkBytes(l) = most(l) \o Fixed(l.signed_by)
      /\ LinkBytes(m) = most(m) \o Fixed(m.signed_by)
  BY DEF LinkBytes, place
<1>. HIDE DEF most, told
<1>6. /\ Fixed(l.signed_by) \in Seq(Nat) /\ Fixed(m.signed_by) \in Seq(Nat)
      /\ Says(Fixed(l.signed_by), Fixed(m.signed_by), l.signed_by, m.signed_by)
  BY <1>1, FixedSays
<1>7. Says(LinkBytes(l), LinkBytes(m), <<told(l), l.signed_by>>, <<told(m), m.signed_by>>)
  BY <1>3, <1>5, <1>6, JoinSays
<1>8. Says(LinkBytes(l), LinkBytes(m), l, m)
  BY <1>4, <1>7, SaysToo
<1>9. LinkBytes(l) \in Seq(Nat)
  BY <1>3, <1>5, <1>6
<1>. QED BY <1>8, <1>9

(* What was signed, and with it the bytes, framed for what it is.          *)
OverGenesis ==
  \E g \in Genesis :
    /\ signed.link = RootLink(g)
    /\ signed.sig = Sig(g.skipper_pub, DOMAIN_GENESIS \o GenesisBytes(g))

OverLink ==
  /\ signed.link \in LinkRecord /\ signed.link.body.kind # "genesis"
  /\ signed.sig = Sig(signed.link.signed_by, DOMAIN_LINK \o LinkBytes(signed.link))

SignedInv == signed = Absent \/ OverGenesis \/ OverLink

LEMMA SignedNext == SignedInv /\ [SignNext]_signed => SignedInv'
<1>. SUFFICES ASSUME SignedInv, [SignNext]_signed PROVE SignedInv'
  OBVIOUS
<1>1. CASE FoundGenesis
  <2>1. PICK g \in Genesis :
          signed' = [link |-> RootLink(g),
                     sig |-> Sign(g.skipper_pub, DOMAIN_GENESIS, GenesisBytes(g))]
    BY <1>1 DEF FoundGenesis
  <2>. QED BY <2>1 DEF SignedInv, OverGenesis, Sign, Framed
<1>2. CASE SignLink
  <2>1. PICK s \in LinkStatement :
          /\ s.what.body.kind # "genesis"
          /\ signed' = [link |-> s.what,
                        sig |-> Sign(s.what.signed_by, DOMAIN_LINK, s.bytes)]
    BY <1>2 DEF SignLink
  <2>2. s.what \in LinkRecord /\ s.bytes = LinkBytes(s.what)
    BY DEF LinkStatement
  <2>. QED BY <2>1, <2>2 DEF SignedInv, OverLink, Sign, Framed
<1>3. CASE UNCHANGED signed
  BY <1>3 DEF SignedInv, OverGenesis, OverLink
<1>. QED BY <1>1, <1>2, <1>3 DEF SignNext

LEMMA RootLinkType ==
  ASSUME NEW g \in Genesis
  PROVE  RootLink(g) \in LinkRecord
<1>1. g.skipper_pub \in Key /\ [kind |-> "genesis", genesis |-> g] \in LinkBody
  BY DEF Genesis, LinkBody
<1>. QED BY <1>1, SignaturesAssumption DEF RootLink, LinkRecord

(* Bytes that are framed alike and read alike are of one statement.        *)
LEMMA FramedSays ==
  ASSUME NEW d \in Seq(Nat), NEW b \in Seq(Nat), NEW c \in Seq(Nat), NEW x, NEW y,
         Says(b, c, x, y), d \o b = d \o c
  PROVE  x = y
<1>1. Says(d, d, d, d)
  BY CutSays
<1>2. b = c
  BY <1>1 DEF Says
<1>3. b \o <<>> = c \o <<>> /\ <<>> \in Seq(Nat)
  BY <1>2
<1>. QED BY <1>3 DEF Says

(* Nothing is framed as a genesis and as a link.                           *)
LEMMA DomainsDiffer ==
  /\ DOMAIN_GENESIS \in Seq(Nat) /\ DOMAIN_LINK \in Seq(Nat)
  /\ \A b, c \in Seq(Nat) : DOMAIN_GENESIS \o b # DOMAIN_LINK \o c
<1>1. DOMAIN_GENESIS = Fixed(100) /\ DOMAIN_LINK = Fixed(101)
  BY DEF DOMAIN_GENESIS, DOMAIN_LINK, Fixed
<1>2. Begins(DOMAIN_GENESIS, 100) /\ Begins(DOMAIN_LINK, 101)
  BY <1>1, FixedBegins
<1>3. ASSUME NEW b \in Seq(Nat), NEW c \in Seq(Nat),
             DOMAIN_GENESIS \o b = DOMAIN_LINK \o c
      PROVE  FALSE
  <2>1. Begins(DOMAIN_GENESIS \o b, 100) /\ Begins(DOMAIN_LINK \o c, 101)
    BY <1>2, JoinBegins
  <2>. QED BY <1>3, <2>1 DEF Begins
<1>. QED BY <1>2, <1>3 DEF Begins

(* What verifies with it was signed.                                       *)
LEMMA OneStatement ==
  ASSUME SignedInv, signed # Absent
  PROVE  SignatureBinds
<1>1. signed.link \in LinkRecord
  BY RootLinkType DEF SignedInv, OverGenesis, OverLink
<1>2. ASSUME NEW l \in LinkRecord, LinkBytes(l) = LinkBytes(signed.link)
      PROVE  l = signed.link
  <2>1. LinkBytes(l) \in Seq(Nat) /\ Says(LinkBytes(l), LinkBytes(signed.link), l, signed.link)
    BY <1>1, LinkSays
  <2>2. LinkBytes(l) \o <<>> = LinkBytes(signed.link) \o <<>> /\ <<>> \in Seq(Nat)
    BY <1>2
  <2>. QED BY <2>1, <2>2 DEF Says
<1>3. ASSUME NEW l \in LinkRecord, NEW expected, l.body.kind = "genesis",
             l.seq = 0, l.prev = 0, l.signed_by = l.body.genesis.skipper_pub,
             GenesisVerifies(l.body.genesis, expected, signed.sig)
      PROVE  l = signed.link
  <2>. DEFINE g == l.body.genesis
  <2>1. IsGenesis(l.body)
    <3>1. l.body \in LinkBody
      BY DEF LinkRecord
    <3>. QED BY <1>3, <3>1, BodyIs DEF IsAdmit, IsRevoke, IsCheckpoint
  <2>2. g \in Genesis /\ l = RootLink(g)
    <3>1. l = [seq |-> l.seq, prev |-> l.prev, body |-> l.body, signed_by |-> l.signed_by]
      BY DEF LinkRecord
    <3>. QED BY <1>3, <2>1, <3>1 DEF IsGenesis, RootLink
  <2>3. signed.sig.over = DOMAIN_GENESIS \o GenesisBytes(g)
    BY <1>3 DEF GenesisVerifies, Verifies, Sig, Framed
  <2>. HIDE DEF g
  <2>4. GenesisBytes(g) \in Seq(Nat)
    BY <2>2, GenesisSays
  <2>5. CASE OverGenesis
    <3>1. PICK h \in Genesis :
            /\ signed.link = RootLink(h)
            /\ signed.sig = Sig(h.skipper_pub, DOMAIN_GENESIS \o GenesisBytes(h))
      BY <2>5 DEF OverGenesis
    <3>2. GenesisBytes(h) \in Seq(Nat) /\ Says(GenesisBytes(g), GenesisBytes(h), g, h)
      BY <2>2, GenesisSays
    <3>3. DOMAIN_GENESIS \o GenesisBytes(g) = DOMAIN_GENESIS \o GenesisBytes(h)
      BY <2>3, <3>1 DEF Sig
    <3>4. g = h
      BY <2>4, <3>2, <3>3, DomainsDiffer, FramedSays
    <3>. QED BY <2>2, <3>1, <3>4
  <2>6. CASE OverLink
    <3>1. LinkBytes(signed.link) \in Seq(Nat)
      BY <1>1, LinkSays
    <3>2. signed.sig.over = DOMAIN_LINK \o LinkBytes(signed.link)
      BY <2>6 DEF OverLink, Sig
    <3>. QED BY <2>3, <2>4, <3>1, <3>2, DomainsDiffer
  <2>. QED BY <2>5, <2>6 DEF SignedInv
<1>4. ASSUME NEW l \in LinkRecord,
             Verifies(l.signed_by, DOMAIN_LINK, LinkBytes(l), signed.sig)
      PROVE  l = signed.link
  <2>1. LinkBytes(l) \in Seq(Nat)
    BY LinkSays
  <2>2. signed.sig.over = DOMAIN_LINK \o LinkBytes(l)
    BY <1>4 DEF Verifies, Sig, Framed
  <2>3. CASE OverLink
    <3>1. /\ LinkBytes(signed.link) \in Seq(Nat)
          /\ Says(LinkBytes(l), LinkBytes(signed.link), l, signed.link)
      BY <1>1, LinkSays
    <3>2. DOMAIN_LINK \o LinkBytes(l) = DOMAIN_LINK \o LinkBytes(signed.link)
      BY <2>2, <2>3 DEF OverLink, Sig
    <3>. QED BY <2>1, <3>1, <3>2, DomainsDiffer, FramedSays
  <2>4. CASE OverGenesis
    <3>1. PICK h \in Genesis :
            signed.sig = Sig(h.skipper_pub, DOMAIN_GENESIS \o GenesisBytes(h))
      BY <2>4 DEF OverGenesis
    <3>2. GenesisBytes(h) \in Seq(Nat)
      BY GenesisSays
    <3>3. signed.sig.over = DOMAIN_GENESIS \o GenesisBytes(h)
      BY <3>1 DEF Sig
    <3>. QED BY <2>1, <2>2, <3>2, <3>3, DomainsDiffer
  <2>. QED BY <2>3, <2>4 DEF SignedInv
<1>5. ASSUME NEW s \in LinkStatement
      PROVE  /\ \A expected \in Key \cup {Absent} :
                  LinkVerifies(s, expected, signed.sig) => s.what = signed.link
             /\ s.bytes = LinkBytes(signed.link) => s.what = signed.link
  <2>1. s.what \in LinkRecord /\ s.bytes = LinkBytes(s.what)
    BY DEF LinkStatement
  <2>2. ASSUME NEW expected, LinkVerifies(s, expected, signed.sig)
        PROVE  s.what = signed.link
    <3>1. CASE s.what.body.kind = "genesis"
      BY <1>3, <2>1, <2>2, <3>1 DEF LinkVerifies
    <3>2. CASE s.what.body.kind # "genesis"
      BY <1>4, <2>1, <2>2, <3>2 DEF LinkVerifies
    <3>. QED BY <3>1, <3>2
  <2>. QED BY <1>2, <2>1, <2>2
<1>. QED BY <1>5 DEF SignatureBinds

(* A signature vouches for one link, the genesis and whatever members a    *)
(* checkpoint carries included, whatever the keys, texts, numbers and      *)
(* members in it; and so does the hash of its bytes.                       *)
THEOREM SignatureAlwaysBinds == SignSpec => []SignatureBinds
<1>1. SignInit => SignedInv
  BY DEF SignInit, SignedInv
<1>2. SignedInv => SignatureBinds
  <2>1. signed = Absent => SignatureBinds
    BY DEF SignatureBinds
  <2>. QED BY <2>1, OneStatement
<1>. QED BY <1>1, <1>2, SignedNext, PTL DEF SignSpec
=============================================================================
