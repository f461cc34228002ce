------------------------ MODULE FileRegistry_proofs ------------------------
(***************************************************************************)
(* Theorems about FileRegistry, for any number of processes, tenants and   *)
(* dimensions, any checkpoint threshold and any of the modelled faults.    *)
(***************************************************************************)
EXTENDS FileRegistry, Chain_proofs

----------------------------------------------------------------------------
(* The inductive strengthening of TypeOK and ChainIntact: whoever is past  *)
(* Acquire holds the lock alone, so the link it signed still extends the   *)
(* log, also when part of it is written.                                   *)
WillBeOk(lines) ==
  /\ Readable([lines |-> lines, eol |-> TRUE])
  /\ Valid(lines, Owner) /\ Truthful(lines)

LogOk(f) ==
  Readable(f) => f.lines = <<>> \/ (Valid(f.lines, Owner) /\ Truthful(f.lines))

CallInv == \A p \in Proc : pc[p] # "idle" => call[p] # None

LockInv == \A p \in Proc : pc[p] \in UnderLock <=> lock = p

LineInv ==
  \A p \in Proc :
    /\ pc[p] \in {"write", "writing", "sync"} => line[p] # None
    /\ pc[p] = "write" => WillBeOk(Append(file.lines, line[p]))
    /\ pc[p] = "writing" => /\ file.lines # <<>>
                            /\ WillBeOk(EndLine(file, line[p]).lines)

RootInv ==
  \A p \in Proc :
    pc[p] = "rename" => /\ root[p] # None
                        /\ RootOk(root[p], Owner) /\ Truthful(<<root[p]>>)

ChainInv ==
  CallInv /\ LockInv /\ LineInv /\ RootInv /\ LogOk(file) /\ LogOk(durable)

----------------------------------------------------------------------------
(* Facts about logs.                                                       *)

(* What a reader can parse is a sequence of links.                         *)
LEMMA ReadableType ==
  ASSUME NEW f \in File, Readable(f)
  PROVE  f.lines \in Seq(Link)
BY DEF File, Readable

LEMMA ReplayableOk ==
  ASSUME NEW f \in File, LogOk(f), Replayable(f)
  PROVE  f.lines \in Seq(Link) /\ Valid(f.lines, Owner) /\ Truthful(f.lines)
BY ReadableType DEF Replayable, LogOk, Valid

(* A sequence of links parses.                                             *)
LEMMA LinksParse ==
  ASSUME NEW links \in Seq(Link), Valid(links, Owner), Truthful(links)
  PROVE  WillBeOk(links)
BY RegistryAssumption DEF WillBeOk, Readable

(* What append_next signs extends the chain it read.                       *)
LEMMA AppendedOk ==
  ASSUME NEW links \in Seq(Link), Valid(links, Owner), Truthful(links), NEW b \in Change
  PROVE  LET l == Signed(Owner, HeadSeq(links) + 1, HeadHash(links), b)
         IN  l \in Link /\ WillBeOk(Append(links, l))
<1>. DEFINE l == Signed(Owner, HeadSeq(links) + 1, HeadHash(links), b)
<1>0. Owner \in Skipper
  BY RegistryAssumption
<1>1. l \in Link /\ l.prev = HeadHash(links)
  BY <1>0, NextLinkType DEF Signed
<1>2. ExtendsOk(l, HeadLink(links), links[1].signer)
  BY <1>0, SignedExtends
<1>. HIDE DEF l
<1>3. Valid(Append(links, l), Owner)
  BY <1>1, <1>2, ValidExtends
<1>4. Truthful(Append(links, l))
  BY <1>1, ChainEnds, ExtendsTruthful
<1>5. Append(links, l) \in Seq(Link)
  BY <1>1
<1>. QED BY <1>1, <1>3, <1>4, <1>5, LinksParse DEF l

(* What found signs is a chain.                                            *)
LEMMA FoundedOk ==
  ASSUME NEW d \in Dim
  PROVE  /\ GenesisLink(Owner, d) \in Link
         /\ WillBeOk(Append(<<>>, GenesisLink(Owner, d)))
<1>. DEFINE g == GenesisLink(Owner, d)
<1>1. g \in Link /\ RootOk(g, Owner) /\ Truthful(<<g>>)
  BY GenesisType, SignedRoots, GenesisTruthful, RegistryAssumption
<1>. HIDE DEF g
<1>2. Append(<<>>, g) \in Seq(Link) /\ Append(<<>>, g) = <<g>>
  BY <1>1
<1>3. Valid(<<g>>, Owner)
  BY <1>1, RootAlone
<1>. QED BY <1>1, <1>2, <1>3, LinksParse DEF g

(* What checkpoint_locked signs is the root of a chain.                    *)
LEMMA CompactedOk ==
  ASSUME NEW links \in Seq(Link), Valid(links, Owner), Truthful(links)
  PROVE  LET c == CheckpointOf(Owner, links)
         IN  c \in Link /\ RootOk(c, Owner) /\ Truthful(<<c>>)
BY NextLinkType, SignedRoots, CheckpointKeeps, RegistryAssumption

----------------------------------------------------------------------------
(* The invariant.                                                          *)

Inv == TypeOK /\ ChainInv

LEMMA InvInit == Init => Inv
<1>. SUFFICES ASSUME Init PROVE Inv
  OBVIOUS
<1>1. EmptyFile \in File /\ LogOk(EmptyFile)
  BY DEF EmptyFile, File, LogOk
<1>2. TypeOK
  BY <1>1 DEF Init, TypeOK
<1>3. ChainInv
  BY <1>1, RegistryAssumption
     DEF Init, ChainInv, CallInv, LockInv, LineInv, RootInv, UnderLock
<1>. QED BY <1>2, <1>3 DEF Inv

(* Whoever is past Acquire is there alone.                                 *)
LEMMA Alone ==
  ASSUME Inv, NEW p \in Proc, pc[p] \in UnderLock
  PROVE  /\ lock = p
         /\ \A q \in Proc : q # p => pc[q] \in {"idle", "lock"}
BY DEF Inv, TypeOK, ChainInv, LockInv, UnderLock

(* A call only leaves its request behind.                                  *)
LEMMA BeginStep ==
  ASSUME Inv, NEW p \in Proc, NEW c \in Call, Begin(p, c)
  PROVE  Inv'
<1>0. c # None
  BY RegistryAssumption
<1>1. TypeOK'
  BY DEF Inv, TypeOK, Begin, MayCall
<1>2. CallInv' /\ LockInv' /\ RootInv'
  BY <1>0 DEF Inv, TypeOK, ChainInv, CallInv, LockInv, RootInv, Begin, MayCall,
         UnderLock
<1>3. LineInv'
  BY DEF Inv, TypeOK, ChainInv, LineInv, Begin, MayCall
<1>4. LogOk(file)' /\ LogOk(durable)'
  BY DEF Inv, ChainInv, Begin, LogOk
<1>. QED BY <1>1, <1>2, <1>3, <1>4 DEF Inv, ChainInv

LEMMA CallsStep ==
  ASSUME Inv, NEW p \in Proc, Calls(p)
  PROVE  Inv'
<1>1. CASE CallFound(p)
  <2>1. [kind |-> "found"] \in Call
    BY DEF Call
  <2>. QED BY <1>1, <2>1, BeginStep DEF CallFound
<1>2. CASE CallCompact(p)
  <2>1. [kind |-> "compact"] \in Call
    BY DEF Call
  <2>. QED BY <1>2, <2>1, BeginStep DEF CallCompact
<1>3. ASSUME NEW t \in Tenant, CallRevoke(p, t)
      PROVE  Inv'
  <2>1. [kind |-> "append", body |-> [kind |-> "revoke", tenant |-> t]] \in Call
    BY DEF Call, Change
  <2>. QED BY <1>3, <2>1, BeginStep DEF CallRevoke
<1>4. ASSUME NEW t \in Tenant, NEW d \in Dim, CallAdmit(p, t, d)
      PROVE  Inv'
  <2>1. [kind |-> "append",
         body |-> [kind |-> "admit", tenant |-> t, dim |-> d]] \in Call
    BY DEF Call, Change
  <2>. QED BY <1>4, <2>1, BeginStep DEF CallAdmit
<1>5. CASE CallMembers(p)
  BY <1>5 DEF CallMembers, vars, Inv, TypeOK, ChainInv, CallInv, LockInv, LineInv,
              RootInv, LogOk
<1>. QED BY <1>1, <1>2, <1>3, <1>4, <1>5 DEF Calls

LEMMA AcquireStep ==
  ASSUME Inv, NEW p \in Proc, Acquire(p)
  PROVE  Inv'
<1>1. TypeOK'
  BY DEF Inv, TypeOK, Acquire, UnderLock
<1>2. CallInv' /\ LockInv' /\ LineInv' /\ RootInv'
  BY RegistryAssumption
     DEF Inv, TypeOK, ChainInv, CallInv, LockInv, LineInv, RootInv, Acquire,
         UnderLock
<1>3. LogOk(file)' /\ LogOk(durable)'
  BY DEF Inv, ChainInv, Acquire, LogOk
<1>. QED BY <1>1, <1>2, <1>3 DEF Inv, ChainInv

(* Forgetting p's locals, with the lock free or held by another, leaves    *)
(* nothing to maintain for p.                                              *)
LEMMA ForgetStep ==
  ASSUME Inv, NEW p \in Proc, Forget(p),
         lock' = (IF lock = p THEN None ELSE lock),
         file' \in File, LogOk(file)', durable' \in File, LogOk(durable)',
         acked' \subseteq Content,
         file' = file \/ pc[p] \in UnderLock
  PROVE  Inv'
<1>1. TypeOK'
  BY DEF Inv, TypeOK, Forget
<1>2. CallInv' /\ RootInv'
  BY DEF Inv, TypeOK, ChainInv, CallInv, RootInv, Forget
<1>3. LockInv'
  BY RegistryAssumption DEF Inv, TypeOK, ChainInv, LockInv, Forget, UnderLock
<1>4. LineInv'
  <2>1. CASE file' = file
    BY <2>1 DEF Inv, TypeOK, ChainInv, LineInv, Forget
  <2>2. CASE pc[p] \in UnderLock
    BY <2>2, Alone DEF Inv, TypeOK, ChainInv, LineInv, Forget
  <2>. QED BY <2>1, <2>2
<1>. QED BY <1>1, <1>2, <1>3, <1>4 DEF Inv, ChainInv

LEMMA ReturnStep ==
  ASSUME Inv, NEW p \in Proc, pc[p] \in UnderLock, Return(p), UNCHANGED file
  PROVE  Inv'
<1>1. lock = p
  BY Alone
<1>2. LogOk(file)' /\ LogOk(durable)'
  BY DEF Inv, ChainInv, Return, LogOk
<1>. QED BY <1>1, <1>2, ForgetStep DEF Return, Unlock, Inv, TypeOK

LEMMA ReturnOkStep ==
  ASSUME Inv, NEW p \in Proc, pc[p] \in UnderLock, ReturnOk(p),
         file' \in File, LogOk(file)', durable' \in File, LogOk(durable)'
  PROVE  Inv'
<1>1. lock = p
  BY Alone
<1>2. acked' \subseteq Content
  <2>1. line[p] # None => ContentOf(line[p]) \in Content
    BY DEF Inv, TypeOK, Link, Content, ContentOf
  <2>. QED BY <2>1 DEF ReturnOk, Acknowledge, Inv, TypeOK
<1>. QED BY <1>1, <1>2, ForgetStep DEF ReturnOk, Unlock

(* Moving p's pc and locals, with the log as it is.                        *)
LEMMA SignStep ==
  ASSUME Inv, NEW p \in Proc, FoundSign(p) \/ AppendSign(p)
  PROVE  Inv'
<1>. DEFINE l == line'[p]
<1>1. pc[p] \in UnderLock /\ call[p] \in Call
  BY DEF FoundSign, AppendSign, UnderLock, Inv, TypeOK, ChainInv, CallInv
<1>2. l \in Link /\ WillBeOk(Append(file.lines, l))
  <2>1. CASE FoundSign(p)
    <3>1. LocalDim[p] \in Dim
      BY RegistryAssumption
    <3>2. l = GenesisLink(Owner, LocalDim[p]) /\ file.lines = <<>>
      BY <2>1 DEF FoundSign, Inv, TypeOK
    <3>. QED BY <3>1, <3>2, FoundedOk
  <2>2. CASE AppendSign(p)
    <3>1. call[p].body \in Change
      BY <1>1, <2>2 DEF AppendSign, Call
    <3>2. /\ file.lines \in Seq(Link) /\ Valid(file.lines, Owner)
          /\ Truthful(file.lines)
      BY <2>2, ReplayableOk DEF AppendSign, Inv, TypeOK, ChainInv
    <3>3. l = Signed(Owner, HeadSeq(file.lines) + 1, HeadHash(file.lines),
                     call[p].body)
      BY <2>2 DEF AppendSign, Inv, TypeOK
    <3>. QED BY <3>1, <3>2, <3>3, AppendedOk
  <2>. QED BY <2>1, <2>2
<1>3. l # None
  BY <1>2, RegistryAssumption
<1>4. /\ pc' = [pc EXCEPT ![p] = "write"]
      /\ line' = [line EXCEPT ![p] = l]
      /\ full' \in [Proc -> BOOLEAN]
      /\ UNCHANGED <<file, durable, lock, call, root, acked>>
  <2>1. ASSUME NEW x, line' = [line EXCEPT ![p] = x]
        PROVE  line' = [line EXCEPT ![p] = l]
    BY <2>1 DEF Inv, TypeOK
  <2>2. CASE FoundSign(p)
    BY <2>1, <2>2 DEF FoundSign, Inv, TypeOK
  <2>3. CASE AppendSign(p)
    <3>. DEFINE big == Len(file.lines) + 1 > CheckpointAfterLinks
    <3>1. full' = [full EXCEPT ![p] = big] /\ big \in BOOLEAN
      BY <2>3 DEF AppendSign
    <3>2. full' \in [Proc -> BOOLEAN]
      <4>. HIDE DEF big
      <4>. QED BY <3>1 DEF Inv, TypeOK
    <3>3. line' = [line EXCEPT ![p] = l]
      BY <2>1, <2>3 DEF AppendSign
    <3>. QED BY <2>3, <3>2, <3>3 DEF AppendSign
  <2>. QED BY <2>2, <2>3
<1>5. TypeOK'
  BY <1>2, <1>4 DEF Inv, TypeOK, UnderLock
<1>6. CallInv' /\ LockInv' /\ RootInv'
  BY <1>1, <1>4, RegistryAssumption
     DEF Inv, TypeOK, ChainInv, CallInv, LockInv, RootInv, UnderLock
<1>7. LineInv'
  BY <1>1, <1>2, <1>3, <1>4, Alone DEF Inv, TypeOK, ChainInv, LineInv
<1>8. LogOk(file)' /\ LogOk(durable)'
  BY <1>4 DEF Inv, ChainInv, LogOk
<1>. QED BY <1>5, <1>6, <1>7, <1>8 DEF Inv, ChainInv

(* Ending the line a fragment began restores the sequence with the whole   *)
(* line at its end.                                                        *)
LEMMA EndOfStart ==
  ASSUME NEW f \in File, NEW seen \in Link \cup {Malformed},
         NEW whole \in Link \cup {Malformed}
  PROVE  /\ StartLine(f, seen) \in File
         /\ StartLine(f, seen).lines # <<>>
         /\ EndLine(f, whole) \in File
         /\ EndLine(StartLine(f, seen), whole).lines = Append(f.lines, whole)
<1>1. f.lines \in Seq(Link \cup {Malformed})
  BY DEF File
<1>2. Append(f.lines, seen) \in Seq(Link \cup {Malformed})
  BY <1>1
<1>3. StartLine(f, seen) \in File /\ StartLine(f, seen).lines # <<>>
  BY <1>1, <1>2 DEF StartLine, File
<1>4. EndLine(f, whole) \in File
  BY <1>1 DEF EndLine, File
<1>5. SubSeq(Append(f.lines, seen), 1, Len(Append(f.lines, seen)) - 1) = f.lines
  BY <1>1
<1>. QED BY <1>3, <1>4, <1>5 DEF StartLine, EndLine

(* A log that ends in a fragment does not parse.                           *)
LEMMA TornUnreadable ==
  ASSUME NEW f \in File
  PROVE  LogOk(StartLine(f, Malformed)) /\ LogOk(EndLine(f, Malformed))
<1>1. f.lines \in Seq(Link \cup {Malformed})
  BY DEF File
<1>2. ~Readable(StartLine(f, Malformed))
  BY <1>1 DEF StartLine, Readable
<1>3. ~Readable(EndLine(f, Malformed))
  BY <1>1 DEF EndLine, Readable
<1>. QED BY <1>2, <1>3 DEF LogOk

LEMMA WriteStartStep ==
  ASSUME Inv, NEW p \in Proc, WriteStart(p)
  PROVE  Inv'
<1>1. PICK f \in Fragments :
        file' = StartLine(file, IF f = "torn" THEN Malformed ELSE line[p])
  BY DEF WriteStart
<1>. DEFINE seen == IF f = "torn" THEN Malformed ELSE line[p]
<1>2. /\ line[p] \in Link /\ file \in File /\ pc[p] \in UnderLock
      /\ WillBeOk(Append(file.lines, line[p]))
  BY DEF WriteStart, Inv, TypeOK, ChainInv, LineInv, UnderLock
<1>3. seen \in Link \cup {Malformed}
  BY <1>2
<1>4. /\ file' \in File /\ file'.lines # <<>>
      /\ EndLine(file', line[p]).lines = Append(file.lines, line[p])
  BY <1>1, <1>2, <1>3, EndOfStart
<1>5. LogOk(file)'
  <2>1. CASE seen = Malformed
    BY <1>1, <1>2, <2>1, TornUnreadable DEF LogOk, Readable
  <2>2. CASE seen = line[p]
    BY <1>1, <1>2, <2>2 DEF LogOk, WillBeOk, StartLine
  <2>. QED BY <2>1, <2>2
<1>6. TypeOK'
  BY <1>4 DEF WriteStart, Inv, TypeOK, UnderLock
<1>7. CallInv' /\ LockInv' /\ RootInv'
  BY <1>2 DEF WriteStart, Inv, TypeOK, ChainInv, CallInv, LockInv, RootInv, UnderLock
<1>8. LineInv'
  BY <1>2, <1>4, Alone DEF WriteStart, Inv, TypeOK, ChainInv, LineInv
<1>9. LogOk(durable)'
  BY DEF WriteStart, Inv, ChainInv, LogOk
<1>. QED BY <1>5, <1>6, <1>7, <1>8, <1>9 DEF Inv, ChainInv

(* The line is complete: whole, or joined to one that was never ended.     *)
LEMMA WriteLastByteStep ==
  ASSUME Inv, NEW p \in Proc, WriteEnd(p) \/ WriteJoined(p)
  PROVE  Inv'
<1>1. /\ line[p] \in Link /\ file \in File /\ pc[p] \in UnderLock
      /\ pc' = [pc EXCEPT ![p] = "sync"]
      /\ UNCHANGED <<durable, lock, call, line, root, full, acked>>
  BY DEF WriteEnd, WriteJoined, Inv, TypeOK, ChainInv, LineInv, UnderLock
<1>2. file' \in File /\ LogOk(file)'
  <2>1. CASE WriteEnd(p)
    <3>1. file' = EndLine(file, line[p]) /\ WillBeOk(file'.lines)
      BY <2>1 DEF WriteEnd, Inv, ChainInv, LineInv
    <3>2. file' \in File
      BY <1>1, <3>1, EndOfStart
    <3>. QED BY <3>1, <3>2 DEF WillBeOk, LogOk
  <2>2. CASE WriteJoined(p)
    <3>1. file' = EndLine(file, Malformed)
      BY <2>2 DEF WriteJoined
    <3>2. file' \in File
      BY <1>1, <3>1, EndOfStart
    <3>3. LogOk(EndLine(file, Malformed))
      BY <1>1, TornUnreadable
    <3>4. LogOk(file)'
      BY <3>1, <3>3 DEF LogOk, Readable
    <3>. QED BY <3>2, <3>4
  <2>. QED BY <2>1, <2>2
<1>3. TypeOK'
  BY <1>1, <1>2 DEF Inv, TypeOK, UnderLock
<1>4. CallInv' /\ LockInv' /\ RootInv'
  BY <1>1 DEF Inv, TypeOK, ChainInv, CallInv, LockInv, RootInv, UnderLock
<1>5. LineInv'
  BY <1>1, Alone, RegistryAssumption DEF Inv, TypeOK, ChainInv, LineInv
<1>6. LogOk(durable)'
  BY <1>1 DEF Inv, ChainInv, LogOk
<1>. QED BY <1>2, <1>3, <1>4, <1>5, <1>6 DEF Inv, ChainInv

LEMMA SyncStep ==
  ASSUME Inv, NEW p \in Proc, SyncReturn(p) \/ SyncThenCheckpoint(p)
  PROVE  Inv'
<1>1. pc[p] \in UnderLock /\ file \in File /\ LogOk(file)
  BY DEF SyncReturn, SyncThenCheckpoint, Inv, TypeOK, ChainInv, UnderLock
<1>2. LogOk(file)' /\ LogOk(durable)'
  BY <1>1 DEF SyncReturn, SyncThenCheckpoint, LogOk, Readable
<1>3. CASE SyncReturn(p)
  BY <1>1, <1>2, <1>3, ReturnOkStep DEF SyncReturn
<1>4. CASE SyncThenCheckpoint(p)
  <2>1. TypeOK'
    BY <1>1, <1>4 DEF SyncThenCheckpoint, Inv, TypeOK, UnderLock
  <2>2. CallInv' /\ LockInv' /\ RootInv'
    BY <1>4 DEF SyncThenCheckpoint, Inv, TypeOK, ChainInv, CallInv, LockInv, RootInv,
                UnderLock
  <2>3. LineInv'
    BY <1>1, <1>4, Alone DEF SyncThenCheckpoint, Inv, TypeOK, ChainInv, LineInv
  <2>. QED BY <1>2, <2>1, <2>2, <2>3 DEF Inv, ChainInv
<1>. QED BY <1>3, <1>4

LEMMA CheckpointStep ==
  ASSUME Inv, NEW p \in Proc, CheckpointWriteTmp(p) \/ CheckpointRename(p)
  PROVE  Inv'
<1>1. CASE CheckpointWriteTmp(p)
  <2>. DEFINE r == CheckpointOf(Owner, file.lines)
  <2>1. /\ file.lines \in Seq(Link) /\ Valid(file.lines, Owner)
        /\ Truthful(file.lines)
    BY <1>1, ReplayableOk DEF CheckpointWriteTmp, Inv, TypeOK, ChainInv
  <2>2. r \in Link /\ RootOk(r, Owner) /\ Truthful(<<r>>) /\ r # None
    BY <2>1, CompactedOk, RegistryAssumption
  <2>3. /\ pc[p] \in UnderLock
        /\ root' = [root EXCEPT ![p] = r]
        /\ pc' = [pc EXCEPT ![p] = "rename"]
        /\ UNCHANGED <<file, durable, lock, call, line, full, acked>>
    BY <1>1 DEF CheckpointWriteTmp, UnderLock
  <2>. HIDE DEF r
  <2>4. TypeOK'
    BY <2>2, <2>3 DEF Inv, TypeOK, UnderLock
  <2>5. CallInv' /\ LockInv' /\ RootInv'
    BY <2>2, <2>3 DEF Inv, TypeOK, ChainInv, CallInv, LockInv, RootInv, UnderLock
  <2>6. LineInv'
    BY <2>3 DEF Inv, TypeOK, ChainInv, LineInv
  <2>7. LogOk(file)' /\ LogOk(durable)'
    BY <2>3 DEF Inv, ChainInv, LogOk
  <2>. QED BY <2>4, <2>5, <2>6, <2>7 DEF Inv, ChainInv
<1>2. CASE CheckpointRename(p)
  <2>1. pc[p] \in UnderLock /\ root[p] \in Link /\ RootOk(root[p], Owner) /\ Truthful(<<root[p]>>)
    BY <1>2 DEF CheckpointRename, UnderLock, Inv, TypeOK, ChainInv, RootInv
  <2>2. file' = [lines |-> <<root[p]>>, eol |-> TRUE]
    BY <1>2 DEF CheckpointRename
  <2>3. file' \in File /\ LogOk(file)'
    BY <2>1, <2>2, RootAlone DEF File, LogOk
  <2>4. durable' \in File /\ LogOk(durable)'
    BY <1>2 DEF CheckpointRename, Inv, TypeOK, ChainInv, LogOk, Readable
  <2>. QED BY <1>2, <2>1, <2>3, <2>4, ReturnOkStep DEF CheckpointRename
<1>. QED BY <1>1, <1>2

(* Early returns, failed writes and an idle checkpoint.                    *)
LEMMA NothingWrittenStep ==
  ASSUME Inv, NEW p \in Proc,
         \/ FoundNothingToDo(p) \/ AppendRefused(p) \/ WriteFails(p)
         \/ CheckpointRefused(p) \/ CheckpointNothingToDo(p) \/ CheckpointFails(p)
  PROVE  Inv'
<1>1. pc[p] \in UnderLock
  BY DEF FoundNothingToDo, AppendRefused, WriteFails, CheckpointRefused,
         CheckpointNothingToDo, CheckpointFails, UnderLock
<1>2. CASE CheckpointNothingToDo(p)
  <2>1. /\ file' \in File /\ LogOk(file)'
        /\ durable' \in File /\ LogOk(durable)'
    BY <1>2 DEF CheckpointNothingToDo, Inv, TypeOK, ChainInv, LogOk, Readable
  <2>. QED BY <1>1, <1>2, <2>1, ReturnOkStep DEF CheckpointNothingToDo
<1>3. CASE ~CheckpointNothingToDo(p)
  <2>1. Return(p) /\ UNCHANGED file
    BY <1>3 DEF FoundNothingToDo, AppendRefused, WriteFails, CheckpointRefused,
                CheckpointFails
  <2>. QED BY <1>1, <2>1, ReturnStep
<1>. QED BY <1>2, <1>3

LEMMA StepStep ==
  ASSUME Inv, NEW p \in Proc, Step(p)
  PROVE  Inv'
BY SignStep, WriteStartStep, WriteLastByteStep, SyncStep, CheckpointStep,
   NothingWrittenStep DEF Step

LEMMA CrashStep ==
  ASSUME Inv, NEW p \in Proc, Crash(p)
  PROVE  Inv'
<1>1. LogOk(file)' /\ LogOk(durable)'
  BY DEF Inv, ChainInv, Crash, LogOk, Readable
<1>. QED BY <1>1, ForgetStep DEF Crash, Inv, TypeOK

LEMMA PowerLossStep ==
  ASSUME Inv, PowerLoss
  PROVE  Inv'
<1>1. PICK f \in Survivors : file' = f /\ durable' = f
  BY DEF PowerLoss
<1>2. f \in File /\ LogOk(f)
  <2>1. EmptyFile \in File /\ LogOk(EmptyFile)
    BY DEF EmptyFile, File, LogOk
  <2>2. f \in {durable, file, EmptyFile}
    BY DEF Survivors
  <2>. QED BY <2>1, <2>2 DEF Inv, TypeOK, ChainInv
<1>3. file' \in File /\ LogOk(file)' /\ durable' \in File /\ LogOk(durable)'
  BY <1>1, <1>2 DEF LogOk, Readable
<1>4. TypeOK'
  BY <1>3 DEF PowerLoss, Inv, TypeOK
<1>5. CallInv' /\ LockInv' /\ LineInv' /\ RootInv'
  BY RegistryAssumption
     DEF PowerLoss, CallInv, LockInv, LineInv, RootInv, UnderLock
<1>. QED BY <1>3, <1>4, <1>5 DEF Inv, ChainInv

LEMMA InvNext == Inv /\ [Next]_vars => Inv'
<1>. SUFFICES ASSUME Inv, [Next]_vars PROVE Inv'
  OBVIOUS
<1>1. CASE UNCHANGED vars
  BY <1>1 DEF vars, Inv, TypeOK, ChainInv, CallInv, LockInv, LineInv, RootInv, LogOk,
              Readable
<1>2. ASSUME NEW p \in Proc, Calls(p) \/ Acquire(p) \/ Step(p) \/ Crash(p)
      PROVE  Inv'
  BY <1>2, CallsStep, AcquireStep, StepStep, CrashStep
<1>3. CASE PowerLoss
  BY <1>3, PowerLossStep
<1>. QED BY <1>1, <1>2, <1>3 DEF Next

LEMMA InvAlways == Spec => []Inv
<1>. QED BY InvInit, InvNext, PTL DEF Spec

----------------------------------------------------------------------------
(* Theorems.                                                               *)

(* Every variable keeps its type: what an operation signs, writes, renames *)
(* and acknowledges is always a link, whatever interleaves or fails.       *)
THEOREM TypeCorrect == Spec => []TypeOK
<1>1. Inv => TypeOK
  BY DEF Inv
<1>. QED BY <1>1, InvAlways, PTL

(* The lock serializes: never two processes between Acquire and return.    *)
THEOREM MutualExclusion ==
  Spec => [](\A p, q \in Proc :
               pc[p] \in UnderLock /\ pc[q] \in UnderLock => p = q)
<1>1. Inv => \A p, q \in Proc :
               pc[p] \in UnderLock /\ pc[q] \in UnderLock => p = q
  BY DEF Inv, ChainInv, LockInv
<1>. QED BY <1>1, InvAlways, PTL

(* No fork, for any number of founders and writers: a log that parses is   *)
(* empty or one hash-linked chain of the owner, through torn and joined    *)
(* appends, compactions, crashes and power losses.                         *)
THEOREM ChainAlwaysIntact == Spec => []ChainIntact
<1>1. Inv => ChainIntact
  BY DEF Inv, ChainInv, LogOk, FileOk, ChainIntact
<1>. QED BY <1>1, InvAlways, PTL

(* A compaction never tells a lie: however often the log was compacted,    *)
(* torn, joined or cut off in between, the members it gives are those of   *)
(* every link ever signed.                                                 *)
THEOREM MembersAlwaysHistory == Spec => []ActiveIsHistory
<1>1. Inv => ActiveIsHistory
  BY DEF Inv, ChainInv, LogOk, Truthful, ActiveIsHistory
<1>. QED BY <1>1, InvAlways, PTL

----------------------------------------------------------------------------
(* Acknowledged appends, when a rename never outlives the data it renames. *)

Recalls(lines, contents) ==
  \A c \in contents : \E i \in 1..Len(History(lines)) : History(lines)[i] = c

FileRecalls(f, contents) == Readable(f) => Recalls(f.lines, contents)

(* What a log has to recall for p to return Ok.                            *)
Owed(p) == IF line[p] = None THEN acked ELSE acked \cup {ContentOf(line[p])}

(* At each point of an append, and of the compaction behind it, the log    *)
(* that the next step leaves recalls all it owes: the line written, the    *)
(* temporary file renamed, and what a power loss falls back to.            *)
OwedInv(p) ==
  /\ pc[p] \in {"idle", "lock", "locked"} => line[p] = None
  /\ pc[p] = "write" => Recalls(Append(file.lines, line[p]), Owed(p))
  /\ pc[p] = "writing" => Recalls(EndLine(file, line[p]).lines, Owed(p))
  /\ pc[p] \in {"sync", "compact"} => FileRecalls(file, Owed(p))
  /\ pc[p] \in {"compact", "rename"} => FileRecalls(durable, Owed(p))
  /\ pc[p] = "rename" => Recalls(<<root[p]>>, Owed(p))

AckInv ==
  /\ FileRecalls(file, acked) /\ FileRecalls(durable, acked)
  /\ \A p \in Proc : OwedInv(p)

(* Signing on a chain recalls what the chain did, and the new link.        *)
LEMMA RecallsMore ==
  ASSUME NEW links \in Seq(Link), links # <<>>, NEW l \in Link,
         l.prev = HeadHash(links), NEW cs, Recalls(links, cs)
  PROVE  /\ Recalls(Append(links, l), cs \cup {ContentOf(l)})
         /\ Recalls(<<l>>, cs)
<1>. DEFINE h == History(links)
            more == Append(h, ContentOf(l))
<1>1. /\ History(Append(links, l)) = more /\ History(<<l>>) = more
  BY HistoryExtends DEF ContentOf, ContentOfLink
<1>2. h \in Seq(Content) /\ ContentOf(l) \in Content
  BY HistoryType, ContentType DEF ContentOf, ContentOfLink
<1>. HIDE DEF h
<1>3. /\ Len(more) = Len(h) + 1 /\ Len(h) \in Nat /\ more[Len(h) + 1] = ContentOf(l)
      /\ \A i \in 1..Len(h) : i \in 1..Len(more) /\ more[i] = h[i]
  BY <1>2
<1>. HIDE DEF more
<1>4. \A c \in cs : \E i \in 1..Len(h) : h[i] = c
  BY DEF Recalls, h
<1>5. \A c \in cs : \E i \in 1..Len(more) : more[i] = c
  BY <1>3, <1>4
<1>6. \E i \in 1..Len(more) : more[i] = ContentOf(l)
  BY <1>3
<1>. QED BY <1>1, <1>5, <1>6 DEF Recalls

(* An empty log recalls nothing, so that nothing was acknowledged.         *)
LEMMA EmptyRecalls ==
  ASSUME NEW cs
  PROVE  Recalls(<<>>, cs) <=> cs = {}
BY DEF Recalls, History

LEMMA AckInit == Init => AckInv
BY DEF Init, AckInv, OwedInv, FileRecalls, Recalls

(* A step of p that leaves the log and what is owed as they are.           *)
LEMMA AckQuiet ==
  ASSUME Inv, AckInv, NEW p \in Proc, Calls(p) \/ Acquire(p)
  PROVE  AckInv'
<1>1. UNCHANGED <<file, durable, line, root, acked>>
  BY DEF Calls, CallFound, CallCompact, CallMembers, CallRevoke, CallAdmit, Begin,
         Acquire, vars
<1>2. /\ \A q \in Proc : q # p => pc'[q] = pc[q]
      /\ \/ pc'[p] = pc[p]
         \/ pc[p] \in {"idle", "lock"} /\ pc'[p] \in {"lock", "locked", "compact"}
  BY DEF Calls, CallFound, CallCompact, CallMembers, CallRevoke, CallAdmit, Begin, MayCall,
         Acquire, vars, Inv, TypeOK
<1>3. ASSUME NEW q \in Proc PROVE OwedInv(q)'
  <2>1. OwedInv(q) /\ FileRecalls(file, acked) /\ FileRecalls(durable, acked)
    BY DEF AckInv
  <2>2. CASE pc'[q] = pc[q]
    <3>. Owed(q)' = Owed(q)
      BY <1>1 DEF Owed
    <3>. QED BY <1>1, <2>1, <2>2 DEF OwedInv
  <2>3. CASE /\ pc[q] \in {"idle", "lock"}
             /\ pc'[q] \in {"lock", "locked", "compact"}
    BY <1>1, <2>1, <2>3 DEF OwedInv, Owed, FileRecalls, Recalls, Readable
  <2>. QED BY <1>2, <2>2, <2>3
<1>. QED BY <1>1, <1>3 DEF AckInv, FileRecalls, Recalls, Readable

(* Nobody but the holder of the lock owes anything new.                    *)
LEMMA OthersOweNothing ==
  ASSUME Inv, AckInv, NEW p \in Proc, pc[p] \in UnderLock,
         NEW q \in Proc, q # p, pc'[q] = pc[q], line'[q] = line[q]
  PROVE  OwedInv(q)'
<1>1. pc[q] \in {"idle", "lock"}
  BY Alone
<1>. QED BY <1>1 DEF AckInv, OwedInv

(* p returns or dies, whatever it acknowledges being recalled.             *)
LEMMA AckForget ==
  ASSUME Inv, AckInv, NEW p \in Proc, Forget(p),
         file' = file \/ pc[p] \in UnderLock,
         durable' = durable \/ pc[p] \in UnderLock,
         acked' = acked \/ pc[p] \in UnderLock,
         FileRecalls(file, acked)', FileRecalls(durable, acked)'
  PROVE  AckInv'
<1>1. /\ pc'[p] = "idle" /\ line'[p] = None
      /\ \A q \in Proc : q # p => /\ pc'[q] = pc[q] /\ line'[q] = line[q]
                                 /\ root'[q] = root[q]
  BY DEF Forget, Inv, TypeOK
<1>2. ASSUME NEW q \in Proc PROVE OwedInv(q)'
  <2>1. CASE q = p
    BY <1>1, <2>1 DEF OwedInv
  <2>2. CASE q # p /\ pc[p] \in UnderLock
    BY <1>1, <2>2, OthersOweNothing
  <2>3. CASE q # p /\ pc[p] \notin UnderLock
    <3>1. UNCHANGED <<file, durable, acked>>
      BY <2>3
    <3>2. Owed(q)' = Owed(q)
      BY <1>1, <2>3, <3>1 DEF Owed
    <3>. QED BY <1>1, <2>3, <3>1, <3>2 DEF AckInv, OwedInv
  <2>. QED BY <2>1, <2>2, <2>3
<1>. QED BY <1>2 DEF AckInv

LEMMA AckReturn ==
  ASSUME Inv, AckInv, NEW p \in Proc, Return(p) \/ Crash(p), UNCHANGED file
  PROVE  AckInv'
<1>1. Forget(p) /\ UNCHANGED <<file, durable, acked>>
  BY DEF Return, Crash
<1>2. FileRecalls(file, acked)' /\ FileRecalls(durable, acked)'
  BY <1>1 DEF AckInv, FileRecalls, Recalls, Readable
<1>. QED BY <1>1, <1>2, AckForget

LEMMA AckReturnOk ==
  ASSUME Inv, AckInv, NEW p \in Proc, pc[p] \in UnderLock, ReturnOk(p),
         FileRecalls(file', Owed(p)), FileRecalls(durable', Owed(p))
  PROVE  AckInv'
<1>1. acked' = Owed(p) /\ Forget(p)
  BY DEF ReturnOk, Acknowledge, Owed
<1>2. FileRecalls(file, acked)' /\ FileRecalls(durable, acked)'
  BY <1>1 DEF FileRecalls, Recalls, Readable
<1>. QED BY <1>1, <1>2, AckForget

LEMMA AckSign ==
  ASSUME Inv, AckInv, NEW p \in Proc, FoundSign(p) \/ AppendSign(p)
  PROVE  AckInv'
<1>. DEFINE l == line'[p]
<1>1. /\ pc[p] \in UnderLock /\ pc[p] = "locked" /\ pc'[p] = "write"
      /\ UNCHANGED <<file, durable, root, acked>>
      /\ \A q \in Proc : q # p => pc'[q] = pc[q] /\ line'[q] = line[q]
  BY DEF FoundSign, AppendSign, UnderLock, Inv, TypeOK
<1>2. FileRecalls(file, acked) /\ FileRecalls(durable, acked)
  BY DEF AckInv
<1>3. l \in Link \cup {None}
  BY SignStep DEF Inv, TypeOK
<1>4. l # None /\ Owed(p)' = acked \cup {ContentOf(l)}
  BY <1>1, SignStep DEF Owed, Inv, ChainInv, LineInv
<1>5. Recalls(Append(file.lines, l), acked \cup {ContentOf(l)})
  <2>1. CASE FoundSign(p)
    <3>1. l = GenesisLink(Owner, LocalDim[p]) /\ file.lines = <<>>
      BY <2>1 DEF FoundSign, Inv, TypeOK
    <3>2. acked = {}
      BY <1>2, <3>1, EmptyRecalls DEF FileRecalls, Readable
    <3>3. History(Append(file.lines, l)) = <<ContentOf(l)>>
      <4>1. l \in Link /\ l.prev = <<>>
        BY <1>3, <1>4, <3>1 DEF GenesisLink, Signed
      <4>2. Append(<<>>, l) = <<l>> /\ <<l>> # <<>> /\ HeadLink(<<l>>) = l
        BY DEF HeadLink
      <4>3. Hash(l) = <<ContentOf(l)>>
        <5>1. Hash(l) = Append(<<>>, ContentOf(l))
          BY <4>1 DEF Hash, ContentOf
        <5>2. Append(<<>>, ContentOf(l)) = <<ContentOf(l)>>
          OBVIOUS
        <5>. QED BY <5>1, <5>2
      <4>. QED BY <3>1, <4>2, <4>3 DEF History, HeadHash
    <3>. HIDE DEF l
    <3>. QED BY <3>2, <3>3 DEF Recalls
  <2>2. CASE AppendSign(p)
    <3>1. file.lines \in Seq(Link) /\ Valid(file.lines, Owner) /\ Readable(file)
      BY <2>2, ReplayableOk DEF AppendSign, Replayable, Inv, TypeOK, ChainInv
    <3>2. l.prev = HeadHash(file.lines)
      BY <2>2 DEF AppendSign, Signed, Inv, TypeOK
    <3>3. l \in Link /\ file.lines # <<>> /\ Recalls(file.lines, acked)
      BY <1>2, <1>3, <1>4, <3>1 DEF FileRecalls, Valid
    <3>. HIDE DEF l
    <3>. QED BY <3>1, <3>2, <3>3, RecallsMore
  <2>. QED BY <2>1, <2>2
<1>6. OwedInv(p)'
  BY <1>1, <1>4, <1>5 DEF OwedInv
<1>7. ASSUME NEW q \in Proc, q # p PROVE OwedInv(q)'
  BY <1>1, <1>7, OthersOweNothing
<1>8. FileRecalls(file, acked)' /\ FileRecalls(durable, acked)'
  BY <1>1, <1>2 DEF FileRecalls, Recalls, Readable
<1>. QED BY <1>6, <1>7, <1>8 DEF AckInv

LEMMA AckWrite ==
  ASSUME Inv, AckInv, NEW p \in Proc, WriteStart(p) \/ WriteJoined(p) \/ WriteEnd(p)
  PROVE  AckInv'
<1>1. /\ pc[p] \in UnderLock /\ pc[p] \in {"write", "writing"}
      /\ pc'[p] \in {"writing", "sync"} /\ pc'[p] = "writing" <=> WriteStart(p)
      /\ UNCHANGED <<durable, line, root, acked>>
      /\ \A q \in Proc : q # p => pc'[q] = pc[q]
      /\ line[p] \in Link /\ line[p] # None /\ file \in File /\ OwedInv(p)
      /\ FileRecalls(durable, acked)
  BY DEF WriteStart, WriteJoined, WriteEnd, UnderLock, Inv, TypeOK, ChainInv, LineInv, AckInv
<1>2. Owed(p)' = Owed(p) /\ acked \subseteq Owed(p)
  BY <1>1 DEF Owed
<1>3. CASE WriteStart(p)
  <2>1. PICK seen \in Link \cup {Malformed} :
          /\ file' = StartLine(file, seen)
          /\ seen = Malformed \/ seen = line[p]
    BY <1>1, <1>3 DEF WriteStart
  <2>2. /\ EndLine(file', line[p]).lines = Append(file.lines, line[p])
        /\ file'.lines = Append(file.lines, seen)
    <3>1. EndLine(StartLine(file, seen), line[p]).lines = Append(file.lines, line[p])
      BY <1>1, EndOfStart
    <3>. QED BY <2>1, <3>1 DEF StartLine
  <2>3. Recalls(Append(file.lines, line[p]), Owed(p))
    BY <1>1, <1>3 DEF OwedInv, WriteStart
  <2>4. OwedInv(p)'
    BY <1>1, <1>2, <1>3, <2>2, <2>3 DEF OwedInv
  <2>5. FileRecalls(file', acked)
    <3>1. CASE seen = Malformed
      <4>1. file.lines \in Seq(Link \cup {Malformed})
        BY <1>1 DEF File
      <4>2. ~Readable(file')
        BY <2>2, <3>1, <4>1 DEF Readable
      <4>. QED BY <4>2 DEF FileRecalls
    <3>2. CASE seen = line[p]
      BY <1>2, <2>2, <2>3, <3>2 DEF FileRecalls, Recalls
    <3>. QED BY <2>1, <3>1, <3>2
  <2>. QED BY <1>1, <2>4, <2>5, OthersOweNothing DEF AckInv, FileRecalls, Recalls, Readable
<1>4. CASE WriteJoined(p)
  <2>1. ~Readable(file')
    <3>1. file.lines \in Seq(Link \cup {Malformed})
      BY <1>1 DEF File
    <3>2. file' = EndLine(file, Malformed)
      BY <1>4 DEF WriteJoined
    <3>. QED BY <3>1, <3>2 DEF EndLine, Readable
  <2>2. pc'[p] = "sync"
    BY <1>4 DEF WriteJoined, Inv, TypeOK
  <2>3. OwedInv(p)'
    BY <2>1, <2>2 DEF OwedInv, FileRecalls
  <2>. QED BY <1>1, <2>1, <2>3, OthersOweNothing DEF AckInv, FileRecalls, Recalls, Readable
<1>5. CASE WriteEnd(p)
  <2>1. file'.lines = EndLine(file, line[p]).lines /\ pc'[p] = "sync"
    BY <1>5 DEF WriteEnd, Inv, TypeOK
  <2>2. Recalls(file'.lines, Owed(p))
    BY <1>1, <1>5, <2>1 DEF OwedInv, WriteEnd
  <2>3. OwedInv(p)'
    BY <1>2, <2>1, <2>2 DEF OwedInv, FileRecalls
  <2>4. FileRecalls(file', acked)
    BY <1>2, <2>2 DEF FileRecalls, Recalls
  <2>. QED BY <1>1, <2>3, <2>4, OthersOweNothing DEF AckInv, FileRecalls, Recalls, Readable
<1>. QED BY <1>3, <1>4, <1>5

LEMMA AckSync ==
  ASSUME Inv, AckInv, NEW p \in Proc, SyncReturn(p) \/ SyncThenCheckpoint(p)
  PROVE  AckInv'
<1>1. /\ pc[p] \in UnderLock /\ durable' = file /\ UNCHANGED file
      /\ FileRecalls(file, Owed(p)) /\ FileRecalls(file, acked)
  BY DEF SyncReturn, SyncThenCheckpoint, UnderLock, AckInv, OwedInv
<1>2. CASE SyncReturn(p)
  BY <1>1, <1>2, AckReturnOk DEF SyncReturn
<1>3. CASE SyncThenCheckpoint(p)
  <2>1. /\ pc'[p] = "compact" /\ UNCHANGED <<line, root, acked>>
        /\ \A q \in Proc : q # p => pc'[q] = pc[q]
    BY <1>3 DEF SyncThenCheckpoint, Inv, TypeOK
  <2>2. Owed(p)' = Owed(p)
    BY <2>1 DEF Owed
  <2>3. OwedInv(p)'
    BY <1>1, <2>1, <2>2 DEF OwedInv
  <2>. QED BY <1>1, <2>1, <2>3, OthersOweNothing DEF AckInv
<1>. QED BY <1>2, <1>3

LEMMA AckCheckpoint ==
  ASSUME Inv, AckInv, NEW p \in Proc, CheckpointWriteTmp(p) \/ CheckpointRename(p)
  PROVE  AckInv'
<1>1. CASE CheckpointWriteTmp(p)
  <2>. DEFINE r == CheckpointOf(Owner, file.lines)
  <2>1. /\ pc[p] \in UnderLock /\ pc'[p] = "rename" /\ root'[p] = r
        /\ UNCHANGED <<file, durable, line, acked>>
        /\ \A q \in Proc : q # p => pc'[q] = pc[q]
        /\ FileRecalls(file, acked) /\ FileRecalls(durable, acked)
        /\ FileRecalls(file, Owed(p)) /\ FileRecalls(durable, Owed(p))
    BY <1>1 DEF CheckpointWriteTmp, UnderLock, AckInv, OwedInv, Inv, TypeOK
  <2>2. /\ file.lines \in Seq(Link) /\ Valid(file.lines, Owner) /\ Readable(file)
        /\ file.lines # <<>>
    BY <1>1, ReplayableOk
       DEF CheckpointWriteTmp, Replayable, Inv, TypeOK, ChainInv, Valid
  <2>3. r \in Link /\ r.prev = HeadHash(file.lines)
    BY <2>2, NextLinkType, RegistryAssumption DEF CheckpointOf, Signed
  <2>. HIDE DEF r
  <2>4. Recalls(<<r>>, Owed(p))
    BY <2>1, <2>2, <2>3, RecallsMore DEF FileRecalls
  <2>5. Owed(p)' = Owed(p)
    BY <2>1 DEF Owed
  <2>6. OwedInv(p)'
    BY <2>1, <2>4, <2>5 DEF OwedInv
  <2>. QED BY <2>1, <2>6, OthersOweNothing DEF AckInv
<1>2. CASE CheckpointRename(p)
  <2>1. /\ pc[p] \in UnderLock /\ file'.lines = <<root[p]>> /\ UNCHANGED durable
        /\ FileRecalls(durable, Owed(p)) /\ Recalls(<<root[p]>>, Owed(p))
    BY <1>2 DEF CheckpointRename, UnderLock, AckInv, OwedInv
  <2>2. FileRecalls(file', Owed(p)) /\ FileRecalls(durable', Owed(p))
    BY <2>1 DEF FileRecalls
  <2>. QED BY <1>2, <2>1, <2>2, AckReturnOk DEF CheckpointRename
<1>. QED BY <1>1, <1>2

LEMMA AckNothingWritten ==
  ASSUME Inv, AckInv, NEW p \in Proc,
         \/ FoundNothingToDo(p) \/ AppendRefused(p) \/ WriteFails(p)
         \/ CheckpointRefused(p) \/ CheckpointNothingToDo(p) \/ CheckpointFails(p)
  PROVE  AckInv'
<1>1. CASE CheckpointNothingToDo(p)
  <2>1. /\ pc[p] \in UnderLock /\ UNCHANGED <<file, durable>>
        /\ FileRecalls(file, Owed(p)) /\ FileRecalls(durable, Owed(p))
    BY <1>1 DEF CheckpointNothingToDo, UnderLock, AckInv, OwedInv
  <2>. QED BY <1>1, <2>1, AckReturnOk DEF CheckpointNothingToDo
<1>2. CASE ~CheckpointNothingToDo(p)
  <2>1. Return(p) /\ UNCHANGED file
    BY <1>2 DEF FoundNothingToDo, AppendRefused, WriteFails, CheckpointRefused,
                CheckpointFails
  <2>. QED BY <2>1, AckReturn
<1>. QED BY <1>1, <1>2

LEMMA AckPowerLoss ==
  ASSUME Inv, AckInv, ~TmpMayBeLost, PowerLoss
  PROVE  AckInv'
<1>1. PICK f \in Survivors : file' = f /\ durable' = f
  BY DEF PowerLoss
<1>2. f \in {durable, file}
  BY DEF Survivors
<1>3. /\ UNCHANGED acked
      /\ \A p \in Proc : pc'[p] = "idle" /\ line'[p] = None
  BY DEF PowerLoss
<1>. QED BY <1>1, <1>2, <1>3 DEF AckInv, OwedInv

LEMMA AckNext ==
  ASSUME ~TmpMayBeLost
  PROVE  Inv /\ AckInv /\ [Next]_vars => AckInv'
<1>. SUFFICES ASSUME Inv, AckInv, [Next]_vars PROVE AckInv'
  OBVIOUS
<1>1. CASE UNCHANGED vars
  <2>1. \A p \in Proc : Owed(p)' = Owed(p)
    BY <1>1 DEF vars, Owed
  <2>. QED BY <1>1, <2>1 DEF vars, AckInv, OwedInv
<1>2. ASSUME NEW p \in Proc, Step(p)
      PROVE  AckInv'
  BY <1>2, AckSign, AckWrite, AckSync, AckCheckpoint, AckNothingWritten DEF Step
<1>3. ASSUME NEW p \in Proc, Calls(p) \/ Acquire(p) \/ Crash(p)
      PROVE  AckInv'
  BY <1>3, AckQuiet, AckReturn DEF Crash
<1>4. CASE PowerLoss
  BY <1>4, AckPowerLoss
<1>. QED BY <1>1, <1>2, <1>3, <1>4 DEF Next

(* Nothing that append_next acknowledged is ever silently lost: a log that *)
(* can be read at all recalls it, through every crash, power loss, torn    *)
(* append and compaction, on a file system whose rename does not outlive   *)
(* the data of the file that it renames.                                   *)
THEOREM AckedNeverLost ==
  ASSUME ~TmpMayBeLost
  PROVE  Spec => []AckedNotLost
<1>1. Inv /\ AckInv => AckedNotLost
  BY DEF AckInv, FileRecalls, Recalls, AckedNotLost
<1>2. Inv /\ AckInv /\ [Next]_vars => AckInv'
  BY AckNext
<1>. QED BY <1>1, <1>2, InvAlways, AckInit, PTL DEF Spec

----------------------------------------------------------------------------
(* Growth and refinement, while power holds.  The log is then its kept     *)
(* links (those of its ended lines) and, behind them, at most one line     *)
(* more: torn, or a whole link that lacks its newline, or what an append   *)
(* behind such a link made of it, and then the log is broken for good.     *)

PowerHolds == ~PowerMayFail

Links == Committed(file)

Kept == Settled(file)

(* A change that still fits the hansa when it is appended to `links`.      *)
Fits(body, links) == body.kind = "admit" => links # <<>> /\ body.dim = DimOf(links)

(* l is what found or append_next signs on `links`.                        *)
SignedOn(links, l) ==
  \/ links = <<>> /\ \E d \in Dim : l = GenesisLink(Owner, d)
  \/ /\ links # <<>>
     /\ \E b \in Change :
          /\ Fits(b, links)
          /\ l = Signed(Owner, HeadSeq(links) + 1, HeadHash(links), b)

Chained(links) == links \in Seq(Link) /\ (links = <<>> \/ Valid(links, Owner))

(* The last line is a link without its newline.                            *)
EndsIn(l) ==
  ~file.eol /\ l \in Link /\ SignedOn(Kept, l) /\ file.lines = Append(Kept, l)

GrowInv ==
  /\ Chained(Kept)
  /\ \/ file.eol /\ file.lines = Kept
     \/ file.lines = Append(Kept, Malformed)
     \/ \E l \in Link : EndsIn(l)
  /\ \A p \in Proc :
       /\ call[p] # None /\ call[p].kind = "append" =>
            Broken(file) \/ Fits(call[p].body, Links)
       /\ pc[p] = "write" => Readable(file) /\ SignedOn(Links, line[p])
       /\ pc[p] = "writing" =>
            /\ ~file.eol /\ SignedOn(Kept, line[p])
            /\ file.lines \in {Append(Kept, Malformed), Append(Kept, line[p])}
       /\ pc[p] = "rename" => /\ Readable(file) /\ Links # <<>>
                              /\ root[p] = CheckpointOf(Owner, Links)

(* How a sequence of links may move: by a signed link, or by a compaction. *)
Moves(old, new) ==
  \/ new = old
  \/ \E l \in Link : SignedOn(old, l) /\ new = Append(old, l)
  \/ old # <<>> /\ new = <<CheckpointOf(Owner, old)>>

(* A compaction that takes in a link which lacked its newline.             *)
TakesIn(old, new) ==
  \E l \in Link : /\ SignedOn(old, l)
                  /\ new = <<CheckpointOf(Owner, Append(old, l))>>

(* All that happens to the kept links and to those a reader can parse.     *)
LogMove ==
  /\ Moves(Kept, Kept') \/ TakesIn(Kept, Kept')
  /\ Moves(Links, Links') \/ Broken(file')
  /\ Broken(file) => Broken(file')

LEMMA CommittedPrefix ==
  ASSUME NEW f, f.lines \in Seq(Link \cup {Malformed}), NEW n \in 0..Len(f.lines),
         \A i \in 1..n : f.lines[i] # Malformed,
         n = Len(f.lines) \/ f.lines[n + 1] = Malformed
  PROVE  Committed(f) = SubSeq(f.lines, 1, n)
<1>. DEFINE IsIt(m) == /\ \A i \in 1..m : f.lines[i] # Malformed
                       /\ m = Len(f.lines) \/ f.lines[m + 1] = Malformed
<1>1. \A m \in 0..Len(f.lines) : IsIt(m) => m = n
  <2>. SUFFICES ASSUME NEW m \in 0..Len(f.lines), IsIt(m), m # n PROVE FALSE
    OBVIOUS
  <2>1. m \in Int /\ n \in Int /\ Len(f.lines) \in Nat
    OBVIOUS
  <2>2. CASE m < n
    <3>1. m + 1 \in 1..n /\ m # Len(f.lines)
      BY <2>1, <2>2
    <3>. QED BY <3>1
  <2>3. CASE n < m
    <3>1. n + 1 \in 1..m /\ n # Len(f.lines)
      BY <2>1, <2>3
    <3>. QED BY <3>1
  <2>. QED BY <2>1, <2>2, <2>3
<1>2. IsIt(n)
  OBVIOUS
<1>3. (CHOOSE m \in 0..Len(f.lines) : IsIt(m)) = n
  <2>. HIDE DEF IsIt
  <2>. QED BY <1>1, <1>2
<1>. QED BY <1>3 DEF Committed

LEMMA CommittedOfLinks ==
  ASSUME NEW f, NEW links \in Seq(Link),
         f.lines = links \/ f.lines = Append(links, Malformed)
  PROVE  Committed(f) = links
<1>1. Len(links) \in Nat /\ \A i \in 1..Len(links) : links[i] \in Link
  OBVIOUS
<1>2. links \in Seq(Link \cup {Malformed})
  OBVIOUS
<1>3. CASE f.lines = links
  <2>1. Committed(f) = SubSeq(links, 1, Len(links))
    BY <1>1, <1>2, <1>3, CommittedPrefix, RegistryAssumption
  <2>. QED BY <2>1, <1>2
<1>4. CASE f.lines = Append(links, Malformed)
  <2>1. /\ f.lines \in Seq(Link \cup {Malformed}) /\ Len(f.lines) = Len(links) + 1
        /\ f.lines[Len(links) + 1] = Malformed
        /\ \A i \in 1..Len(links) : f.lines[i] = links[i]
    BY <1>2, <1>4
  <2>2. Committed(f) = SubSeq(f.lines, 1, Len(links))
    BY <1>1, <2>1, CommittedPrefix, RegistryAssumption
  <2>3. SubSeq(Append(links, Malformed), 1, Len(links)) = links
    BY <1>2
  <2>. QED BY <1>4, <2>2, <2>3
<1>. QED BY <1>3, <1>4

LEMMA FrontOfAppend ==
  ASSUME NEW kept \in Seq(Link), NEW x, NEW lines, lines = Append(kept, x)
  PROVE  /\ SubSeq(lines, 1, Len(lines) - 1) = kept
         /\ Len(lines) = Len(kept) + 1 /\ lines[Len(kept) + 1] = x
<1>1. kept \in Seq(Link \cup {x})
  OBVIOUS
<1>2. SubSeq(Append(kept, x), 1, Len(Append(kept, x)) - 1) = kept
  BY <1>1
<1>. QED BY <1>1, <1>2

(* What the shapes of a log keep, and what its reader parses.              *)
LEMMA KeptOf ==
  ASSUME NEW f, NEW kept \in Seq(Link)
  PROVE  /\ f.eol /\ f.lines = kept => Settled(f) = kept /\ Committed(f) = kept
         /\ f.lines = Append(kept, Malformed) =>
              Settled(f) = kept /\ Committed(f) = kept /\ ~Readable(f)
         /\ \A l \in Link : ~f.eol /\ f.lines = Append(kept, l) =>
              Settled(f) = kept /\ Committed(f) = Append(kept, l)
<1>. DEFINE e == EndedLines(f)
<1>1. CASE f.eol /\ f.lines = kept
  <2>1. e.lines = kept
    BY <1>1 DEF EndedLines
  <2>2. kept # Append(kept, Malformed)
    <3>1. Len(Append(kept, Malformed)) = Len(kept) + 1
      OBVIOUS
    <3>. QED BY <3>1
  <2>. QED BY <1>1, <2>1, <2>2, CommittedOfLinks DEF Settled
<1>2. ASSUME f.lines = Append(kept, Malformed)
      PROVE  Settled(f) = kept /\ Committed(f) = kept /\ ~Readable(f)
  <2>1. /\ Len(f.lines) = Len(kept) + 1
        /\ f.lines[Len(kept) + 1] = Malformed
        /\ SubSeq(f.lines, 1, Len(f.lines) - 1) = kept
    BY <1>2, FrontOfAppend
  <2>2. e.lines = f.lines \/ e.lines = kept
    BY <2>1 DEF EndedLines
  <2>. HIDE DEF e
  <2>3. Committed(e) = kept /\ Committed(f) = kept
    BY <1>2, <2>2, CommittedOfLinks
  <2>4. ~Readable(f)
    BY <2>1 DEF Readable
  <2>. QED BY <2>3, <2>4 DEF Settled, e
<1>3. ASSUME NEW l \in Link, ~f.eol, f.lines = Append(kept, l)
      PROVE  Settled(f) = kept /\ Committed(f) = Append(kept, l)
  <2>1. e.lines = kept
    BY <1>3, FrontOfAppend DEF EndedLines
  <2>2. Append(kept, l) \in Seq(Link)
    OBVIOUS
  <2>. HIDE DEF e
  <2>3. Committed(e) = kept
    BY <2>1, CommittedOfLinks
  <2>. QED BY <1>3, <2>2, <2>3, CommittedOfLinks DEF Settled, e
<1>. QED BY <1>1, <1>2, <1>3

(* What SignedOn signs extends the chain.                                  *)
LEMMA SignedOnOk ==
  ASSUME NEW links \in Seq(Link), links = <<>> \/ Valid(links, Owner),
         NEW l, SignedOn(links, l)
  PROVE  l \in Link /\ Append(links, l) \in Seq(Link) /\ Valid(Append(links, l), Owner)
<1>1. CASE links = <<>>
  <2>1. PICK d \in Dim : l = GenesisLink(Owner, d)
    BY <1>1 DEF SignedOn
  <2>2. l \in Link /\ WillBeOk(Append(<<>>, l))
    BY <2>1, FoundedOk
  <2>. QED BY <1>1, <2>2 DEF WillBeOk
<1>2. CASE links # <<>>
  <2>1. PICK b \in Change : l = Signed(Owner, HeadSeq(links) + 1, HeadHash(links), b)
    BY <1>2 DEF SignedOn
  <2>2. l \in Link /\ ExtendsOk(l, HeadLink(links), links[1].signer)
    BY <1>2, <2>1, NextLinkType, SignedExtends, RegistryAssumption
  <2>. QED BY <1>2, <2>2, ValidExtends
<1>. QED BY <1>1, <1>2

(* A link more keeps the hansa's dimension.                                *)
LEMMA DimKept ==
  ASSUME NEW links \in Seq(Link), links # <<>>, NEW l
  PROVE  DimOf(Append(links, l)) = DimOf(links) /\ Append(links, l) # <<>>
BY DEF DimOf

(* Under GrowInv, what a reader parses is a chain: the kept links, or they *)
(* and one link more.                                                      *)
LEMMA Shapes ==
  ASSUME GrowInv
  PROVE  /\ Chained(Links)
         /\ Readable(file) => file.lines = Links
         /\ file.eol /\ Readable(file) => Kept = Links
         /\ Links = Kept \/ \E l \in Link : EndsIn(l) /\ Links = Append(Kept, l)
         /\ file.lines = <<>> => file.eol
<1>0. Chained(Kept)
  BY DEF GrowInv
<1>1. CASE file.eol /\ file.lines = Kept
  <2>1. Links = Kept /\ file.lines = Links
    BY <1>0, <1>1, KeptOf DEF Links, Chained
  <2>. QED BY <1>0, <1>1, <2>1
<1>2. CASE file.lines = Append(Kept, Malformed)
  <2>1. Links = Kept /\ ~Readable(file)
    BY <1>0, <1>2, KeptOf DEF Links, Chained
  <2>2. file.lines # <<>>
    BY <1>0, <1>2 DEF Chained
  <2>. QED BY <1>0, <2>1, <2>2
<1>3. ASSUME NEW l \in Link, EndsIn(l)
      PROVE  /\ Chained(Links) /\ file.lines = Links /\ ~file.eol
             /\ Links = Append(Kept, l) /\ file.lines # <<>>
  <2>1. Links = Append(Kept, l) /\ file.lines = Links /\ ~file.eol
    BY <1>0, <1>3, KeptOf DEF Links, Chained, EndsIn
  <2>2. Links \in Seq(Link) /\ Valid(Links, Owner)
    BY <1>0, <1>3, <2>1, SignedOnOk DEF EndsIn, Chained
  <2>3. Links # <<>>
    BY <1>0, <2>1 DEF Chained
  <2>. QED BY <2>1, <2>2, <2>3 DEF Chained
<1>4. CASE \E l \in Link : EndsIn(l)
  <2>1. PICK l \in Link : EndsIn(l)
    BY <1>4
  <2>. QED BY <1>3, <2>1
<1>. QED BY <1>1, <1>2, <1>4 DEF GrowInv

LEMMA GrowInit == Init => GrowInv
<1>. SUFFICES ASSUME Init PROVE GrowInv
  OBVIOUS
<1>1. file.lines = <<>> /\ file.eol /\ <<>> \in Seq(Link)
  BY DEF Init, EmptyFile
<1>2. Kept = <<>>
  BY <1>1, KeptOf DEF Kept
<1>. QED BY <1>1, <1>2 DEF Init, GrowInv, Chained

(* A step that leaves the log alone and signs nothing.                     *)
LEMMA GrowQuiet ==
  ASSUME GrowInv, UNCHANGED file,
         \A p \in Proc :
           /\ \/ call'[p] \in {call[p], None}
              \/ call'[p].kind = "append" => Fits(call'[p].body, Links)
           /\ pc'[p] \in {"write", "writing", "rename"} =>
                pc'[p] = pc[p] /\ line'[p] = line[p] /\ root'[p] = root[p]
  PROVE  GrowInv' /\ LogMove
<1>1. /\ Links' = Links /\ Kept' = Kept
      /\ Broken(file)' = Broken(file) /\ Readable(file)' = Readable(file)
      /\ \A l \in Link : EndsIn(l)' = EndsIn(l)
  BY DEF Links, Kept, EndsIn
<1>2. LogMove
  BY <1>1 DEF LogMove, Moves
<1>3. Chained(Kept)'
  BY <1>1 DEF GrowInv
<1>4. (\/ file.eol /\ file.lines = Kept
       \/ file.lines = Append(Kept, Malformed)
       \/ \E l \in Link : EndsIn(l))'
  BY <1>1 DEF GrowInv
<1>. QED BY <1>1, <1>2, <1>3, <1>4 DEF GrowInv

LEMMA GrowCalls ==
  ASSUME Inv, GrowInv, NEW p \in Proc, Calls(p) \/ Acquire(p)
  PROVE  GrowInv' /\ LogMove
<1>1. CASE CallMembers(p)
  BY <1>1, GrowQuiet DEF CallMembers, vars
<1>2. CASE Acquire(p)
  BY <1>2, GrowQuiet DEF Acquire, Inv, TypeOK
<1>3. ASSUME NEW c \in Call, Begin(p, c), c.kind = "append" => Fits(c.body, Links)
      PROVE  GrowInv' /\ LogMove
  BY <1>3, GrowQuiet DEF Begin, Inv, TypeOK
<1>4. CASE CallFound(p) \/ CallCompact(p)
  <2>1. PICK c \in {[kind |-> "found"], [kind |-> "compact"]} : Begin(p, c)
    BY <1>4 DEF CallFound, CallCompact
  <2>2. c \in Call /\ c.kind # "append"
    BY DEF Call
  <2>. QED BY <1>3, <2>1, <2>2
<1>5. ASSUME NEW t \in Tenant, CallRevoke(p, t)
      PROVE  GrowInv' /\ LogMove
  <2>. DEFINE c == [kind |-> "append", body |-> [kind |-> "revoke", tenant |-> t]]
  <2>1. c \in Call /\ Fits(c.body, Links)
    BY DEF Call, Change, Fits
  <2>. QED BY <1>3, <1>5, <2>1 DEF CallRevoke
<1>6. ASSUME NEW t \in Tenant, NEW d \in Dim, CallAdmit(p, t, d)
      PROVE  GrowInv' /\ LogMove
  <2>. DEFINE c == [kind |-> "append",
                    body |-> [kind |-> "admit", tenant |-> t, dim |-> d]]
  <2>1. c \in Call
    BY DEF Call, Change
  <2>2. file.lines = Links /\ Links # <<>> /\ d = DimOf(Links)
    BY <1>6, Shapes DEF CallAdmit, Valid
  <2>. QED BY <1>3, <1>6, <2>1, <2>2 DEF CallAdmit, Fits
<1>. QED BY <1>1, <1>2, <1>4, <1>5, <1>6 DEF Calls

(* Every return, early or late, and every death.                           *)
LEMMA GrowForget ==
  ASSUME Inv, GrowInv, NEW p \in Proc, Forget(p), UNCHANGED file
  PROVE  GrowInv' /\ LogMove
<1>1. \A q \in Proc :
        /\ call'[q] \in {call[q], None}
        /\ pc'[q] \in {"write", "writing", "rename"} =>
             pc'[q] = pc[q] /\ line'[q] = line[q] /\ root'[q] = root[q]
  BY DEF Forget, Inv, TypeOK
<1>. QED BY <1>1, GrowQuiet

LEMMA GrowReturns ==
  ASSUME Inv, GrowInv, NEW p \in Proc,
         \/ FoundNothingToDo(p) \/ AppendRefused(p) \/ WriteFails(p) \/ SyncReturn(p)
         \/ CheckpointRefused(p) \/ CheckpointNothingToDo(p) \/ CheckpointFails(p)
         \/ Crash(p)
  PROVE  GrowInv' /\ LogMove
<1>1. Forget(p) /\ UNCHANGED file
  BY DEF FoundNothingToDo, AppendRefused, WriteFails, SyncReturn, CheckpointRefused,
         CheckpointNothingToDo, CheckpointFails, Crash, Return, ReturnOk
<1>. QED BY <1>1, GrowForget

LEMMA GrowSync ==
  ASSUME Inv, GrowInv, NEW p \in Proc, SyncThenCheckpoint(p)
  PROVE  GrowInv' /\ LogMove
BY GrowQuiet DEF SyncThenCheckpoint, Inv, TypeOK

(* A step of p, which holds the lock, that leaves the log alone and signs. *)
LEMMA GrowSigns ==
  ASSUME Inv, GrowInv, NEW p \in Proc, UNCHANGED <<file, call>>,
         \A q \in Proc : q # p => pc'[q] \in {"idle", "lock"},
         Readable(file),
         \/ pc'[p] = "write" /\ SignedOn(Links, line'[p])
         \/ /\ pc'[p] = "rename" /\ Links # <<>>
            /\ root'[p] = CheckpointOf(Owner, Links)
  PROVE  GrowInv' /\ LogMove
<1>1. /\ Links' = Links /\ Kept' = Kept
      /\ Broken(file)' = Broken(file) /\ Readable(file)' = Readable(file)
      /\ \A l \in Link : EndsIn(l)' = EndsIn(l)
  BY DEF Links, Kept, EndsIn
<1>2. LogMove
  BY <1>1 DEF LogMove, Moves
<1>3. Chained(Kept)'
  BY <1>1 DEF GrowInv
<1>4. (\/ file.eol /\ file.lines = Kept
       \/ file.lines = Append(Kept, Malformed)
       \/ \E l \in Link : EndsIn(l))'
  BY <1>1 DEF GrowInv
<1>. QED BY <1>1, <1>2, <1>3, <1>4 DEF GrowInv

LEMMA GrowSign ==
  ASSUME Inv, GrowInv, NEW p \in Proc, FoundSign(p) \/ AppendSign(p)
  PROVE  GrowInv' /\ LogMove
<1>1. /\ UNCHANGED <<file, call, root>> /\ pc' = [pc EXCEPT ![p] = "write"]
      /\ pc[p] = "locked" /\ pc[p] \in UnderLock
  BY DEF FoundSign, AppendSign, UnderLock
<1>2. Readable(file) /\ SignedOn(Links, line'[p])
  <2>1. CASE FoundSign(p)
    <3>1. Readable(file)
      BY <2>1 DEF FoundSign, Readable
    <3>2. Links = <<>>
      BY <2>1, <3>1, Shapes DEF FoundSign
    <3>3. line'[p] = GenesisLink(Owner, LocalDim[p]) /\ LocalDim[p] \in Dim
      BY <2>1, RegistryAssumption DEF FoundSign, Inv, TypeOK
    <3>. QED BY <3>1, <3>2, <3>3 DEF SignedOn
  <2>2. CASE AppendSign(p)
    <3>1. Readable(file) /\ file.lines = Links /\ Links # <<>>
      BY <2>2, Shapes DEF AppendSign, Replayable, Valid
    <3>2. call[p] # None /\ call[p] \in Call /\ call[p].kind = "append"
      BY <1>1, <2>2 DEF AppendSign, Inv, TypeOK, ChainInv, CallInv
    <3>3. call[p].body \in Change /\ Fits(call[p].body, Links)
      BY <3>1, <3>2 DEF Call, GrowInv, Broken
    <3>4. line'[p] = Signed(Owner, HeadSeq(Links) + 1, HeadHash(Links), call[p].body)
      BY <2>2, <3>1 DEF AppendSign, Inv, TypeOK
    <3>. QED BY <3>1, <3>3, <3>4 DEF SignedOn
  <2>. QED BY <2>1, <2>2
<1>3. \A q \in Proc : q # p => pc'[q] = pc[q] /\ pc[q] \in {"idle", "lock"}
  BY <1>1, Alone DEF Inv, TypeOK
<1>4. pc'[p] = "write"
  BY <1>1 DEF Inv, TypeOK
<1>. QED BY <1>1, <1>2, <1>3, <1>4, GrowSigns

(* A step of p, which holds the lock, to a log of another shape.           *)
LEMMA GrowWrites ==
  ASSUME GrowInv, NEW p \in Proc, UNCHANGED <<call, line>>,
         \A q \in Proc : q # p => pc'[q] \in {"idle", "lock"},
         pc'[p] \in {"writing", "sync"},
         Chained(Kept'),
         \/ file'.eol /\ file'.lines = Kept'
         \/ file'.lines = Append(Kept', Malformed)
         \/ \E l \in Link : EndsIn(l)',
         \/ Broken(file')
         \/ \A b : ~Broken(file) /\ Fits(b, Links) => Fits(b, Links'),
         Broken(file) => Broken(file'),
         pc'[p] = "writing" =>
           /\ ~file'.eol /\ SignedOn(Kept', line[p])
           /\ file'.lines \in {Append(Kept', Malformed), Append(Kept', line[p])}
  PROVE  GrowInv'
<1>1. Chained(Kept)' /\ Broken(file)' = Broken(file')
  BY DEF Chained, Valid, RootOk
<1>. QED BY <1>1 DEF GrowInv

(* The line begins, torn or whole, and is not ended.                       *)
LEMMA GrowWriteStart ==
  ASSUME Inv, GrowInv, NEW p \in Proc, WriteStart(p)
  PROVE  GrowInv' /\ LogMove
<1>1. /\ pc[p] = "write" /\ pc[p] \in UnderLock /\ file.eol /\ Readable(file)
      /\ file.lines = Kept /\ Links = Kept /\ SignedOn(Kept, line[p])
      /\ Chained(Kept)
  BY Shapes DEF WriteStart, GrowInv, UnderLock
<1>2. line[p] \in Link
  BY <1>1, SignedOnOk DEF Chained
<1>3. PICK seen \in {Malformed, line[p]} : file' = StartLine(file, seen)
  BY DEF WriteStart
<1>4. file'.lines = Append(Kept, seen) /\ ~file'.eol
  BY <1>1, <1>3 DEF StartLine
<1>5. Kept' = Kept /\ Links' = IF seen = Malformed THEN Kept ELSE Append(Kept, line[p])
  <2>1. Kept \in Seq(Link) /\ line[p] # Malformed
    BY <1>1, <1>2, RegistryAssumption DEF Chained
  <2>2. CASE seen = Malformed
    BY <1>4, <2>1, <2>2, KeptOf DEF Kept, Links
  <2>3. CASE seen = line[p]
    BY <1>2, <1>4, <2>1, <2>3, KeptOf DEF Kept, Links
  <2>. QED BY <1>3, <2>2, <2>3
<1>6. /\ UNCHANGED <<call, line, root>> /\ pc'[p] = "writing"
      /\ \A q \in Proc : q # p => pc'[q] \in {"idle", "lock"}
  BY <1>1, Alone DEF WriteStart, Inv, TypeOK
<1>7. ~Broken(file)
  BY <1>1 DEF Broken
<1>8. \A b : Fits(b, Links) => Fits(b, Links')
  BY <1>1, <1>5, DimKept DEF Fits, Chained
<1>9. \/ file'.lines = Append(Kept', Malformed)
      \/ \E l \in Link : EndsIn(l)'
  BY <1>1, <1>2, <1>3, <1>4, <1>5, <1>6 DEF EndsIn
<1>10. LogMove
  BY <1>1, <1>2, <1>5, <1>7 DEF LogMove, Moves
<1>11. /\ Chained(Kept') /\ SignedOn(Kept', line[p])
       /\ file'.lines \in {Append(Kept', Malformed), Append(Kept', line[p])}
  BY <1>1, <1>3, <1>4, <1>5
<1>. QED BY <1>4, <1>6, <1>7, <1>8, <1>9, <1>10, <1>11, GrowWrites

(* Behind a link without its newline, both are lost and the log is broken. *)
LEMMA GrowWriteJoined ==
  ASSUME Inv, GrowInv, NEW p \in Proc, WriteJoined(p)
  PROVE  GrowInv' /\ LogMove
<1>1. /\ pc[p] = "write" /\ pc[p] \in UnderLock /\ ~file.eol /\ Readable(file)
      /\ Chained(Kept)
  BY DEF WriteJoined, GrowInv, UnderLock
<1>2. PICK l \in Link : file.lines = Append(Kept, l)
  BY <1>1, KeptOf DEF GrowInv, EndsIn, Chained
<1>3. file'.lines = Append(Kept, Malformed) /\ file'.eol
  BY <1>1, <1>2, FrontOfAppend DEF WriteJoined, EndLine, Chained
<1>4. Kept' = Kept /\ ~Readable(file')
  BY <1>1, <1>3, KeptOf DEF Kept, Chained
<1>5. /\ UNCHANGED <<call, line, root>> /\ pc'[p] = "sync"
      /\ \A q \in Proc : q # p => pc'[q] \in {"idle", "lock"}
  BY <1>1, Alone DEF WriteJoined, Inv, TypeOK
<1>6. Broken(file')
  BY <1>3, <1>4 DEF Broken
<1>7. LogMove
  BY <1>4, <1>6 DEF LogMove, Moves
<1>8. Chained(Kept') /\ file'.lines = Append(Kept', Malformed)
  BY <1>1, <1>3, <1>4
<1>. QED BY <1>5, <1>6, <1>7, <1>8, GrowWrites

(* Its newline commits the line.                                           *)
LEMMA GrowWriteEnd ==
  ASSUME Inv, GrowInv, NEW p \in Proc, WriteEnd(p)
  PROVE  GrowInv' /\ LogMove
<1>1. /\ pc[p] = "writing" /\ pc[p] \in UnderLock /\ ~file.eol
      /\ file.lines \in {Append(Kept, Malformed), Append(Kept, line[p])}
      /\ SignedOn(Kept, line[p]) /\ Chained(Kept)
  BY DEF WriteEnd, GrowInv, UnderLock
<1>. DEFINE new == Append(Kept, line[p])
<1>2. line[p] \in Link /\ new \in Seq(Link) /\ Valid(new, Owner)
  BY <1>1, SignedOnOk DEF Chained
<1>3. file'.lines = new /\ file'.eol
  BY <1>1, FrontOfAppend DEF WriteEnd, EndLine, Chained
<1>4. Kept' = new /\ Links' = new
  BY <1>2, <1>3, KeptOf DEF Kept, Links
<1>5. Links = Kept \/ Links = new
  BY <1>1, <1>2, KeptOf DEF Kept, Links, Chained
<1>6. /\ UNCHANGED <<call, line, root>> /\ pc'[p] = "sync"
      /\ \A q \in Proc : q # p => pc'[q] \in {"idle", "lock"}
  BY <1>1, Alone DEF WriteEnd, Inv, TypeOK
<1>7. ~Broken(file)
  BY <1>1 DEF Broken
<1>8. \A b : Fits(b, Links) => Fits(b, Links')
  BY <1>1, <1>4, <1>5, DimKept DEF Fits, Chained
<1>9. LogMove
  BY <1>1, <1>2, <1>4, <1>5, <1>7 DEF LogMove, Moves
<1>10. Chained(Kept') /\ file'.lines = Kept'
  BY <1>2, <1>3, <1>4 DEF Chained
<1>. QED BY <1>3, <1>6, <1>7, <1>8, <1>9, <1>10, GrowWrites

LEMMA GrowCheckpoint ==
  ASSUME Inv, GrowInv, NEW p \in Proc, CheckpointWriteTmp(p) \/ CheckpointRename(p)
  PROVE  GrowInv' /\ LogMove
<1>1. Chained(Links)
  BY Shapes
<1>2. CASE CheckpointWriteTmp(p)
  <2>1. /\ pc[p] \in UnderLock /\ Readable(file) /\ Links # <<>>
        /\ root'[p] = CheckpointOf(Owner, Links) /\ pc'[p] = "rename"
        /\ UNCHANGED <<file, call, line>>
    BY <1>2, Shapes
       DEF CheckpointWriteTmp, Replayable, Valid, UnderLock, Inv, TypeOK
  <2>2. \A q \in Proc : q # p => pc'[q] \in {"idle", "lock"}
    BY <1>2, <2>1, Alone DEF CheckpointWriteTmp, Inv, TypeOK
  <2>. QED BY <2>1, <2>2, GrowSigns
<1>3. CASE CheckpointRename(p)
  <2>. DEFINE c == CheckpointOf(Owner, Links)
  <2>1. /\ pc[p] \in UnderLock /\ Links # <<>> /\ root[p] = c /\ Readable(file)
        /\ file'.lines = <<root[p]>> /\ file'.eol
    BY <1>3 DEF CheckpointRename, GrowInv, UnderLock
  <2>2. c \in Link /\ Valid(<<c>>, Owner) /\ DimOf(<<c>>) = DimOf(Links)
    BY <1>1, <2>1, NextLinkType, SignedRoots, RootAlone, CheckpointKeeps,
       RegistryAssumption DEF Chained
  <2>. HIDE DEF c
  <2>3. <<c>> \in Seq(Link) /\ <<c>> # <<>>
    BY <2>2
  <2>4. Kept' = <<c>> /\ Links' = <<c>>
    BY <2>1, <2>3, KeptOf DEF Kept, Links
  <2>5. \A q \in Proc : /\ pc'[q] \in {"idle", "lock"}
                        /\ call'[q] \in {call[q], None}
    BY <1>3, <2>1, Alone DEF CheckpointRename, ReturnOk, Forget, Inv, TypeOK
  <2>6. ASSUME NEW b, Fits(b, Links) PROVE Fits(b, Links')
    BY <2>2, <2>3, <2>4, <2>6 DEF Fits
  <2>7. ~Broken(file)
    BY <2>1 DEF Broken
  <2>8. Moves(Links, Links')
    BY <2>1, <2>4 DEF Moves, c
  <2>9. Moves(Kept, Kept') \/ TakesIn(Kept, Kept')
    <3>1. CASE Links = Kept
      BY <2>4, <2>8, <3>1
    <3>2. ASSUME NEW l \in Link, EndsIn(l), Links = Append(Kept, l)
          PROVE  TakesIn(Kept, Kept')
      BY <2>4, <3>2 DEF TakesIn, EndsIn, c
    <3>. QED BY <3>1, <3>2, Shapes
  <2>10. Chained(Kept)' /\ (file.eol /\ file.lines = Kept)'
    BY <2>1, <2>2, <2>3, <2>4 DEF Chained
  <2>11. \A q \in Proc : call'[q] # None /\ call'[q].kind = "append" =>
           Fits(call'[q].body, Links')
    BY <2>5, <2>6, <2>7 DEF GrowInv
  <2>. QED BY <2>5, <2>7, <2>8, <2>9, <2>10, <2>11 DEF GrowInv, LogMove
<1>. QED BY <1>2, <1>3

LEMMA GrowNext ==
  ASSUME PowerHolds, Inv, GrowInv, Next
  PROVE  GrowInv' /\ LogMove
<1>1. ~PowerLoss
  BY DEF PowerLoss, PowerHolds
<1>2. PICK p \in Proc : Calls(p) \/ Acquire(p) \/ Step(p) \/ Crash(p)
  BY <1>1 DEF Next
<1>. QED BY <1>2, GrowCalls, GrowReturns, GrowSync, GrowSign, GrowWriteStart,
            GrowWriteJoined, GrowWriteEnd, GrowCheckpoint DEF Step

LEMMA GrowStutter ==
  ASSUME GrowInv, UNCHANGED vars
  PROVE  GrowInv'
BY GrowQuiet DEF vars

LEMMA GrowAlways ==
  ASSUME PowerHolds
  PROVE  Spec => [](Inv /\ GrowInv)
<1>1. Inv /\ GrowInv /\ [Next]_vars => (Inv /\ GrowInv)'
  BY InvNext, GrowNext, GrowStutter
<1>2. Init => Inv /\ GrowInv
  BY InvInit, GrowInit
<1>. QED BY <1>1, <1>2, PTL DEF Spec

(* KeepsAll is transitive.                                                 *)
LEMMA KeepsMore ==
  ASSUME NEW a \in Seq(Content), NEW b \in Seq(Content), NEW c \in Seq(Content),
         KeepsAll(a, b), KeepsAll(b, c)
  PROVE  KeepsAll(a, c)
<1>1. Len(a) \in Nat /\ Len(b) \in Nat /\ Len(c) \in Nat
  OBVIOUS
<1>2. Len(a) <= Len(b) /\ Len(b) <= Len(c) /\ Len(a) <= Len(c)
  BY <1>1 DEF KeepsAll
<1>3. \A i \in 1..Len(a) : a[i] = b[i]
  BY <1>1, <1>2 DEF KeepsAll
<1>4. \A i \in 1..Len(b) : b[i] = c[i]
  BY <1>1, <1>2 DEF KeepsAll
<1>5. \A i \in 1..Len(a) : a[i] = c[i]
  BY <1>1, <1>2, <1>3, <1>4
<1>6. SubSeq(c, 1, Len(a)) = a
  BY <1>1, <1>2, <1>5
<1>. QED BY <1>2, <1>6 DEF KeepsAll

LEMMA KeepsSelf ==
  ASSUME NEW a \in Seq(Content)
  PROVE  KeepsAll(a, a)
BY DEF KeepsAll

(* A link appended behind a chain, or a checkpoint of it, adds a content.  *)
LEMMA LinkGrows ==
  ASSUME NEW old \in Seq(Link), old # <<>>, Valid(old, Owner),
         NEW l \in Link, l.prev = HeadHash(old), NEW new,
         new \in {Append(old, l), <<l>>}
  PROVE  KeepsAll(History(old), History(new)) /\ History(new) \in Seq(Content)
<1>1. History(old) \in Seq(Content)
  BY HistoryType
<1>2. History(new) = Append(History(old), ContentOfLink(l)) /\ ContentOfLink(l) \in Content
  BY HistoryExtends, ContentType
<1>. QED BY <1>1, <1>2 DEF KeepsAll

(* The history of links that move never loses a content.                   *)
LEMMA MoveGrows ==
  ASSUME NEW old, Chained(old), NEW new, Moves(old, new)
  PROVE  KeepsAll(History(old), History(new)) /\ History(new) \in Seq(Content)
<1>1. old \in Seq(Link) /\ History(old) \in Seq(Content)
  BY HistoryType DEF Chained
<1>2. CASE new = old
  BY <1>1, <1>2, KeepsSelf
<1>3. CASE old = <<>> /\ \E l \in Link : new = Append(old, l)
  <2>1. History(old) = <<>>
    BY <1>3 DEF History
  <2>2. new \in Seq(Link)
    BY <1>1, <1>3
  <2>3. History(new) \in Seq(Content)
    BY <2>2, HistoryType
  <2>4. KeepsAll(<<>>, History(new))
    <3>. DEFINE h == History(new)
    <3>. HIDE DEF h
    <3>1. ASSUME h \in Seq(Content) PROVE KeepsAll(<<>>, h)
      <4>1. Len(<<>>) = 0 /\ Len(h) \in Nat /\ SubSeq(h, 1, 0) = <<>>
        BY <3>1
      <4>. QED BY <4>1 DEF KeepsAll
    <3>. QED BY <2>3, <3>1 DEF h
  <2>. QED BY <2>1, <2>3, <2>4
<1>4. ASSUME NEW l \in Link, old # <<>>, SignedOn(old, l), new = Append(old, l)
      PROVE  KeepsAll(History(old), History(new)) /\ History(new) \in Seq(Content)
  <2>1. l.prev = HeadHash(old)
    BY <1>4 DEF SignedOn, Signed
  <2>. QED BY <1>1, <1>4, <2>1, LinkGrows DEF Chained
<1>5. CASE old # <<>> /\ new = <<CheckpointOf(Owner, old)>>
  <2>1. CheckpointOf(Owner, old) \in Link /\ CheckpointOf(Owner, old).prev = HeadHash(old)
    BY <1>1, <1>5, NextLinkType, RegistryAssumption DEF CheckpointOf, Signed, Chained
  <2>. QED BY <1>1, <1>5, <2>1, LinkGrows DEF Chained
<1>. QED BY <1>2, <1>3, <1>4, <1>5 DEF Moves

(* Taking in a link is signing it and then compacting.                     *)
LEMMA TakenIn ==
  ASSUME NEW old, Chained(old), NEW new, TakesIn(old, new)
  PROVE  \E mid : Chained(mid) /\ Moves(old, mid) /\ Moves(mid, new)
<1>1. PICK l \in Link : /\ SignedOn(old, l)
                       /\ new = <<CheckpointOf(Owner, Append(old, l))>>
  BY DEF TakesIn
<1>2. /\ Append(old, l) \in Seq(Link) /\ Valid(Append(old, l), Owner)
      /\ Append(old, l) # <<>>
  <2>1. /\ Append(old, l) \in Seq(Link) /\ Valid(Append(old, l), Owner)
    BY <1>1, SignedOnOk DEF Chained
  <2>. QED BY <2>1 DEF Valid
<1>3. Chained(Append(old, l)) /\ Moves(old, Append(old, l)) /\ Moves(Append(old, l), new)
  BY <1>1, <1>2 DEF Chained, Moves
<1>. QED BY <1>3

(* While power holds, no append, failed write, death or compaction takes a *)
(* link of an ended line out of the history, whatever fragment of a line   *)
(* it leaves, the one that lacks only its newline included; and what a     *)
(* reader has parsed stays part of every chain a later read accepts,       *)
(* because the one append that can take it back breaks the log for good.   *)
THEOREM HistoryNeverShrinks ==
  ASSUME PowerHolds
  PROVE  Spec => HistoryOnlyGrows
<1>. DEFINE Grows ==
       /\ KeepsAll(History(Settled(file)), History(Settled(file')))
       /\ \/ KeepsAll(History(Committed(file)), History(Committed(file')))
          \/ Broken(file')
       /\ Broken(file) => Broken(file')
<1>1. Inv /\ GrowInv /\ [Next]_vars => [Grows]_file
  <2>1. ASSUME Inv, GrowInv, Next PROVE Grows
    <3>1. LogMove /\ Chained(Kept) /\ Chained(Links)
      BY <2>1, GrowNext, Shapes DEF GrowInv
    <3>2. KeepsAll(History(Kept), History(Kept'))
      <4>1. CASE Moves(Kept, Kept')
        BY <3>1, <4>1, MoveGrows
      <4>2. CASE TakesIn(Kept, Kept')
        <5>1. PICK mid : Chained(mid) /\ Moves(Kept, mid) /\ Moves(mid, Kept')
          BY <3>1, <4>2, TakenIn
        <5>2. /\ KeepsAll(History(Kept), History(mid)) /\ History(mid) \in Seq(Content)
              /\ KeepsAll(History(mid), History(Kept')) /\ History(Kept') \in Seq(Content)
          BY <3>1, <5>1, MoveGrows
        <5>3. History(Kept) \in Seq(Content)
          BY <3>1, HistoryType DEF Chained
        <5>. QED BY <5>2, <5>3, KeepsMore
      <4>. QED BY <3>1, <4>1, <4>2 DEF LogMove
    <3>3. KeepsAll(History(Links), History(Links')) \/ Broken(file')
      BY <3>1, MoveGrows DEF LogMove
    <3>. QED BY <3>1, <3>2, <3>3 DEF LogMove, Links, Kept
  <2>2. UNCHANGED vars => UNCHANGED file
    BY DEF vars
  <2>. QED BY <2>1, <2>2
<1>2. Spec => [][Grows]_file
  BY <1>1, GrowAlways, PTL DEF Spec
<1>. QED BY <1>2 DEF HistoryOnlyGrows

----------------------------------------------------------------------------
(* The refinement of Membership.                                           *)

DimIn(links) == IF links = <<>> THEN None ELSE DimOf(links)

ActiveIn(links) == IF links = <<>> THEN NoMembers ELSE Active(links)

(* One link is one change of dimension and members.                        *)
OneChange(old, new) ==
  \/ /\ DimIn(old) = None /\ DimIn(new) \in Dim
     /\ ActiveIn(new) = ActiveIn(old)
  \/ \E t \in Tenant :
       /\ DimIn(old) # None /\ DimIn(new) = DimIn(old)
       /\ \/ ActiveIn(new) = [ActiveIn(old) EXCEPT ![t] = DimIn(old)]
          \/ ActiveIn(new) = [ActiveIn(old) EXCEPT ![t] = None]

NoChange(old, new) == DimIn(new) = DimIn(old) /\ ActiveIn(new) = ActiveIn(old)

LEMMA CompactsNothing ==
  ASSUME NEW old, Chained(old), old # <<>>
  PROVE  NoChange(old, <<CheckpointOf(Owner, old)>>)
BY CheckpointKeeps, RegistryAssumption DEF NoChange, DimIn, ActiveIn, Chained

LEMMA SignedChanges ==
  ASSUME NEW old, Chained(old), NEW l \in Link, SignedOn(old, l)
  PROVE  OneChange(old, Append(old, l))
<1>1. old \in Seq(Link)
  BY DEF Chained
<1>2. CASE old = <<>>
  <2>1. PICK d \in Dim : l = GenesisLink(Owner, d)
    BY <1>2 DEF SignedOn
  <2>2. l.body = [kind |-> "genesis", dim |-> d]
    BY <2>1 DEF GenesisLink, Signed
  <2>3. Append(old, l) = <<l>> /\ <<l>> # <<>>
    <3>1. Append(<<>>, l) = <<l>>
      OBVIOUS
    <3>. QED BY <1>2, <3>1
  <2>4. Active(<<l>>) = NoMembers
    BY <2>2, ActiveOfRoot DEF RootMembers
  <2>5. DimOf(<<l>>) = d
    BY <2>2 DEF DimOf
  <2>. QED BY <1>2, <2>3, <2>4, <2>5 DEF OneChange, DimIn, ActiveIn
<1>3. CASE old # <<>>
  <2>0. Valid(old, Owner)
    BY <1>3 DEF Chained
  <2>1. PICK b \in Change :
          Fits(b, old) /\ l = Signed(Owner, HeadSeq(old) + 1, HeadHash(old), b)
    BY <1>3 DEF SignedOn
  <2>2. /\ l.body = b /\ b.tenant \in Tenant /\ b.kind \in {"admit", "revoke"}
        /\ b.kind = "admit" => b.dim = DimOf(old)
    BY <2>1 DEF Signed, Change, Fits
  <2>3. DimOf(old) # None
    BY <1>1, <1>3, <2>0, ChainEnds, NoneAssumption
  <2>4. DimOf(Append(old, l)) = DimOf(old) /\ Append(old, l) # <<>>
    BY <1>1, <1>3, DimKept
  <2>5. Active(Append(old, l)) = [t \in Tenant |-> IF Names(b, t) THEN Outcome(b)
                                                  ELSE Active(old)[t]]
    BY <1>1, <1>3, <2>0, <2>2, ActiveExtends
  <2>6. Active(old) \in Members
    BY <1>1, <1>3, <2>0, ActiveType
  <2>7. Active(Append(old, l)) = [Active(old) EXCEPT ![b.tenant] = Outcome(b)]
    BY <2>2, <2>5, <2>6 DEF Names, Members
  <2>8. Outcome(b) = IF b.kind = "admit" THEN DimOf(old) ELSE None
    BY <2>2 DEF Outcome
  <2>. QED BY <1>3, <2>2, <2>3, <2>4, <2>7, <2>8 DEF OneChange, DimIn, ActiveIn
<1>. QED BY <1>2, <1>3

LEMMA MoveChanges ==
  ASSUME NEW old, Chained(old), NEW new, Moves(old, new) \/ TakesIn(old, new)
  PROVE  OneChange(old, new) \/ NoChange(old, new)
<1>1. CASE new = old
  BY <1>1 DEF NoChange
<1>2. ASSUME NEW l \in Link, SignedOn(old, l), new = Append(old, l)
      PROVE  OneChange(old, new)
  BY <1>2, SignedChanges
<1>3. CASE old # <<>> /\ new = <<CheckpointOf(Owner, old)>>
  BY <1>3, CompactsNothing
<1>4. ASSUME NEW l \in Link, SignedOn(old, l),
             new = <<CheckpointOf(Owner, Append(old, l))>>
      PROVE  OneChange(old, new)
  <2>. DEFINE mid == Append(old, l)
  <2>1. Chained(mid) /\ mid # <<>>
    BY <1>4, SignedOnOk DEF Chained
  <2>2. OneChange(old, mid)
    BY <1>4, SignedChanges
  <2>. HIDE DEF mid
  <2>3. NoChange(mid, new)
    BY <1>4, <2>1, CompactsNothing DEF mid
  <2>. QED BY <2>2, <2>3 DEF OneChange, NoChange
<1>. QED BY <1>1, <1>2, <1>3, <1>4 DEF Moves, TakesIn

LEMMA MoveRefines ==
  ASSUME GrowInv, LogMove
  PROVE  [Abstract!Next]_Abstract!vars
<1>1. OneChange(Kept, Kept') \/ NoChange(Kept, Kept')
  BY MoveChanges DEF GrowInv, LogMove
<1>2. CASE OneChange(Kept, Kept')
  <2>1. CASE /\ DimIn(Kept) = None /\ DimIn(Kept') \in Dim
             /\ ActiveIn(Kept') = ActiveIn(Kept)
    <3>1. PICK d \in Dim : DimIn(Kept') = d
      BY <2>1
    <3>2. Abstract!Found(d)
      BY <2>1, <3>1 DEF Abstract!Found, Kept, DimIn, ActiveIn
    <3>. QED BY <3>2 DEF Abstract!Next
  <2>2. ASSUME NEW t \in Tenant, DimIn(Kept) # None, DimIn(Kept') = DimIn(Kept),
               \/ ActiveIn(Kept') = [ActiveIn(Kept) EXCEPT ![t] = DimIn(Kept)]
               \/ ActiveIn(Kept') = [ActiveIn(Kept) EXCEPT ![t] = None]
        PROVE  Abstract!Next
    <3>1. Abstract!Admit(t) \/ Abstract!Revoke(t)
      BY <2>2 DEF Abstract!Admit, Abstract!Revoke, Kept, DimIn, ActiveIn
    <3>. QED BY <3>1 DEF Abstract!Next
  <2>. QED BY <1>2, <2>1, <2>2 DEF OneChange
<1>3. CASE NoChange(Kept, Kept')
  BY <1>3 DEF NoChange, DimIn, ActiveIn, Kept, Abstract!vars
<1>. QED BY <1>1, <1>2, <1>3

(* While power holds, the registry implements Membership: every behaviour  *)
(* of its processes, system call by system call, with deaths and failed    *)
(* writes that leave any fragment of a line, is one of the abstract        *)
(* membership, where the newline of an append (or the compaction that      *)
(* takes in a link without one) is the change and nothing else shows.      *)
THEOREM RegistryImplements ==
  ASSUME PowerHolds
  PROVE  Spec => ImplementsMembership
<1>1. Init => Abstract!Init
  <2>. SUFFICES ASSUME Init PROVE Abstract!Init
    OBVIOUS
  <2>1. Settled(file) = <<>>
    <3>1. file.lines = <<>> /\ file.eol /\ <<>> \in Seq(Link)
      BY DEF Init, EmptyFile
    <3>. QED BY <3>1, KeptOf
  <2>. QED BY <2>1 DEF Abstract!Init, NoMembers
<1>2. Inv /\ GrowInv /\ [Next]_vars => [Abstract!Next]_Abstract!vars
  <2>1. ASSUME Inv, GrowInv, Next PROVE [Abstract!Next]_Abstract!vars
    BY <2>1, GrowNext, MoveRefines
  <2>2. UNCHANGED vars => UNCHANGED Abstract!vars
    BY DEF vars, Abstract!vars
  <2>. QED BY <2>1, <2>2
<1>. QED BY <1>1, <1>2, GrowAlways, PTL DEF Spec, ImplementsMembership, Abstract!Spec
=============================================================================
