---------------------------- MODULE FileRegistry ----------------------------
(***************************************************************************)
(* FileRegistry (registry.rs) for one hansa: processes of one user extend  *)
(* a shared members.log under an advisory lock, compact it, and die or     *)
(* lose power at any point in between.                                     *)
(*                                                                         *)
(* An operation is a call, the lock, and then one step per system call     *)
(* that another process or a crash can separate from the next: the read    *)
(* of the log, the first and the last byte of the append, the fsync, the   *)
(* temporary file of a checkpoint and its rename.  `lines` is the log as   *)
(* read_chain's parser sees it; a fragment of a line reads as Malformed.   *)
(***************************************************************************)
EXTENDS Chain

CONSTANTS
  Proc,             (* processes holding a handle on the hansa             *)
  Owner,            (* the skipper the hansa id is derived from            *)
  LocalDim,         (* embedding dimension of each process's own tenant    *)
  CheckpointAfterLinks,
  Malformed,        (* a line serde_json refuses                           *)
  Fragments,        (* how an unfinished append may look to a reader       *)
  PowerMayFail,     (* whether unsynced data can be lost                   *)
  TmpMayBeLost,     (* whether rename can outlive the data it renames      *)
  HistoryBound      (* no call starts once this many links were signed     *)

Call == [kind : {"found", "compact"}] \cup [kind : {"append"}, body : Change]

ASSUME RegistryAssumption ==
  /\ Owner \in Skipper
  /\ LocalDim \in [Proc -> Dim]
  /\ CheckpointAfterLinks \in Nat \ {0}
  /\ Malformed \notin Link
  /\ None \notin Proc \cup Call \cup Link
  /\ Fragments \subseteq {"torn", "unterminated"}
  /\ PowerMayFail \in BOOLEAN
  /\ TmpMayBeLost \in BOOLEAN
  /\ HistoryBound \in Nat

VARIABLES
  file,     (* members.log: its lines, and whether the last one is ended   *)
  durable,  (* members.log as of its last fsync                            *)
  lock,     (* holder of the advisory lock, or None                        *)
  pc,       (* where each process is in its operation                      *)
  call,     (* the operation it runs                                       *)
  line,     (* the link it appends                                         *)
  root,     (* the checkpoint in its temporary file                        *)
  full,     (* append_next's decision to checkpoint, made on the read      *)
  acked     (* history: contents whose append returned Ok                  *)

vars == <<file, durable, lock, pc, call, line, root, full, acked>>

File == [lines : Seq(Link \cup {Malformed}), eol : BOOLEAN]

EmptyFile == [lines |-> <<>>, eol |-> TRUE]

UnderLock == {"locked", "write", "writing", "sync", "compact", "rename"}

TypeOK ==
  /\ file \in File
  /\ durable \in File
  /\ lock \in Proc \cup {None}
  /\ pc \in [Proc -> {"idle", "lock"} \cup UnderLock]
  /\ call \in [Proc -> Call \cup {None}]
  /\ line \in [Proc -> Link \cup {None}]
  /\ root \in [Proc -> Link \cup {None}]
  /\ full \in [Proc -> BOOLEAN]
  /\ acked \subseteq Content

Init ==
  /\ file = EmptyFile
  /\ durable = EmptyFile
  /\ lock = None
  /\ pc = [p \in Proc |-> "idle"]
  /\ call = [p \in Proc |-> None]
  /\ line = [p \in Proc |-> None]
  /\ root = [p \in Proc |-> None]
  /\ full = [p \in Proc |-> FALSE]
  /\ acked = {}

----------------------------------------------------------------------------
(* The log.                                                                *)

(* read_chain returns Ok(f.lines).                                         *)
Readable(f) == \A i \in 1..Len(f.lines) : f.lines[i] # Malformed

(* read_chain and replay(_, None) both return Ok.                          *)
Replayable(f) == Readable(f) /\ Valid(f.lines, None)

(* The links before the first line that cannot be parsed.                  *)
Committed(f) ==
  SubSeq(f.lines, 1,
         CHOOSE n \in 0..Len(f.lines) :
           /\ \A i \in 1..n : f.lines[i] # Malformed
           /\ n = Len(f.lines) \/ f.lines[n + 1] = Malformed)

(* The links of the lines that were ended.                                 *)
EndedLines(f) ==
  [lines |-> IF f.eol THEN f.lines ELSE SubSeq(f.lines, 1, Len(f.lines) - 1),
   eol |-> TRUE]

Settled(f) == Committed(EndedLines(f))

(* An ended line does not parse: nothing can be read or appended any more. *)
Broken(f) == f.eol /\ ~Readable(f)

ContentOf(l) == [seq |-> l.seq, body |-> l.body, signer |-> l.signer]

StartLine(f, seen) == [lines |-> Append(f.lines, seen), eol |-> FALSE]

EndLine(f, whole) ==
  [lines |-> Append(SubSeq(f.lines, 1, Len(f.lines) - 1), whole), eol |-> TRUE]

----------------------------------------------------------------------------
(* Calls, before the lock.                                                 *)

MayCall(p) ==
  /\ pc[p] = "idle"
  /\ Len(History(Committed(file))) < HistoryBound

Begin(p, c) ==
  /\ MayCall(p)
  /\ pc' = [pc EXCEPT ![p] = "lock"]
  /\ call' = [call EXCEPT ![p] = c]
  /\ UNCHANGED <<file, durable, lock, line, root, full, acked>>

(* Hansa::open of a process that holds the skipper.                        *)
CallFound(p) == Begin(p, [kind |-> "found"])

(* Mutant: admit appends without comparing the dimensions.                 *)
CallAdmitMutant(p, t, d) ==
  /\ Readable(file) /\ Valid(file.lines, Owner)
  /\ Begin(p, [kind |-> "append",
               body |-> [kind |-> "admit", tenant |-> t, dim |-> d]])

(* Hansa::admit checks the dimension on a read it makes without the lock.  *)
CallAdmit(p, t, d) ==
  /\ Readable(file) /\ Valid(file.lines, Owner)
  /\ d = DimOf(file.lines)
  /\ Begin(p, [kind |-> "append",
               body |-> [kind |-> "admit", tenant |-> t, dim |-> d]])

CallRevoke(p, t) ==
  Begin(p, [kind |-> "append", body |-> [kind |-> "revoke", tenant |-> t]])

CallCompact(p) == Begin(p, [kind |-> "compact"])

(* members and read_chain take no lock and change nothing.                 *)
CallMembers(p) == pc[p] = "idle" /\ UNCHANGED vars

----------------------------------------------------------------------------
(* with_lock.                                                              *)

(* Mutant: the lock is not exclusive.                                      *)
AcquireMutant(p) ==
  /\ pc[p] = "lock"
  /\ lock' = p
  /\ pc' = [pc EXCEPT ![p] = IF call[p].kind = "compact" THEN "compact"
                                                         ELSE "locked"]
  /\ UNCHANGED <<file, durable, call, line, root, full, acked>>

Acquire(p) ==
  /\ pc[p] = "lock"
  /\ lock = None
  /\ lock' = p
  /\ pc' = [pc EXCEPT ![p] = IF call[p].kind = "compact" THEN "compact"
                                                         ELSE "locked"]
  /\ UNCHANGED <<file, durable, call, line, root, full, acked>>

(* p's locals after it returned or died.                                   *)
Forget(p) ==
  /\ pc' = [pc EXCEPT ![p] = "idle"]
  /\ call' = [call EXCEPT ![p] = None]
  /\ line' = [line EXCEPT ![p] = None]
  /\ root' = [root EXCEPT ![p] = None]
  /\ full' = [full EXCEPT ![p] = FALSE]

(* The closure's result, Ok or Err, passes through the unlock.             *)
Unlock(p) == lock' = None

(* Mutant: the early return skips the unlock.                              *)
ReturnMutant(p) == Forget(p) /\ UNCHANGED <<lock, durable, acked>>

(* An error, or an Ok that wrote nothing.                                  *)
Return(p) == Unlock(p) /\ Forget(p) /\ UNCHANGED <<durable, acked>>

(* An append that returns Ok is acknowledged.                              *)
Acknowledge(p) ==
  acked' = IF line[p] = None THEN acked ELSE acked \cup {ContentOf(line[p])}

ReturnOk(p) == Unlock(p) /\ Forget(p) /\ Acknowledge(p)

----------------------------------------------------------------------------
(* found and append_next, with the lock.                                   *)

FoundNothingToDo(p) ==
  /\ pc[p] = "locked" /\ call[p].kind = "found"
  /\ file.lines # <<>>
  /\ Return(p)
  /\ UNCHANGED file

FoundSign(p) ==
  /\ pc[p] = "locked" /\ call[p].kind = "found"
  /\ file.lines = <<>>
  /\ line' = [line EXCEPT ![p] = GenesisLink(Owner, LocalDim[p])]
  /\ pc' = [pc EXCEPT ![p] = "write"]
  /\ UNCHANGED <<file, durable, lock, call, root, full, acked>>

AppendRefused(p) ==
  /\ pc[p] = "locked" /\ call[p].kind = "append"
  /\ ~Replayable(file)
  /\ Return(p)
  /\ UNCHANGED file

AppendSign(p) ==
  /\ pc[p] = "locked" /\ call[p].kind = "append"
  /\ Replayable(file)
  /\ line' = [line EXCEPT ![p] =
                Signed(Owner, HeadSeq(file.lines) + 1, HeadHash(file.lines),
                       call[p].body)]
  /\ full' = [full EXCEPT ![p] = Len(file.lines) + 1 > CheckpointAfterLinks]
  /\ pc' = [pc EXCEPT ![p] = "write"]
  /\ UNCHANGED <<file, durable, lock, call, root, acked>>

(* write_all: a reader, a crash or a full disk may see part of it.         *)
WriteStart(p) ==
  /\ pc[p] = "write" /\ file.eol
  /\ \E f \in Fragments :
       file' = StartLine(file, IF f = "torn" THEN Malformed ELSE line[p])
  /\ pc' = [pc EXCEPT ![p] = "writing"]
  /\ UNCHANGED <<durable, lock, call, line, root, full, acked>>

(* Behind a last line that was never ended, the new link becomes the rest  *)
(* of that line, and both are lost to the parser.                          *)
WriteJoined(p) ==
  /\ pc[p] = "write" /\ ~file.eol
  /\ file' = EndLine(file, Malformed)
  /\ pc' = [pc EXCEPT ![p] = "sync"]
  /\ UNCHANGED <<durable, lock, call, line, root, full, acked>>

WriteEnd(p) ==
  /\ pc[p] = "writing"
  /\ file' = EndLine(file, line[p])
  /\ pc' = [pc EXCEPT ![p] = "sync"]
  /\ UNCHANGED <<durable, lock, call, line, root, full, acked>>

(* write_all or sync_all returns an error; what was written stays.         *)
WriteFails(p) ==
  /\ pc[p] \in {"write", "writing", "sync"}
  /\ Return(p)
  /\ UNCHANGED file

(* Mutant: append_link returns without sync_all.                           *)
SyncReturnMutant(p) ==
  /\ pc[p] = "sync" /\ ~full[p]
  /\ ReturnOk(p)
  /\ UNCHANGED <<file, durable>>

SyncReturn(p) ==
  /\ pc[p] = "sync" /\ ~full[p]
  /\ durable' = file
  /\ ReturnOk(p)
  /\ UNCHANGED file

SyncThenCheckpoint(p) ==
  /\ pc[p] = "sync" /\ full[p]
  /\ durable' = file
  /\ pc' = [pc EXCEPT ![p] = "compact"]
  /\ UNCHANGED <<file, lock, call, line, root, full, acked>>

----------------------------------------------------------------------------
(* checkpoint_locked.                                                      *)

CheckpointRefused(p) ==
  /\ pc[p] = "compact"
  /\ ~Readable(file) \/ (Len(file.lines) > 1 /\ ~Replayable(file))
  /\ Return(p)
  /\ UNCHANGED file

CheckpointNothingToDo(p) ==
  /\ pc[p] = "compact"
  /\ Readable(file) /\ Len(file.lines) <= 1
  /\ ReturnOk(p)
  /\ UNCHANGED <<file, durable>>

(* Mutant: the rename comes before the temporary file is written.          *)
CheckpointWriteTmpMutant(p) ==
  /\ pc[p] = "compact"
  /\ Replayable(file) /\ Len(file.lines) > 1
  /\ pc' = [pc EXCEPT ![p] = "rename"]
  /\ UNCHANGED <<file, durable, lock, call, line, root, full, acked>>

CheckpointWriteTmp(p) ==
  /\ pc[p] = "compact"
  /\ Replayable(file) /\ Len(file.lines) > 1
  /\ root' = [root EXCEPT ![p] = CheckpointOf(Owner, file.lines)]
  /\ pc' = [pc EXCEPT ![p] = "rename"]
  /\ UNCHANGED <<file, durable, lock, call, line, full, acked>>

CheckpointRename(p) ==
  /\ pc[p] = "rename"
  /\ file' = [lines |-> <<root[p]>>, eol |-> TRUE]
  /\ ReturnOk(p)
  /\ UNCHANGED durable

(* The temporary file cannot be written or renamed.  append_next returns   *)
(* this error although its link is already in the log.                     *)
CheckpointFails(p) ==
  /\ pc[p] \in {"compact", "rename"}
  /\ Return(p)
  /\ UNCHANGED file

----------------------------------------------------------------------------
(* Faults.                                                                 *)

(* The process dies: the kernel closes its lock file.                      *)
Crash(p) ==
  /\ pc[p] # "idle"
  /\ Forget(p)
  /\ lock' = IF lock = p THEN None ELSE lock
  /\ UNCHANGED <<file, durable, acked>>

(* A checkpoint was renamed over the log, and nothing synced it since.     *)
UnsyncedRename ==
  /\ file.lines # <<>> /\ file.lines[1] # Malformed
  /\ file.lines[1].body.kind = "checkpoint"
  /\ durable.lines # <<>> => file.lines[1] # durable.lines[1]

Survivors ==
  {durable, file}
    \cup (IF TmpMayBeLost /\ UnsyncedRename THEN {EmptyFile} ELSE {})

PowerLoss ==
  /\ PowerMayFail
  /\ \E f \in Survivors : file' = f /\ durable' = f
  /\ lock' = None
  /\ pc' = [p \in Proc |-> "idle"]
  /\ call' = [p \in Proc |-> None]
  /\ line' = [p \in Proc |-> None]
  /\ root' = [p \in Proc |-> None]
  /\ full' = [p \in Proc |-> FALSE]
  /\ UNCHANGED acked

----------------------------------------------------------------------------
(* What p's own code does next once it holds the lock.                     *)
Step(p) ==
  \/ FoundNothingToDo(p) \/ FoundSign(p)
  \/ AppendRefused(p) \/ AppendSign(p)
  \/ WriteStart(p) \/ WriteJoined(p) \/ WriteEnd(p) \/ WriteFails(p)
  \/ SyncReturn(p) \/ SyncThenCheckpoint(p)
  \/ CheckpointRefused(p) \/ CheckpointNothingToDo(p)
  \/ CheckpointWriteTmp(p) \/ CheckpointRename(p) \/ CheckpointFails(p)

Calls(p) ==
  \/ CallFound(p) \/ CallCompact(p) \/ CallMembers(p)
  \/ \E t \in Tenant : CallRevoke(p, t) \/ \E d \in Dim : CallAdmit(p, t, d)

Next ==
  \/ \E p \in Proc : Calls(p) \/ Acquire(p) \/ Step(p) \/ Crash(p)
  \/ PowerLoss

Spec == Init /\ [][Next]_vars

(* A process that holds the lock keeps running until it returns or dies.   *)
FairSpec == Spec /\ \A p \in Proc : WF_vars(Step(p))

----------------------------------------------------------------------------
(* Properties.                                                             *)

(* No fork: whatever found and append_next interleave with, a log that     *)
(* parses is empty or one hash-linked chain of the hansa's own skipper.    *)
FileOk(f) == Readable(f) => f.lines = <<>> \/ Valid(f.lines, Owner)

ChainIntact == FileOk(file)

(* A checkpoint says the truth: the members replay derives from the log,   *)
(* however often it was compacted, are those the whole signed history      *)
(* since the genesis gives (checkpoint_locked, append_next).               *)
ActiveIsHistory ==
  Readable(file) /\ file.lines # <<>> =>
    Active(file.lines) = MembersAfter(NoMembers, History(file.lines))

(* An append that returned Ok is never silently lost: whoever can read the *)
(* log finds it in the history its head commits to, after any crash, power *)
(* loss, compaction or append that follows.                                *)
AckedNotLost ==
  Readable(file) =>
    \A c \in acked : \E i \in 1..Len(History(file.lines)) :
      History(file.lines)[i] = c

(* While power holds, the history only grows.  No append, failed write,    *)
(* death or compaction takes a link of an ended line out of it.  A link    *)
(* seen on a line that was never ended (registry.rs appends the newline    *)
(* with the link, so a death or a full disk may cut just before it) goes   *)
(* only when the next link is joined to that line, and the log can never   *)
(* be read again then.  So what the head cache remembers of an earlier     *)
(* read stays part of every chain a later read accepts.                    *)
KeepsAll(old, new) ==
  Len(old) <= Len(new) /\ SubSeq(new, 1, Len(old)) = old

HistoryOnlyGrows ==
  [][ /\ KeepsAll(History(Settled(file)), History(Settled(file')))
      /\ \/ KeepsAll(History(Committed(file)), History(Committed(file')))
         \/ Broken(file')
      /\ Broken(file) => Broken(file') ]_file

(* The registry implements Membership: the links of its ended lines are    *)
(* the dimension and the members.  A change takes place when its newline   *)
(* is written, or when a compaction takes in a link that lacked one; every *)
(* other step is invisible.  (A reader may see a change earlier, and if    *)
(* its line is never ended lose it again: HistoryOnlyGrows says when.)     *)
Abstract == INSTANCE Membership WITH
  dim <- IF Settled(file) = <<>> THEN None ELSE DimOf(Settled(file)),
  active <- IF Settled(file) = <<>> THEN NoMembers ELSE Active(Settled(file))

ImplementsMembership == Abstract!Spec

(* with_lock lets go on every path, the error paths included: the lock is  *)
(* never held for good.                                                    *)
LockReleased == \A p \in Proc : lock = p ~> lock # p
=============================================================================
