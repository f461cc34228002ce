----------------------------- MODULE HansaOpen -----------------------------
(***************************************************************************)
(* Hansa::open with a head cache (hansa.rs, head_cache.rs): found or find  *)
(* the chain, replay it pinned to the hansa's id, compare its head with    *)
(* the one remembered from an earlier open, remember the new one.          *)
(*                                                                         *)
(* The registry is seen as FileRegistry leaves it whenever it can be read: *)
(* one chain that found, append_next and compact replace atomically.  What *)
(* goes wrong with it here is that its directory is put back to an earlier *)
(* copy.  The processes share one cache directory; its files are seen      *)
(* system call by system call, since nothing locks them and the temporary  *)
(* file is shared as well.                                                 *)
(***************************************************************************)
EXTENDS Chain

CONSTANTS
  Proc,         (* processes that open the hansa                           *)
  Owner,        (* the skipper the hansa id is derived from                *)
  Overlap,      (* whether one open may begin while another runs           *)
  Torn,         (* a head file that does not parse                         *)
  HistoryBound  (* no link is signed once this many were                   *)

(* What the cache keeps of a chain: the number and hash of its head.       *)
HeadRecord == [seq : Nat, hash : Seq(Content)]

HeadOf(history) == [seq |-> Len(history) - 1, hash |-> history]

ASSUME OpenAssumption ==
  /\ Owner \in Skipper
  /\ Overlap \in BOOLEAN
  /\ HistoryBound \in Nat
  /\ None # Torn /\ None \notin HeadRecord /\ Torn \notin HeadRecord

VARIABLES
  log,          (* the registry's chain                                    *)
  mirror,       (* a copy of the registry someone keeps                    *)
  head,         (* <id>.head in the cache directory                        *)
  tmp,          (* <id>.head.tmp beside it                                 *)
  fd,           (* the file each process's open descriptor leads to        *)
  pc,           (* where each process is in open                           *)
  seen,         (* the history of the chain it replayed                    *)
  verified,     (* history: the longest chain an open accepted             *)
  floor,        (* history: `verified` when each open began                *)
  restored      (* history: whether the registry was ever put back         *)

registry == <<log, mirror, restored>>
cache    == <<head, tmp, fd>>
opening  == <<pc, seen, verified, floor>>

vars == <<log, mirror, head, tmp, fd, pc, seen, verified, floor, restored>>

HeadFile == HeadRecord \cup {None, Torn}

TypeOK ==
  /\ log \in Seq(Link) /\ mirror \in Seq(Link)
  /\ head \in HeadFile /\ tmp \in HeadFile
  /\ fd \in [Proc -> {"closed", "tmp", "head", "unlinked"}]
  /\ pc \in [Proc -> {"closed", "read", "check", "store", "write", "rename",
                      "open", "regressed", "unchecked"}]
  /\ seen \in [Proc -> Seq(Content)]
  /\ verified \in Seq(Content)
  /\ floor \in [Proc -> Seq(Content)]
  /\ restored \in BOOLEAN

Init ==
  /\ log = <<>> /\ mirror = <<>> /\ restored = FALSE
  /\ head = None /\ tmp = None
  /\ fd = [p \in Proc |-> "closed"]
  /\ pc = [p \in Proc |-> "closed"]
  /\ seen = [p \in Proc |-> <<>>]
  /\ verified = <<>>
  /\ floor = [p \in Proc |-> <<>>]

----------------------------------------------------------------------------
(* The registry, between and during opens.                                 *)

MayExtend == log # <<>> /\ Len(History(log)) < HistoryBound

Publish(body) ==
  /\ MayExtend
  /\ log' = Append(log, Signed(Owner, HeadSeq(log) + 1, HeadHash(log), body))
  /\ UNCHANGED <<mirror, restored, cache, opening>>

Compact ==
  /\ MayExtend /\ Len(log) > 1
  /\ log' = <<CheckpointOf(Owner, log)>>
  /\ UNCHANGED <<mirror, restored, cache, opening>>

CopyMirror ==
  /\ mirror = <<>> /\ log # <<>>
  /\ mirror' = log
  /\ UNCHANGED <<log, restored, cache, opening>>

RestoreMirror ==
  /\ mirror \notin {<<>>, log}
  /\ log' = mirror /\ restored' = TRUE
  /\ UNCHANGED <<mirror, cache, opening>>

----------------------------------------------------------------------------
(* Hansa::open up to the replay.                                           *)

(* What a caller configures: the skipper it holds, and the id it was told. *)
Config == [skipper : Skipper \cup {None}, id : Skipper \cup {None}]

(* The id of the hansa to open: the skipper's, with which the one given    *)
(* must agree; without a skipper, the one given.                           *)
Resolved(config) ==
  IF config.skipper # None /\ config.id \notin {None, config.skipper} THEN None
  ELSE IF config.skipper # None THEN config.skipper
  ELSE config.id

Begin(p) ==
  /\ pc[p] = "closed"
  /\ Overlap \/ \A q \in Proc : pc[q] \in {"closed", "open", "regressed", "unchecked"}
  /\ pc' = [pc EXCEPT ![p] = "read"]
  /\ floor' = [floor EXCEPT ![p] = verified]
  /\ UNCHANGED <<mirror, restored, cache, seen, verified>>

(* Who holds the skipper founds an empty log.                              *)
FoundOrFind(p) ==
  \E config \in Config :
    /\ config.skipper # None /\ Resolved(config) = Owner
    /\ Begin(p)
    /\ IF log = <<>> THEN \E d \in Dim : log' = <<GenesisLink(config.skipper, d)>>
                     ELSE UNCHANGED log

(* Who only reads requires a founded one.                                  *)
RequireFounded(p) ==
  \E config \in Config :
    /\ config.skipper = None /\ Resolved(config) = Owner
    /\ log # <<>>
    /\ Begin(p)
    /\ UNCHANGED log

(* read_chain again, and replay of what it returns.                        *)
ReadChain(p) ==
  /\ pc[p] = "read"
  /\ Valid(log, Owner)
  /\ seen' = [seen EXCEPT ![p] = History(log)]
  /\ pc' = [pc EXCEPT ![p] = "check"]
  /\ UNCHANGED <<registry, cache, verified, floor>>

(* Without a head_cache_dir that is all.                                   *)
OpenUnchecked(p) ==
  /\ pc[p] = "read"
  /\ Valid(log, Owner)
  /\ seen' = [seen EXCEPT ![p] = History(log)]
  /\ pc' = [pc EXCEPT ![p] = "unchecked"]
  /\ UNCHANGED <<registry, cache, verified, floor>>

----------------------------------------------------------------------------
(* HeadCache::check_and_record.                                            *)

(* Mutant: only the number is compared.                                    *)
RegressedMutant(cached, fresh) == fresh.seq < cached.seq

Regressed(cached, fresh) ==
  \/ fresh.seq < cached.seq
  \/ fresh.seq = cached.seq /\ fresh.hash # cached.hash

CheckPasses(p) ==
  /\ pc[p] = "check"
  /\ head # Torn
  /\ head # None => ~Regressed(head, HeadOf(seen[p]))
  /\ pc' = [pc EXCEPT ![p] = "store"]
  /\ UNCHANGED <<registry, cache, seen, verified, floor>>

(* ChainRegressed.                                                         *)
CheckRefuses(p) ==
  /\ pc[p] = "check"
  /\ head \notin {None, Torn}
  /\ Regressed(head, HeadOf(seen[p]))
  /\ pc' = [pc EXCEPT ![p] = "regressed"]
  /\ UNCHANGED <<registry, cache, seen, verified, floor>>

(* Mutant: the rename does not wait for the write.                         *)
StoreTruncateMutant(p) ==
  /\ pc[p] = "store"
  /\ tmp' = Torn
  /\ fd' = [fd EXCEPT ![p] = "tmp"]
  /\ pc' = [pc EXCEPT ![p] = "rename"]
  /\ UNCHANGED <<registry, head, seen, verified, floor>>

(* fs::write of the temporary file: truncate or create it, then fill it.   *)
StoreTruncate(p) ==
  /\ pc[p] = "store"
  /\ tmp' = Torn
  /\ fd' = [fd EXCEPT ![p] = "tmp"]
  /\ pc' = [pc EXCEPT ![p] = "write"]
  /\ UNCHANGED <<registry, head, seen, verified, floor>>

(* Whoever renamed the file meanwhile did not close our descriptor.        *)
StoreFill(p) ==
  /\ pc[p] = "write"
  /\ tmp' = IF fd[p] = "tmp" THEN HeadOf(seen[p]) ELSE tmp
  /\ head' = IF fd[p] = "head" THEN HeadOf(seen[p]) ELSE head
  /\ fd' = [fd EXCEPT ![p] = "closed"]
  /\ pc' = [pc EXCEPT ![p] = "rename"]
  /\ UNCHANGED <<registry, seen, verified, floor>>

(* What a rename of the temporary file does to the descriptors open on it. *)
AfterRename ==
  [q \in Proc |-> CASE fd[q] = "tmp"  -> "head"
                    [] fd[q] = "head" -> "unlinked"
                    [] OTHER          -> fd[q]]

Longer(h1, h2) == IF Len(h1) > Len(h2) THEN h1 ELSE h2

StoreRename(p) ==
  /\ pc[p] = "rename"
  /\ tmp # None
  /\ head' = tmp /\ tmp' = None
  /\ fd' = AfterRename
  /\ pc' = [pc EXCEPT ![p] = "open"]
  /\ verified' = Longer(verified, seen[p])
  /\ UNCHANGED <<registry, seen, floor>>

----------------------------------------------------------------------------
(* The open fails on an I/O error, on a log it cannot read or a head file  *)
(* it cannot parse, on a temporary file another process renamed away; or   *)
(* the process ends, its handle with it.                                   *)
Close(p) ==
  /\ pc[p] # "closed"
  /\ pc' = [pc EXCEPT ![p] = "closed"]
  /\ fd' = [fd EXCEPT ![p] = "closed"]
  /\ seen' = [seen EXCEPT ![p] = <<>>]
  /\ floor' = [floor EXCEPT ![p] = <<>>]
  /\ UNCHANGED <<registry, head, tmp, verified>>

Step(p) ==
  \/ FoundOrFind(p) \/ RequireFounded(p) \/ ReadChain(p) \/ OpenUnchecked(p)
  \/ CheckPasses(p) \/ CheckRefuses(p)
  \/ StoreTruncate(p) \/ StoreFill(p) \/ StoreRename(p)
  \/ Close(p)

Next ==
  \/ \E p \in Proc : Step(p)
  \/ \E t \in Tenant : \/ Publish([kind |-> "revoke", tenant |-> t])
                       \/ log # <<>> /\ Publish([kind |-> "admit", tenant |-> t,
                                                 dim |-> DimOf(log)])
  \/ Compact \/ CopyMirror \/ RestoreMirror

Spec == Init /\ [][Next]_vars

----------------------------------------------------------------------------
(* Properties.                                                             *)

(* A returning member is not rolled back: an open that succeeds is never   *)
(* on a chain whose head is behind, or beside, the one that some open with *)
(* the same cache had accepted before it began (threat-model.md, "Rollback *)
(* against a returning member").                                           *)
RollbackRefused ==
  \A p \in Proc :
    pc[p] = "open" => /\ Len(seen[p]) >= Len(floor[p])
                      /\ Len(seen[p]) = Len(floor[p]) => seen[p] = floor[p]

(* No false alarm: unless the registry really was put back, no open is     *)
(* refused with ChainRegressed, however it interleaves with changes and    *)
(* compactions; and whoever founds it, with whatever configuration, leaves *)
(* a chain that every member's replay accepts as this hansa's.             *)
NoFalseAlarm ==
  /\ \A p \in Proc : pc[p] = "regressed" => restored
  /\ log # <<>> => Valid(log, Owner)

(* The cache never forgets: however an open fails or dies, the head of the *)
(* last chain accepted stays readable in the cache (store's temporary      *)
(* file), and no open after it can miss it.                                *)
CacheRemembers ==
  verified # <<>> =>
    head \notin {None, Torn} /\ head.seq >= Len(verified) - 1
=============================================================================
