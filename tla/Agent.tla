-------------------------------- MODULE Agent --------------------------------
(***************************************************************************)
(* Agents at work with their hansa.  One, Asker, puts a BundleCache before *)
(* its queries, as cache.rs shows: get, or query, build and insert; while  *)
(* another thread of it writes to the local tenant and calls               *)
(* invalidate_all afterwards.  All of them, threads or processes, keep the *)
(* manifest of a peer in one directory (manifest.rs): a query adds the     *)
(* hits the peer returned, record_useful_hits those found useful, each by  *)
(* reading the file and writing it anew, with no lock and through one      *)
(* temporary file.  A process may die between any two steps.               *)
(***************************************************************************)
EXTENDS BundleCache

CONSTANTS
  Proc,         (* those that query                                        *)
  Asker,        (* the one with a cache                                    *)
  None,         (* no file; nothing asked                                  *)
  Torn,         (* a file that does not parse                              *)
  Trial,        (* TRIAL_RETURNS                                           *)
  HitBound      (* no hit is recorded after this many                      *)

ASSUME AgentAssumption ==
  /\ Asker \in Proc
  /\ None \notin Point \cup {Misfit}
  /\ None \notin [total : Nat, useful : Nat] /\ Torn \notin [total : Nat, useful : Nat]
  /\ None # Torn
  /\ Trial \in Nat \ {0} /\ HitBound \in Nat

VARIABLES
  entries,      (* the cache                                               *)
  asked,        (* the embedding Asker's query under way is for            *)
  got,          (* its bundle: out of date, invalidated while made         *)
  writing,      (* a write to the tenant whose invalidate_all is to come   *)
  file, tmp,    (* <peer>.manifest and <peer>.manifest.tmp                 *)
  fd,           (* the file each process's open descriptor leads to        *)
  pc,           (* where each process is                                   *)
  held,         (* the manifest it is about to write                       *)
  begun, kept,  (* history: hits added in bumps that began, that succeeded *)
  overlapped    (* history: two bumps were under way at once               *)

asking    == <<entries, asked, got, writing>>
manifests == <<file, tmp, fd, held, begun, kept, overlapped>>

vars == <<entries, asked, got, writing, file, tmp, fd, pc, held, begun, kept, overlapped>>

Neutral == [total |-> 0, useful |-> 0]

Manifest == [total : Nat, useful : Nat]

Init ==
  /\ entries = <<>> /\ asked = None /\ writing = FALSE
  /\ got = [old |-> FALSE, late |-> FALSE]
  /\ file = None /\ tmp = None
  /\ fd = [p \in Proc |-> "closed"]
  /\ pc = [p \in Proc |-> "idle"]
  /\ held = [p \in Proc |-> Neutral]
  /\ begun = Neutral /\ kept = Neutral /\ overlapped = FALSE

Goto(p, where) == pc' = [pc EXCEPT ![p] = where]

----------------------------------------------------------------------------
(* Asker and its cache.                                                    *)

(* get: a hit is served and moves to the back.                             *)
Hit(x) ==
  /\ pc[Asker] = "idle"
  /\ LET live == Expired(entries)
     IN  /\ Similar(live, x) # {}
         /\ entries' = Touched(live, Best(live, x))
  /\ UNCHANGED <<asked, got, writing, pc, manifests>>

(* A miss goes on to the query, which sees the tenant as it is now.  A     *)
(* misfit does not even expire.                                            *)
Miss(x) ==
  /\ pc[Asker] = "idle"
  /\ IF x = Misfit THEN UNCHANGED entries
     ELSE /\ Similar(Expired(entries), x) = {}
          /\ entries' = Expired(entries)
  /\ asked' = x
  /\ got' = [old |-> FALSE, late |-> FALSE]
  /\ Goto(Asker, "queried")
  /\ UNCHANGED <<writing, manifests>>

(* The bundle is built and inserted, a misfit's is not.                    *)
Insert ==
  /\ pc[Asker] = "insert"
  /\ entries' = IF asked = Misfit THEN entries
                ELSE Inserted(Expired(entries), asked, got.old, got.late)
  /\ asked' = None
  /\ got' = [old |-> FALSE, late |-> FALSE]
  /\ Goto(Asker, "idle")
  /\ UNCHANGED <<writing, manifests>>

(* A local write dates every bundle made before it.                        *)
Write ==
  /\ ~writing
  /\ writing' = TRUE
  /\ entries' = [i \in DOMAIN entries |-> [entries[i] EXCEPT !.old = TRUE]]
  /\ got' = [got EXCEPT !.old = asked # None]
  /\ UNCHANGED <<asked, pc, manifests>>

(* Mutant: only what has expired is dropped.                               *)
InvalidateAllMutant ==
  /\ writing
  /\ writing' = FALSE
  /\ entries' = Expired(entries)
  /\ got' = [got EXCEPT !.late = asked # None]
  /\ UNCHANGED <<asked, pc, manifests>>

InvalidateAll ==
  /\ writing
  /\ writing' = FALSE
  /\ entries' = <<>>
  /\ got' = [got EXCEPT !.late = asked # None]
  /\ UNCHANGED <<asked, pc, manifests>>

(* len expires too; is_empty asks it.                                      *)
CacheLen ==
  /\ entries' = Expired(entries)
  /\ UNCHANGED <<asked, got, writing, pc, manifests>>

Tick ==
  /\ entries' = Older(entries)
  /\ UNCHANGED <<asked, got, writing, pc, manifests>>

----------------------------------------------------------------------------
(* bump_total and bump_useful.                                             *)

Bumping(p) == pc[p] \in {"truncate", "fill", "rename"}

(* read: neutral when the file is missing or does not parse.               *)
Stored == IF file \in {None, Torn} THEN Neutral ELSE file

(* The manifest is read, and what was counted added to what was read.      *)
Bump(p, counter) ==
  /\ begun.total + begun.useful < HitBound
  /\ begun' = [begun EXCEPT ![counter] = @ + 1]
  /\ held' = [held EXCEPT ![p] = [Stored EXCEPT ![counter] = @ + 1]]
  /\ overlapped' = (overlapped \/ \E q \in Proc \ {p} : Bumping(q))
  /\ Goto(p, "truncate")
  /\ UNCHANGED <<asking, file, tmp, fd, kept>>

(* A query, Asker's or another's, ends and its hits are counted; or the    *)
(* peer returned none.                                                     *)
CountHits(p) ==
  /\ pc[p] = IF p = Asker THEN "queried" ELSE "idle"
  /\ Bump(p, "total")

NoHits ==
  /\ pc[Asker] = "queried"
  /\ Goto(Asker, "insert")
  /\ UNCHANGED <<asking, manifests>>

(* record_useful_hits; the hits may have come from a cached bundle.        *)
RecordUsefulHits(p) ==
  /\ pc[p] = "idle"
  /\ Bump(p, "useful")

(* What the process does after the bump, whether it was written or not.    *)
Resume(p) == Goto(p, IF p = Asker /\ asked # None THEN "insert" ELSE "idle")

Done(p) ==
  /\ Resume(p)
  /\ held' = [held EXCEPT ![p] = Neutral]

(* Mutant: what was written is still in a buffer when the file is renamed. *)
TruncateMutant(p) ==
  /\ pc[p] = "truncate"
  /\ tmp' = Torn
  /\ fd' = [fd EXCEPT ![p] = "tmp"]
  /\ Goto(p, "rename")
  /\ UNCHANGED <<asking, file, held, begun, kept, overlapped>>

Truncate(p) ==
  /\ pc[p] = "truncate"
  /\ tmp' = Torn
  /\ fd' = [fd EXCEPT ![p] = "tmp"]
  /\ Goto(p, "fill")
  /\ UNCHANGED <<asking, file, held, begun, kept, overlapped>>

(* Whoever renamed the file meanwhile did not close our descriptor.        *)
Fill(p) ==
  /\ pc[p] = "fill"
  /\ tmp' = IF fd[p] = "tmp" THEN held[p] ELSE tmp
  /\ file' = IF fd[p] = "file" THEN held[p] ELSE file
  /\ fd' = [fd EXCEPT ![p] = "closed"]
  /\ Goto(p, "rename")
  /\ UNCHANGED <<asking, held, begun, kept, overlapped>>

AfterRename ==
  [q \in Proc |-> CASE fd[q] = "tmp"  -> "file"
                    [] fd[q] = "file" -> "unlinked"
                    [] OTHER          -> fd[q]]

Rename(p) ==
  /\ pc[p] = "rename" /\ tmp # None
  /\ file' = tmp /\ tmp' = None
  /\ fd' = AfterRename
  /\ kept' = [c \in DOMAIN kept |-> Max({kept[c], held[p][c]})]
  /\ Done(p)
  /\ UNCHANGED <<asking, begun, overlapped>>

(* Errors are logged and forgotten; a rename fails when another bump took  *)
(* the temporary file.                                                     *)
BumpFails(p) ==
  /\ Bumping(p)
  /\ fd' = [fd EXCEPT ![p] = "closed"]
  /\ Done(p)
  /\ UNCHANGED <<asking, file, tmp, begun, kept, overlapped>>

(* Mutant: no trial period.                                                *)
FactorMutant(m, recency) ==
  IF m.total = 0 THEN 100
  ELSE IF m.useful = 0 THEN (100 * Trial - 80 * Min({m.total, Trial})) \div Trial
  ELSE 100 + Min({50, (m.useful * recency) \div m.total})

(* usefulness_factor, in whole percent rounded down, recency being what is *)
(* left of the last useful hit: the peer's saga score is multiplied by it. *)
Factor(m, recency) ==
  IF m.total = 0 \/ (m.useful = 0 /\ m.total < Trial) THEN 100
  ELSE IF m.useful = 0
       THEN (100 * Trial - 80 * Min({m.total - Trial, Trial})) \div Trial
  ELSE 100 + Min({50, (m.useful * recency) \div m.total})

----------------------------------------------------------------------------
Die(p) ==
  /\ pc[p] # "idle"
  /\ Goto(p, "idle")
  /\ fd' = [fd EXCEPT ![p] = "closed"]
  /\ held' = [held EXCEPT ![p] = Neutral]
  /\ IF p = Asker
     THEN /\ entries' = <<>> /\ asked' = None /\ writing' = FALSE
          /\ got' = [old |-> FALSE, late |-> FALSE]
     ELSE UNCHANGED asking
  /\ UNCHANGED <<file, tmp, begun, kept, overlapped>>

Next ==
  \/ \E x \in Point : Hit(x)
  \/ \E x \in Point \cup {Misfit} : Miss(x)
  \/ NoHits \/ Insert \/ Write \/ InvalidateAll \/ CacheLen \/ Tick
  \/ \E p \in Proc : \/ CountHits(p) \/ RecordUsefulHits(p)
                     \/ Truncate(p) \/ Fill(p) \/ Rename(p)
                     \/ BumpFails(p) \/ Die(p)

Spec == Init /\ [][Next]_vars

----------------------------------------------------------------------------
(* Properties.                                                             *)

TypeOK ==
  /\ entries \in Seq(Entry) /\ Len(entries) <= Capacity
  /\ asked \in Point \cup {Misfit, None}
  /\ got \in [old : BOOLEAN, late : BOOLEAN] /\ writing \in BOOLEAN
  /\ file \in Manifest \cup {None, Torn} /\ tmp \in Manifest \cup {None, Torn}
  /\ fd \in [Proc -> {"closed", "tmp", "file", "unlinked"}]
  /\ pc \in [Proc -> {"idle", "queried", "insert", "truncate", "fill", "rename"}]
  /\ held \in [Proc -> Manifest] /\ begun \in Manifest /\ kept \in Manifest
  /\ overlapped \in BOOLEAN

(* What get may serve was inserted or hit within the time to live.  (Only  *)
(* the age since the last hit is bounded: an entry that was hit hides      *)
(* behind younger ones from expire, which looks at the front.)             *)
IdleNotServed ==
  \A i \in DOMAIN Expired(entries) : Expired(entries)[i].idle <= Ttl

(* Once a write and its invalidate_all are over, the cache has no bundle   *)
(* from before the write, unless its query was under way at the time.      *)
StaleOnlyIfLate ==
  \A i \in DOMAIN entries : entries[i].old => writing \/ entries[i].late

(* A manifest never counts a hit that was not there, whatever is lost,     *)
(* torn or renamed away; and as long as no two bumps overlap, neither a    *)
(* failed one nor a dead process takes back what was written before.       *)
CountersHonest ==
  \A c \in DOMAIN begun :
    /\ Stored[c] <= begun[c]
    /\ ~overlapped => Stored[c] >= kept[c]

(* A peer is weighed down only after it returned the hits its trial allows *)
(* and, as long as no two bumps overlap, never after one of them was       *)
(* recorded as useful; it is weighed up only for a useful hit. And duds do *)
(* count: as long as no two bumps overlap, a peer past its trial that never*)
(* had a useful hit is weighed down. Never below a fifth, nor up by more   *)
(* than a half. (What a peer weighs at the trial's last hit, where the code*)
(* and its documentation differ, is left open.)                            *)
WeightEarned ==
  \A recency \in {0, 50, 100} :
    LET factor == Factor(Stored, recency)
    IN  /\ factor \in 20..150
        /\ factor < 100 => /\ begun.total >= Trial
                           /\ ~overlapped => kept.useful = 0
        /\ factor > 100 => begun.useful > 0
        /\ ~overlapped /\ begun.useful = 0 /\ kept.total > Trial => factor < 100
=============================================================================
