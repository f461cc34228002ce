# Verification of hansa

TLA+ models of the `hansa` crate (`crates/hansa`), checked with TLC, and theorems about
them checked with TLAPS. Hansa lets the tenants of one user's agents federate: they found
a *hansa*, keep its members in a signed, hash-linked log, describe what they know in
*sagas*, and answer *membrane queries* over each other's shareable records.

`PROJECT.json` maps every definition to the lines it models, lists the runs, the mutants
(a plausible bug for each property, which must break it), the hazards and the theorems.

## 1. Inventory

| Component | State | Operations | What is hard | What makes it correct |
|---|---|---|---|---|
| Members chain (`chain.rs`, `genesis.rs`, `sign.rs`, `member.rs`) | none: links are values | sign, hash, replay | numbering and hashes across checkpoints | replay accepts one owner's unbroken chain and nothing else |
| File registry (`registry.rs`) | `members.log`, its lock file, a temporary file | found, append_next, compact, members, read_chain | several processes, torn writes, failed writes, crashes, power loss, compaction | no fork; an acknowledged change is not lost; a checkpoint tells the truth |
| Open and head cache (`hansa.rs` 197-273, `head_cache.rs`) | `<id>.head`, `<id>.head.tmp` | open | read, check and store are separate steps; opens that overlap; a registry put back | a rollback is refused, and only a rollback |
| Handle: members and sagas (`hansa.rs`) | the local saga file | join, leave, admit, revoke, compact, refresh_saga | two effects, one of which fails; a refresh against a leave | a member has a saga file; one that left, its refresh tasks stopped, has none |
| Background refresh (`background.rs`) | a stop flag, the last size seen | start, stop, drop | stopping while a rebuild runs; a rebuild that fails | it stops when told, and refreshes eventually |
| Membrane query (`membrane/query.rs`, `membrane/async_query.rs`) | none beyond one call | query, query_async, execute | workers, a deadline, late or missing answers, panics | each answer counts whole or not at all; the query returns |
| Allocation (`membrane/allocation.rs`) | none | proportional_allocation | rounding, floors and caps | the budget is spent exactly, better peers first |
| Context builder (`context.rs`, `tiktoken.rs`) | none beyond one call | build, renderers | indices into a list that is filtered, ranked and cut; three kinds of dedup in one pass | no repeats, true provenance, budgets kept and spent on the best |
| Bundle cache (`cache.rs`) | a ring of entries | get, insert, invalidate_all | LRU order against time order; a bundle older than the write it misses | nothing stale is served, cold entries go first |
| Peer manifests (`manifest.rs`) | one JSON file per peer | read, bump_total, bump_useful | unlocked read-modify-write, a shared temporary name | counters do not go back |
| Hybrid registry (`hybrid_registry.rs`) | list of remotes, pulled sagas | add_remote, fetch, pull, members | some remotes fail or disagree | local records win, a failed remote costs only itself |
| Sagas (`saga/`) | saga files | build, score, read, write | random draws, empty clusters, ties, floating point | the saga is true of its tenant |
| Migration (`migrate.rs`) | `members.snap`, `members.log` of version 1 | read_v1_members, migrate_v1 | stops half way | can be run again |
| Keys (`key.rs`, `keystore.rs`, `sign.rs`) | key files | derive, load, store, sign | a key file half written; bytes that could be read two ways | a signature vouches for one statement |
| Command line (`crates/hansa-cli`) | `cli.toml`, key file, vaults | one command per process | two processes load, change and save the roster; a command stops half way | a record id is used once; no member is forgotten |

How they interact. `Hansa::open` calls the registry and then the head cache. `admit`,
`revoke` and `compact` go through the registry's lock; `members` and `read_chain` read
without it. Processes share only files: the log, the sagas, the manifests, the cache
directory. A query reads the members and the sagas once, asks peers on threads or tasks
of its own, and bumps manifests; the caller may pack the hits with the context builder
and keep the bundle in a bundle cache. The background task rebuilds the saga file that
other members' queries read.

External, and modelled from how the code uses it: the filesystem (what survives a power
loss, who sees which bytes), the advisory lock of `fs2` (freed when its holder dies), a
copy of the registry directory that someone may put back, the peers of a query (any
answer, refusal, panic or silence), the clock (a deadline passes at any moment).

## 2. The models

### Chain, ChainReplay - the chain and its replay

`Chain` is the vocabulary of the registry modules: `Link`, `Hash`, `Signed`,
`GenesisLink`, and `Valid(links, id)`, a declarative statement of when `replay` returns
Ok. `Active`, `HeadSeq`, `HeadHash` are what it then returns; `CheckpointOf` is the link
`checkpoint_locked` writes.

*Hash.* A link's hash is its `prev` with the link's own content appended, so a hash is
the history it commits to. It is as injective as BLAKE3 is assumed to be, and it lets the
properties speak of the history a log commits to after compaction dropped it
(`History(links)`). *Signatures* are a signer and whether the signature verifies.
*Timestamps* and record metadata are left out: no decision depends on them.

`ChainReplay` is the loop of `replay` itself (`ReplayStep`, folded over the log). Run
`chain_replay` grows every chain of up to four links from every kind of root, right and
wrong in each field, and checks that loop and declaration agree (`LoopAgrees`) and that
no replay accepts a log that lost, repeated or reordered links, unless what it lost is
its end (`OnlyTruncationPasses`): truncation is what the head cache is for. Four links
cover a root, two interior links and an end, hence every pair the loop compares.

### Signatures - what a skipper signs

The canonical bytes of a genesis, of a link and of the member records in it, as
`canonical::Writer` lays them out: a field of fixed width is one symbol (`Fixed`), a text
or a record inside a record its length and then itself (`Bytes`), an option a tag. A
signature is the key and the framed bytes. All four bodies of a link are there, the
genesis one included, and members may be at a path or behind RESP3 or HTTP, in an admit
as in a checkpoint. `SignatureBinds`: whatever was signed, `replay` lets the signature
pass on no other link, for a joiner who was told an id (`verify_for`) or not; and no other
link has the bytes that the next link's `prev` is the hash of. A genesis link carries the
signature of its genesis record, and its place and signer are what `replay` checks
(`LinkVerifies`). Texts are empty, one symbol, or that symbol twice, so that every cut of
one text is two others; a checkpoint has at most two members. It is composed with the
replay loop in `MCVerify`, since a reader does both; run `chain_replay` covers the two
side by side (340,809 states), as neither changes the other's state. Paths are taken as
UTF-8, where `to_string_lossy` loses nothing.

### Membership - what the registry promises

An abstract specification: one dimension fixed by whoever founds, and a set of active
members that only an admit or a revoke changes, one tenant at a time.

### FileRegistry - processes, a log, a lock, faults

One action per system call that something can come between: the call with its unlocked
reads, the lock, the read under the lock, the first and the last byte of the append, the
fsync, the temporary file, the rename. `file` is the log as a reader sees it now,
`durable` as of its last fsync; a fragment of a line reads as `Malformed`, and a line
complete but for its newline (`eol = FALSE`) joins with the next append (`WriteJoined`).
Every system call may fail (`WriteFails`, `CheckpointFails`), a process may die anywhere
(`Crash`), and `PowerLoss` leaves the last synced log or the current one.

| Run | Asks |
|---|---|
| `registry_crash` (55,154 states) | two processes whose tenants disagree on the dimension, torn and unterminated lines, failed writes, crashes: `ImplementsMembership` (the refinement), `HistoryOnlyGrows`, `LockReleased` |
| `registry_power` (166,390 states) | with power losses and unterminated lines: `ChainIntact`, `ActiveIsHistory`, `AckedNotLost` |

Bounds. Two processes: every property is about a pair, one inside the lock and one that
comes from outside or reads. `HistoryBound = 4` and `CheckpointAfterLinks` of 1 or 2 give
founding, changes, an automatic checkpoint, changes after it and a second checkpoint.

Assumptions. An fsync of the log also makes the directory entry durable: after a
checkpoint's rename, the next append's `sync_all` commits the rename with it, as on a
journalled filesystem. `TmpMayBeLost`, whether a rename may become durable before the data
of the file it renames, is FALSE in the runs (the temporary file is never synced, see §3).
The theorems on types, on the lock, on the chain and on the members hold either way;
`AckedNeverLost` needs it FALSE, since an empty log recalls nothing. A process that dies
loses the lock. One fsync'd state survives: a power loss does not reorder single blocks
inside the log.

The history and the refinement are stated where power does not fail (`PowerHolds`), since
a power loss may take unsynced links back; every torn write is in. That includes the line
cut exactly before its newline, by a death or a full disk: a link written whole but for
its newline is read as a link although its writer died or got an error; the next append
lands on the same line, which then parses as neither, and returns Ok. From there every
read fails until someone repairs the log. So two things are said. The links of lines that
were ended (`Settled`) are never taken back or changed, and they are what the refinement
maps to: a founding, an admit or a revoke takes place when its newline is written, or when
a compaction takes in a link that lacked it. And what a reader parses (`Committed`) is
never taken back either, unless an ended line no longer parses (`Broken`), which it then
stays. A member seen on a line without its newline, and what was acknowledged on top of
it, can thus be lost, but only with a log that nobody can read.
`AckedNotLost`, checked and proved with such lines, speaks of logs that can be read: what
is damaged is refused, never read as something else.

Fairness. `LockReleased` assumes `WF_vars(Step(p))`: a process that holds the lock keeps
running until it returns or dies. Nothing is assumed about who gets the lock, so nothing
is claimed about waiting for it.

### HansaOpen - open and the head cache

Here the registry is one chain that changes atomically, as `FileRegistry` justifies, and
what goes wrong is that its directory is put back to an earlier copy (`CopyMirror`,
`RestoreMirror`). The cache is seen call by call: `store` truncates or creates the
temporary file, fills it, renames it; `fd` follows which file an open descriptor leads
to, since processes share the temporary name.

Which id is opened comes from the configuration (`Config`, `Resolved`): a skipper's key,
an id, both or neither, founding or only finding.

Run `open` has one open at a time (`Overlap = FALSE`), two processes, and any failure or
death in between: `RollbackRefused`, `NoFalseAlarm`, `CacheRemembers` (1,319,312 states).
With overlapping opens none of the three holds (§3). `HistoryBound = 3` is enough for a
remembered head, a copy behind it and a chain that forks from the copy and reaches the
same number. A fork that has grown past the remembered number is accepted by the code, and
no property says otherwise. Power loss is not in this model. The theorems likewise assume
`~Overlap`, for any number of processes.

### Allocation, AllocationLoop - proportional_allocation

`Allocation` is the function in closed form, used by the membrane model;
`AllocationLoop` is the code's first pass and its two while loops, one iteration per
step. Run `allocation` checks every list of up to four scores with five values, budgets
0-7, floors 0-2 and four caps: the loops end, return the closed form, spend the budget
exactly, respect floor and cap, and never give a better peer less (49,450 states). Scores
are integers in units of the code's epsilon 1e-3 and the share is an exact quotient; the
code's `f64` may round one share differently by one, which the trimming and spreading
then even out, since none of the properties depends on the first pass being exact.

### Membrane - one query

The caller's thread goes through `pc`: load the sagas of the members (`load_peer_saga`,
with `exists()` and the read as two steps), the local query, then scoring, allocation and
fan-out in one step (nothing else can observe them), the collector, the merge. `Work(p)`
is a peer's worker: it answers, refuses (an error becomes an empty batch) or panics, also
after the query has returned. `Expire` is the deadline. The collector of `query` is a
loop of `recv_timeout` on a channel (`CheckStops` ... `ReceiveStops`), that of
`query_async` awaits the handles in spawn order under one timeout (`AwaitEnds`,
`AwaitStops`). Saga scores, usefulness factor included, are chosen freely.

A request is what the two builders leave (`ThreadQuery`, `TaskQuery`); a record is its
similarity and whether its tenant shares it, and `QueryFiltered` is the query of a view
with the filter the code gives it: all for the local tenant, shareable ones for a peer.
A peer's answer is therefore an honest one, the best of its own records and no more than
asked for; `query` itself does not count again what a view returns (`query.rs:342-356`), so
of views that return more than they were asked for `RemoteAsAllowed` says nothing.

Run `membrane` has three peers with two or three records each, private ones among them, at
most two asked (the cap bites), remote budgets 0, 1, 2 and 4 (nothing, less than the
peers, fewer than their hits, more than enough), and checks `RemoteAsAllowed`,
`AnswersCountOnce`, `NobodyElseLost`, `ResultIsBest`, and `Returns` under fairness (15,688
states). Fairness: the caller's thread runs and time passes; a worker is relied on only
when the caller set no deadline, as the code then waits for it without a bound.
`CHECK_DEADLOCK FALSE`: a query that has returned stops.

A failed manifest write is not modelled here: `bump_total` swallows it (see Agent).

### ContextBuilder - from hits to a bundle

The two loops of `build`, one hit or item per step, one action per way a hit leaves the
first loop. A payload is a sequence of sentences with token costs, an embedding a point
on a line with a distance for "near", so that near is not transitive; a record may ship
without an embedding. A payload stands for all that `blake3_normalised` takes for the
same: letter case and runs of white space are not in the model. Hits come best first, as
the membrane returns them. Run `context` takes every list of up to three hits from six
records (one blank), two origins and two similarities under six builders (each dedup alone, sentence
with semantic, each budget, both rankers): `SourcesTrue`, `NoRepeats`, `PackedByRank`,
`AllAccounted`, `SentencesKept` (211,470 states). Three hits suffice for the interplays: a
winner, a hit dropped because of it, and a third that meets what the second left behind.
`SentencesKept` is checked of bundles from which semantic dedup dropped nothing; of the
others it does not hold (§3). `SourcesTrue` says that the sources of an item are true, and
without sentence dedup that every hit past the threshold is among them; with it, the code
credits nobody for a hit it drops (§3), and the property holds whether it does or not.
`PackedByRank` says that a bundle begins with every prefix of the ranking that both
budgets can pay for; whether later items follow the first that overflows, where code and
documentation differ (§3), it leaves open. `AllAccounted` allows for blank hits, which sentence dedup
drops and counts nowhere. The ranker is a table of divisors, one for each number of
tokens that a payload may cost. The renderers are formatting and are left out.

`Sorting` is the stable `sort_by` that the membrane, the builder and the top tags use: an
item's place in the result is one after as many as go before it.

### SagaBuild - from vectors to a saga file

`build_saga_from_tenant`, draw by draw and iteration by iteration: the reservoir, the
k-means++ seeds (any vector the weighted draw can give, a repeated one when all are
seeds), the assign and update steps until the cost settles or the iterations run out,
the top tags; then the file, copied to the skeg-hull form and back. Vectors are points of
a line in multiples of `Scale`, so that the mean of up to three is exact; the code's
`f32` means are rounded, and a cost could rise by as much. The record count is an argument
of its own: `refresh_saga` and the background task ask for it before they read the
vectors, and others insert and forget in between, so any count comes with any vectors.
It goes into the saga as it is and chooses the number of clusters (`DefaultK`, the
schedule of `default_k_for` as a table; `MCSaga` has one that doubles). Run `saga` has up
to four vectors with a reservoir of three, schedules of one, two and four clusters, three
iterations: `CostFalls`, `SagaTrue` (875,071 states). That is one vector more than the
reservoir holds, more clusters wanted than vectors, and both ways for the loop to end.

### BundleCache, Agent - a cache and the manifests

`BundleCache` has the cache's operations on its list of entries, `Agent` their use: get,
and on a miss query, build and insert, while another thread writes to the tenant and then
calls `invalidate_all`; and, as a query ends, the counts in the peer's manifest, which
`Agent` takes one system call at a time (read, truncate, fill, rename) with no lock and
one temporary name, two processes and deaths anywhere. Run `agent`: `IdleNotServed`,
`StaleOnlyIfLate`, `CountersHonest`, `WeightEarned` (2,131,866 states). Two entries and a
time to live of one tick suffice for a hit that hides an old entry; three counts
(`HitBound`) for two bumps that overlap and a third that finds what they left, and, with
a trial of two (`Trial`), for one dud in the trial, one at its end and one past it. The
factor's floor of a fifth is not reached with three counts; the theorem reaches it, for
any trial. `WeightEarned` leaves open what a peer weighs at exactly the trial's last hit,
where code and documentation differ (§3). Manifests are of one peer: those of others are
other files.

### HybridRegistry - remotes and the migration

The local chain is the abstract `Membership`. A remote answers `members` with any set of
records, one for a tenant at most (of an answer that lists a tenant twice the code takes
the first record; such answers are not modelled),
serves some copy of a saga or fails, between any two requests; sagas are rebuilt, served
and pulled with times in whole seconds, as `should_fetch` compares them. The migration
reads a snapshot and a log of version 1, founds, and admits one by one; it may stop
anywhere and is run again. Run `hybrid` has two tenants, two remotes, two builds, two
seconds and logs of two events: `ListHonest`, `MigrationExact`, `PullsForward` (1,214,046
states). Two of each is what an order, a tie or a disagreement takes.

### Lifecycle - join, leave and the background refresh

One member's thread, its refresh task, readers of its saga file (a query's
`load_peer_saga`, `snapshot`), others that revoke it; `Membership` again is the chain.
Each call is cut where another thread or a death can come in: join writes a saga, then
admits; leave revokes, then removes; the task reads its count, builds, writes. Run
`lifecycle`: `SagaFollowsMembership`, `FailsOnlyOnLeave`, and under fairness
`RefreshLives` (61,942 states). Fairness: the refresh thread runs, its builds and writes
may fail but not for ever (strong fairness), and a thread waiting in `stop` wakes up when
the other ends. Four records give two refreshes with a threshold of half and one that is
not due. The task has one interval; how long it sleeps does not matter.

### CliConfig, Cli - the command line tool

`CliConfig` is the roster, `Cli` the commands: `init`, `use`, `remember`, `ingest`,
`watch`, `forget`, `saga`, `leave`, `revoke`, and those that only look, by two processes
on two agents of one hansa with one key file. Each is cut at every file it touches;
`cli.toml` is truncated and filled in two steps, as `std::fs::write` does. Run `cli`:
`IdsUnique`, `MembersListed` (1,288,025 states up to symmetry). Two properties of which
the exceptions are the point: entries are taken by overlapping commands and cut saves
(`lost`), counters fall behind when a command stops between insert and save or an agent
is made anew on a vault (`rewound`), and nothing else loses an id or a member. Bounds:
one stopped command (`StopBound`), nothing followed after the first loss
(`LossBound = 0`), two tenant ids, two record ids. Left out: agents of several hansas,
that `init` with another passphrase overwrites the key slot, the watcher's file events.

## 3. What disagrees with the documentation

The properties say what the code does keep. These sentences of its documentation and
comments it does not, as met while modelling; the models contain the behaviour,
but no run is there to exhibit a counterexample for each row.

| Where | What |
|---|---|
| `registry.rs:126-137` | "Replace the whole log atomically": the temporary file is renamed without having been synced, so a filesystem that commits the rename first may leave an empty log after a power loss |
| `head_cache.rs:77`, `error.rs:62-63` | two overlapping opens on one cache directory can end in `ChainRegressed` although the registry only grew, and the slower one may store its older head over the newer |
| `context.rs:262-269`, 345 | "Lossless on information": a sentence first seen in a hit that semantic dedup drops is cut from every later hit too |
| `context.rs:95`, 349-352 | the bundle's counters tell the "outcome" of `build`, one for each way a hit is dropped; under sentence dedup a blank hit is dropped and counted by none |
| `context.rs:55-58`, 349-352 | the origin of every hit dropped by byte, sentence or semantic dedup "is appended" to `sources`; a hit that sentence dedup drops is credited to nobody |
| `context.rs:238-241`, 406-411 | with `token_budget` "the loop stops" at the first item that overflows; it goes on and keeps later ones that fit |
| `hansa.rs:476`, `docs/deployment.md:62-63` | "A query never aborts because a peer failed": a corrupt saga, or one removed between `exists()` and the read, fails the query |
| `async_query.rs:202`, `query.rs:41-42` | handles are awaited in spawn order, so a slow first peer hides answers that came in time; the threads' collector drops what is in its channel at the deadline, and both count a worker that panicked under `dropped_for_deadline` |
| `manifest.rs:126-129`, 139-147, 161 | a Cold peer (`useful_hits == 0`, `total_hits >= TRIAL_RETURNS`) "returns `< 1.0`"; at `total_hits == TRIAL_RETURNS` `is_cold` is true and the factor is 1.0 |
| `cache.rs:89-90`, 179-188 | the time to live is not kept for an entry that a hit moved behind younger ones |
| `hybrid_registry.rs:110-111`, 150-163 | "finds the latest sagas on disk": with two relays, or a rebuild within the same second, an older saga may stay or return |
| `background.rs:37-38`, 118 | growth "relative to the last build" is measured from the count when the task starts, whatever saga there is |
| `config.rs:140-150` | `remove` is to "clear the active pointer"; it activates the first member left |
| `membrane/mod.rs:18` | "Local hits are always included"; the merged list is truncated |
| `docs/deployment.md:54` | `top_k` as a ceiling on peers; it is the limit of the local query |

Not against any document, but worth knowing: a tenant the local chain revoked is listed
again while a remote still lists it; a migration that is run again re-admits who was
revoked since; a join publishes again the saga file that a leave which died left behind;
a refresh on the calling thread may write its saga over a newer one of the background
task; leave followed by init on the same vault counts record ids from zero.

## 4. What is proved

Every theorem is for all values of the constants its module declares: any processes,
tenants, peers, records, lengths and bounds that the `ASSUME`s of the modules admit. TLC
evaluates those assumptions in every run. A theorem that assumes more says so (`ASSUME`
in its statement), and so does the table. All of them are proofs of safety, each from an
inductive invariant.

| Module | Theorems (the property in parentheses) | Assumed besides |
|---|---|---|
| `FileRegistry_proofs` | `TypeCorrect`, `MutualExclusion`, `ChainAlwaysIntact` (`ChainIntact`), `MembersAlwaysHistory` (`ActiveIsHistory`) | nothing |
| | `AckedNeverLost` (`AckedNotLost`) | `~TmpMayBeLost` |
| | `HistoryNeverShrinks` (`HistoryOnlyGrows`), `RegistryImplements` (`ImplementsMembership`) | `PowerHolds`: power does not fail |
| `HansaOpen_proofs` | `ReplayAgrees` (`LoopAgrees`), `TamperingSeen` (`OnlyTruncationPasses`), `SignatureAlwaysBinds` (`SignatureBinds`) | nothing |
| | `NeverRolledBack` (`RollbackRefused`), `NeverFalseAlarm` (`NoFalseAlarm`), `CacheAlwaysRemembers` (`CacheRemembers`) | `~Overlap` |
| `Membrane_proofs` | `LoopTypeCorrect`, `AlwaysSound` (`AllocationSound`), `LoopsComputeShares` (`LoopsAgree`): the allocation | nothing |
| | `TypeCorrect`, `RemoteAlwaysAsAllowed`, `AnswersAlwaysCountOnce`, `NobodyElseEverLost`, `ResultIsAlwaysBest` (the four invariants of the run) | nothing |
| | `LifeTypeCorrect`, `SagaAlwaysFollows` (`SagaFollowsMembership`), `ReadersFailOnLeaveOnly` (`FailsOnlyOnLeave`): `Lifecycle` | nothing |
| `Agent_proofs` | `AgentTypeCorrect`, `NothingIdleServed` (`IdleNotServed`), `NothingStaleKept` (`StaleOnlyIfLate`), `ManifestsCountHonestly` (`CountersHonest`), `WeightIsEarned` (`WeightEarned`) | nothing |
| | `BuildTypeCorrect`, `SourcesAlwaysTrue` (`SourcesTrue`), `NothingRepeats` (`NoRepeats`), `BundlesPackedByRank` (`PackedByRank`), `HitsAllAccounted` (`AllAccounted`), `SentencesAlwaysKept` (`SentencesKept`): the context builder | nothing |
| `HybridRegistry_proofs` | `HybridTypeCorrect`, `ListsAreHonest` (`ListHonest`), `MigrationsAreExact` (`MigrationExact`), `PullsOnlyForward` (`PullsForward`) | nothing |
| | `SagaTypeCorrect`, `CostNeverRises` (`CostFalls`), `SagaAlwaysTrue` (`SagaTrue`): `SagaBuild` | nothing |
| `Cli_proofs` | `CliTypeCorrect`, `IdsAlwaysUnique` (`IdsUnique`), `MembersAlwaysListed` (`MembersListed`) | nothing |

`Chain_proofs` and `DataLemmas` hold the lemmas these share; `DataLemmas` models no code.

### The registry

*Intact and truthful.* `ChainIntact` alone is not inductive: a process about to write has
a link in hand that it signed on an earlier read. `ChainInv` adds what makes that link
still fit. Whoever is past `Acquire` is the lock's holder (`LockInv`), so the log has not
changed since; the link in hand would extend the log (`LineInv`), also when half of it is
written; the temporary file holds a root of the owner (`RootInv`); the call is known
(`CallInv`); and what is durable is as good as the log (`LogOk(durable)`), since a power
loss may bring it back. `LogOk` also says that a root is *truthful*: the members it lists
are those of the history its hash commits to. That a checkpoint is so, and that an append
keeps it so, are lemmas of `Chain_proofs`; `ActiveIsHistory` follows.

*Acknowledged is kept.* `AckInv` follows an append from the lock to `Ok`. At each point,
the log that the next step leaves recalls everything acknowledged before and, from the
first byte on, the link of the call (`OwedInv`): the log with the line appended, the file
before the sync, after it the durable copy too, and the temporary file that is about to
be renamed. So whatever a crash or a power loss leaves recalls what was acknowledged.

*Growth and refinement.* `GrowInv` says that the log is its settled links (`Kept`) and,
behind them, at most one line that is torn, whole but for its newline, or damaged by a
join; a writer's link is one `append_next` signs on exactly what is read there
(`SignedOn`), and a change in hand still fits the dimension, which never changes once the
hansa is founded. Then every step leaves the settled links as they are, appends one, or
puts their checkpoint in their place, with or without the link that lacked its newline
(`LogMove`): the history grows or stands, and each move is one step of `Membership` or a
stutter. What is read moves along in the same way or the log is broken (`Moves`, `Broken`).

### The replay, for logs of any length

The loop of `replay` is a fold over the log. `ReplayAgrees` follows the fold link by link:
after n links its state is an error exactly if the first n are not valid, and otherwise
the members, dimension, number and hash that `Chain` defines declaratively. `TamperingSeen`
then reads the two declaratively: a link behind the cut, the repetition or the swap has a
`prev` or a number that no longer fits, because a hash determines its history.

### What a signature vouches for

An encoding *says* what it encodes (`Says`): if two byte strings begin with the encodings of
x and y and are equal, then x = y, and what follows is equal too. So encodings that say
their parts can be put one after the other: a record says its fields (`JoinSays`), a text
is preceded by its length (`BytesSay`), an option by its tag, the kinds of body begin
differently, and a list whose length was written before it says its items, by induction
over the items (`FlatSays`). The domain tags keep genesis and link apart. `SignatureBinds` is
then that two links with the same framed bytes are the same link, and so are two genesis
links of the same record, since `replay` fixes what that record does not say.

### Open and the head cache

Opens do not overlap (`AloneInv`), so the process inside an open has read the remembered
head that is still there, and `floor`, `verified` and the head file agree (`CacheInv`). The
chain it is about to store was compared with them (`NotBehind`), hence is longer or the
same; and the temporary file that it renames holds what it has just written (`StoreInv`).
`AlarmInv` adds that, unless someone put the registry back, its history continues all that
was accepted and all that is being accepted.

### The handle

Who is about to admit has a saga, who is about to remove one is no member (`CallInv`); a
member that left runs nothing that writes a saga, and a task that was stopped is gone
(`LeftInv`); a reader that finds a saga missing was overtaken by a leave (`ReaderInv`).
What follows is one direction and a half: no member is ever without a saga, and there is
none after a leave that succeeded with every task stopped. The saga of a tenant that
others revoked, whose admit or leave failed, or whose refresh task was dropped or runs on
may well stay or come back, and no theorem says otherwise; queries look only for the sagas
of members.

### The allocation

For `AllocationSound`: what the loops believe spent is what the shares add up to
(`SpentInv`), shares stay above the floor and in descending order - while they are raised
round by round, those the round has passed are one ahead (`LevelInv`) - and nobody is left
only when not one minimum fits (`NobodyInv`). `LoopsAgree` ties the loops to the closed
form the membrane model uses. From any state of the trimming loop, the closed form of the
state is the closed form of the arguments; the spreading loop has raised each share by
the whole rounds it ran and one more if the current round has passed it. Trimming is
defined by recursion over (sum, length), and what it computes is proved by induction on
that measure.

### The query

`IInv` keeps books. Sagas are loaded of distinct peers (`LoadInv`); those asked are
distinct, within both caps, and exactly those with a worker (`AskedInv`); a peer is sent
for once and only after its worker ended without a panic (`SentInv`); the handles before
the cursor were awaited, and no others (`TasksInv`); without a deadline the collector stops
when nobody is left to wait for (`EndInv`); and what the caller gets is the merge of what
was gathered (`OutcomeInv`). Two facts then carry the theorems. Each gathered batch belongs
to another asked peer, so the batches together are no longer than the budgets together,
and these no longer than the remote budget. And the hits lie batch after batch in the
concatenation (`FlattenIs`), so the hits of a peer can be counted by matching places; the
final sort moves each to one new place and cuts the end, which is the worst.

### The cache

The ring is kept in the order of use: each entry is at least as idle as those behind it,
and never more idle than old, since a hit resets the one and not the other (`InOrder`).
That is why dropping a prefix, as `expire` and a full ring do, leaves nothing idle behind
what is kept. For staleness the entry says too little: `CacheInv` follows the bundle being
built, which is old only while the write is still to call `invalidate_all` or once the
bundle counts as late.

### The bundle

The first loop works with indices into a list it extends. `Unranked` says what they point
at as long as the list is not ranked: the n-th key is the n-th item's, a remembered
embedding is that of the item its index names, and under semantic dedup every embedding
of an item is remembered. So the origin of a repeat is credited to an item it repeats
(`SourceInv`), an origin once listed stays listed, so without sentence dedup every hit
looked at has its own in some item (`ListedInv`), and an item that is added differs from
all the others (`RepeatInv`).
`SaidInv` relates the remembered sentences both ways: all that was said is remembered,
and as long as semantic dedup drops nothing, all that is remembered is in an item. That
the sentences cut from a hit were said before, or earlier in the hit, is an induction
over its payload (`Left`). `AccountInv` counts: a hit that is neither an item nor in a counter
left its sentences in `redundantSentences`, or is blank.

Ranking is a permutation, so what holds of every item and of every two still does, and no
index is read after it. For the second loop, `PackInv` says that the bundle is in order,
has no item more often than it is among those looked at, and begins with every affordable
prefix of these: if all looked at so far could be paid for, the bundle is all of them, and
the next is paid for out of what is left (`PaidSoFar`). The token total is the fold over
the bundle, which `FoldSolves` turns into an equation for each place.

### The manifests

Nothing on disk, in the temporary file or in a process's hands ever counts more than was
begun (`BegunInv`), in whatever order processes truncate, fill and rename the file they
share. That nothing is lost needs that no two bumps overlap. Then (`AloneInv`) whoever is
past its read holds at least what is stored, the temporary file is its own and complete
when renamed, and the manifest is never torn. `WeightEarned` follows from the two by
arithmetic on the trial period and the rate.

### Remotes and the migration

While `members` asks one remote after the other, its list so far is exactly what merging
the local chain and the answers so far must give: each tenant known, with its local
record or the first answer's (`ListInv`); sorting by id keeps it (`Ascends`, the stable sort
of a set with distinct keys). The migration carries its progress: whoever was wanted is
active, or revoked since it was wanted, or still to come (`MigrateInv`), and nobody else is
ever active than who was invited. For pulls, a local file is never of a later build
than one of its dates allows (`FilesInv`), and what is to be fetched is still later than
what it was compared with (`FetchInv`).

### From vectors to a saga

`CostFalls` is the argument for Lloyd's iterations, machine-checked. `Costing` says between
what two costs the state is: after an assignment the last cost is what the vectors pay
now; after an update they pay no more, if each stays in its cluster. The next assignment
takes each to the nearest point, so it costs no more than that, vector by vector
(`NearestCostsLeast`). The update moves one cluster after the other (`MovesImprove`): from
u to v, the mean of its n vectors, the cost changes by exactly -n(u - v)^2
(`ClusterMoves`), and an empty cluster stays. This needs the mean to be exact, which
`SagaAssumption` grants (`Scale` is a multiple of every cluster's size, `PartsOf`); with the
rounded means of the code a cost may rise by as much as the rounding. The sums of the
model are over sets, one element chosen after the other; `SumIsTotal` makes them totals
of sequences, for which sums of sums and products hold (`TotalSums`).

For `SagaTrue`: the assignment is that of the present points unless the iterations ran out
(`Costing` again); clusters do not overlap and leave no vector out (`SizesAdd`); sorting
ranks every tag that occurs, so what is cut off comes behind what is kept (`TopIsTop`);
and the copies to the file's form and back lose nothing (`CopiesAgree`).

### The command line tool

The roster of the tool is what `cli.toml` holds or what is being written to it (`Roster`);
two that write at once lose everybody, so there is one (`FillInv`). A command owns one
agent: what it read of the others it writes back as read (`EntryInv`), and a second command
that changes the same agent makes the entry count as lost (`AloneInv`). So, of an agent
that is not lost, the entry a command read is still in the roster until the command begins
to save, and from then on the roster has the command's own (`HeldInv`, `EntryMoves`).

Two arguments rest on that. For `MembersListed`: every active id is the one in its owner's
entry (`ActiveInv`). `init` admits the id it has saved before; who leaves is no member from
the revocation on, under no id it ever drew (`GoneInv`), so the roster may forget it. For
`IdsUnique`: a command's counter is above every id in the vault (`CountInv`), and so is the
roster's unless a command has counted further and is yet to save (`StoredInv`). Whatever
ends such a command before it saved, a stop or a reload that finds the agent gone, puts
the agent in `rewound`; so does an `init` on a vault that is not empty. The lemmas about
rosters, that no operation on one lists an agent twice and which entry each changes, come
first; `retain` is a fold (`WithoutRetains`).

### Induction

The library's induction theorems take an operator as a parameter, which none of the
provers used can instantiate. Induction is done here over explicit sets of numbers
(`NatLeast`, `NatStep` in `DataLemmas`: a set with 0 and every successor is Nat). That
reaches folds, concatenations, sums and functions defined by recursion on a measure
(`LoopUpTo` and the lemmas around it: such a function exists, hence its equation holds).

### Only model-checked

Liveness: `LockReleased`, `Returns`, `Terminates`, `RefreshLives`. Under fairness it
rests on ENABLED, which the provers do not reason about.

## 5. Plan

Proofs: none is left of the safety properties that the runs check.

Models: power loss composed with the head cache, if a run becomes free for it.

Not modelled, and not planned: saga scoring (floating point), key derivation and the
keystores of operating systems (cryptography, plain I/O), `error.rs` and `lib.rs` (no
state), argument parsing, output, renderers, embedding and the file watcher of the tool
(I/O and formatting), and the examples and benchmarks (demonstrations of the crate).
