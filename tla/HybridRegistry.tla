--------------------------- MODULE HybridRegistry ---------------------------
(***************************************************************************)
(* A registry that adds to the local chain what remote peers list          *)
(* (hybrid_registry.rs): their members, and their sagas, which are pulled  *)
(* into the local directory; and the migration that fills a fresh chain    *)
(* from the members log of version 1 (migrate.rs).                         *)
(*                                                                         *)
(* The local chain is the abstract Membership.  Remotes are external: each *)
(* answers with some list of members, serves its copy of the saga of one   *)
(* tenant, or fails.  Their clocks agree with the local one, to a second.  *)
(* One process calls, others revoke, rebuild and serve in the meantime.    *)
(***************************************************************************)
EXTENDS Integers, SequencesExt, Sorting

CONSTANTS
  Tenant,        (* tenants, numbered in the order of their ids            *)
  Dim,           (* embedding dimensions                                   *)
  None,          (* no file, no member, no job                             *)
  Local,         (* where a record of the local chain comes from           *)
  Remote,        (* base URLs                                              *)
  Version,       (* 1..n, the builds of the saga                           *)
  Second,        (* 0..n, the time that is followed                        *)
  LogBound       (* a version 1 log has no more events                     *)

ASSUME HybridAssumption ==
  /\ Tenant \subseteq Int /\ IsFiniteSet(Tenant)
  /\ Local \notin Remote /\ None \notin Remote \cup Dim
  /\ None \notin {"pull", "fetch", "members", "listed", "migrate", "migrated"}
  /\ Version \subseteq Nat /\ \A v \in Version : 1..v \subseteq Version
  /\ Second \subseteq Nat /\ 0 \in Second
  /\ None \notin [version : Version, time : Second]
  /\ LogBound \in Nat

VARIABLES
  dim, active,   (* the local chain, see Membership                        *)
  remotes,       (* the remotes configured, in order                       *)
  now,           (* the time in seconds                                    *)
  built,         (* the last build of the saga                             *)
  copy,          (* the local file of it: version and modification time    *)
  served,        (* each remote's                                          *)
  job,           (* the call under way                                     *)
  dated,         (* history: versions and times of all files written       *)
  invited        (* history: tenants that a migration read as active       *)

chain  == <<dim, active, invited>>
files  == <<built, copy, served, dated>>

vars == <<dim, active, remotes, now, built, copy, served, job, dated, invited>>

Membership == INSTANCE Membership

Copy == [version : Version, time : Second]

NoJob == [kind |-> None]

TypeOK ==
  /\ Membership!TypeOK
  /\ remotes \in Seq(Remote) /\ now \in Second
  /\ built \in Version \cup {0}
  /\ copy \in Copy \cup {None}
  /\ served \in [Remote -> Copy \cup {None}]
  /\ job.kind \in {None, "pull", "fetch", "members", "listed", "migrate", "migrated"}
  /\ dated \subseteq Copy
  /\ invited \subseteq Tenant

Init ==
  /\ Membership!Init /\ invited = {}
  /\ remotes = <<>> /\ now = 0
  /\ built = 0 /\ copy = None /\ dated = {}
  /\ served = [r \in Remote |-> None]
  /\ job = NoJob

----------------------------------------------------------------------------
(* add_remote, which does not add twice, and remove_remote: there is one   *)
(* place to remove.                                                        *)
AddRemote(r) ==
  /\ job = NoJob
  /\ r \notin ToSet(remotes)
  /\ remotes' = Append(remotes, r)
  /\ UNCHANGED <<chain, now, files, job>>

RemoveRemote(r) ==
  /\ job = NoJob
  /\ \E i \in DOMAIN remotes : remotes[i] = r /\ remotes' = RemoveAt(remotes, i)
  /\ UNCHANGED <<chain, now, files, job>>

----------------------------------------------------------------------------
(* The world: time passes, the owner rebuilds its saga, remotes serve it   *)
(* or an older build, a skipper elsewhere revokes.                         *)
Tick ==
  /\ now + 1 \in Second
  /\ now' = now + 1
  /\ UNCHANGED <<chain, remotes, files, job>>

Written(v) == [version |-> v, time |-> now]

Rebuild ==
  /\ built + 1 \in Version
  /\ built' = built + 1
  /\ UNCHANGED <<chain, remotes, now, copy, served, dated, job>>

(* The local directory may be the owner's own.                             *)
RebuildHere ==
  /\ built + 1 \in Version
  /\ built' = built + 1
  /\ copy' = Written(built + 1)
  /\ dated' = dated \cup {Written(built + 1)}
  /\ UNCHANGED <<chain, remotes, now, served, job>>

Serve(r) ==
  \E v \in 1..built :
    /\ served[r] # None => v > served[r].version
    /\ served' = [served EXCEPT ![r] = Written(v)]
    /\ dated' = dated \cup {Written(v)}
    /\ UNCHANGED <<chain, remotes, now, built, copy, job>>

RevokeElsewhere(t) ==
  /\ Membership!Revoke(t)
  /\ job' = IF job.kind \in {"migrate", "migrated"}
            THEN [job EXCEPT !.gone = @ \cup {t}] ELSE job
  /\ UNCHANGED <<invited, remotes, now, files>>

----------------------------------------------------------------------------
(* pull_sagas_into: the remotes configured at the start, one after the     *)
(* other; those that do not answer are passed over.                        *)
Pull ==
  /\ job = NoJob
  /\ job' = [kind |-> "pull", rest |-> remotes]
  /\ UNCHANGED <<chain, remotes, now, files>>

(* Mutant: whatever is listed is fetched.                                  *)
ShouldFetchMutant(listed) == listed # None

(* Only what is listed with a later time than the local file has.          *)
ShouldFetch(listed) ==
  /\ listed # None
  /\ copy = None \/ copy.time < listed.time

(* `seen` keeps the local file that was compared.                          *)
ListSagas ==
  /\ job.kind = "pull" /\ job.rest # <<>>
  /\ job' = IF ShouldFetch(served[Head(job.rest)])
            THEN [kind |-> "fetch", rest |-> job.rest, seen |-> copy]
            ELSE [job EXCEPT !.rest = Tail(@)]
  /\ UNCHANGED <<chain, remotes, now, files>>

(* What is served by now is downloaded, and dated by the download.         *)
Fetch ==
  /\ job.kind = "fetch"
  /\ copy' = Written(served[Head(job.rest)].version)
  /\ job' = [kind |-> "pull", rest |-> Tail(job.rest)]
  /\ UNCHANGED <<chain, remotes, now, built, served, dated>>

PullFails ==
  /\ job.kind \in {"pull", "fetch"} /\ job.rest # <<>>
  /\ job' = [kind |-> "pull", rest |-> Tail(job.rest)]
  /\ UNCHANGED <<chain, remotes, now, files>>

Pulled ==
  /\ job.kind = "pull" /\ job.rest = <<>>
  /\ job' = NoJob
  /\ UNCHANGED <<chain, remotes, now, files>>

----------------------------------------------------------------------------
(* members: the local chain's, then of each remote's those not yet listed. *)
(* A listed record shows where it comes from.                              *)

ActiveHere == {t \in Tenant : active[t] # None}

Record(t, from) == [tenant |-> t, from |-> from]

ListLocal ==
  /\ job = NoJob
  /\ job' = [kind |-> "members", rest |-> remotes, here |-> ActiveHere,
             all |-> {Record(t, Local) : t \in ActiveHere}, told |-> <<>>]
  /\ UNCHANGED <<chain, remotes, now, files>>

(* Mutant: a remote's record replaces the one listed before.               *)
MergedMutant(all, r, ids) ==
  {m \in all : m.tenant \notin ids} \cup {Record(t, r) : t \in ids}

Merged(all, r, ids) ==
  all \cup {Record(t, r) : t \in ids \ {m.tenant : m \in all}}

(* fetch_with_client: a remote that answers lists whom it will; an empty   *)
(* answer is nobody.  (One that cannot be reached or decoded fails.)       *)
Answer == SUBSET Tenant

(* `told` keeps what each remote answered.                                 *)
ListRemote ==
  /\ job.kind = "members" /\ job.rest # <<>>
  /\ \E ids \in Answer :
       job' = [job EXCEPT !.rest = Tail(@),
                          !.all  = Merged(@, Head(job.rest), ids),
                          !.told = Append(@, [from |-> Head(job.rest), ids |-> ids])]
  /\ UNCHANGED <<chain, remotes, now, files>>

ListRemoteFails ==
  /\ job.kind = "members" /\ job.rest # <<>>
  /\ job' = [job EXCEPT !.rest = Tail(@)]
  /\ UNCHANGED <<chain, remotes, now, files>>

(* The members of S by ascending id.                                       *)
ById(S, id) ==
  LET s == SetToSeq(S) IN Sorted(s, [i \in DOMAIN s |-> -id[s[i]]])

(* Sorted by tenant id.                                                    *)
ListSorted ==
  /\ job.kind = "members" /\ job.rest = <<>>
  /\ job' = [kind |-> "listed", here |-> job.here, told |-> job.told,
             list |-> ById(job.all, [m \in job.all |-> m.tenant])]
  /\ UNCHANGED <<chain, remotes, now, files>>

Return ==
  /\ job.kind \in {"listed", "migrated"}
  /\ job' = NoJob
  /\ UNCHANGED <<chain, remotes, now, files>>

----------------------------------------------------------------------------
(* migrate_v1.                                                             *)

Event == [kind : {"join", "leave"}, tenant : Tenant]

AfterEvent(members, e) ==
  IF e.kind = "join" THEN members \cup {e.tenant} ELSE members \ {e.tenant}

(* Mutant: the log alone is read.                                          *)
V1MembersMutant(snapshot, log) == FoldLeft(AfterEvent, {}, log)

(* read_v1_members: the snapshot, then the log over it.                    *)
V1Members(snapshot, log) == FoldLeft(AfterEvent, snapshot, log)

(* Who is active in version 1: whose last event, or else the snapshot,     *)
(* says so.                                                                *)
ActiveInV1(snapshot, log, t) ==
  LET events == {i \in DOMAIN log : log[i].tenant = t}
  IN  IF events = {} THEN t \in snapshot ELSE log[Max(events)].kind = "join"

(* The members are read and the new chain founded, unless it has been.     *)
Migrate ==
  /\ job = NoJob
  /\ \E snapshot \in SUBSET Tenant, log \in BoundedSeq(Event, LogBound) :
       LET members == V1Members(snapshot, log)
           wanted  == {t \in Tenant : ActiveInV1(snapshot, log, t)}
       IN  /\ job' = [kind |-> "migrate", rest |-> ById(members, [t \in members |-> t]),
                      wanted |-> wanted, gone |-> {}]
           /\ invited' = invited \cup wanted
  /\ IF dim = None THEN \E d \in Dim : Membership!Found(d) ELSE UNCHANGED <<dim, active>>
  /\ UNCHANGED <<remotes, now, files>>

(* Admitted again, should it have been already.                            *)
Readmit ==
  /\ job.kind = "migrate" /\ job.rest # <<>>
  /\ Membership!Admit(Head(job.rest))
  /\ job' = [job EXCEPT !.rest = Tail(@), !.gone = @ \ {Head(job.rest)}]
  /\ UNCHANGED <<invited, remotes, now, files>>

Migrated ==
  /\ job.kind = "migrate" /\ job.rest = <<>>
  /\ job' = [job EXCEPT !.kind = "migrated"]
  /\ UNCHANGED <<chain, remotes, now, files>>

(* Any call ends with an error half way, or its process dies.              *)
Stop ==
  /\ job # NoJob
  /\ job' = NoJob
  /\ UNCHANGED <<chain, remotes, now, files>>

Next ==
  \/ \E r \in Remote : AddRemote(r) \/ RemoveRemote(r) \/ Serve(r)
  \/ \E t \in Tenant : RevokeElsewhere(t)
  \/ Tick \/ Rebuild \/ RebuildHere
  \/ Pull \/ ListSagas \/ Fetch \/ PullFails \/ Pulled
  \/ ListLocal \/ ListRemote \/ ListRemoteFails \/ ListSorted \/ Return
  \/ Migrate \/ Readmit \/ Migrated \/ Stop

Spec == Init /\ [][Next]_vars

----------------------------------------------------------------------------
(* Properties.                                                             *)

(* No file of an older build was written later than one of a newer build.  *)
InOrder == \A c, d \in dated : c.version < d.version => c.time <= d.time

(* A pull never puts an older saga in place of a newer one, whichever      *)
(* remotes fail and whatever they serve between list and fetch, as long as *)
(* the remotes' files are dated in the order of their builds and the owner *)
(* does not rebuild the local file between list and fetch.                 *)
PullsForward ==
  [][copy # None =>
       \/ copy'.version >= copy.version
       \/ ~InOrder
       \/ job.kind = "fetch" /\ job.seen # copy]_copy

(* members lists each tenant once, in order; a local member always with    *)
(* its local record, any other with that of the first remote that answered *)
(* and knows it; and nobody whom neither knows, whichever remotes fail.    *)
ListHonest ==
  job.kind = "listed" =>
    LET told(t) == {i \in DOMAIN job.told : t \in job.told[i].ids}
        of(t)   == IF t \in job.here THEN Local ELSE job.told[Min(told(t))].from
    IN  /\ \A i, j \in DOMAIN job.list : i < j => job.list[i].tenant < job.list[j].tenant
        /\ ToSet(job.list) = {Record(t, of(t)) :
             t \in {u \in Tenant : u \in job.here \/ told(u) # {}}}

(* A migration that finishes, at the first attempt or after any number of  *)
(* broken ones, has every member of version 1 in the new chain, those      *)
(* revoked while it ran excepted; and none ever brings in anyone else.     *)
MigrationExact ==
  /\ ActiveHere \subseteq invited
  /\ job.kind = "migrated" => job.wanted \subseteq ActiveHere \cup job.gone
=============================================================================
