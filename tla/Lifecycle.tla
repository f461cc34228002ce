------------------------------ MODULE Lifecycle ------------------------------
(***************************************************************************)
(* The life of one member (hansa.rs) and of its background refresh         *)
(* (background.rs).  Its process joins, leaves and rebuilds its saga on    *)
(* one thread, inserts records on any, and may run a refresh task on a     *)
(* thread of its own; others revoke it, look for its saga in a query, or   *)
(* copy it into a snapshot.  The process may die between any two steps.    *)
(*                                                                         *)
(* The chain is the abstract Membership.  Of a saga, all that counts is    *)
(* the record count it was built with; writing one is atomic               *)
(* (skeg-hull).  Deletions are left out: only the command line tool        *)
(* deletes (cmd_forget), and it runs no refresh task.                      *)
(***************************************************************************)
EXTENDS Integers

CONSTANTS
  Me,           (* the member's tenant                                     *)
  Dim,          (* embedding dimensions                                    *)
  LocalDim,     (* the tenant's own                                        *)
  None,         (* no saga file; not a member                              *)
  Reader,       (* peers that query, threads that make a snapshot          *)
  MinGrowth,    (* min_growth                                              *)
  Percent,      (* threshold_ratio, in percent                             *)
  RecordBound   (* no record is inserted after this many                   *)

ASSUME LifecycleAssumption ==
  /\ LocalDim \in Dim /\ None \notin Dim \cup Nat
  /\ MinGrowth \in Nat \ {0} /\ Percent \in Nat /\ RecordBound \in Nat

VARIABLES
  dim, active,  (* the chain, see Membership                               *)
  count,        (* record_count                                            *)
  saga,         (* <me>.saga: the number of records it tells of            *)
  main,         (* the thread that calls: where it is, the saga it is to   *)
                (* write, and whether it joins after that                  *)
  bg,           (* the refresh thread: where it is, last_built, current    *)
  stop,         (* the flag that it shares with its handle                 *)
  task,         (* history: how the caller left the refresh task           *)
  left,         (* history: a leave has returned and nothing begun since   *)
  reader        (* where each reader is, and whether the saga was removed  *)
                (* between its two looks                                   *)

chain   == <<dim, active>>
threads == <<main, bg, stop>>

lifeVars == <<dim, active, count, saga, main, bg, stop, task, left, reader>>

Member == INSTANCE Membership WITH Tenant <- {Me}

Count == 0..RecordBound

LifeTypeOK ==
  /\ Member!TypeOK
  /\ count \in Count /\ saga \in Count \cup {None}
  /\ main \in [pc : {"idle", "write", "admit", "remove", "stopping"},
               held : Count, joins : BOOLEAN]
  /\ bg \in [pc : {"none", "sleep", "check", "build", "write"},
             last_built : Count, current : Count]
  /\ stop \in BOOLEAN /\ left \in BOOLEAN
  /\ task \in {"none", "held", "dropped"}
  /\ reader \in [Reader -> [pc : {"idle", "listed", "found", "failed"}, gone : BOOLEAN]]

Idle == [pc |-> "idle", held |-> 0, joins |-> FALSE]

NoTask == [pc |-> "none", last_built |-> 0, current |-> 0]

(* The hansa has been founded, by a tenant of whatever dimension.          *)
LifeInit ==
  /\ dim \in Dim /\ active = [t \in {Me} |-> None]
  /\ count = 0 /\ saga = None
  /\ main = Idle /\ bg = NoTask /\ stop = FALSE
  /\ task = "none" /\ left = FALSE
  /\ reader = [r \in Reader |-> [pc |-> "idle", gone |-> FALSE]]

----------------------------------------------------------------------------
Insert ==
  /\ count < RecordBound
  /\ count' = count + 1
  /\ UNCHANGED <<chain, saga, threads, task, left, reader>>

(* refresh_saga reads the tenant, builds, and then writes.                 *)
RefreshSaga ==
  /\ main.pc = "idle"
  /\ main' = [pc |-> "write", held |-> count, joins |-> FALSE]
  /\ left' = FALSE
  /\ UNCHANGED <<chain, count, saga, bg, stop, task, reader>>

(* join makes sure of a saga, any saga, before it admits.                  *)
Join ==
  /\ main.pc = "idle"
  /\ main' = IF saga = None THEN [pc |-> "write", held |-> count, joins |-> TRUE]
                            ELSE [Idle EXCEPT !.pc = "admit"]
  /\ left' = FALSE
  /\ UNCHANGED <<chain, count, saga, bg, stop, task, reader>>

WriteSaga ==
  /\ main.pc = "write"
  /\ saga' = main.held
  /\ main' = IF main.joins THEN [Idle EXCEPT !.pc = "admit"] ELSE Idle
  /\ UNCHANGED <<chain, count, bg, stop, task, left, reader>>

(* admit, of a tenant of the hansa's own dimension.                        *)
Admit ==
  /\ main.pc = "admit" /\ dim = LocalDim
  /\ Member!Admit(Me)
  /\ main' = Idle
  /\ UNCHANGED <<count, saga, bg, stop, task, left, reader>>

(* leave revokes, and then removes the file.                               *)
Leave ==
  /\ main.pc = "idle"
  /\ Member!Revoke(Me)
  /\ main' = [Idle EXCEPT !.pc = "remove"]
  /\ UNCHANGED <<count, saga, bg, stop, task, left, reader>>

RemoveSaga ==
  /\ main.pc = "remove"
  /\ saga' = None
  /\ main' = Idle
  /\ left' = (task = "none")
  /\ reader' = [r \in Reader |-> [reader[r] EXCEPT !.gone = @ \/ reader[r].pc = "found"]]
  /\ UNCHANGED <<chain, count, bg, stop, task>>

(* Any of these calls may end with an error on its way.                    *)
CallFails ==
  /\ main.pc \in {"write", "admit", "remove"}
  /\ main' = Idle
  /\ UNCHANGED <<chain, count, saga, bg, stop, task, left, reader>>

(* The same from elsewhere: a skipper revokes by tenant id.                *)
RevokeElsewhere ==
  /\ Member!Revoke(Me)
  /\ UNCHANGED <<count, saga, threads, task, left, reader>>

----------------------------------------------------------------------------
(* The refresh task.  One at a time is run.                                *)

(* start_background_refresh: growth is measured from the count of now.     *)
Start ==
  /\ main.pc = "idle" /\ bg.pc = "none"
  /\ bg' = [pc |-> "sleep", last_built |-> count, current |-> 0]
  /\ stop' = FALSE /\ task' = "held" /\ left' = FALSE
  /\ UNCHANGED <<chain, count, saga, main, reader>>

(* RefreshHandle::stop sets the flag and waits for the thread.             *)
Stop ==
  /\ main.pc = "idle" /\ task = "held"
  /\ stop' = TRUE
  /\ main' = [Idle EXCEPT !.pc = "stopping"]
  /\ UNCHANGED <<chain, count, saga, bg, task, left, reader>>

(* Mutant: stop does not wait.                                             *)
StoppedMutant ==
  /\ main.pc = "stopping"
  /\ main' = Idle
  /\ task' = "none"
  /\ UNCHANGED <<chain, count, saga, bg, stop, left, reader>>

Stopped ==
  /\ main.pc = "stopping" /\ bg.pc = "none"
  /\ main' = Idle
  /\ task' = "none"
  /\ UNCHANGED <<chain, count, saga, bg, stop, left, reader>>

(* A handle that is dropped only sets the flag.                            *)
Drop ==
  /\ main.pc = "idle" /\ task = "held"
  /\ stop' = TRUE /\ task' = "dropped"
  /\ UNCHANGED <<chain, count, saga, main, bg, left, reader>>

BackgroundRefreshConfig == [min_growth |-> MinGrowth, threshold_ratio |-> Percent]

Grown(from, to) ==
  /\ to - from >= BackgroundRefreshConfig.min_growth
  /\ (to - from) * 100 >= from * BackgroundRefreshConfig.threshold_ratio

(* The interval is over, or the flag was seen in one of its slices.        *)
Wake ==
  /\ bg.pc = "sleep"
  /\ bg' = IF stop THEN NoTask ELSE [bg EXCEPT !.pc = "check"]
  /\ UNCHANGED <<chain, count, saga, main, stop, task, left, reader>>

Check ==
  /\ bg.pc = "check"
  /\ bg' = IF Grown(bg.last_built, count)
           THEN [bg EXCEPT !.pc = "build", !.current = count]
           ELSE [bg EXCEPT !.pc = "sleep"]
  /\ UNCHANGED <<chain, count, saga, main, stop, task, left, reader>>

Build ==
  /\ bg.pc = "build"
  /\ bg' = [bg EXCEPT !.pc = "write"]
  /\ UNCHANGED <<chain, count, saga, main, stop, task, left, reader>>

Write ==
  /\ bg.pc = "write"
  /\ saga' = bg.current
  /\ bg' = [pc |-> "sleep", last_built |-> bg.current, current |-> 0]
  /\ UNCHANGED <<chain, count, main, stop, task, left, reader>>

(* Mutant: what failed counts as built.                                    *)
RefreshFailsMutant ==
  /\ bg.pc \in {"build", "write"}
  /\ bg' = [pc |-> "sleep", last_built |-> bg.current, current |-> 0]
  /\ UNCHANGED <<chain, count, saga, main, stop, task, left, reader>>

(* A build or a write that fails is logged and tried again after a sleep.  *)
RefreshFails ==
  /\ bg.pc \in {"build", "write"}
  /\ bg' = [bg EXCEPT !.pc = "sleep", !.current = 0]
  /\ UNCHANGED <<chain, count, saga, main, stop, task, left, reader>>

(* The process dies; its next one finds the chain, records and saga.       *)
Die ==
  /\ main' = Idle /\ bg' = NoTask
  /\ stop' = FALSE /\ task' = "none"
  /\ UNCHANGED <<chain, count, saga, left, reader>>

----------------------------------------------------------------------------
(* Readers: a peer's query looks for the sagas of those that the registry  *)
(* lists, a snapshot for that of its own member.                           *)
ReaderGoes(r, where) ==
  /\ reader' = [reader EXCEPT ![r] = [pc |-> where, gone |-> FALSE]]
  /\ UNCHANGED <<chain, count, saga, threads, task, left>>

Query(r) ==
  /\ reader[r].pc = "idle" /\ active[Me] # None
  /\ ReaderGoes(r, "listed")

Snapshot(r) ==
  /\ reader[r].pc = "idle"
  /\ ReaderGoes(r, "listed")

(* Mutant: the file is not looked for before it is read.                   *)
LookMutant(r) ==
  /\ reader[r].pc = "listed"
  /\ ReaderGoes(r, "found")

(* load_peer_saga and snapshot pass over a file that does not exist; one   *)
(* that went away after the look is an error of the whole call.            *)
Look(r) ==
  /\ reader[r].pc = "listed"
  /\ ReaderGoes(r, IF saga = None THEN "idle" ELSE "found")

Load(r) ==
  /\ reader[r].pc = "found"
  /\ IF saga = None
     THEN /\ reader' = [reader EXCEPT ![r].pc = "failed"]
          /\ UNCHANGED <<chain, count, saga, threads, task, left>>
     ELSE ReaderGoes(r, "idle")

GiveUp(r) ==
  /\ reader[r].pc = "failed"
  /\ ReaderGoes(r, "idle")

----------------------------------------------------------------------------
LifeNext ==
  \/ Insert \/ RefreshSaga \/ Join \/ WriteSaga \/ Admit
  \/ Leave \/ RemoveSaga \/ CallFails \/ RevokeElsewhere
  \/ Start \/ Stop \/ Stopped \/ Drop
  \/ Wake \/ Check \/ Build \/ Write \/ RefreshFails \/ Die
  \/ \E r \in Reader : Query(r) \/ Snapshot(r) \/ Look(r) \/ Load(r) \/ GiveUp(r)

(* The operating system runs the refresh thread, and a thread that waits   *)
(* for it; builds and writes do not fail for ever.                         *)
Fairness ==
  /\ WF_lifeVars(Wake) /\ WF_lifeVars(Check) /\ SF_lifeVars(Build) /\ SF_lifeVars(Write)
  /\ WF_lifeVars(Build \/ Write \/ RefreshFails) /\ WF_lifeVars(Stopped)

LifeSpec == LifeInit /\ [][LifeNext]_lifeVars /\ Fairness

----------------------------------------------------------------------------
(* Properties.                                                             *)

(* A member always has a saga for its peers, across crashes and failures:  *)
(* join writes it before it admits, leave revokes before it removes it.    *)
MemberHasSaga == active[Me] # None => saga # None

(* After leave there is no saga of the member again, as long as it begins  *)
(* nothing new, if every refresh task was stopped, not merely dropped,     *)
(* before: once stop has returned, its task writes no more.                *)
LeftNoSaga == left => saga = None

(* The saga file comes before the membership and goes after it.            *)
SagaFollowsMembership == MemberHasSaga /\ LeftNoSaga

(* A peer's query, or a snapshot, fails over the saga only when the member *)
(* left between its look at the file and its read: never because a saga is *)
(* not there yet or is being rebuilt.                                      *)
FailsOnlyOnLeave == \A r \in Reader : reader[r].pc = "failed" => reader[r].gone

IsRunning == bg.pc # "none" /\ ~stop

Fresh == saga # None /\ ~Grown(saga, count)

CaughtUp == (IsRunning /\ Grown(bg.last_built, count)) ~> (~IsRunning \/ Fresh)

StopReturns == (main.pc = "stopping") ~> (main.pc # "stopping")

(* The refresh task lives and dies as it should.  Once the tenant has      *)
(* grown past the threshold, a task that goes on running brings the saga   *)
(* up to date, although builds and writes fail; and RefreshHandle::stop    *)
(* returns, wherever the thread was.                                       *)
RefreshLives == CaughtUp /\ StopReturns
=============================================================================
