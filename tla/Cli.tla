--------------------------------- MODULE Cli ---------------------------------
(***************************************************************************)
(* The commands of the hansa tool (hansa-cli/src/main.rs), run by several  *)
(* processes in one home directory: each loads cli.toml, works on a vault, *)
(* a registry and a saga, and writes cli.toml back, with no lock over the  *)
(* whole.  All agents belong to one hansa and share its key file.          *)
(*                                                                         *)
(* The registry is the abstract Membership that FileRegistry implements.   *)
(* Of a vault only the record ids it was given are kept.  A command may    *)
(* stop anywhere: an error ends it, or the process is killed.              *)
(***************************************************************************)
EXTENDS CliConfig

CONSTANTS
  Proc,         (* processes that run commands                             *)
  Dim,          (* embedding dimensions                                    *)
  IdBound,      (* no tenant id is drawn beyond this many                  *)
  RecordBound,  (* no record id is handed out from here on                 *)
  StopBound,    (* no command stops once this many did                     *)
  LossBound     (* nothing is followed once more agents' entries were lost *)

(* The commands that take more than one step; forget is as saga here.      *)
Operation == {"init", "use", "remember", "ingest", "watch", "leave", "saga"}

ASSUME CliAssumption ==
  /\ None \notin Agent \cup Dim \cup Operation /\ None \notin Member
  /\ IdBound \in Nat /\ RecordBound \in Nat /\ StopBound \in Nat
  /\ LossBound \in Nat

VARIABLES
  config,       (* what loading cli.toml returns                           *)
  keyfile,      (* the hansa's file in the keystore                        *)
  dim, active,  (* the registry, see Membership                            *)
  sagas,        (* tenant ids with a saga file                             *)
  pc,           (* what each process does next                             *)
  run,          (* its command: operation, agent, rosters read and to save *)
  stops,        (* how many commands stopped                               *)
  owner,        (* history: whose each tenant id is, in order of drawing   *)
  given,        (* history: record ids inserted in each agent's vault      *)
  reused,       (* history: agents with an id inserted twice               *)
  lost,         (* history: agents whose entry an overlap or a crash took  *)
  rewound       (* history: agents whose counter missed what they inserted *)

disk    == <<config, keyfile, dim, active, sagas>>
history == <<stops, owner, given, reused, lost, rewound>>

vars == <<config, keyfile, dim, active, sagas, pc, run, stops,
          owner, given, reused, lost, rewound>>

TenantId == 1..IdBound

Members == INSTANCE Membership WITH Tenant <- TenantId

Idle == [op |-> None, agent |-> None, base |-> EmptyConfig, cfg |-> EmptyConfig]

Run == [op : Operation \cup {None}, agent : Agent \cup {None},
        base : Config, cfg : Config]

TypeOK ==
  /\ config \in Config
  /\ keyfile \in {"missing", "torn", "key"}
  /\ Members!TypeOK
  /\ sagas \subseteq TenantId
  /\ pc \in [Proc -> {"idle", "key", "load", "save", "fill", "open", "join",
                      "admit", "insert", "reload", "refresh", "revoke", "unlink"}]
  /\ run \in [Proc -> Run]
  /\ stops \in 0..StopBound
  /\ owner \in Seq(Agent)
  /\ given \in [Agent -> SUBSET Nat]
  /\ reused \subseteq Agent /\ lost \subseteq Agent /\ rewound \subseteq Agent

Init ==
  /\ config = EmptyConfig /\ keyfile = "missing"
  /\ Members!Init
  /\ sagas = {}
  /\ pc = [p \in Proc |-> "idle"]
  /\ run = [p \in Proc |-> Idle]
  /\ owner = <<>>
  /\ given = [a \in Agent |-> {}]
  /\ stops = 0
  /\ reused = {} /\ lost = {} /\ rewound = {}

----------------------------------------------------------------------------
Goto(p, where) == pc' = [pc EXCEPT ![p] = where]

End(p) ==
  /\ Goto(p, "idle")
  /\ run' = [run EXCEPT ![p] = Idle]

(* The entry a command works with: the one it read, and may have changed.  *)
Mine(p) == MemberOf(run[p].cfg, run[p].agent)

(* What is left of a roster that will not be saved (again).                *)
Own(cfg, a) ==
  [active  |-> None,
   members |-> IF a \in Listed(cfg) THEN <<MemberOf(cfg, a)>> ELSE <<>>]

(* Another command is at work on the same agent, and both change it.       *)
Contended(p, op, a) ==
  /\ op # "saga"
  /\ \E q \in Proc \ {p} : run[q].agent = a /\ run[q].op # "saga"

Start(p, op, a, base, cfg) ==
  /\ run' = [run EXCEPT ![p] = [op |-> op, agent |-> a, base |-> base, cfg |-> cfg]]
  /\ lost' = lost \cup (IF Contended(p, op, a) THEN {a} ELSE {})

----------------------------------------------------------------------------
(* Config::load, and what each command picks from it.                      *)

(* init stores the key first: FileKeystore::store truncates, then writes.  *)
StoreKey(p) ==
  /\ pc[p] = "idle"
  /\ keyfile' = "torn"
  /\ Goto(p, "key")
  /\ UNCHANGED <<config, dim, active, sagas, run, history>>

KeyStored(p) ==
  /\ pc[p] = "key"
  /\ keyfile' = "key"
  /\ Goto(p, "load")
  /\ UNCHANGED <<config, dim, active, sagas, run, history>>

(* An agent that exists keeps its identity and its counter.                *)
InitKnown(p, a) ==
  /\ pc[p] = "load"
  /\ a \in Listed(config)
  /\ Start(p, "init", a, config, Upsert(config, MemberOf(config, a)))
  /\ Goto(p, "save")
  /\ UNCHANGED <<disk, stops, owner, given, reused, rewound>>

(* Mutant: a new agent is admitted before the roster is saved.             *)
InitNewMutant(p, a) ==
  /\ pc[p] = "load"
  /\ a \notin Listed(config)
  /\ Len(owner) < IdBound
  /\ Start(p, "init", a, config,
           Upsert(config, [agent |-> a, id |-> Len(owner) + 1, next |-> 0]))
  /\ owner' = Append(owner, a)
  /\ rewound' = rewound \cup (IF given[a] = {} THEN {} ELSE {a})
  /\ Goto(p, "open")
  /\ UNCHANGED <<disk, stops, given, reused>>

(* A new one draws a tenant id and counts from zero, also on a vault that  *)
(* an agent of this name left behind.                                      *)
InitNew(p, a) ==
  /\ pc[p] = "load"
  /\ a \notin Listed(config)
  /\ Len(owner) < IdBound
  /\ Start(p, "init", a, config,
           Upsert(config, [agent |-> a, id |-> Len(owner) + 1, next |-> 0]))
  /\ owner' = Append(owner, a)
  /\ rewound' = rewound \cup (IF given[a] = {} THEN {} ELSE {a})
  /\ Goto(p, "save")
  /\ UNCHANGED <<disk, stops, given, reused>>

Use(p, a) ==
  /\ pc[p] = "idle"
  /\ a \in Listed(config)
  /\ Start(p, "use", a, config, [config EXCEPT !.active = a])
  /\ Goto(p, "save")
  /\ UNCHANGED <<disk, stops, owner, given, reused, rewound>>

(* FileKeystore::load: a file cut short does not decode to a key.          *)
KeyLoads == keyfile = "key"

(* open_handle: the key is read, the registry founded if need be.          *)
OpenHandle ==
  /\ KeyLoads
  /\ IF dim = None THEN \E d \in Dim : Members!Found(d) ELSE UNCHANGED <<dim, active>>

FirstStep(op) == CASE op = "leave" -> "revoke"
                   [] op = "saga"  -> "refresh"
                   [] OTHER        -> "insert"

(* The others take the active agent, leave any one it is given, and open   *)
(* their handle; ingest and watch open the vault alone.                    *)
Pick(p, op, a) ==
  /\ pc[p] = "idle"
  /\ a \in Listed(config)
  /\ op = "leave" \/ MemberOf(config, a) = ActiveMember(config)
  /\ IF op \in {"ingest", "watch"}
     THEN KeyLoads /\ UNCHANGED <<dim, active>>
     ELSE OpenHandle
  /\ LET kept == IF op \in {"watch", "saga"} THEN Own(config, a) ELSE config
     IN  Start(p, op, a, kept, kept)
  /\ Goto(p, FirstStep(op))
  /\ UNCHANGED <<config, keyfile, sagas, stops, owner, given, reused, rewound>>

(* query, members, status and key only open a handle and look.             *)
Look(p) ==
  /\ pc[p] = "idle"
  /\ ActiveMember(config) # None
  /\ OpenHandle
  /\ UNCHANGED <<config, keyfile, sagas, pc, run, history>>

(* revoke: any id may be evicted, one's own and unknown ones included.     *)
Evict(p, id) ==
  /\ pc[p] = "idle"
  /\ ActiveMember(config) # None
  /\ KeyLoads
  /\ Members!Revoke(id)
  /\ UNCHANGED <<config, keyfile, sagas, pc, run, history>>

----------------------------------------------------------------------------
(* Record ids: remember takes one, a batch of ingest or watch up to two.   *)
Insert(p, n) ==
  LET a     == run[p].agent
      fresh == Mine(p).next .. Mine(p).next + n - 1
  IN  /\ pc[p] = "insert"
      /\ run[p].op = "remember" => n = 1
      /\ Mine(p).next + n <= RecordBound
      /\ given' = [given EXCEPT ![a] = @ \cup fresh]
      /\ reused' = reused \cup (IF fresh \cap given[a] = {} THEN {} ELSE {a})
      /\ run' = [run EXCEPT ![p].cfg = Advanced(@, a, Mine(p).next + n)]
      /\ Goto(p, IF run[p].op = "watch" THEN "reload" ELSE "save")
      /\ UNCHANGED <<disk, stops, owner, lost, rewound>>

(* watch reads the roster again before it sets the counter, and goes on    *)
(* without saving when its agent is not there any more.                    *)
Reload(p) ==
  /\ pc[p] = "reload"
  /\ IF run[p].agent \in Listed(config)
     THEN /\ run' = [run EXCEPT ![p].base = config,
                       ![p].cfg = Advanced(config, run[p].agent, Mine(p).next)]
          /\ Goto(p, "save")
          /\ UNCHANGED rewound
     ELSE /\ rewound' = rewound \cup {run[p].agent}
          /\ Goto(p, "insert")
          /\ UNCHANGED run
  /\ UNCHANGED <<disk, stops, owner, given, reused, lost>>

----------------------------------------------------------------------------
(* Config::save: fs::write truncates cli.toml, then fills it.              *)

(* use and leave end with it.                                              *)
NextAfterSave(op) == CASE op = "init"  -> "open"
                       [] op = "watch" -> "insert"
                       [] OTHER        -> "refresh"

(* Agents whose entry changed since this process read the roster: what it  *)
(* writes takes the change back.  All, while another fills the file.       *)
Overwritten(p) ==
  IF \E q \in Proc \ {p} : pc[q] = "fill" THEN Agent
  ELSE {a \in Agent : MemberOf(config, a) # MemberOf(run[p].base, a)}

Truncate(p) ==
  /\ pc[p] = "save"
  /\ config' = EmptyConfig
  /\ lost' = lost \cup Overwritten(p)
  /\ Goto(p, "fill")
  /\ UNCHANGED <<keyfile, dim, active, sagas, run, stops, owner, given, reused, rewound>>

Fill(p) ==
  /\ pc[p] = "fill"
  /\ config' = run[p].cfg
  /\ IF run[p].op \in {"use", "leave"} THEN End(p)
     ELSE LET kept == Own(run[p].cfg, run[p].agent)
          IN  /\ run' = [run EXCEPT ![p].base = kept, ![p].cfg = kept]
              /\ Goto(p, NextAfterSave(run[p].op))
  /\ UNCHANGED <<keyfile, dim, active, sagas, history>>

----------------------------------------------------------------------------
(* init goes on to Hansa::join: a saga first, then the admission.          *)

Open(p) ==
  /\ pc[p] = "open"
  /\ OpenHandle
  /\ Goto(p, "join")
  /\ UNCHANGED <<config, keyfile, sagas, run, history>>

Join(p) ==
  /\ pc[p] = "join"
  /\ sagas' = sagas \cup {Mine(p).id}
  /\ Goto(p, "admit")
  /\ UNCHANGED <<config, keyfile, dim, active, run, history>>

Admit(p) ==
  /\ pc[p] = "admit"
  /\ Members!Admit(Mine(p).id)
  /\ Goto(p, "refresh")
  /\ UNCHANGED <<config, keyfile, sagas, run, history>>

(* ingest, back from saving, opens the handle it could not share before.   *)
Refresh(p) ==
  /\ pc[p] = "refresh"
  /\ IF run[p].op = "ingest" THEN OpenHandle ELSE UNCHANGED <<dim, active>>
  /\ sagas' = sagas \cup {Mine(p).id}
  /\ End(p)
  /\ UNCHANGED <<config, keyfile, history>>

(* leave: Hansa::leave, then the roster.                                   *)
Revoke(p) ==
  /\ pc[p] = "revoke"
  /\ Members!Revoke(Mine(p).id)
  /\ Goto(p, "unlink")
  /\ UNCHANGED <<config, keyfile, sagas, run, history>>

Unlink(p) ==
  /\ pc[p] = "unlink"
  /\ sagas' = sagas \ {Mine(p).id}
  /\ run' = [run EXCEPT ![p].cfg = Removed(@, run[p].agent)]
  /\ Goto(p, "save")
  /\ UNCHANGED <<config, keyfile, dim, active, history>>

(* An error or a kill.  Inserted records whose ids are not saved stay in   *)
(* the vault; a roster half written is gone.                               *)
Stop(p) ==
  /\ pc[p] # "idle"
  /\ stops < StopBound
  /\ stops' = stops + 1
  /\ lost' = lost \cup (IF pc[p] = "fill" THEN Agent ELSE {})
  /\ rewound' = rewound \cup
       (IF run[p].op \in {"remember", "ingest", "watch"} /\ run[p].cfg # run[p].base
        THEN {run[p].agent} ELSE {})
  /\ End(p)
  /\ UNCHANGED <<disk, owner, given, reused>>

----------------------------------------------------------------------------
Step(p) ==
  \/ StoreKey(p) \/ KeyStored(p)
  \/ \E a \in Agent : InitKnown(p, a) \/ InitNew(p, a) \/ Use(p, a)
  \/ \E a \in Agent, op \in Operation \ {"init", "use"} : Pick(p, op, a)
  \/ Look(p) \/ \E id \in TenantId : Evict(p, id)
  \/ \E n \in 1..2 : Insert(p, n)
  \/ Reload(p) \/ Truncate(p) \/ Fill(p)
  \/ Open(p) \/ Join(p) \/ Admit(p) \/ Refresh(p)
  \/ Revoke(p) \/ Unlink(p)
  \/ Stop(p)

Next == /\ Cardinality(lost) <= LossBound
        /\ \E p \in Proc : Step(p)

Spec == Init /\ [][Next]_vars

----------------------------------------------------------------------------
(* Properties.                                                             *)

(* alloc_record_id is "monotonic": whatever sequence of commands, of one   *)
(* agent or of several at once, fills a vault, no id is given out twice;   *)
(* unless two commands that change this agent overlapped, a save took back *)
(* its entry or died half way, a command stopped between insert and save,  *)
(* or the agent left and was made anew on the vault it had kept.           *)
IdsUnique == reused \subseteq lost \cup rewound

(* The rosters that are, or are about to be, in cli.toml.                  *)
Current == {config} \cup {run[p].cfg : p \in {q \in Proc : pc[q] = "fill"}}

(* Whatever command stops wherever, the registry has no member of this     *)
(* machine that cli.toml does not know, and that no leave can remove       *)
(* therefore: init saves before it admits, leave revokes before it saves.  *)
(* Only an overlap or a write cut short (`lost`) can make one.             *)
MembersListed ==
  \A id \in 1..Len(owner) :
    active[id] # None =>
      owner[id] \in lost \/ \E cfg \in Current : id \in Ids(cfg)
=============================================================================
