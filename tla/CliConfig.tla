------------------------------ MODULE CliConfig ------------------------------
(***************************************************************************)
(* The roster the command line tool keeps in ~/.hansa/cli.toml             *)
(* (hansa-cli/src/config.rs): the agents of this machine, in the order in  *)
(* which they were added, and which of them is active.                     *)
(***************************************************************************)
EXTENDS Naturals, SequencesExt

CONSTANTS
  Agent,        (* <hansa>/<tenant> names of agents                        *)
  None          (* no agent, no member                                     *)

(* Config::default(): what a missing file reads as, and an empty one, since *)
(* every field of the file has a default.                                  *)
EmptyConfig == [active |-> None, members |-> <<>>]

Member == [agent : Agent, id : Nat, next : Nat]

Config == [active : Agent \cup {None}, members : Seq(Member)]

Listed(cfg) == {m.agent : m \in ToSet(cfg.members)}

Ids(cfg) == {m.id : m \in ToSet(cfg.members)}

MemberOf(cfg, a) ==
  IF a \in Listed(cfg) THEN CHOOSE m \in ToSet(cfg.members) : m.agent = a
                       ELSE None

(* active_member: None where the command fails, because there is nobody or *)
(* the active one is not listed.                                           *)
ActiveMember(cfg) == MemberOf(cfg, cfg.active)

(* upsert_active: replace in place or append, and make it the active one.  *)
Upsert(cfg, m) ==
  [active  |-> m.agent,
   members |-> IF m.agent \in Listed(cfg)
               THEN [i \in DOMAIN cfg.members |->
                       IF cfg.members[i].agent = m.agent THEN m ELSE cfg.members[i]]
               ELSE Append(cfg.members, m)]

(* Vec::retain: the members but for those of agent a, in their order.      *)
Without(members, a) ==
  FoldLeft(LAMBDA left, m : IF m.agent = a THEN left ELSE Append(left, m), <<>>, members)

(* remove: the first of those left takes over when the active one goes.    *)
Removed(cfg, a) ==
  LET left == Without(cfg.members, a)
  IN  [active  |-> IF cfg.active # a THEN cfg.active
                   ELSE IF left = <<>> THEN None
                   ELSE left[1].agent,
       members |-> left]

(* Mutant: the id is handed out and the counter stays where it is.         *)
AdvancedMutant(cfg, a, n) == cfg

(* The roster once a's counter stands at n: alloc_record_id, and what      *)
(* ingest and watch assign.                                                *)
Advanced(cfg, a, n) ==
  [cfg EXCEPT !.members =
     [i \in DOMAIN cfg.members |->
        IF cfg.members[i].agent = a THEN [cfg.members[i] EXCEPT !.next = n]
                                    ELSE cfg.members[i]]]
=============================================================================
