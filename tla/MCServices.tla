----------------------------- MODULE MCServices -----------------------------
(***************************************************************************)
(* Six tables and what works on them, which share nothing: the runs of a   *)
(* signal queue, as SQL and as Redis keys; the step records of one run; a  *)
(* schedule with its reconcilers; the stations of a network; the versions  *)
(* of a broadcast definition.  In every behaviour one of them is in use.   *)
(*                                                                         *)
(* Two runs, of two attempts and of one, two stations, and one token for   *)
(* every claim that can succeed; three attempts at two steps; two          *)
(* reconcilers; two members; two saves of a definition that may need one   *)
(* signal, and one run of it.                                              *)
(***************************************************************************)
EXTENDS RunQueue, RedisQueue, StepExecution, ScheduleReconciler, Membership,
        DynamicDefinitions, TLC

CONSTANTS r1, r2

VARIABLE use   \* the service this behaviour is about

keys     == <<index, scans, purges>>
schedule == <<now, policy, sched, job, fired, live, swept, blind, events>>
members  == <<roster, process, beat, order, left>>

MCMaxAttempts == r1 :> 2 @@ r2 :> 1
MCRules == {[every |-> 1, at |-> {}], [every |-> 0, at |-> {1, 3, 5}]}
MCPolicies ==
  {[overlap |-> "skip", misfire |-> "fire-once"], [overlap |-> "skip", misfire |-> "skip"],
   [overlap |-> "skip", misfire |-> "catch-up"], [overlap |-> "allow", misfire |-> "catch-up"]}

-----------------------------------------------------------------------------
(* A service that is not in use: no schedule, no member, an empty queue.    *)
NoSchedule ==
  /\ now = MaxTime /\ policy = CHOOSE p \in Policies : TRUE
  /\ sched = [there |-> FALSE, enabled |-> FALSE, rule |-> Idle.rule, next |-> 0]
  /\ job = [r \in Reconcilers |-> Idle] /\ fired = [o \in Times |-> 0]
  /\ live = 0 /\ swept = 0 /\ blind = FALSE /\ events = MaxEvents
NoMember ==
  /\ roster = [s \in Members |-> [status |-> "none", fresh |-> FALSE]]
  /\ process = [s \in Members |-> "down"] /\ beat = [s \in Members |-> "idle"]
  /\ order = NoOrder /\ left = [starts |-> 0, orders |-> 0, delays |-> 0]

ServicesInit ==
  /\ RedisInit /\ StepsInit /\ DefinitionsInit
  /\ \/ use \in {"queue", "redis", "steps", "definitions"} /\ NoSchedule /\ NoMember
     \/ use = "schedule" /\ ScheduleInit /\ NoMember
     \/ use = "members" /\ NoSchedule /\ MembersInit
ServicesNext ==
  \/ use = "queue" /\ Next /\ UNCHANGED <<use, keys, stepVars, schedule, members, defVars>>
  \/ use = "redis" /\ RedisNext /\ UNCHANGED <<use, stepVars, schedule, members, defVars>>
  \/ use = "steps" /\ StepsNext /\ UNCHANGED <<use, vars, keys, schedule, members, defVars>>
  \/ /\ use = "definitions" /\ DefinitionsNext
     /\ UNCHANGED <<use, vars, keys, stepVars, schedule, members>>
  \/ ScheduleNext /\ UNCHANGED <<use, vars, keys, stepVars, members, defVars>>
  \/ MembersNext /\ UNCHANGED <<use, vars, keys, stepVars, schedule, defVars>>
ServicesSpec ==
  /\ ServicesInit /\ [][ServicesNext]_<<use, vars, keys, stepVars, schedule, members, defVars>>
  /\ ScheduleFairness /\ MembersFairness /\ DefinitionsFairness

(* The inductive invariants of the queue's contract, of the children of a  *)
(* step-based run and of the table of stations; and while the rows are     *)
(* Redis hashes, their index keys agree with them: every status set, the   *)
(* orders of pending and running runs and the sets of the signal hold      *)
(* exactly the runs they are for, and what a caller of requeueExpiredRuns  *)
(* or purgeRuns remembers was true of the run.                             *)
TablesCoherent ==
  /\ IInv /\ StepsInv /\ MembersInv
  /\ use = "redis" => RedisInv
=============================================================================
