---------------------------- MODULE MCBroadcasts ----------------------------
(***************************************************************************)
(* For safety: a broadcast of three nodes; and one dynamic definition, with *)
(* two saves, a signal it may need, and a run of it.  The two share nothing *)
(* here: in every behaviour one of them is at work.                         *)
(***************************************************************************)
EXTENDS MCBroadcastRunner, DynamicDefinitions

VARIABLE work   \* what this behaviour is about

(* A broadcast that nobody takes up. *)
NoBroadcast == Init /\ dependsOn = (CHOOSE graph \in Graphs : TRUE) /\ policy = "continue"

BroadcastsInit ==
  /\ DefinitionsInit
  /\ \/ work = "broadcast" /\ Init
     \/ work = "definitions" /\ NoBroadcast
BroadcastsNext ==
  \/ work = "broadcast" /\ Next /\ UNCHANGED <<work, defVars>>
  \/ work = "definitions" /\ DefinitionsNext /\ UNCHANGED <<work, vars>>
BroadcastsSpec == BroadcastsInit /\ [][BroadcastsNext]_<<work, vars, defVars>>
=============================================================================
