---------------------------- MODULE DagExecution ----------------------------
(***************************************************************************)
(* What a broadcast promises the person who triggered it, as long as they  *)
(* do not cancel it: a node executes once its dependencies have been       *)
(* served, is skipped only below a failure, and is stopped only when the   *)
(* broadcast ran out of time or has to fail fast; what has ended stays as  *)
(* it is; and the outcome is the one that the nodes justify.  The process  *)
(* that executes the broadcast may be replaced at any moment, by one that  *)
(* does not know its definition.                                           *)
(***************************************************************************)
CONSTANTS Nodes,     \* the nodes of the definition
          Graphs,    \* the dependsOn functions considered
          Policies   \* the failure policies considered

VARIABLES dependsOn, policy,   \* the definition
          status,              \* broadcastRun.status
          late,                \* the broadcast has exceeded its timeout
          node,                \* what has become of each node
          lost                 \* the process does not know the definition

definition == <<dependsOn, policy>>
vars == <<definition, status, late, node, lost>>

Open   == {"waiting", "executing"}
Served == {"completed", "guard"}       \* or declined by its guard
Broken == {"failed", "upstream"}       \* or skipped below a failure
Failed == \E n \in Nodes : node[n] = "failed"

Init ==
  /\ dependsOn \in Graphs /\ policy \in Policies
  /\ status = "pending" /\ late = FALSE
  /\ node = [n \in Nodes |-> "waiting"]
  /\ lost = FALSE

Begin ==
  /\ status = "pending" /\ status' = "running"
  /\ late' = FALSE
  /\ UNCHANGED <<definition, node, lost>>

Move(n, from, to) ==
  /\ status = "running"
  /\ node[n] \in from /\ \E st \in to : node' = [node EXCEPT ![n] = st]
  /\ UNCHANGED <<definition, status, late, lost>>
Serve(n) == /\ \A d \in dependsOn[n] : node[d] \in Served
            /\ Move(n, {"waiting"}, {"executing", "guard", "failed"})
Report(n) == Move(n, {"executing"}, {"completed", "failed"})
Skip(n) == /\ policy # "fail-fast" /\ \E d \in dependsOn[n] : node[d] \in Broken
           /\ Move(n, {"waiting"}, {"upstream"})
Stop(n) == /\ late \/ (policy = "fail-fast" /\ Failed)
           /\ Move(n, Open, {"cancelled"})

End(outcome) ==
  /\ status = "running" /\ status' = outcome
  /\ UNCHANGED <<definition, late, node, lost>>
Complete == /\ \A n \in Nodes : node[n] \in Served \/ (policy = "continue" /\ node[n] \in Broken)
            /\ End("completed")
Fail == /\ late \/ (policy # "continue" /\ Failed)
        /\ \A n \in Nodes : node[n] \notin Open
        /\ End("failed")
GiveUp == /\ lost /\ status \in {"pending", "running"}
          /\ status' = "failed"
          /\ UNCHANGED <<definition, late, node, lost>>

(* Time, and the process. *)
Overdue == /\ status = "running" /\ late' = TRUE
           /\ UNCHANGED <<definition, status, node, lost>>
Replaced == /\ lost' \in BOOLEAN
            /\ UNCHANGED <<definition, status, late, node>>

Next == \/ \E n \in Nodes : Serve(n) \/ Report(n) \/ Skip(n) \/ Stop(n)
        \/ Begin \/ Complete \/ Fail \/ GiveUp \/ Overdue \/ Replaced

Spec == Init /\ [][Next]_vars

-----------------------------------------------------------------------------
(* A node that executes, has completed or was declined stands on           *)
(* dependencies that were served; one that was skipped, on one that broke; *)
(* and a completed broadcast has served every node, or those not below a   *)
(* failure if the policy is to continue.                                   *)
Promise ==
  /\ status = "pending" => \A n \in Nodes : node[n] = "waiting"
  /\ \A n \in Nodes : node[n] \in Served \cup {"executing"} =>
       \A d \in dependsOn[n] : node[d] \in Served
  /\ \A n \in Nodes : node[n] = "upstream" => \E d \in dependsOn[n] : node[d] \in Broken
  /\ status = "completed" =>
       \A n \in Nodes : node[n] \in Served \/ (policy = "continue" /\ node[n] \in Broken)
=============================================================================
