------------------------- MODULE MCBroadcastRunner -------------------------
(***************************************************************************)
(* Three nodes: a join of two roots that run side by side, listed last node *)
(* first; and a root that forks to two nodes, of which one also depends on  *)
(* the other.  Two nodes, for liveness: side by side, and a chain listed    *)
(* last node first.                                                         *)
(***************************************************************************)
EXTENDS BroadcastRunner

MCThree    == {<<{2, 3}, {}, {}>>, <<{}, {1}, {1, 2}>>}
MCTwo      == {<<{}, {}>>, <<{2}, {}>>}
MCChain    == {<<{}, {1}>>}
MCPolicies == {"fail-fast", "skip-downstream", "continue"}
MCFailFast == {"fail-fast"}
=============================================================================
