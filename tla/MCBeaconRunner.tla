--------------------------- MODULE MCBeaconRunner ---------------------------
(***************************************************************************)
(* Deployments of a beacon on two stations: one supervisor under each      *)
(* restart policy, with two requests and any one fault; and a network      *)
(* whose holder goes down, whose leases may expire early, or whose         *)
(* Headquarters starts a stopped beacon and intervenes once more.          *)
(***************************************************************************)
EXTENDS BeaconRunner

Deployment(networked, policies, from, commands, faults, kinds) ==
  [networked : {networked}, policy : policies, from : {from},
   commands : {commands}, faults : {faults}, kinds : {kinds}]
MCSettings ==
  Deployment(FALSE, {"always", "on-failure", "never"}, "created", 2, 1, {"outage", "env", "hang", "fatal"})
  \cup Deployment(TRUE, {"always"}, "created", 0, 1, {"outage"})
  \cup Deployment(TRUE, {"always"}, "created", 0, 1, {"lapse"})
  \cup Deployment(TRUE, {"always"}, "stopped", 2, 1, {"env"})
MCHeadquarters == Deployment(TRUE, {"always"}, "created", 1, 0, {})
=============================================================================
