----------------------------- MODULE RunRecords -----------------------------
(***************************************************************************)
(* The rows of the signal queue and the patches the program applies to     *)
(* them.  A row keeps what the control flow reads: its status, how many    *)
(* attempts were claimed, the owning station, the fencing token of the     *)
(* current claim, whether that claim's lease is still unexpired            *)
(* (leaseExpiresAt > now), and whether a running attempt has exceeded its  *)
(* timeout (startedAt + timeout <= now).  Input, output and error carry no *)
(* control and are left out.                                               *)
(***************************************************************************)
EXTENDS Naturals

CONSTANTS Stations,  \* ids of the stations that execute runs
          Tokens,    \* fencing tokens: claimRun is called with a fresh one
          None       \* an undefined field of a row

ASSUME NoneAssumption == None \notin Stations /\ None \notin Tokens

Terminal == {"completed", "failed", "cancelled"}
Live     == {"pending", "running"}
\* "absent": not enqueued yet; "purged": deleted from the table for good
Status   == {"absent", "purged"} \cup Live \cup Terminal

Row == [status : Status, attempts : Nat, station : Stations \cup {None},
        token : Tokens \cup {None}, live : BOOLEAN, late : BOOLEAN]

AbsentRow == [status |-> "absent", attempts |-> 0, station |-> None,
              token |-> None, live |-> FALSE, late |-> FALSE]
PendingRow == [AbsentRow EXCEPT !.status = "pending"]

Unleased(row) == [row EXCEPT !.token = None, !.live = FALSE, !.late = FALSE]

(* A row as each call leaves it.  Operators marked "deviation" are not part *)
(* of the model: they are slips the properties are shown to catch.          *)
ClaimedSwapped(row, s, t) ==     \* deviation: station and token exchanged
  [status |-> "running", attempts |-> row.attempts + 1, station |-> t,
   token |-> s, live |-> TRUE, late |-> FALSE]
Claimed(row, s, t) ==
  [status |-> "running", attempts |-> row.attempts + 1, station |-> s,
   token |-> t, live |-> TRUE, late |-> FALSE]
Renewed(row)   == [row EXCEPT !.live = TRUE]
Cancelled(row) == [Unleased(row) EXCEPT !.status = "cancelled"]
Completed(row) == [Unleased(row) EXCEPT !.status = "completed"]
Failed(row)    == [Unleased(row) EXCEPT !.status = "failed"]
RetriedAfresh(row)     == PendingRow     \* deviation: attempts start over
RetriedStillOwned(row) ==                \* deviation: the lease is not dropped
  [row EXCEPT !.status = "pending", !.station = None]
Retried(row)   == [Unleased(row) EXCEPT !.status = "pending", !.station = None]
RecoveredForEver(row, max) == Retried(row)   \* deviation: no attempt is the last
Recovered(row, max) ==
  IF row.attempts >= max THEN [Failed(row) EXCEPT !.station = None]
                         ELSE Retried(row)

(* The compare-and-set condition of updateClaimedRun and renewRunLease. *)
OwnsAnyAttempt(row, t) == row.status = "running"   \* deviation: token not compared
Owns(row, t) == row.status = "running" /\ row.token = t
Lapsed(row)  == row.status = "running" /\ row.token # None /\ ~row.live
=============================================================================
