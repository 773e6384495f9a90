---------------------------- MODULE RunLifecycle ----------------------------
(***************************************************************************)
(* What the queue promises the person who triggered one run: the run is    *)
(* attempted at most MaxAttempts times, an attempt is retried only while   *)
(* budget is left, it completes on the report of the attempt that is       *)
(* current at that moment, and once completed, failed or cancelled it      *)
(* never changes again, short of being purged.                             *)
(***************************************************************************)
EXTENDS Naturals

CONSTANT MaxAttempts      \* run.maxAttempts

VARIABLES status,         \* run.status
          attempts,       \* run.attempts
          credit          \* the attempt whose report completed the run, or 0

vars == <<status, attempts, credit>>

Init == status = "absent" /\ attempts = 0 /\ credit = 0

Enqueue  == /\ status = "absent"
            /\ status' = "pending"
            /\ UNCHANGED <<attempts, credit>>
Start    == /\ status = "pending" /\ attempts < MaxAttempts
            /\ status' = "running"
            /\ attempts' = attempts + 1
            /\ UNCHANGED credit
Complete == /\ status = "running"
            /\ status' = "completed"
            /\ credit' = attempts
            /\ UNCHANGED attempts
Retry    == /\ status = "running" /\ attempts < MaxAttempts
            /\ status' = "pending"
            /\ UNCHANGED <<attempts, credit>>
Fail     == /\ status = "running"
            /\ status' = "failed"
            /\ UNCHANGED <<attempts, credit>>
Cancel   == /\ status \in {"pending", "running"}
            /\ status' = "cancelled"
            /\ UNCHANGED <<attempts, credit>>
Purge    == /\ status \in {"completed", "failed", "cancelled"}
            /\ status' = "purged"
            /\ UNCHANGED <<attempts, credit>>

Next == Enqueue \/ Start \/ Complete \/ Retry \/ Fail \/ Cancel \/ Purge

Spec == Init /\ [][Next]_vars
=============================================================================
