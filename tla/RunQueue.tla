------------------------------ MODULE RunQueue ------------------------------
(***************************************************************************)
(* The run table of a signal queue adapter, under the most general         *)
(* clients: any station may call any operation at any moment, with any     *)
(* fencing token it was ever granted, however stale.  Every operation is   *)
(* one atomic step, as each is one synchronous body (memory adapter) or    *)
(* one conditional UPDATE (SQL adapters).                                  *)
(*                                                                         *)
(* Time is abstracted to flags of a row: LeaseLapses is the clock passing  *)
(* leaseExpiresAt, Overdue is it passing startedAt + timeout.  A caller    *)
(* passes in its own reading of the clock, which may be stale, so recovery *)
(* may miss a lease the table already shows as lapsed, and a renewal may   *)
(* still accept one.                                                       *)
(***************************************************************************)
EXTENDS RunRecords

CONSTANTS Runs,         \* run ids
          MaxAttempts   \* run.maxAttempts, per run

ASSUME MaxAttemptsAssumption == MaxAttempts \in [Runs -> Nat \ {0}]

VARIABLES runs,         \* the table: run id -> row
          granted,      \* history: token -> the claim it was granted for
          credit        \* history: run -> the attempt that completed it, or 0

vars == <<runs, granted, credit>>

(* The claims the table has granted: which run, and which attempt of it. *)
Claims  == [run : Runs, attempt : Nat]
NoClaim == None

ASSUME NoClaimAssumption == NoClaim \notin Claims

Init ==
  /\ runs    = [r \in Runs |-> AbsentRow]
  /\ granted = [t \in Tokens |-> NoClaim]
  /\ credit  = [r \in Runs |-> 0]

-----------------------------------------------------------------------------
(* addRun rejects an id the table has seen. *)
AddRun(r) ==
  /\ runs[r].status = "absent"
  /\ runs' = [runs EXCEPT ![r] = PendingRow]
  /\ UNCHANGED <<granted, credit>>

(* Only a pending run can be claimed, and the caller brings a fresh token. *)
ClaimRunning(r, s, t) ==   \* deviation: a running run can be claimed too
  /\ granted[t] = NoClaim
  /\ runs[r].status \in Live
  /\ runs' = [runs EXCEPT ![r] = Claimed(@, s, t)]
  /\ granted' = [granted EXCEPT ![t] = [run |-> r, attempt |-> runs[r].attempts + 1]]
  /\ UNCHANGED credit
ClaimRun(r, s, t) ==
  /\ granted[t] = NoClaim
  /\ runs[r].status = "pending"
  /\ runs' = [runs EXCEPT ![r] = Claimed(@, s, t)]
  /\ granted' = [granted EXCEPT ![t] = [run |-> r, attempt |-> runs[r].attempts + 1]]
  /\ UNCHANGED credit

CancelSettled(r) ==        \* deviation: the status is not checked
  /\ runs[r].status \notin {"absent", "purged"}
  /\ runs' = [runs EXCEPT ![r] = Cancelled(@)]
  /\ UNCHANGED <<granted, credit>>
CancelRun(r) ==
  /\ runs[r].status \in Live
  /\ runs' = [runs EXCEPT ![r] = Cancelled(@)]
  /\ UNCHANGED <<granted, credit>>

(* The expiry test compares with the caller's clock, so a lapsed lease may *)
(* still be renewed by the owner of its token.                             *)
RenewRunLease(r, t) ==
  /\ Owns(runs[r], t)
  /\ runs' = [runs EXCEPT ![r] = Renewed(@)]
  /\ UNCHANGED <<granted, credit>>

(* updateClaimedRun with each patch its callers build.  A caller asks for  *)
(* a retry only when the attempt it reports is not the last one allowed.   *)
CompleteClaimedRun(r, t) ==
  /\ Owns(runs[r], t)
  /\ runs' = [runs EXCEPT ![r] = Completed(@)]
  /\ credit' = [credit EXCEPT ![r] = granted[t].attempt]
  /\ UNCHANGED granted
FailClaimedRun(r, t) ==
  /\ Owns(runs[r], t)
  /\ runs' = [runs EXCEPT ![r] = Failed(@)]
  /\ UNCHANGED <<granted, credit>>
RetryClaimedRun(r, t) ==
  /\ granted[t].attempt < MaxAttempts[r]
  /\ Owns(runs[r], t)
  /\ runs' = [runs EXCEPT ![r] = Retried(@)]
  /\ UNCHANGED <<granted, credit>>

(* One call recovers every lease that had expired by the caller's clock. *)
RequeueExpiredRuns(E) ==
  /\ E # {} /\ \A r \in E : Lapsed(runs[r])
  /\ runs' = [r \in Runs |-> IF r \in E THEN Recovered(runs[r], MaxAttempts[r])
                                        ELSE runs[r]]
  /\ UNCHANGED <<granted, credit>>

(* purgeRuns, evictCompleted: only terminal rows are deleted. *)
PurgeRuns(D) ==
  /\ D # {} /\ \A r \in D : runs[r].status \in Terminal
  /\ runs' = [r \in Runs |-> IF r \in D THEN [runs[r] EXCEPT !.status = "purged"]
                                        ELSE runs[r]]
  /\ UNCHANGED <<granted, credit>>

(* Time passes a lease's leaseExpiresAt. *)
LeaseLapses(r) ==
  /\ runs[r].live
  /\ runs' = [runs EXCEPT ![r].live = FALSE]
  /\ UNCHANGED <<granted, credit>>

(* Time passes the timeout of a running attempt. *)
Overdue(r) ==
  /\ runs[r].status = "running" /\ ~runs[r].late
  /\ runs' = [runs EXCEPT ![r].late = TRUE]
  /\ UNCHANGED <<granted, credit>>

(* Callers hold a token only because a claim granted it to them. *)
UpdateClaimedRun(r, t) ==
  /\ granted[t] # NoClaim
  /\ CompleteClaimedRun(r, t) \/ FailClaimedRun(r, t) \/ RetryClaimedRun(r, t)

Next ==
  \/ \E r \in Runs : AddRun(r) \/ CancelRun(r) \/ LeaseLapses(r) \/ Overdue(r)
  \/ \E r \in Runs, s \in Stations, t \in Tokens : ClaimRun(r, s, t)
  \/ \E r \in Runs, t \in Tokens : RenewRunLease(r, t) \/ UpdateClaimedRun(r, t)
  \/ \E E \in SUBSET Runs : RequeueExpiredRuns(E) \/ PurgeRuns(E)

Spec == Init /\ [][Next]_vars

-----------------------------------------------------------------------------
(* Rows, grants and credits are well formed.                               *)
TypeOK ==
  /\ runs \in [Runs -> Row]
  /\ granted \in [Tokens -> Claims \cup {NoClaim}]
  /\ credit \in [Runs -> Nat]

(* The token of a running row is the grant of that row's latest attempt;   *)
(* no other row shows a token: a report of an older attempt of the run, or *)
(* of an attempt of another run, can never pass the compare-and-set.       *)
TokenIsLatestGrant ==
  \A r \in Runs :
    IF runs[r].status = "running"
    THEN /\ runs[r].token # None
         /\ granted[runs[r].token] = [run |-> r, attempt |-> runs[r].attempts]
    ELSE runs[r].token = None /\ ~runs[r].live

(* A pending run can always be attempted once more, and no run is ever     *)
(* attempted more often than its maxAttempts.                              *)
AttemptBudget ==
  \A r \in Runs :
    /\ runs[r].attempts <= MaxAttempts[r]
    /\ runs[r].status = "pending" => runs[r].attempts < MaxAttempts[r]

(* "A stale station cannot complete the new owner's attempt": the attempt  *)
(* that completed a run is the last one that was claimed.                  *)
CompletedByLatestAttempt ==
  \A r \in Runs : runs[r].status = "completed" => credit[r] = runs[r].attempts

(* A granted claim is for an attempt of its run that really was started.   *)
GrantsAreOfPastAttempts ==
  \A t \in Tokens :
    granted[t] # NoClaim => granted[t].attempt \in 1..runs[granted[t].run].attempts

(* At most one token was ever granted for one attempt of one run: an       *)
(* attempt has a single owner.                                             *)
OneOwnerPerAttempt ==
  \A t, u \in Tokens : granted[t] # NoClaim /\ granted[t] = granted[u] => t = u

(* A run that was not enqueued yet has no history. *)
AbsentIsUntried == \A r \in Runs : runs[r].status = "absent" => runs[r] = AbsentRow

(* The inductive invariant: what ties tokens, grants and attempt counts     *)
(* together so that each operation preserves all of it.                     *)
IInv ==
  /\ TypeOK
  /\ TokenIsLatestGrant
  /\ AttemptBudget
  /\ CompletedByLatestAttempt
  /\ GrantsAreOfPastAttempts
  /\ OneOwnerPerAttempt
  /\ AbsentIsUntried

(* A settled run never changes its outcome or runs again.                  *)
TerminalIsFinal ==
  [][\A r \in Runs :
       runs[r].status \in Terminal =>
         \/ runs'[r] = runs[r]
         \/ runs'[r] = [runs[r] EXCEPT !.status = "purged"]]_vars

(* Each run, seen alone, follows the abstract life cycle. *)
Life(r) == INSTANCE RunLifecycle
             WITH MaxAttempts <- MaxAttempts[r], status <- runs[r].status,
                  attempts <- runs[r].attempts, credit <- credit[r]
LifeStep(r) == [Life(r)!Next]_(Life(r)!vars)
ImplementsLifecycle ==
  /\ \A r \in Runs : Life(r)!Init
  /\ [][\A r \in Runs : LifeStep(r)]_vars
=============================================================================
