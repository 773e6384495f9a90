--------------------------- MODULE RunQueueProofs ---------------------------
(***************************************************************************)
(* Proofs about the run table, for any runs, stations, tokens and budgets; *)
(* and about the Redis adapter, for any number of concurrent recoveries    *)
(* and purges: its index keys agree with its hashes, and it implements the *)
(* contract of the run table, so every theorem about that is one about it. *)
(***************************************************************************)
EXTENDS RedisQueue, TLAPS

-----------------------------------------------------------------------------
(* Every patch turns a row into a row. *)
LEMMA FreshRowType == AbsentRow \in Row /\ PendingRow \in Row
  BY DEF AbsentRow, PendingRow, Row, Status, Live, Terminal

LEMMA PatchType ==
  ASSUME NEW row \in Row
  PROVE  /\ \A s \in Stations, t \in Tokens : Claimed(row, s, t) \in Row
         /\ Renewed(row) \in Row
         /\ Cancelled(row) \in Row /\ Completed(row) \in Row /\ Failed(row) \in Row
         /\ Retried(row) \in Row
         /\ \A max : Recovered(row, max) \in Row
         /\ \A st \in Status : [row EXCEPT !.status = st] \in Row
         /\ [row EXCEPT !.live = FALSE] \in Row /\ [row EXCEPT !.late = TRUE] \in Row
<1>1. \A s \in Stations, t \in Tokens : Claimed(row, s, t) \in Row
  BY DEF Claimed, Row, Status, Live
<1>2. Renewed(row) \in Row
  BY DEF Renewed, Row
<1>3. Unleased(row) \in Row
  BY DEF Unleased, Row
<1>4. Cancelled(row) \in Row /\ Completed(row) \in Row /\ Failed(row) \in Row
  BY <1>3 DEF Cancelled, Completed, Failed, Row, Status, Terminal
<1>5. Retried(row) \in Row
  BY <1>3 DEF Retried, Row, Status, Live
<1>6. \A max : Recovered(row, max) \in Row
  BY <1>4, <1>5 DEF Recovered, Row
<1>7. \A st \in Status : [row EXCEPT !.status = st] \in Row
  BY DEF Row
<1>8. [row EXCEPT !.live = FALSE] \in Row /\ [row EXCEPT !.late = TRUE] \in Row
  BY DEF Row
<1>9. QED BY <1>1, <1>2, <1>4, <1>5, <1>6, <1>7, <1>8

(* What the patches do to the fields the invariant speaks of. *)
LEMMA PatchFields ==
  ASSUME NEW row \in Row
  PROVE  /\ \A s \in Stations, t \in Tokens :
              /\ Claimed(row, s, t).status = "running"
              /\ Claimed(row, s, t).attempts = row.attempts + 1
              /\ Claimed(row, s, t).token = t
         /\ Renewed(row).status = row.status /\ Renewed(row).attempts = row.attempts
         /\ Renewed(row).token = row.token
         /\ Cancelled(row).status = "cancelled" /\ Completed(row).status = "completed"
         /\ Failed(row).status = "failed" /\ Retried(row).status = "pending"
         /\ \A new \in {Cancelled(row), Completed(row), Failed(row), Retried(row)} :
              new.attempts = row.attempts /\ new.token = None /\ ~new.live
         /\ \A max \in Nat :
              LET new == Recovered(row, max) IN
              /\ new.attempts = row.attempts /\ new.token = None /\ ~new.live
              /\ \/ new.status = "failed"
                 \/ new.status = "pending" /\ row.attempts < max
<1>1. \A s \in Stations, t \in Tokens :
              /\ Claimed(row, s, t).status = "running"
              /\ Claimed(row, s, t).attempts = row.attempts + 1
              /\ Claimed(row, s, t).token = t
  BY DEF Claimed
<1>2. /\ Renewed(row).status = row.status /\ Renewed(row).attempts = row.attempts
      /\ Renewed(row).token = row.token
  BY DEF Renewed, Row
<1>3. /\ Unleased(row).attempts = row.attempts /\ Unleased(row).token = None
      /\ ~Unleased(row).live /\ Unleased(row) \in Row
  BY DEF Unleased, Row
<1>4. /\ Cancelled(row).status = "cancelled" /\ Completed(row).status = "completed"
      /\ Failed(row).status = "failed" /\ Retried(row).status = "pending"
  BY <1>3 DEF Cancelled, Completed, Failed, Retried, Row
<1>5. \A new \in {Cancelled(row), Completed(row), Failed(row), Retried(row)} :
              new.attempts = row.attempts /\ new.token = None /\ ~new.live
  BY <1>3 DEF Cancelled, Completed, Failed, Retried, Row
<1>6. ASSUME NEW max \in Nat
      PROVE  LET new == Recovered(row, max) IN
              /\ new.attempts = row.attempts /\ new.token = None /\ ~new.live
              /\ \/ new.status = "failed"
                 \/ new.status = "pending" /\ row.attempts < max
  <2>1. Failed(row) \in Row /\ row.attempts \in Nat
    BY PatchType DEF Row
  <2>2. CASE row.attempts >= max
    BY <2>1, <2>2, <1>4, <1>5 DEF Recovered, Row
  <2>3. CASE ~(row.attempts >= max)
    BY <2>1, <2>3, <1>4, <1>5 DEF Recovered
  <2>4. QED BY <2>2, <2>3
<1>7. QED BY <1>1, <1>2, <1>4, <1>5, <1>6

-----------------------------------------------------------------------------
(* Types: every step replaces rows by patched rows, and records a claim, if *)
(* any, as a claim.                                                         *)
LEMMA InitType == Init => TypeOK
  BY FreshRowType DEF Init, TypeOK

(* Every operation writes rows that are patches of rows. *)
LEMMA StepType == TypeOK /\ [Next]_vars => TypeOK'
<1> SUFFICES ASSUME TypeOK, [Next]_vars PROVE TypeOK'
  OBVIOUS
<1> USE DEF TypeOK
<1>1. ASSUME NEW r \in Runs PROVE runs[r] \in Row /\ runs[r].attempts \in Nat
  BY DEF Row
<1>2. ASSUME NEW r \in Runs, AddRun(r) PROVE TypeOK'
  BY <1>2, FreshRowType DEF AddRun
<1>3. ASSUME NEW r \in Runs, CancelRun(r) PROVE TypeOK'
  BY <1>1, <1>3, PatchType DEF CancelRun
<1>4. ASSUME NEW r \in Runs, LeaseLapses(r) \/ Overdue(r) PROVE TypeOK'
  <2>1. runs' \in [Runs -> Row]
    BY <1>1, <1>4, PatchType DEF LeaseLapses, Overdue
  <2>2. QED BY <1>4, <2>1 DEF LeaseLapses, Overdue
<1>5. ASSUME NEW r \in Runs, NEW s \in Stations, NEW t \in Tokens, ClaimRun(r, s, t)
      PROVE  TypeOK'
  <2>1. runs' \in [Runs -> Row]
    BY <1>1, <1>5, PatchType DEF ClaimRun
  <2>2. [run |-> r, attempt |-> runs[r].attempts + 1] \in Claims
    BY <1>1 DEF Claims
  <2>3. granted' \in [Tokens -> Claims \cup {NoClaim}]
    BY <1>5, <2>2 DEF ClaimRun
  <2>4. QED BY <1>5, <2>1, <2>3 DEF ClaimRun
<1>6. ASSUME NEW r \in Runs, NEW t \in Tokens, RenewRunLease(r, t) PROVE TypeOK'
  BY <1>1, <1>6, PatchType DEF RenewRunLease
<1>7. ASSUME NEW r \in Runs, NEW t \in Tokens, UpdateClaimedRun(r, t) PROVE TypeOK'
  <2>1. runs' \in [Runs -> Row]
    BY ZenonT(60), <1>1, <1>7, PatchType
       DEF UpdateClaimedRun, CompleteClaimedRun, FailClaimedRun, RetryClaimedRun
  <2>2. credit' \in [Runs -> Nat]
    BY <1>7 DEF UpdateClaimedRun, CompleteClaimedRun, FailClaimedRun, RetryClaimedRun, Claims
  <2>3. QED
    BY <1>7, <2>1, <2>2
       DEF UpdateClaimedRun, CompleteClaimedRun, FailClaimedRun, RetryClaimedRun
<1>8. ASSUME NEW E \in SUBSET Runs, RequeueExpiredRuns(E) PROVE TypeOK'
  BY <1>1, <1>8, PatchType DEF RequeueExpiredRuns
<1>9. ASSUME NEW D \in SUBSET Runs, PurgeRuns(D) PROVE TypeOK'
  <2>1. "purged" \in Status
    BY DEF Status
  <2>2. QED BY <1>1, <1>9, <2>1, PatchType DEF PurgeRuns
<1>10. CASE UNCHANGED vars
  BY <1>10 DEF vars
<1>11. QED BY <1>2, <1>3, <1>4, <1>5, <1>6, <1>7, <1>8, <1>9, <1>10 DEF Next

(* The table always holds well-formed rows, and the history well-formed     *)
(* claims.                                                                  *)
THEOREM TypeCorrect == Spec => []TypeOK
  BY InitType, StepType, PTL DEF Spec

-----------------------------------------------------------------------------
(* The invariant.  Apart from a claim, which makes an attempt current, and  *)
(* an enqueue, a step does one of two things to a row: it keeps who owns    *)
(* it, or it lets it go.                                                    *)
Keeps(r) ==
  /\ runs'[r].status = runs[r].status \/ {runs[r].status, runs'[r].status} \subseteq Terminal \cup {"purged"}
  /\ runs'[r].attempts = runs[r].attempts
  /\ runs'[r].token = runs[r].token
  /\ runs[r].status # "running" /\ ~runs[r].live => ~runs'[r].live
  /\ runs'[r].status = "completed" => runs[r].status = "completed"
  /\ credit'[r] = credit[r]
  /\ runs'[r].status = "absent" => runs'[r] = runs[r]

LetsGo(r) ==
  /\ runs'[r].status \in {"pending", "completed", "failed", "cancelled"}
  /\ runs'[r].attempts = runs[r].attempts
  /\ runs'[r].token = None /\ ~runs'[r].live
  /\ runs'[r].status = "pending" => runs[r].attempts < MaxAttempts[r]
  /\ runs'[r].status = "completed" => credit'[r] = runs[r].attempts

(* A budget is a positive number. *)
LEMMA BudgetType == \A r \in Runs : MaxAttempts[r] \in Nat /\ MaxAttempts[r] > 0
  BY MaxAttemptsAssumption

(* A step that grants nothing and, row by row, keeps or lets go of the      *)
(* ownership it finds preserves the invariant.                             *)
LEMMA UnclaimedStep ==
  ASSUME IInv, TypeOK', granted' = granted, \A r \in Runs : Keeps(r) \/ LetsGo(r)
  PROVE  IInv'
<1>1. ASSUME NEW r \in Runs
      PROVE  /\ runs[r] \in Row /\ runs'[r] \in Row
             /\ runs'[r].attempts = runs[r].attempts
             /\ runs[r].attempts \in Nat
  BY DEF Keeps, LetsGo, IInv, TypeOK, Row
<1>2. TokenIsLatestGrant'
  <2> SUFFICES ASSUME NEW r \in Runs
               PROVE  IF runs'[r].status = "running"
                      THEN /\ runs'[r].token # None
                           /\ granted'[runs'[r].token] = [run |-> r, attempt |-> runs'[r].attempts]
                      ELSE runs'[r].token = None /\ ~runs'[r].live
    BY DEF TokenIsLatestGrant
  <2>1. CASE Keeps(r)
    BY <2>1 DEF Keeps, IInv, TokenIsLatestGrant, Terminal
  <2>2. CASE LetsGo(r)
    BY <2>2 DEF LetsGo
  <2>3. QED BY <2>1, <2>2
<1>3. AttemptBudget'
  <2> SUFFICES ASSUME NEW r \in Runs
               PROVE  /\ runs'[r].attempts <= MaxAttempts[r]
                      /\ runs'[r].status = "pending" => runs'[r].attempts < MaxAttempts[r]
    BY DEF AttemptBudget
  <2>1. CASE Keeps(r)
    BY <2>1 DEF Keeps, IInv, AttemptBudget, Terminal
  <2>2. CASE LetsGo(r)
    BY <1>1, <2>2 DEF LetsGo, IInv, AttemptBudget
  <2>3. QED BY <2>1, <2>2
<1>4. CompletedByLatestAttempt'
  BY DEF Keeps, LetsGo, IInv, CompletedByLatestAttempt
<1>5. GrantsAreOfPastAttempts'
  <2> SUFFICES ASSUME NEW t \in Tokens, granted[t] # NoClaim
               PROVE  granted[t].attempt \in 1..runs'[granted[t].run].attempts
    BY DEF GrantsAreOfPastAttempts
  <2>1. granted[t].run \in Runs
    BY DEF IInv, TypeOK, Claims
  <2>2. QED BY <1>1, <2>1 DEF IInv, GrantsAreOfPastAttempts
<1>6. OneOwnerPerAttempt'
  BY DEF IInv, OneOwnerPerAttempt
<1>7. AbsentIsUntried'
  BY DEF Keeps, LetsGo, IInv, AbsentIsUntried
<1>8. QED BY <1>2, <1>3, <1>4, <1>5, <1>6, <1>7 DEF IInv

(* The empty table satisfies the invariant. *)
LEMMA InitInv == Init => IInv
<1> SUFFICES ASSUME Init PROVE IInv
  OBVIOUS
<1>1. TypeOK
  BY InitType
<1>2. \A r \in Runs : /\ runs[r].status = "absent" /\ runs[r].attempts = 0
                      /\ runs[r].token = None /\ ~runs[r].live /\ runs[r] = AbsentRow
  BY DEF Init, AbsentRow
<1>3. \A t \in Tokens : granted[t] = NoClaim
  BY DEF Init
<1>4. TokenIsLatestGrant /\ CompletedByLatestAttempt /\ AbsentIsUntried
  BY <1>2 DEF TokenIsLatestGrant, CompletedByLatestAttempt, AbsentIsUntried
<1>5. AttemptBudget
  BY <1>2, BudgetType DEF AttemptBudget
<1>6. GrantsAreOfPastAttempts /\ OneOwnerPerAttempt
  BY <1>3 DEF GrantsAreOfPastAttempts, OneOwnerPerAttempt
<1>7. QED BY <1>1, <1>4, <1>5, <1>6 DEF IInv

(* A claim makes a fresh token the grant of the next attempt. *)
LEMMA ClaimInv ==
  ASSUME IInv, TypeOK', NEW r \in Runs, NEW s \in Stations, NEW t \in Tokens, ClaimRun(r, s, t)
  PROVE  IInv'
<1> DEFINE claim == [run |-> r, attempt |-> runs[r].attempts + 1]
<1>1. /\ runs[r] \in Row /\ runs[r].attempts \in Nat /\ runs[r].status = "pending"
      /\ granted[t] = NoClaim
  BY DEF IInv, TypeOK, Row, ClaimRun
<1>2. /\ runs'[r].status = "running" /\ runs'[r].attempts = runs[r].attempts + 1
      /\ runs'[r].token = t
  BY <1>1, PatchFields DEF ClaimRun, IInv, TypeOK
<1>3. \A q \in Runs \ {r} : runs'[q] = runs[q]
  BY DEF ClaimRun, IInv, TypeOK
<1>4. /\ granted'[t] = claim
      /\ \A u \in Tokens \ {t} : granted'[u] = granted[u]
  BY DEF ClaimRun, IInv, TypeOK
<1>5. claim \in Claims /\ claim # NoClaim
  BY <1>1, NoClaimAssumption DEF Claims
<1>6. \A q \in Runs : runs[q].token \in Tokens \cup {None} /\ runs[q].attempts \in Nat
  BY DEF IInv, TypeOK, Row
<1>7. TokenIsLatestGrant'
  <2> SUFFICES ASSUME NEW q \in Runs
               PROVE  IF runs'[q].status = "running"
                      THEN /\ runs'[q].token # None
                           /\ granted'[runs'[q].token] = [run |-> q, attempt |-> runs'[q].attempts]
                      ELSE runs'[q].token = None /\ ~runs'[q].live
    BY DEF TokenIsLatestGrant
  <2>1. CASE q = r
    BY <1>2, <1>4, <2>1, NoneAssumption
  <2>2. CASE q # r /\ runs[q].status = "running"
    <3>1. granted[runs[q].token] = [run |-> q, attempt |-> runs[q].attempts] /\ runs[q].token # None
      BY <2>2 DEF IInv, TokenIsLatestGrant
    <3>2. granted[runs[q].token] # NoClaim
      BY <1>6, <3>1, NoClaimAssumption DEF Claims
    <3>3. runs[q].token # t
      BY <1>1, <3>2
    <3>4. QED BY <1>3, <1>4, <1>6, <2>2, <3>1, <3>3
  <2>3. CASE q # r /\ runs[q].status # "running"
    BY <1>3, <2>3 DEF IInv, TokenIsLatestGrant
  <2>4. QED BY <2>1, <2>2, <2>3
<1>8. AttemptBudget'
  <2> SUFFICES ASSUME NEW q \in Runs
               PROVE  /\ runs'[q].attempts <= MaxAttempts[q]
                      /\ runs'[q].status = "pending" => runs'[q].attempts < MaxAttempts[q]
    BY DEF AttemptBudget
  <2>1. CASE q = r
    BY <1>1, <1>2, <2>1, BudgetType DEF IInv, AttemptBudget
  <2>2. CASE q # r
    BY <1>3, <2>2 DEF IInv, AttemptBudget
  <2>3. QED BY <2>1, <2>2
<1>9. CompletedByLatestAttempt'
  BY <1>2, <1>3 DEF ClaimRun, IInv, CompletedByLatestAttempt
<1>10. GrantsAreOfPastAttempts'
  <2> SUFFICES ASSUME NEW u \in Tokens, granted'[u] # NoClaim
               PROVE  granted'[u].attempt \in 1..runs'[granted'[u].run].attempts
    BY DEF GrantsAreOfPastAttempts
  <2>1. CASE u = t
    BY <1>1, <1>2, <1>4, <2>1
  <2>2. CASE u # t
    <3>1. /\ granted[u].run \in Runs /\ granted[u].attempt \in Nat
          /\ granted[u].attempt \in 1..runs[granted[u].run].attempts
      BY <1>4, <2>2 DEF IInv, TypeOK, Claims, GrantsAreOfPastAttempts
    <3>2. /\ runs[granted[u].run].attempts \in Nat
          /\ runs'[granted[u].run].attempts \in Nat
          /\ runs[granted[u].run].attempts <= runs'[granted[u].run].attempts
      BY <1>1, <1>2, <1>3, <1>6, <3>1
    <3>3. QED BY <1>4, <2>2, <3>1, <3>2
  <2>3. QED BY <2>1, <2>2
<1>11. OneOwnerPerAttempt'
  <2>1. ASSUME NEW u \in Tokens, u # t, granted[u] # NoClaim PROVE granted[u] # claim
    <3>1. granted[u].attempt \in 1..runs[granted[u].run].attempts
      BY <2>1 DEF IInv, GrantsAreOfPastAttempts
    <3>2. SUFFICES ASSUME granted[u] = claim PROVE FALSE
      OBVIOUS
    <3>3. QED BY <1>1, <3>1, <3>2
  <2>2. QED BY <1>4, <1>5, <2>1 DEF IInv, OneOwnerPerAttempt
<1>12. AbsentIsUntried'
  BY <1>2, <1>3 DEF IInv, AbsentIsUntried
<1>13. QED BY <1>7, <1>8, <1>9, <1>10, <1>11, <1>12 DEF IInv

(* Every operation preserves the invariant. *)
LEMMA StepInv == IInv /\ [Next]_vars => IInv'
<1> SUFFICES ASSUME IInv, [Next]_vars PROVE IInv'
  OBVIOUS
<1>1. TypeOK'
  BY StepType DEF IInv
<1>2. \A r \in Runs : /\ runs[r] \in Row /\ runs[r].attempts \in Nat
                      /\ MaxAttempts[r] \in Nat
  BY BudgetType DEF IInv, TypeOK, Row
<1>3. ASSUME NEW r \in Runs, AddRun(r) PROVE IInv'
  <2>1. LetsGo(r)
    <3>1. runs[r] = AbsentRow
      BY <1>3 DEF AddRun, IInv, AbsentIsUntried
    <3>2. runs'[r] = PendingRow
      BY <1>3 DEF AddRun, IInv, TypeOK
    <3>3. QED BY <3>1, <3>2, BudgetType DEF LetsGo, AbsentRow, PendingRow
  <2>2. \A q \in Runs \ {r} : Keeps(q)
    BY <1>3 DEF AddRun, Keeps, IInv, TypeOK
  <2>3. QED BY <1>1, <1>3, <2>1, <2>2, UnclaimedStep DEF AddRun
<1>4. ASSUME NEW r \in Runs, CancelRun(r) PROVE IInv'
  <2>1. LetsGo(r)
    BY <1>2, <1>4, PatchFields DEF CancelRun, LetsGo, IInv, TypeOK
  <2>2. \A q \in Runs \ {r} : Keeps(q)
    BY <1>4 DEF CancelRun, Keeps, IInv, TypeOK
  <2>3. QED BY <1>1, <1>4, <2>1, <2>2, UnclaimedStep DEF CancelRun
<1>5. ASSUME NEW r \in Runs, LeaseLapses(r) \/ Overdue(r) PROVE IInv'
  <2>1. Keeps(r)
    <3>1. /\ runs'[r].status = runs[r].status /\ runs'[r].attempts = runs[r].attempts
          /\ runs'[r].token = runs[r].token
          /\ runs'[r].live => runs[r].live
      BY <1>2, <1>5 DEF LeaseLapses, Overdue, Row, IInv, TypeOK
    <3>2. runs[r].status # "absent"
      BY <1>5 DEF LeaseLapses, Overdue, IInv, AbsentIsUntried, AbsentRow
    <3>3. QED BY <1>5, <3>1, <3>2 DEF LeaseLapses, Overdue, Keeps
  <2>2. \A q \in Runs \ {r} : Keeps(q)
    BY <1>5 DEF LeaseLapses, Overdue, Keeps, IInv, TypeOK
  <2>3. QED BY <1>1, <1>5, <2>1, <2>2, UnclaimedStep DEF LeaseLapses, Overdue
<1>6. ASSUME NEW r \in Runs, NEW s \in Stations, NEW t \in Tokens, ClaimRun(r, s, t)
      PROVE  IInv'
  BY <1>1, <1>6, ClaimInv
<1>7. ASSUME NEW r \in Runs, NEW t \in Tokens, RenewRunLease(r, t) PROVE IInv'
  <2>1. Keeps(r)
    <3>1. runs'[r] = Renewed(runs[r])
      BY <1>7 DEF RenewRunLease, IInv, TypeOK
    <3>2. runs[r].status = "running"
      BY <1>7 DEF RenewRunLease, Owns
    <3>3. QED BY <1>2, <1>7, <3>1, <3>2, PatchFields DEF RenewRunLease, Keeps
  <2>2. \A q \in Runs \ {r} : Keeps(q)
    BY <1>7 DEF RenewRunLease, Keeps, IInv, TypeOK
  <2>3. QED BY <1>1, <1>7, <2>1, <2>2, UnclaimedStep DEF RenewRunLease
<1>8. ASSUME NEW r \in Runs, NEW t \in Tokens, UpdateClaimedRun(r, t) PROVE IInv'
  <2>1. granted[t].attempt = runs[r].attempts
    <3>1. runs[r].status = "running" /\ runs[r].token = t
      BY <1>8 DEF UpdateClaimedRun, CompleteClaimedRun, FailClaimedRun, RetryClaimedRun, Owns
    <3>2. granted[t] = [run |-> r, attempt |-> runs[r].attempts]
      BY <3>1 DEF IInv, TokenIsLatestGrant
    <3>3. QED BY <3>2
  <2>2. LetsGo(r)
    <3>1. CASE CompleteClaimedRun(r, t)
      BY <1>2, <2>1, <3>1, PatchFields DEF CompleteClaimedRun, LetsGo, IInv, TypeOK
    <3>2. CASE FailClaimedRun(r, t)
      BY <1>2, <3>2, PatchFields DEF FailClaimedRun, LetsGo, IInv, TypeOK
    <3>3. CASE RetryClaimedRun(r, t)
      BY <1>2, <2>1, <3>3, PatchFields DEF RetryClaimedRun, LetsGo, IInv, TypeOK
    <3>4. QED BY <1>8, <3>1, <3>2, <3>3 DEF UpdateClaimedRun
  <2>3. \A q \in Runs \ {r} : Keeps(q)
    BY <1>8 DEF UpdateClaimedRun, CompleteClaimedRun, FailClaimedRun, RetryClaimedRun,
                Keeps, IInv, TypeOK
  <2>4. granted' = granted
    BY <1>8 DEF UpdateClaimedRun, CompleteClaimedRun, FailClaimedRun, RetryClaimedRun
  <2>5. QED BY <1>1, <2>2, <2>3, <2>4, UnclaimedStep
<1>9. ASSUME NEW E \in SUBSET Runs, RequeueExpiredRuns(E) PROVE IInv'
  <2>1. \A r \in E : LetsGo(r)
    BY <1>2, <1>9, PatchFields DEF RequeueExpiredRuns, LetsGo
  <2>2. \A r \in Runs \ E : Keeps(r)
    BY <1>9 DEF RequeueExpiredRuns, Keeps
  <2>3. QED BY <1>1, <1>9, <2>1, <2>2, UnclaimedStep DEF RequeueExpiredRuns
<1>10. ASSUME NEW D \in SUBSET Runs, PurgeRuns(D) PROVE IInv'
  <2>1. ASSUME NEW r \in D PROVE Keeps(r)
    <3>1. runs'[r] = [runs[r] EXCEPT !.status = "purged"] /\ runs[r].status \in Terminal
      BY <1>10 DEF PurgeRuns
    <3>2. /\ runs'[r].status = "purged" /\ runs'[r].attempts = runs[r].attempts
          /\ runs'[r].token = runs[r].token /\ runs'[r].live = runs[r].live
      BY <1>2, <3>1 DEF Row
    <3>3. QED BY <1>10, <3>1, <3>2 DEF PurgeRuns, Keeps
  <2>2. \A r \in Runs \ D : Keeps(r)
    BY <1>10 DEF PurgeRuns, Keeps
  <2>3. QED BY <1>1, <1>10, <2>1, <2>2, UnclaimedStep DEF PurgeRuns
<1>11. CASE UNCHANGED vars
  <2>1. \A r \in Runs : Keeps(r)
    BY <1>11 DEF vars, Keeps
  <2>2. QED BY <1>1, <1>11, <2>1, UnclaimedStep DEF vars
<1>12. QED BY <1>3, <1>4, <1>5, <1>6, <1>7, <1>8, <1>9, <1>10, <1>11 DEF Next

(* The inductive invariant holds throughout. *)
THEOREM InvariantCorrect == Spec => []IInv
  BY InitInv, StepInv, PTL DEF Spec

(* Only the latest attempt of a run passes the compare-and-set of           *)
(* updateClaimedRun and renewRunLease, whatever tokens stations still hold. *)
THEOREM Fencing == Spec => []TokenIsLatestGrant
<1>1. IInv => TokenIsLatestGrant
  BY DEF IInv
<1>2. QED BY <1>1, InvariantCorrect, PTL

(* No run is attempted more often than its maxAttempts. *)
THEOREM BudgetKept == Spec => []AttemptBudget
<1>1. IInv => AttemptBudget
  BY DEF IInv
<1>2. QED BY <1>1, InvariantCorrect, PTL

(* The result of a completed run is that of its latest attempt. *)
THEOREM ResultIsLatest == Spec => []CompletedByLatestAttempt
<1>1. IInv => CompletedByLatestAttempt
  BY DEF IInv
<1>2. QED BY <1>1, InvariantCorrect, PTL

(* claimRun never grants one attempt of a run to two callers. *)
THEOREM SingleOwner == Spec => []OneOwnerPerAttempt
<1>1. IInv => OneOwnerPerAttempt
  BY DEF IInv
<1>2. QED BY <1>1, InvariantCorrect, PTL

-----------------------------------------------------------------------------
(* A run that is settled stays as it is until it is purged. *)
THEOREM SettledForGood == Spec => TerminalIsFinal
<1>1. ASSUME IInv, [Next]_vars, NEW r \in Runs, runs[r].status \in Terminal
      PROVE  runs'[r] = runs[r] \/ runs'[r] = [runs[r] EXCEPT !.status = "purged"]
  <2>1. /\ runs[r].status \notin Live \cup {"absent", "running"}
        /\ ~runs[r].live
    BY <1>1 DEF Terminal, Live, IInv, TokenIsLatestGrant
  <2>2. ASSUME NEW q \in Runs, AddRun(q) \/ CancelRun(q) \/ LeaseLapses(q) \/ Overdue(q)
        PROVE  runs'[r] = runs[r]
    BY <1>1, <2>1, <2>2 DEF AddRun, CancelRun, LeaseLapses, Overdue, Live, IInv, TypeOK
  <2>3. ASSUME NEW q \in Runs, NEW s \in Stations, NEW t \in Tokens, ClaimRun(q, s, t)
        PROVE  runs'[r] = runs[r]
    BY <1>1, <2>1, <2>3 DEF ClaimRun, Live, IInv, TypeOK
  <2>4. ASSUME NEW q \in Runs, NEW t \in Tokens, RenewRunLease(q, t) \/ UpdateClaimedRun(q, t)
        PROVE  runs'[r] = runs[r]
    BY <1>1, <2>1, <2>4
       DEF RenewRunLease, UpdateClaimedRun, CompleteClaimedRun, FailClaimedRun,
           RetryClaimedRun, Owns, IInv, TypeOK
  <2>5. ASSUME NEW E \in SUBSET Runs, RequeueExpiredRuns(E) PROVE runs'[r] = runs[r]
    BY <1>1, <2>1, <2>5 DEF RequeueExpiredRuns, Lapsed
  <2>6. ASSUME NEW D \in SUBSET Runs, PurgeRuns(D)
        PROVE  runs'[r] = runs[r] \/ runs'[r] = [runs[r] EXCEPT !.status = "purged"]
    BY <1>1, <2>6 DEF PurgeRuns
  <2>7. CASE UNCHANGED vars
    BY <2>7 DEF vars
  <2>8. QED BY <1>1, <2>2, <2>3, <2>4, <2>5, <2>6, <2>7 DEF Next
<1>2. IInv /\ [Next]_vars =>
        [\A r \in Runs : runs[r].status \in Terminal =>
            \/ runs'[r] = runs[r]
            \/ runs'[r] = [runs[r] EXCEPT !.status = "purged"]]_vars
  BY <1>1
<1>3. QED BY <1>2, InvariantCorrect, PTL DEF Spec, TerminalIsFinal

-----------------------------------------------------------------------------
(* Each run, seen alone, goes through the life cycle RunLifecycle promises. *)
LEMMA LifeInit == Init => \A r \in Runs : Life(r)!Init
  BY DEF Init, AbsentRow, Life!Init

(* A row that keeps status, attempts and credit is a stutter of its life.  *)
LEMMA LifeStutter ==
  ASSUME NEW r \in Runs, runs'[r].status = runs[r].status,
         runs'[r].attempts = runs[r].attempts, credit'[r] = credit[r]
  PROVE  LifeStep(r)
  BY DEF LifeStep, Life!vars

(* One operation on one run is one step of that run's life cycle. *)
LEMMA LifeMoves ==
  ASSUME NEW r \in Runs, runs'[r].attempts = runs[r].attempts, credit'[r] = credit[r],
         \/ runs[r].status = "absent" /\ runs'[r].status = "pending"
         \/ runs[r].status \in Live /\ runs'[r].status = "cancelled"
         \/ runs[r].status = "running" /\ runs'[r].status = "failed"
         \/ /\ runs[r].status = "running" /\ runs'[r].status = "pending"
            /\ runs[r].attempts < MaxAttempts[r]
         \/ runs[r].status \in Terminal /\ runs'[r].status = "purged"
  PROVE  LifeStep(r)
  BY DEF LifeStep, Life!Next, Life!Enqueue, Life!Cancel, Life!Fail, Life!Retry, Life!Purge,
         Live, Terminal

(* Every step of the table is a step or a stutter of each run's life.      *)
LEMMA LifeStepping ==
  ASSUME IInv, [Next]_vars, NEW r \in Runs PROVE LifeStep(r)
<1>1. /\ runs[r] \in Row /\ runs[r].attempts \in Nat /\ MaxAttempts[r] \in Nat
  BY BudgetType DEF IInv, TypeOK, Row
<1>2. ASSUME NEW q \in Runs, AddRun(q) PROVE LifeStep(r)
  <2>1. CASE q = r
    <3>1. runs[r].status = "absent" /\ runs[r].attempts = 0
      BY <1>2, <2>1 DEF AddRun, IInv, AbsentIsUntried, AbsentRow
    <3>2. runs'[r].status = "pending" /\ runs'[r].attempts = 0
      BY <1>2, <2>1 DEF AddRun, IInv, TypeOK, PendingRow, AbsentRow
    <3>3. QED BY <1>2, <3>1, <3>2, LifeMoves DEF AddRun
  <2>2. CASE q # r
    BY <1>2, <2>2, LifeStutter DEF AddRun, IInv, TypeOK
  <2>3. QED BY <2>1, <2>2
<1>3. ASSUME NEW q \in Runs, CancelRun(q) PROVE LifeStep(r)
  <2>1. CASE q = r
    <3>1. /\ runs[r].status \in Live /\ runs'[r].status = "cancelled"
          /\ runs'[r].attempts = runs[r].attempts
      BY <1>1, <1>3, <2>1, PatchFields DEF CancelRun, IInv, TypeOK
    <3>2. QED BY <1>3, <3>1, LifeMoves DEF CancelRun
  <2>2. CASE q # r
    BY <1>3, <2>2, LifeStutter DEF CancelRun, IInv, TypeOK
  <2>3. QED BY <2>1, <2>2
<1>4. ASSUME NEW q \in Runs, LeaseLapses(q) \/ Overdue(q) PROVE LifeStep(r)
  <2>1. runs'[r].status = runs[r].status /\ runs'[r].attempts = runs[r].attempts
    BY <1>1, <1>4 DEF LeaseLapses, Overdue, IInv, TypeOK, Row
  <2>2. QED BY <1>4, <2>1, LifeStutter DEF LeaseLapses, Overdue
<1>5. ASSUME NEW q \in Runs, NEW s \in Stations, NEW t \in Tokens, ClaimRun(q, s, t)
      PROVE  LifeStep(r)
  <2>1. CASE q = r
    <3>1. runs[r].status = "pending" /\ runs[r].attempts < MaxAttempts[r]
      BY <1>5, <2>1 DEF ClaimRun, IInv, AttemptBudget
    <3>2. runs'[r].status = "running" /\ runs'[r].attempts = runs[r].attempts + 1
      BY <1>1, <1>5, <2>1, PatchFields DEF ClaimRun, IInv, TypeOK
    <3>3. Life(r)!Start
      BY <1>5, <3>1, <3>2 DEF Life!Start, ClaimRun
    <3>4. QED BY <3>3 DEF LifeStep, Life!Next
  <2>2. CASE q # r
    BY <1>5, <2>2, LifeStutter DEF ClaimRun, IInv, TypeOK
  <2>3. QED BY <2>1, <2>2
<1>6. ASSUME NEW q \in Runs, NEW t \in Tokens, RenewRunLease(q, t) PROVE LifeStep(r)
  <2>1. runs'[r].status = runs[r].status /\ runs'[r].attempts = runs[r].attempts
    BY <1>1, <1>6, PatchFields DEF RenewRunLease, IInv, TypeOK
  <2>2. QED BY <1>6, <2>1, LifeStutter DEF RenewRunLease
<1>7. ASSUME NEW q \in Runs, NEW t \in Tokens, UpdateClaimedRun(q, t) PROVE LifeStep(r)
  <2>1. CASE q # r
    <3>1. runs'[r] = runs[r] /\ credit'[r] = credit[r]
      BY <1>7, <2>1
         DEF UpdateClaimedRun, CompleteClaimedRun, FailClaimedRun, RetryClaimedRun, IInv, TypeOK
    <3>2. QED BY <3>1, LifeStutter
  <2>2. CASE q = r
    <3>1. runs[r].status = "running" /\ runs[r].token = t
      BY <1>7, <2>2
         DEF UpdateClaimedRun, CompleteClaimedRun, FailClaimedRun, RetryClaimedRun, Owns
    <3>2. granted[t] = [run |-> r, attempt |-> runs[r].attempts]
      BY <3>1 DEF IInv, TokenIsLatestGrant
    <3>3. granted[t].attempt = runs[r].attempts
      BY <3>2
    <3>4. CASE CompleteClaimedRun(r, t)
      <4>1. /\ runs'[r].status = "completed" /\ runs'[r].attempts = runs[r].attempts
            /\ credit'[r] = runs[r].attempts
        BY <1>1, <3>3, <3>4, PatchFields DEF CompleteClaimedRun, IInv, TypeOK
      <4>2. Life(r)!Complete
        BY <3>1, <4>1 DEF Life!Complete
      <4>3. QED BY <4>2 DEF LifeStep, Life!Next
    <3>5. CASE FailClaimedRun(r, t)
      <4>1. runs'[r].status = "failed" /\ runs'[r].attempts = runs[r].attempts
        BY <1>1, <3>5, PatchFields DEF FailClaimedRun, IInv, TypeOK
      <4>2. QED BY <3>1, <3>5, <4>1, LifeMoves DEF FailClaimedRun
    <3>6. CASE RetryClaimedRun(r, t)
      <4>1. runs'[r].status = "pending" /\ runs'[r].attempts = runs[r].attempts
        BY <1>1, <3>6, PatchFields DEF RetryClaimedRun, IInv, TypeOK
      <4>2. runs[r].attempts < MaxAttempts[r]
        BY <3>3, <3>6 DEF RetryClaimedRun
      <4>3. QED BY <3>1, <3>6, <4>1, <4>2, LifeMoves DEF RetryClaimedRun
    <3>7. QED BY <1>7, <2>2, <3>4, <3>5, <3>6 DEF UpdateClaimedRun
  <2>3. QED BY <2>1, <2>2
<1>8. ASSUME NEW E \in SUBSET Runs, RequeueExpiredRuns(E) PROVE LifeStep(r)
  <2>1. CASE r \in E
    <3>1. runs[r].status = "running"
      BY <1>8, <2>1 DEF RequeueExpiredRuns, Lapsed
    <3>2. /\ runs'[r].attempts = runs[r].attempts
          /\ \/ runs'[r].status = "failed"
             \/ runs'[r].status = "pending" /\ runs[r].attempts < MaxAttempts[r]
      BY <1>1, <1>8, <2>1, PatchFields DEF RequeueExpiredRuns
    <3>3. QED BY <1>8, <3>1, <3>2, LifeMoves DEF RequeueExpiredRuns
  <2>2. CASE r \notin E
    BY <1>8, <2>2, LifeStutter DEF RequeueExpiredRuns
  <2>3. QED BY <2>1, <2>2
<1>9. ASSUME NEW D \in SUBSET Runs, PurgeRuns(D) PROVE LifeStep(r)
  <2>1. CASE r \in D
    <3>1. /\ runs[r].status \in Terminal /\ runs'[r].status = "purged"
          /\ runs'[r].attempts = runs[r].attempts
      BY <1>1, <1>9, <2>1 DEF PurgeRuns, Row
    <3>2. QED BY <1>9, <3>1, LifeMoves DEF PurgeRuns
  <2>2. CASE r \notin D
    BY <1>9, <2>2, LifeStutter DEF PurgeRuns
  <2>3. QED BY <2>1, <2>2
<1>10. CASE UNCHANGED vars
  BY <1>10, LifeStutter DEF vars
<1>11. QED BY <1>2, <1>3, <1>4, <1>5, <1>6, <1>7, <1>8, <1>9, <1>10 DEF Next

(* The table implements, run by run, the life cycle of RunLifecycle: the    *)
(* initial states map to initial states and each step to a step or none.    *)
THEOREM LifecycleImplemented == Spec => ImplementsLifecycle
<1>1. IInv /\ [Next]_vars => [\A r \in Runs : LifeStep(r)]_vars
  BY LifeStepping
<1>2. QED BY <1>1, LifeInit, InvariantCorrect, PTL DEF Spec, ImplementsLifecycle

-----------------------------------------------------------------------------
(* The statuses, told apart once. *)
LEMMA StatusFacts ==
  /\ "pending" \in Indexed /\ "running" \in Indexed /\ Terminal \subseteq Indexed
  /\ "pending" \notin Terminal /\ "running" \notin Terminal
  /\ "absent" \notin Indexed /\ "purged" \notin Indexed
  /\ "cancelled" \in Terminal /\ "failed" \in Terminal /\ "completed" \in Terminal
  /\ \A s \in Indexed : s = "pending" \/ s = "running" \/ s \in Terminal
  BY DEF Indexed, Live, Terminal

(* A script that moves run r from the keys of its status to those of the   *)
(* status its hash is given keeps the keys in agreement with the hashes.   *)
LEMMA MoveKeepsAgreement ==
  ASSUME RedisTypeOK, IndexesAgree, NEW r \in Runs, NEW row,
         runs \in [Runs -> Row], runs' = [runs EXCEPT ![r] = row],
         runs[r].status \in Live, row.status \in Indexed, row.status # runs[r].status,
         index' = Moved(r, runs[r].status, row.status)
  PROVE  IndexesAgree'
<1> DEFINE from == runs[r].status
           to   == row.status
<1>1. from \in Indexed /\ from \notin Terminal /\ to \in Indexed /\ from # to
  BY StatusFacts DEF Live
<1>2. \A q \in Runs : runs'[q].status = IF q = r THEN to ELSE runs[q].status
  OBVIOUS
<1>3. index \in [pending : SUBSET Runs, running : SUBSET Runs, ended : SUBSET Runs,
                 listed : SUBSET Runs, byStatus : [Indexed -> SUBSET Runs]]
  BY DEF RedisTypeOK
<1>4. /\ index'.byStatus = [index.byStatus EXCEPT ![from] = @ \ {r}, ![to] = @ \cup {r}]
      /\ index'.pending = (IF from = "pending" THEN index.pending \ {r} ELSE index.pending)
                            \cup (IF to = "pending" THEN {r} ELSE {})
      /\ index'.running = (IF from = "running" THEN index.running \ {r} ELSE index.running)
                            \cup (IF to = "running" THEN {r} ELSE {})
      /\ index'.ended = IF to \in Terminal THEN index.ended \cup {r} ELSE index.ended
      /\ index'.listed = index.listed
  BY <1>3 DEF Moved
<1> HIDE DEF from, to
<1>5. \A s \in Indexed : index'.byStatus[s] =
        IF s = to THEN index.byStatus[s] \cup {r}
        ELSE IF s = from THEN index.byStatus[s] \ {r} ELSE index.byStatus[s]
  BY <1>1, <1>3, <1>4
<1>6. ASSUME NEW s \in Indexed
      PROVE  index'.byStatus[s] = {q \in Runs : runs'[q].status = s}
  <2>1. index.byStatus[s] = {q \in Runs : runs[q].status = s} /\ runs[r].status = from
    BY DEF IndexesAgree, from
  <2>2. CASE s = to
    BY ZenonT(60), <1>2, <1>5, <2>1, <2>2
  <2>3. CASE s # to /\ s = from
    BY <1>2, <1>5, <2>1, <2>3
  <2>4. CASE s # to /\ s # from
    BY ZenonT(60), <1>2, <1>5, <2>1, <2>4
  <2>5. QED BY <2>2, <2>3, <2>4
<1>7. index'.pending = {q \in Runs : runs'[q].status = "pending"}
  BY <1>1, <1>2, <1>4 DEF IndexesAgree, from
<1>8. index'.running = {q \in Runs : runs'[q].status = "running"}
  BY <1>1, <1>2, <1>4 DEF IndexesAgree, from
<1>9. index'.ended = {q \in Runs : runs'[q].status \in Terminal}
  BY <1>1, <1>2, <1>4 DEF IndexesAgree, from
<1>10. index'.listed = {q \in Runs : runs'[q].status \in Indexed}
  BY <1>1, <1>2, <1>4 DEF IndexesAgree, from
<1>11. QED BY <1>6, <1>7, <1>8, <1>9, <1>10 DEF IndexesAgree

LEMMA MoveType ==
  ASSUME RedisTypeOK, NEW r \in Runs, NEW from \in Indexed, NEW to \in Indexed
  PROVE  Moved(r, from, to) \in
           [pending : SUBSET Runs, running : SUBSET Runs, ended : SUBSET Runs,
            listed : SUBSET Runs, byStatus : [Indexed -> SUBSET Runs]]
  BY ZenonT(60) DEF RedisTypeOK, Moved

(* A step that gives no run another status leaves the keys right. *)
LEMMA SameStatusAgrees ==
  ASSUME IndexesAgree, UNCHANGED index, \A q \in Runs : runs'[q].status = runs[q].status
  PROVE  IndexesAgree'
  BY DEF IndexesAgree

-----------------------------------------------------------------------------
(* The actions that are operations of the contract on the rows, without     *)
(* being defined from one: a recovery and a removal.                       *)
LEMMA RequeueIsUpdate ==
  ASSUME RedisInv, NEW x \in scans, Requeue(x), StillOwned(x)
  PROVE  UpdateClaimedRun(x.run, x.token) /\ x.run \in Runs /\ x.token \in Tokens
<1>1. x.run \in Runs /\ x.token \in Tokens
  BY DEF RedisInv, RedisTypeOK, Scan
<1>2. /\ granted[x.token] # NoClaim
      /\ x.exhausted <=> granted[x.token].attempt >= MaxAttempts[x.run]
  BY DEF RedisInv, ScansAreOfGrants
<1>3. granted[x.token].attempt \in Nat /\ MaxAttempts[x.run] \in Nat
  BY <1>1, <1>2, MaxAttemptsAssumption DEF RedisInv, IInv, TypeOK, Claims
<1>4. /\ runs' = [runs EXCEPT ![x.run] = Requeued(x)]
      /\ UNCHANGED <<granted, credit>>
      /\ Owns(runs[x.run], x.token)
  BY DEF Requeue, StillOwned
<1>5. CASE x.exhausted
  BY <1>1, <1>2, <1>4, <1>5 DEF Requeued, UpdateClaimedRun, FailClaimedRun
<1>6. CASE ~x.exhausted
  BY <1>1, <1>2, <1>3, <1>4, <1>6 DEF Requeued, UpdateClaimedRun, RetryClaimedRun
<1>7. QED BY <1>1, <1>5, <1>6

LEMMA RemoveIsPurge ==
  ASSUME RedisInv, NEW r \in purges, RemoveRun(r), runs[r].status \in Indexed
  PROVE  PurgeRuns({r}) /\ r \in Runs /\ runs[r].status \in Terminal
<1>1. r \in Runs /\ runs \in [Runs -> Row]
  BY DEF RedisInv, RedisTypeOK, IInv, TypeOK
<1>2. runs[r].status \in Terminal
  BY StatusFacts DEF RedisInv, PurgesHaveEnded
<1>3. runs' = [runs EXCEPT ![r].status = "purged"] /\ UNCHANGED <<granted, credit>>
  BY DEF RemoveRun
<1>4. runs' = [q \in Runs |-> IF q \in {r} THEN [runs[q] EXCEPT !.status = "purged"]
                                           ELSE runs[q]]
  BY <1>1, <1>3
<1>5. QED BY <1>1, <1>2, <1>3, <1>4 DEF PurgeRuns

(* Every command of every caller is an operation of the contract, or        *)
(* changes no row.                                                         *)
LEMMA RedisStepImplements ==
  ASSUME RedisInv, [RedisNext]_redisVars
  PROVE  [Next]_vars
<1>1. CASE UNCHANGED redisVars
  BY <1>1 DEF redisVars, vars
<1>2. ASSUME NEW r \in Runs, RedisAdd(r) \/ RedisCancel(r) PROVE Next
  BY <1>2 DEF RedisAdd, RedisCancel, Next
<1>3. ASSUME NEW r \in Runs, NEW s \in Stations, NEW t \in Tokens, RedisClaim(r, s, t)
      PROVE  Next
  BY <1>3 DEF RedisClaim, Next
<1>4. ASSUME NEW r \in Runs, NEW t \in Tokens, RedisUpdate(r, t) PROVE Next
  BY <1>4 DEF RedisUpdate, Next
<1>5. ASSUME NEW E \in SUBSET Runs, RequeueScan(E) \/ PurgeScan(E) PROVE UNCHANGED vars
  BY <1>5 DEF RequeueScan, PurgeScan
<1>6. ASSUME NEW x \in scans, Requeue(x) PROVE [Next]_vars
  <2>1. CASE StillOwned(x)
    BY <1>6, <2>1, RequeueIsUpdate DEF Next
  <2>2. CASE ~StillOwned(x)
    BY <1>6, <2>2 DEF Requeue, vars
  <2>3. QED BY <2>1, <2>2
<1>7. ASSUME NEW r \in purges, RemoveRun(r) PROVE [Next]_vars
  <2>1. CASE runs[r].status \in Indexed
    <3>1. PurgeRuns({r}) /\ {r} \in SUBSET Runs
      BY <1>7, <2>1, RemoveIsPurge
    <3>2. QED BY <3>1 DEF Next
  <2>2. CASE runs[r].status \notin Indexed
    BY <1>7, <2>2 DEF RemoveRun, vars
  <2>3. QED BY <2>1, <2>2
<1>8. ASSUME NEW r \in Runs,
             LeaseLapses(r) \/ \E t \in Tokens : RenewRunLease(r, t)
      PROVE  Next
  BY <1>8 DEF Next
<1>9. QED BY <1>1, <1>2, <1>3, <1>4, <1>5, <1>6, <1>7, <1>8 DEF RedisNext

-----------------------------------------------------------------------------
(* The keys stay well formed and in agreement with the hashes. *)
LEMMA RedisStepAgrees ==
  ASSUME RedisInv, [RedisNext]_redisVars
  PROVE  RedisTypeOK' /\ IndexesAgree'
<1> DEFINE Keys == [pending : SUBSET Runs, running : SUBSET Runs, ended : SUBSET Runs,
                    listed : SUBSET Runs, byStatus : [Indexed -> SUBSET Runs]]
<1>0. /\ runs \in [Runs -> Row] /\ index \in Keys /\ scans \subseteq Scan
      /\ purges \subseteq Runs /\ RedisTypeOK /\ IndexesAgree
  BY DEF RedisInv, IInv, TypeOK, RedisTypeOK
<1>1. CASE UNCHANGED redisVars
  BY <1>0, <1>1 DEF redisVars, vars, RedisTypeOK, IndexesAgree
<1>2. ASSUME NEW r \in Runs, RedisAdd(r) PROVE RedisTypeOK' /\ IndexesAgree'
  <2>1. /\ runs[r].status = "absent" /\ runs' = [runs EXCEPT ![r] = PendingRow]
        /\ UNCHANGED <<scans, purges>>
        /\ index' = [index EXCEPT !.pending = @ \cup {r}, !.listed = @ \cup {r},
                                  !.byStatus["pending"] = @ \cup {r}]
    BY <1>2 DEF RedisAdd, AddRun
  <2>2. \A q \in Runs : runs'[q].status = IF q = r THEN "pending" ELSE runs[q].status
    BY <1>0, <2>1 DEF PendingRow, AbsentRow
  <2>3. RedisTypeOK'
    BY <1>0, <2>1, StatusFacts DEF RedisTypeOK
  <2>4. /\ index'.pending = index.pending \cup {r} /\ index'.listed = index.listed \cup {r}
        /\ index'.running = index.running /\ index'.ended = index.ended
        /\ \A s \in Indexed : index'.byStatus[s] =
             IF s = "pending" THEN index.byStatus[s] \cup {r} ELSE index.byStatus[s]
    BY <1>0, <2>1, StatusFacts
  <2>5. ASSUME NEW s \in Indexed
        PROVE  index'.byStatus[s] = {q \in Runs : runs'[q].status = s}
    <3>1. index.byStatus[s] = {q \in Runs : runs[q].status = s} /\ runs[r].status # s
      BY <1>0, <2>1, StatusFacts DEF IndexesAgree
    <3>2. CASE s = "pending"
      BY <2>2, <2>4, <3>1, <3>2
    <3>3. CASE s # "pending"
      BY <2>2, <2>4, <3>1, <3>3
    <3>4. QED BY <3>2, <3>3
  <2>6. /\ index'.pending = {q \in Runs : runs'[q].status = "pending"}
        /\ index'.running = {q \in Runs : runs'[q].status = "running"}
    BY <1>0, <2>1, <2>2, <2>4 DEF IndexesAgree
  <2>7. index'.ended = {q \in Runs : runs'[q].status \in Terminal}
    BY <1>0, <2>1, <2>2, <2>4, StatusFacts DEF IndexesAgree
  <2>8. index'.listed = {q \in Runs : runs'[q].status \in Indexed}
    BY <1>0, <2>1, <2>2, <2>4, StatusFacts DEF IndexesAgree
  <2>9. QED BY <2>3, <2>5, <2>6, <2>7, <2>8 DEF IndexesAgree
<1>3. ASSUME NEW r \in Runs, RedisCancel(r) PROVE RedisTypeOK' /\ IndexesAgree'
  <2> DEFINE row == Cancelled(runs[r])
  <2>1. /\ runs[r].status \in Live /\ runs' = [runs EXCEPT ![r] = row]
        /\ row.status = "cancelled" /\ UNCHANGED <<scans, purges>>
        /\ index' = [Moved(r, runs[r].status, "cancelled")
                       EXCEPT !.pending = @ \ {r}, !.running = @ \ {r}]
    BY <1>0, <1>3, PatchFields DEF RedisCancel, CancelRun
  <2>2. index' = Moved(r, runs[r].status, "cancelled")
    <3> DEFINE moved == Moved(r, runs[r].status, "cancelled")
    <3>1. moved \in Keys
      BY <1>0, <2>1, MoveType, StatusFacts DEF Indexed
    <3>2. /\ moved.pending = IF runs[r].status = "pending" THEN index.pending \ {r} ELSE index.pending
          /\ moved.running = IF runs[r].status = "running" THEN index.running \ {r} ELSE index.running
      BY <1>0 DEF Moved
    <3>3. r \notin moved.pending /\ r \notin moved.running
      BY <1>0, <3>2 DEF IndexesAgree
    <3> HIDE DEF moved
    <3>4. moved.pending \ {r} = moved.pending /\ moved.running \ {r} = moved.running
      BY <3>3
    <3>5. [moved EXCEPT !.pending = @ \ {r}, !.running = @ \ {r}] = moved
      BY <3>1, <3>4
    <3>6. QED BY <2>1, <3>5 DEF moved
  <2>3. runs[r].status \in Indexed /\ row.status \in Indexed /\ row.status # runs[r].status
    BY <2>1, StatusFacts DEF Indexed, Live
  <2> HIDE DEF row
  <2>4. IndexesAgree'
    BY <1>0, <2>1, <2>2, <2>3, MoveKeepsAgreement
  <2>5. RedisTypeOK'
    BY <1>0, <2>1, <2>2, <2>3, MoveType DEF RedisTypeOK
  <2>6. QED BY <2>4, <2>5
<1>4. ASSUME NEW r \in Runs, NEW row, runs' = [runs EXCEPT ![r] = row],
             runs[r].status \in Live, row.status \in Indexed, row.status # runs[r].status,
             index' = Moved(r, runs[r].status, row.status), scans' \subseteq scans,
             UNCHANGED purges
      PROVE  RedisTypeOK' /\ IndexesAgree'
  <2>1. IndexesAgree'
    BY <1>0, <1>4, MoveKeepsAgreement
  <2>2. index' \in Keys
    BY <1>0, <1>4, MoveType DEF Indexed
  <2>3. QED BY <1>0, <1>4, <2>1, <2>2 DEF RedisTypeOK
<1>5. ASSUME NEW r \in Runs, NEW s \in Stations, NEW t \in Tokens, RedisClaim(r, s, t)
      PROVE  RedisTypeOK' /\ IndexesAgree'
  <2> DEFINE row == Claimed(runs[r], s, t)
  <2>1. /\ runs[r].status = "pending" /\ runs' = [runs EXCEPT ![r] = row]
        /\ row.status = "running" /\ UNCHANGED <<scans, purges>>
        /\ index' = Moved(r, "pending", "running")
    BY <1>0, <1>5, PatchFields DEF RedisClaim, ClaimRun
  <2> HIDE DEF row
  <2>2. QED BY <1>4, <2>1, StatusFacts DEF Live
<1>6. ASSUME NEW r \in Runs, NEW t \in Tokens, RedisUpdate(r, t)
      PROVE  RedisTypeOK' /\ IndexesAgree'
  <2>1. /\ index' = Moved(r, "running", runs'[r].status) /\ UNCHANGED <<scans, purges>>
        /\ UpdateClaimedRun(r, t)
    BY <1>6 DEF RedisUpdate
  <2>2. PICK row \in {Completed(runs[r]), Failed(runs[r]), Retried(runs[r])} :
          runs' = [runs EXCEPT ![r] = row] /\ runs[r].status = "running"
    BY <2>1 DEF UpdateClaimedRun, CompleteClaimedRun, FailClaimedRun, RetryClaimedRun, Owns
  <2>3. row.status \in {"completed", "failed", "pending"}
    BY <1>0, <2>2, PatchFields
  <2>4. runs'[r] = row
    BY <1>0, <2>2
  <2>5. row.status \in Indexed /\ row.status # "running"
    BY <2>3, StatusFacts
  <2>6. QED BY <1>4, <2>1, <2>2, <2>4, <2>5 DEF Live
<1>7. ASSUME NEW E \in SUBSET Runs, RequeueScan(E) PROVE RedisTypeOK' /\ IndexesAgree'
  <2>1. \A r \in E : runs[r].token \in Tokens
    BY <1>0, <1>7 DEF RequeueScan, Lapsed, Row
  <2>2. scans' \subseteq Scan
    <3>1. \A r \in E : [run |-> r, token |-> runs[r].token,
                       exhausted |-> runs[r].attempts >= MaxAttempts[r]] \in Scan
      BY <2>1 DEF Scan
    <3>2. QED BY <1>0, <1>7, <3>1 DEF RequeueScan
  <2>3. UNCHANGED <<runs, index, purges>>
    BY <1>7 DEF RequeueScan, vars
  <2>4. QED BY <1>0, <2>2, <2>3, SameStatusAgrees DEF RedisTypeOK
<1>8. ASSUME NEW E \in SUBSET Runs, PurgeScan(E) PROVE RedisTypeOK' /\ IndexesAgree'
  <2>1. UNCHANGED <<runs, index, scans>> /\ purges' = purges \cup E
    BY <1>8 DEF PurgeScan, vars
  <2>2. QED BY <1>0, <2>1, SameStatusAgrees DEF RedisTypeOK
<1>9. ASSUME NEW x \in scans, Requeue(x) PROVE RedisTypeOK' /\ IndexesAgree'
  <2>1. scans' \subseteq scans /\ UNCHANGED purges /\ x.run \in Runs
    BY <1>0, <1>9 DEF Requeue, Scan
  <2>2. CASE StillOwned(x)
    <3> DEFINE row == Requeued(x)
    <3>1. /\ runs[x.run].status = "running" /\ runs' = [runs EXCEPT ![x.run] = row]
          /\ index' = Moved(x.run, "running", row.status)
      BY <1>9, <2>2 DEF Requeue, StillOwned, Owns
    <3>2. row.status \in {"failed", "pending"}
      BY <1>0, <2>1, PatchFields DEF Requeued
    <3>3. row.status \in Indexed /\ row.status # "running"
      BY <3>2, StatusFacts
    <3> HIDE DEF row
    <3>4. QED BY <1>4, <2>1, <3>1, <3>3 DEF Live
  <2>3. CASE ~StillOwned(x)
    BY <1>0, <1>9, <2>1, <2>3, SameStatusAgrees DEF Requeue, RedisTypeOK
  <2>4. QED BY <2>2, <2>3
<1>10. ASSUME NEW r \in purges, RemoveRun(r) PROVE RedisTypeOK' /\ IndexesAgree'
  <2>1. r \in Runs /\ purges' \subseteq Runs /\ UNCHANGED scans
    BY <1>0, <1>10 DEF RemoveRun
  <2>2. CASE runs[r].status \in Indexed
    <3> DEFINE st == runs[r].status
    <3>1. /\ runs' = [runs EXCEPT ![r].status = "purged"]
          /\ index' = [index EXCEPT
               !.pending = @ \ {r}, !.running = @ \ {r}, !.ended = @ \ {r},
               !.listed = @ \ {r}, !.byStatus[st] = @ \ {r}]
      BY <1>10, <2>2 DEF RemoveRun
    <3>2. \A q \in Runs : runs'[q].status = IF q = r THEN "purged" ELSE runs[q].status
      BY <1>0, <3>1 DEF Row
    <3>3. /\ index'.pending = index.pending \ {r} /\ index'.running = index.running \ {r}
          /\ index'.ended = index.ended \ {r} /\ index'.listed = index.listed \ {r}
          /\ \A s \in Indexed : index'.byStatus[s] =
               IF s = st THEN index.byStatus[s] \ {r} ELSE index.byStatus[s]
      BY <1>0, <2>2, <3>1
    <3>4. RedisTypeOK'
      BY <1>0, <2>1, <2>2, <3>1 DEF RedisTypeOK
    <3>5. ASSUME NEW s \in Indexed
          PROVE  index'.byStatus[s] = {q \in Runs : runs'[q].status = s}
      <4>1. index.byStatus[s] = {q \in Runs : runs[q].status = s} /\ s # "purged"
        BY <1>0, StatusFacts DEF IndexesAgree
      <4> HIDE DEF st
      <4>2. CASE s = st
        <5>1. index'.byStatus[s] = {q \in Runs : runs[q].status = s} \ {r}
          BY <3>3, <4>1, <4>2
        <5>2. QED BY <3>2, <4>1, <5>1
      <4>3. CASE s # st
        <5>1. runs[r].status # s
          BY <4>3 DEF st
        <5>2. index'.byStatus[s] = {q \in Runs : runs[q].status = s}
          BY <3>3, <4>1, <4>3
        <5>3. QED BY <3>2, <4>1, <5>1, <5>2
      <4>4. QED BY <4>2, <4>3
    <3>6. /\ index'.pending = {q \in Runs : runs'[q].status = "pending"}
          /\ index'.running = {q \in Runs : runs'[q].status = "running"}
      BY <1>0, <3>2, <3>3 DEF IndexesAgree
    <3>7. index'.ended = {q \in Runs : runs'[q].status \in Terminal}
      BY <1>0, <3>2, <3>3, StatusFacts DEF IndexesAgree
    <3>8. index'.listed = {q \in Runs : runs'[q].status \in Indexed}
      BY <1>0, <3>2, <3>3, StatusFacts DEF IndexesAgree
    <3>9. QED BY <3>4, <3>5, <3>6, <3>7, <3>8 DEF IndexesAgree
  <2>3. CASE runs[r].status \notin Indexed
    BY <1>0, <1>10, <2>1, <2>3, SameStatusAgrees DEF RemoveRun, RedisTypeOK
  <2>4. QED BY <2>2, <2>3
<1>11. ASSUME NEW r \in Runs, UNCHANGED <<index, scans, purges>>,
              LeaseLapses(r) \/ \E t \in Tokens : RenewRunLease(r, t)
       PROVE  RedisTypeOK' /\ IndexesAgree'
  <2>1. \A q \in Runs : runs'[q].status = runs[q].status
    BY <1>0, <1>11 DEF LeaseLapses, RenewRunLease, Renewed, Row
  <2>2. QED BY <1>0, <1>11, <2>1, SameStatusAgrees DEF RedisTypeOK
<1>12. QED BY <1>1, <1>2, <1>3, <1>5, <1>6, <1>7, <1>8, <1>9, <1>10, <1>11 DEF RedisNext

-----------------------------------------------------------------------------
(* What a caller read of an attempt stays true of it: a claim is granted    *)
(* once and for ever.                                                      *)
LEMMA RedisStepScans ==
  ASSUME RedisInv, [RedisNext]_redisVars
  PROVE  ScansAreOfGrants'
<1>0. /\ runs \in [Runs -> Row] /\ scans \subseteq Scan /\ ScansAreOfGrants
      /\ granted \in [Tokens -> Claims \cup {NoClaim}] /\ TokenIsLatestGrant
  BY DEF RedisInv, IInv, TypeOK, RedisTypeOK
<1>1. ASSUME scans' \subseteq scans,
             \A t \in Tokens : granted[t] # NoClaim => granted'[t] = granted[t]
      PROVE  ScansAreOfGrants'
  BY <1>0, <1>1 DEF ScansAreOfGrants, Scan
<1>2. ASSUME UNCHANGED redisVars PROVE ScansAreOfGrants'
  BY <1>1, <1>2 DEF redisVars, vars
<1>3. ASSUME NEW r \in Runs, RedisAdd(r) \/ RedisCancel(r) PROVE ScansAreOfGrants'
  BY <1>1, <1>3 DEF RedisAdd, AddRun, RedisCancel, CancelRun
<1>4. ASSUME NEW r \in Runs, NEW s \in Stations, NEW t \in Tokens, RedisClaim(r, s, t)
      PROVE  ScansAreOfGrants'
  BY <1>0, <1>1, <1>4 DEF RedisClaim, ClaimRun
<1>5. ASSUME NEW r \in Runs, NEW t \in Tokens, RedisUpdate(r, t) PROVE ScansAreOfGrants'
  BY <1>1, <1>5 DEF RedisUpdate, UpdateClaimedRun, CompleteClaimedRun,
                    FailClaimedRun, RetryClaimedRun
<1>6. ASSUME NEW E \in SUBSET Runs, RequeueScan(E) PROVE ScansAreOfGrants'
  <2> DEFINE read(r) == [run |-> r, token |-> runs[r].token,
                         exhausted |-> runs[r].attempts >= MaxAttempts[r]]
  <2>1. scans' = scans \cup {read(r) : r \in E} /\ UNCHANGED granted
    BY <1>6 DEF RequeueScan, vars
  <2>2. ASSUME NEW r \in E
        PROVE  granted[runs[r].token] = [run |-> r, attempt |-> runs[r].attempts]
    BY <1>0, <1>6 DEF RequeueScan, Lapsed, TokenIsLatestGrant
  <2>3. ASSUME NEW x \in scans'
        PROVE  /\ granted[x.token] # NoClaim /\ granted[x.token].run = x.run
               /\ x.exhausted <=> granted[x.token].attempt >= MaxAttempts[x.run]
    <3>1. CASE x \in scans
      BY <1>0, <3>1 DEF ScansAreOfGrants
    <3>2. ASSUME NEW r \in E, x = read(r)
          PROVE  /\ granted[x.token] # NoClaim /\ granted[x.token].run = x.run
                 /\ x.exhausted <=> granted[x.token].attempt >= MaxAttempts[x.run]
      <4>1. r \in Runs /\ runs[r].attempts \in Nat
        BY <1>0 DEF Row
      <4>2. /\ x.run = r /\ x.token = runs[r].token
            /\ x.exhausted <=> runs[r].attempts >= MaxAttempts[r]
        BY <3>2
      <4>3. granted[x.token] = [run |-> r, attempt |-> runs[r].attempts]
        BY <2>2, <4>2
      <4>4. granted[x.token] \in Claims
        BY <4>1, <4>3 DEF Claims
      <4>5. QED BY <4>2, <4>3, <4>4, NoClaimAssumption
    <3>3. QED BY <2>1, <3>1, <3>2
  <2>4. QED BY <2>1, <2>3 DEF ScansAreOfGrants
<1>7. ASSUME NEW E \in SUBSET Runs, PurgeScan(E) PROVE ScansAreOfGrants'
  BY <1>1, <1>7 DEF PurgeScan, vars
<1>8. ASSUME NEW x \in scans, Requeue(x) PROVE ScansAreOfGrants'
  BY <1>1, <1>8 DEF Requeue
<1>9. ASSUME NEW r \in purges, RemoveRun(r) PROVE ScansAreOfGrants'
  BY <1>1, <1>9 DEF RemoveRun
<1>10. ASSUME NEW r \in Runs, UNCHANGED <<index, scans, purges>>,
              LeaseLapses(r) \/ \E t \in Tokens : RenewRunLease(r, t)
       PROVE  ScansAreOfGrants'
  BY <1>1, <1>10 DEF LeaseLapses, RenewRunLease
<1>11. QED BY <1>2, <1>3, <1>4, <1>5, <1>6, <1>7, <1>8, <1>9, <1>10 DEF RedisNext

(* A run that has ended stays ended, so what is held for removal has too.  *)
LEMMA RedisStepPurges ==
  ASSUME RedisInv, [RedisNext]_redisVars
  PROVE  PurgesHaveEnded'
<1> DEFINE Ended == Terminal \cup {"purged"}
<1>0. /\ runs \in [Runs -> Row] /\ purges \subseteq Runs /\ PurgesHaveEnded
      /\ scans \subseteq Scan
  BY DEF RedisInv, IInv, TypeOK, RedisTypeOK
<1>1. ASSUME purges' \subseteq purges,
             \A r \in Runs : runs[r].status \in Ended => runs'[r].status \in Ended
      PROVE  PurgesHaveEnded'
  BY <1>0, <1>1 DEF PurgesHaveEnded
<1>2. "absent" \notin Ended /\ "pending" \notin Ended /\ "running" \notin Ended
  BY DEF Terminal
<1>3. ASSUME UNCHANGED redisVars PROVE PurgesHaveEnded'
  BY <1>1, <1>3 DEF redisVars, vars
<1>4. ASSUME NEW r \in Runs, runs[r].status \notin Ended, UNCHANGED purges,
             \E row : runs' = [runs EXCEPT ![r] = row]
      PROVE  PurgesHaveEnded'
  <2>1. \A q \in Runs : q # r => runs'[q] = runs[q]
    BY <1>0, <1>4
  <2>2. QED BY <1>1, <1>4, <2>1
<1>5. ASSUME NEW r \in Runs, RedisAdd(r) \/ RedisCancel(r) PROVE PurgesHaveEnded'
  BY <1>2, <1>4, <1>5 DEF RedisAdd, AddRun, RedisCancel, CancelRun, Live
<1>6. ASSUME NEW r \in Runs, NEW s \in Stations, NEW t \in Tokens, RedisClaim(r, s, t)
      PROVE  PurgesHaveEnded'
  BY <1>2, <1>4, <1>6 DEF RedisClaim, ClaimRun
<1>7. ASSUME NEW r \in Runs, NEW t \in Tokens, RedisUpdate(r, t) PROVE PurgesHaveEnded'
  BY <1>2, <1>4, <1>7 DEF RedisUpdate, UpdateClaimedRun, CompleteClaimedRun,
                          FailClaimedRun, RetryClaimedRun, Owns
<1>8. ASSUME NEW E \in SUBSET Runs, RequeueScan(E) PROVE PurgesHaveEnded'
  BY <1>1, <1>8 DEF RequeueScan, vars
<1>9. ASSUME NEW E \in SUBSET Runs, PurgeScan(E) PROVE PurgesHaveEnded'
  BY <1>0, <1>9 DEF PurgeScan, vars, PurgesHaveEnded
<1>10. ASSUME NEW x \in scans, Requeue(x) PROVE PurgesHaveEnded'
  <2>1. x.run \in Runs
    BY <1>0 DEF Scan
  <2>2. CASE StillOwned(x)
    BY <1>2, <1>4, <1>10, <2>1, <2>2 DEF Requeue, StillOwned, Owns
  <2>3. CASE ~StillOwned(x)
    BY <1>1, <1>10, <2>3 DEF Requeue
  <2>4. QED BY <2>2, <2>3
<1>11. ASSUME NEW r \in purges, RemoveRun(r) PROVE PurgesHaveEnded'
  <2>1. CASE runs[r].status \in Indexed
    <3>1. runs' = [runs EXCEPT ![r].status = "purged"] /\ purges' \subseteq purges
      BY <1>11, <2>1 DEF RemoveRun
    <3>2. \A q \in Runs : runs'[q].status \in {"purged", runs[q].status}
      BY <1>0, <3>1 DEF Row
    <3>3. QED BY <1>1, <3>1, <3>2
  <2>2. CASE runs[r].status \notin Indexed
    BY <1>1, <1>11, <2>2 DEF RemoveRun
  <2>3. QED BY <2>1, <2>2
<1>12. ASSUME NEW r \in Runs, UNCHANGED <<index, scans, purges>>,
              LeaseLapses(r) \/ \E t \in Tokens : RenewRunLease(r, t)
       PROVE  PurgesHaveEnded'
  <2>1. \A q \in Runs : runs'[q].status = runs[q].status
    BY <1>0, <1>12 DEF LeaseLapses, RenewRunLease, Renewed, Row
  <2>2. QED BY <1>1, <1>12, <2>1
<1>13. QED BY <1>3, <1>5, <1>6, <1>7, <1>8, <1>9, <1>10, <1>11, <1>12 DEF RedisNext

-----------------------------------------------------------------------------
LEMMA RedisInitInv == RedisInit => RedisInv
<1> SUFFICES ASSUME RedisInit PROVE RedisInv
  OBVIOUS
<1>1. IInv /\ \A r \in Runs : runs[r].status = "absent"
  BY InitInv DEF RedisInit, Init, AbsentRow
<1>2. index = NoIndex /\ scans = {} /\ purges = {}
  BY DEF RedisInit
<1>3. RedisTypeOK
  BY <1>2 DEF RedisTypeOK, NoIndex
<1>4. IndexesAgree
  BY <1>1, <1>2, StatusFacts DEF IndexesAgree, NoIndex
<1>5. QED BY <1>1, <1>2, <1>3, <1>4 DEF RedisInv, ScansAreOfGrants, PurgesHaveEnded

LEMMA RedisStepInv == RedisInv /\ [RedisNext]_redisVars => RedisInv'
<1> SUFFICES ASSUME RedisInv, [RedisNext]_redisVars PROVE RedisInv'
  OBVIOUS
<1>1. IInv'
  BY RedisStepImplements, StepInv DEF RedisInv
<1>2. QED BY <1>1, RedisStepAgrees, RedisStepScans, RedisStepPurges DEF RedisInv

(* The index keys and what callers hold fit the hashes at any moment.      *)
THEOREM RedisInvariant == RedisSpec => []RedisInv
  BY RedisInitInv, RedisStepInv, PTL DEF RedisSpec

(* The queries that read an index key see exactly the runs they ask for.   *)
THEOREM IndexesCorrect == RedisSpec => []IndexesAgree
<1>1. RedisInv => IndexesAgree
  BY DEF RedisInv
<1>2. QED BY <1>1, RedisInvariant, PTL

(* The Redis adapter implements the queue contract: recovery and purging   *)
(* in several commands are, to a client, the contract's operations.        *)
THEOREM RedisImplementsQueue == RedisSpec => KeepsContract
<1>1. RedisInit => Init
  BY DEF RedisInit
<1>2. RedisInv /\ [RedisNext]_redisVars => [Next]_vars
  BY RedisStepImplements
<1>3. QED BY <1>1, <1>2, RedisInvariant, PTL DEF RedisSpec, Spec, KeepsContract

(* So what is proved of the contract holds of the adapter: each run lives   *)
(* the life its caller was promised.                                       *)
THEOREM RedisLifecycle == RedisSpec => ImplementsLifecycle
  BY RedisImplementsQueue, LifecycleImplemented, PTL DEF KeepsContract
=============================================================================
