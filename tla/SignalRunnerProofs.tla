------------------------- MODULE SignalRunnerProofs -------------------------
(***************************************************************************)
(* Proofs about the fleet, for any stations, runs, budgets and limits.     *)
(*                                                                         *)
(* Some need a hypothesis, without which they are false of the code: that  *)
(* every station can execute every run (Unfit = {}: a station fails a run  *)
(* it cannot execute by an unfenced update), that no run is retried        *)
(* (OneAttempt: the exit of an attempt frees the slot of the next), or     *)
(* that leases lapse only when their station is down (~LeasesLapse).       *)
(***************************************************************************)
EXTENDS SignalRunner, FiniteSetTheorems, TLAPS

-----------------------------------------------------------------------------
(* Rows.  What each patch makes of a row.                                  *)
LEMMA PatchRow ==
  ASSUME NEW row \in Row
  PROVE  /\ \A new \in {Cancelled(row), Completed(row), Failed(row), Retried(row)} :
              new \in Row /\ new.attempts = row.attempts /\ new.token = None
         /\ Cancelled(row).status = "cancelled" /\ Completed(row).status = "completed"
         /\ Failed(row).status = "failed" /\ Retried(row).status = "pending"
         /\ \A new \in {Renewed(row), [row EXCEPT !.live = FALSE], [row EXCEPT !.late = TRUE]} :
              /\ new \in Row /\ new.attempts = row.attempts
              /\ new.token = row.token /\ new.status = row.status
         /\ LET new == [row EXCEPT !.status = "failed"]
            IN  new \in Row /\ new.attempts = row.attempts /\ new.status = "failed"
<1>1. /\ Unleased(row) \in Row /\ Unleased(row).attempts = row.attempts
      /\ Unleased(row).token = None
  BY DEF Unleased, Row
<1>2. QED BY ZenonT(60), <1>1 DEF Cancelled, Completed, Failed, Retried, Renewed, Row, Status, Live, Terminal

LEMMA ClaimedRow ==
  ASSUME NEW row \in Row, NEW s \in Stations, NEW k \in Tokens
  PROVE  /\ Claimed(row, s, k) \in Row /\ Claimed(row, s, k).status = "running"
         /\ Claimed(row, s, k).attempts = row.attempts + 1 /\ Claimed(row, s, k).token = k
  BY DEF Claimed, Row, Status, Live

LEMMA RecoveredRow ==
  ASSUME NEW row \in Row, NEW max \in Nat
  PROVE  LET new == Recovered(row, max)
         IN  /\ new \in Row /\ new.attempts = row.attempts
             /\ \/ new.status = "failed"
                \/ new.status = "pending" /\ row.attempts < max
<1>1. /\ Failed(row) \in Row /\ Failed(row).attempts = row.attempts
      /\ Failed(row).status = "failed" /\ row.attempts \in Nat
      /\ Retried(row) \in Row /\ Retried(row).attempts = row.attempts
      /\ Retried(row).status = "pending"
  BY ZenonT(60), PatchRow DEF Row
<1>2. CASE row.attempts >= max
  BY <1>1, <1>2 DEF Recovered, Row
<1>3. CASE row.attempts < max
  BY <1>1, <1>3 DEF Recovered
<1>4. QED BY <1>1, <1>2, <1>3

LEMMA FreshRow ==
  /\ AbsentRow \in Row /\ AbsentRow.status = "absent" /\ AbsentRow.attempts = 0
  /\ PendingRow \in Row /\ PendingRow.status = "pending" /\ PendingRow.attempts = 0
  BY DEF AbsentRow, PendingRow, Row, Status, Live, Terminal

-----------------------------------------------------------------------------
(* Processes.  What reaping and forgetting make of one.                    *)
LEMMA ProcValues ==
  /\ NoProc \in Proc /\ GoneProc \in Proc /\ \A s \in Stations : Spawned(s) \in Proc
  /\ NoProc.at = None /\ NoProc.h = "done" /\ NoProc.msg = "none" /\ NoProc.os = "none"
  /\ GoneProc.at = None /\ GoneProc.h = "done" /\ GoneProc.msg = "none" /\ GoneProc.os = "gone"
  /\ \A s \in Stations : /\ Spawned(s).at = s /\ Spawned(s).h = "idle"
                         /\ Spawned(s).msg = "none" /\ Spawned(s).os = "up"
  BY DEF NoProc, GoneProc, Spawned, Proc, Patches

LEMMA TidyProc ==
  ASSUME NEW p \in Proc
  PROVE  /\ Tidy(p) \in Proc
         /\ Tidy(p) = p \/ (Tidy(p) = GoneProc /\ p.h = "done" /\ p.os = "gone")
  BY ProcValues DEF Tidy

LEMMA EnsureExitProc ==
  ASSUME NEW p \in Proc
  PROVE  LET new == EnsureExit(p)
         IN  /\ new \in Proc /\ new.at = p.at /\ new.os = p.os /\ new.msg = p.msg /\ new.h = p.h
             /\ p.os = "up" \/ p.reap => new.reap
  BY DEF EnsureExit, Proc

(* At most the process tracked for the run is handed to the reaper. *)
LEMMA Reaped ==
  ASSUME TypeOK, NEW s \in Stations, NEW r \in Runs
  PROVE  LET new == ReapTracked(s, r)
         IN  /\ new \in [Runs -> [Tokens -> Proc]]
             /\ \A q \in Runs, k \in Tokens :
                  new[q][k] = IF q = r /\ k = tracked[s][r] THEN EnsureExit(proc[q][k])
                                                            ELSE proc[q][k]
<1> USE DEF TypeOK
<1>1. CASE tracked[s][r] = None
  BY <1>1, NoneAssumption DEF ReapTracked
<1>2. CASE tracked[s][r] # None
  <2>1. tracked[s][r] \in Tokens
    BY <1>2
  <2>2. EnsureExit(proc[r][tracked[s][r]]) \in Proc
    BY <2>1, EnsureExitProc
  <2>3. QED BY <1>2, <2>1, <2>2 DEF ReapTracked
<1>3. QED BY <1>1, <1>2

-----------------------------------------------------------------------------
(* Ticks.  Wherever a tick goes next, it has what it needs there.          *)
TickFits(t) ==
  /\ t \in TickState
  /\ t.pc \in {"slotRenewing", "timingOut", "slot", "claim"} => t.run \in Runs
  /\ t.pc \in {"timingOut", "claim"} => t.saw \in Nat
  /\ t.slot # None <=> t.pc \in {"slot", "claim"}
Ticks == tick \in [Stations -> TickState] /\ TickCoherent

LEMMA TicksFit == Ticks <=> tick \in [Stations -> TickState] /\ \A s \in Stations : TickFits(tick[s])
  BY DEF Ticks, TickCoherent, TickFits

LEMMA TickPlaces ==
  /\ TickFits(IdleTick)
  /\ \A R \in SUBSET Runs, p \in {"renew", "timeouts", "due"}, F \in SUBSET SlotNo :
       /\ TickFits([IdleTick EXCEPT !.pc = p, !.todo = R])
       /\ TickFits([IdleTick EXCEPT !.pc = p, !.todo = R, !.fresh = F])
       /\ TickFits([IdleTick EXCEPT !.pc = p])
<1>1. TickFits(IdleTick)
  BY DEF TickFits, TickState, IdleTick
<1>2. ASSUME NEW R \in SUBSET Runs, NEW p \in {"renew", "timeouts", "due"}, NEW F \in SUBSET SlotNo
      PROVE  /\ TickFits([IdleTick EXCEPT !.pc = p, !.todo = R])
             /\ TickFits([IdleTick EXCEPT !.pc = p, !.todo = R, !.fresh = F])
             /\ TickFits([IdleTick EXCEPT !.pc = p])
  BY DEF TickFits, TickState, IdleTick
<1>3. QED BY <1>1, <1>2

(* A tick of the station that changes its own place only. *)
TickMoves(s) == tick' = [tick EXCEPT ![s] = tick'[s]] /\ TickFits(tick'[s])

LEMMA MovesTo ==
  ASSUME Ticks, NEW s \in Stations, NEW t, TickFits(t), tick' = [tick EXCEPT ![s] = t]
  PROVE  TickMoves(s)
  BY DEF Ticks, TickMoves

LEMMA Considers ==
  ASSUME Ticks, NEW s \in Stations, NEW R \in SUBSET Runs, Consider(s, R)
  PROVE  TickMoves(s)
<1>1. TickFits(IF R = {} THEN IdleTick ELSE [IdleTick EXCEPT !.pc = "due", !.todo = R])
  BY TickPlaces
<1>2. QED BY <1>1, MovesTo DEF Consider

LEMMA TickStepMoves ==
  ASSUME TypeOK, Ticks, RowsCoherent, NEW s \in Stations, TickStep(s)
  PROVE  TickMoves(s)
<1> USE DEF At
<1>0. /\ tick[s] \in TickState /\ TickFits(tick[s])
      /\ tick[s].todo \in SUBSET Runs
      /\ \A r \in Runs : tick[s].todo \ {r} \in SUBSET Runs
  BY TicksFit DEF Ticks, TickState
<1>1. CASE TickStart(s)
  <2>1. TickFits([IdleTick EXCEPT !.pc = "renew", !.todo = TrackedRuns(s),
                   !.fresh = {i \in SlotNo : slots[i] # None /\ slots[i].live}])
    BY TickPlaces DEF TrackedRuns
  <2>2. QED BY <1>1, <2>1, MovesTo DEF TickStart
<1>2. CASE LeaseRenew(s)
  <2>1. PICK r \in tick[s].todo \cap TrackedRuns(s) :
          IF slotOf[s][r] # None THEN NextRun(s, r, "slotRenewing", None) ELSE Drop(s, r)
    BY <1>2 DEF LeaseRenew
  <2>2. r \in Runs /\ tick[s].pc = "renew"
    BY <1>0, <1>2 DEF LeaseRenew
  <2>3. /\ TickFits([tick[s] EXCEPT !.pc = "slotRenewing", !.todo = tick[s].todo \ {r}, !.run = r, !.saw = None])
        /\ TickFits([tick[s] EXCEPT !.todo = tick[s].todo \ {r}])
    BY <1>0, <2>2 DEF TickFits, TickState
  <2>4. \/ tick' = [tick EXCEPT ![s] = [tick[s] EXCEPT !.pc = "slotRenewing", !.todo = tick[s].todo \ {r},
                                                      !.run = r, !.saw = None]]
        \/ tick' = [tick EXCEPT ![s] = [tick[s] EXCEPT !.todo = tick[s].todo \ {r}]]
    BY <2>1 DEF NextRun, Drop, Ticks
  <2>5. QED BY <2>3, <2>4, MovesTo
<1>3. CASE SlotRenew(s) \/ TimeoutWrite(s)
  <2>1. PICK label \in {"renew", "timeouts"} :
           tick' = [tick EXCEPT ![s] = [tick[s] EXCEPT !.pc = label, !.run = None, !.saw = None]]
    BY <1>3 DEF SlotRenew, TimeoutWrite, Resume, Ticks
  <2>2. tick[s].pc \in {"slotRenewing", "timingOut"}
    BY <1>3 DEF SlotRenew, TimeoutWrite
  <2>3. TickFits([tick[s] EXCEPT !.pc = label, !.run = None, !.saw = None])
    BY <1>0, <2>2 DEF TickFits, TickState
  <2>4. QED BY <2>1, <2>3, MovesTo
<1>4. CASE TimeoutScan(s)
  <2>1. TickFits([IdleTick EXCEPT !.pc = "timeouts",
          !.todo = {r \in Runs : /\ runs[r].status = "running" /\ runs[r].station \in {s, None}
                                 /\ runs[r].late}])
    BY TickPlaces
  <2>2. QED BY <1>4, <2>1, MovesTo DEF TimeoutScan
<1>5. CASE TimeoutSweepSkipped(s)
  BY <1>5, TickPlaces, MovesTo DEF TimeoutSweepSkipped
<1>6. CASE TimeoutRead(s)
  <2>1. PICK r \in tick[s].todo :
          IF runs[r].status = "running" THEN NextRun(s, r, "timingOut", runs[r].token) ELSE Drop(s, r)
    BY <1>6 DEF TimeoutRead
  <2>2. r \in Runs /\ tick[s].pc = "timeouts" /\ runs[r].attempts \in Nat
    BY <1>0, <1>6 DEF TimeoutRead, TypeOK, Row
  <2>3. CASE runs[r].status = "running"
    <3>1. runs[r].token \in Nat
      BY <2>2, <2>3 DEF RowsCoherent
    <3>2. TickFits([tick[s] EXCEPT !.pc = "timingOut", !.todo = tick[s].todo \ {r}, !.run = r,
                                   !.saw = runs[r].token])
      BY <1>0, <2>2, <3>1 DEF TickFits, TickState
    <3>3. tick' = [tick EXCEPT ![s] = [tick[s] EXCEPT !.pc = "timingOut", !.todo = tick[s].todo \ {r},
                                                      !.run = r, !.saw = runs[r].token]]
      BY <2>1, <2>3 DEF NextRun, Ticks
    <3>4. QED BY <3>2, <3>3, MovesTo
  <2>4. CASE runs[r].status # "running"
    <3>1. TickFits([tick[s] EXCEPT !.todo = tick[s].todo \ {r}])
      BY <1>0, <2>2 DEF TickFits, TickState
    <3>2. tick' = [tick EXCEPT ![s] = [tick[s] EXCEPT !.todo = tick[s].todo \ {r}]]
      BY <2>1, <2>4 DEF Drop, Ticks
    <3>3. QED BY <3>1, <3>2, MovesTo
  <2>5. QED BY <2>3, <2>4
<1>7. CASE ClaimGateClosed(s)
  BY <1>7, TickPlaces, MovesTo DEF ClaimGateClosed
<1>8. CASE DueScan(s) \/ StationFull(s)
  BY <1>8, Considers DEF DueScan, StationFull
<1>9. CASE SkipDue(s) \/ FailUnfit(s) \/ ClaimWon(s) \/ ClaimLost(s)
  <2>1. PICK r \in Runs : Rest(s, r)
    BY <1>9 DEF SkipDue, FailUnfit, ClaimWon, ClaimLost
  <2>2. QED BY <1>0, <2>1, Considers DEF Rest
<1>10. ASSUME NEW r \in Runs, SlotTry(s, r)
       PROVE  /\ tick[s].pc \in {"due", "slot"} /\ SlotTried(s) \in SlotNo
              /\ SlotLimit \in Nat \ {0}
  <2>1. tick[s].pc \in {"due", "slot"} /\ SlotLimit \in Nat \ {0}
    BY <1>10, RunnerAssumption DEF SlotTry, NextDue
  <2>2. 1 \in SlotNo
    BY <2>1 DEF SlotNo
  <2>3. tick[s].pc = "slot" => tick[s].slot \in SlotNo
    BY <1>0 DEF TickFits, TickState
  <2>4. QED BY <2>1, <2>2, <2>3 DEF SlotTried
<1>11. CASE AcquireSlot(s)
  <2>1. PICK r \in Runs :
          /\ SlotTry(s, r)
          /\ tick' = [tick EXCEPT ![s] = [tick[s] EXCEPT !.pc = "claim", !.run = r,
                                             !.slot = SlotTried(s), !.saw = runs[r].attempts + 1]]
    BY <1>11 DEF AcquireSlot, Ticks
  <2>2. runs[r].attempts + 1 \in Nat /\ SlotTried(s) \in SlotNo
    BY <1>10, <2>1 DEF TypeOK, Row
  <2>3. SlotTried(s) # None
    BY <2>2, NoLeaseAssumption DEF SlotNo
  <2>4. TickFits([tick[s] EXCEPT !.pc = "claim", !.run = r,
                                 !.slot = SlotTried(s), !.saw = runs[r].attempts + 1])
    BY <1>0, <2>2, <2>3 DEF TickFits, TickState
  <2>5. QED BY <2>1, <2>4, MovesTo
<1>12. CASE SlotDenied(s)
  <2>1. PICK r \in Runs :
          /\ SlotTry(s, r)
          /\ IF SlotTried(s) < SlotLimit
             THEN tick' = [tick EXCEPT ![s] = [tick[s] EXCEPT !.pc = "slot", !.run = r,
                                                 !.slot = SlotTried(s) + 1]]
             ELSE Rest(s, r)
    BY <1>12 DEF SlotDenied, Ticks
  <2>2. SlotTried(s) \in SlotNo /\ SlotLimit \in Nat
    BY <1>10, <2>1
  <2>3. CASE SlotTried(s) < SlotLimit
    <3>1. SlotTried(s) + 1 \in SlotNo /\ SlotTried(s) + 1 # None
      BY <2>2, <2>3, NoLeaseAssumption DEF SlotNo
    <3>2. TickFits([tick[s] EXCEPT !.pc = "slot", !.run = r, !.slot = SlotTried(s) + 1])
      BY <1>0, <3>1 DEF TickFits, TickState
    <3>3. QED BY <2>1, <2>3, <3>2, MovesTo
  <2>4. CASE ~(SlotTried(s) < SlotLimit)
    BY <1>0, <2>1, <2>4, Considers DEF Rest
  <2>5. QED BY <2>3, <2>4
<1>13. QED
  BY <1>1, <1>2, <1>3, <1>4, <1>5, <1>6, <1>7, <1>8, <1>9, <1>11, <1>12 DEF TickStep

LEMMA StepTicks ==
  ASSUME TypeOK, Ticks, RowsCoherent, [Next]_vars
  PROVE  Ticks'
<1>1. ASSUME NEW s \in Stations, TickMoves(s) PROVE Ticks'
  <2>1. tick' \in [Stations -> TickState] /\ \A q \in Stations : TickFits(tick'[q])
    BY <1>1, TicksFit DEF TickMoves, TickFits
  <2>2. QED BY <2>1 DEF Ticks, TickCoherent, TickFits
<1>2. CASE UNCHANGED tick
  BY <1>2 DEF Ticks, TickCoherent
<1>3. ASSUME NEW s \in Stations, TickStep(s) PROVE Ticks'
  BY <1>1, <1>3, TickStepMoves
<1>4. ASSUME NEW s \in Stations, Crash(s) PROVE Ticks'
  BY <1>1, <1>4, TickPlaces, MovesTo DEF Crash
<1>5. ASSUME NEW r \in Runs, NEW k \in Tokens,
             HandlerStep(r, k) \/ ErrorEvent(r, k) \/ Exit(r, k) \/ \E m \in Reports : Report(r, k, m)
      PROVE  UNCHANGED tick
  BY <1>5 DEF HandlerStep, MessageEvent, ExitEvent, GraceOver, HandlerWrite, ErrorEvent, Exit,
              Report, station
<1>6. ASSUME NEW r \in Runs, Trigger(r) \/ Overdue(r) \/ LeaseLapses(r) \/ \E s \in Stations : Cancel(s, r)
      PROVE  UNCHANGED tick
  BY <1>6 DEF Trigger, Overdue, LeaseLapses, Cancel, station
<1>7. ASSUME NEW i \in SlotNo, SlotLapses(i) PROVE UNCHANGED tick
  BY <1>7 DEF SlotLapses, station
<1>8. ASSUME NEW s \in Stations, Restart(s) PROVE UNCHANGED tick
  BY <1>8 DEF Restart
<1>9. QED BY <1>2, <1>3, <1>4, <1>5, <1>6, <1>7, <1>8 DEF Next, vars, station

-----------------------------------------------------------------------------
(* What a step of the fleet may do to one row, and to its history.         *)
RowMove(r, row, by, new, newBy) ==
  \/ /\ newBy = by
     /\ \/ new = row
        \/ row.status = "absent" /\ new = PendingRow
        \/ row.status \in Live /\ new = Cancelled(row)
        \/ Lapsed(row) /\ new = Recovered(row, MaxAttempts[r])
        \/ row.status = "running" /\ new \in {Renewed(row), [row EXCEPT !.late = TRUE]}
        \/ new = [row EXCEPT !.live = FALSE]
        \/ row.status = "running" /\ new = Failed(row)
        \/ row.status = "running" /\ row.attempts < MaxAttempts[r] /\ new = Retried(row)
        \/ row.status = "pending" /\ \E s \in Stations : new = Claimed(row, s, row.attempts + 1)
        \/ Unfit # {} /\ new = [row EXCEPT !.status = "failed"]
  \/ row.status = "running" /\ new = Completed(row) /\ newBy = row.attempts
RowMoves(r) == RowMove(r, runs[r], credit[r], runs'[r], credit'[r])
RowsMove ==
  /\ runs' = [r \in Runs |-> runs'[r]] /\ credit' = [r \in Runs |-> credit'[r]]
  /\ \A r \in Runs : RowMoves(r)

LEMMA OneRowMoves ==
  ASSUME TypeOK, NEW r \in Runs, NEW row, runs' = [runs EXCEPT ![r] = row],
         \/ UNCHANGED credit /\ (credit'[r] = credit[r] /\ runs'[r] = row => RowMoves(r))
         \/ credit' = [credit EXCEPT ![r] = runs[r].attempts] /\ RowMoves(r)
  PROVE  RowsMove
<1>1. runs'[r] = row /\ \A q \in Runs : q # r => runs'[q] = runs[q] /\ credit'[q] = credit[q]
  BY DEF TypeOK
<1>2. \A q \in Runs : q # r => RowMoves(q)
  BY <1>1 DEF RowMoves, RowMove
<1>3. RowMoves(r)
  BY <1>1
<1>4. runs' = [q \in Runs |-> runs'[q]] /\ credit' = [q \in Runs |-> credit'[q]]
  BY DEF TypeOK
<1>5. QED BY <1>2, <1>3, <1>4 DEF RowsMove

LEMMA RowsStay == TypeOK /\ UNCHANGED <<runs, credit>> => RowsMove
  BY DEF RowsMove, RowMoves, RowMove, TypeOK

LEMMA StepRowsMove ==
  ASSUME TypeOK, Ticks, RowsCoherent, ProcsCoherent, [Next]_vars
  PROVE  RowsMove
<1> USE DEF history
<1>1. ASSUME NEW r \in Runs, Trigger(r) PROVE RowsMove
  BY <1>1, OneRowMoves DEF Trigger, RowMoves, RowMove
<1>2. ASSUME NEW r \in Runs, NEW s \in Stations, Cancel(s, r) PROVE RowsMove
  BY <1>2, OneRowMoves DEF Cancel, RowMoves, RowMove
<1>3. ASSUME NEW r \in Runs, Overdue(r) PROVE RowsMove
  BY <1>3, OneRowMoves DEF Overdue, RowMoves, RowMove
<1>4. ASSUME NEW r \in Runs, LeaseLapses(r) PROVE RowsMove
  BY <1>4, OneRowMoves DEF LeaseLapses, RowMoves, RowMove
<1>5. ASSUME NEW s \in Stations, TickStart(s) PROVE RowsMove
  <2>1. \A r \in Runs : runs'[r] = IF Lapsed(runs[r]) THEN Recovered(runs[r], MaxAttempts[r])
                                                      ELSE runs[r]
    BY <1>5 DEF TickStart
  <2>2. \A r \in Runs : RowMoves(r)
    BY <1>5, <2>1 DEF RowMoves, RowMove, TickStart
  <2>3. QED BY <1>5, <2>2 DEF RowsMove, TickStart, TypeOK
<1>6. ASSUME NEW s \in Stations, LeaseRenew(s) PROVE RowsMove
  <2>1. PICK r \in tick[s].todo \cap TrackedRuns(s) :
          IF runs[r].station = s /\ Owns(runs[r], runs[r].token) /\ runs[r].token # None
          THEN runs' = [runs EXCEPT ![r] = Renewed(@)] ELSE UNCHANGED runs
    BY <1>6 DEF LeaseRenew
  <2>2. r \in Runs /\ UNCHANGED credit
    BY <1>6 DEF TrackedRuns, LeaseRenew
  <2>3. CASE Owns(runs[r], runs[r].token) /\ runs' = [runs EXCEPT ![r] = Renewed(@)]
    BY <2>2, <2>3, OneRowMoves DEF RowMoves, RowMove, Owns
  <2>4. QED BY <2>1, <2>2, <2>3, RowsStay
<1>7. ASSUME NEW s \in Stations, TimeoutWrite(s) PROVE RowsMove
  <2> DEFINE r == tick[s].run
             k == tick[s].saw
  <2>1. /\ r \in Runs /\ UNCHANGED credit
        /\ runs' = IF Owns(runs[r], k)
                   THEN [runs EXCEPT ![r] = IF k < MaxAttempts[r] THEN Retried(@) ELSE Failed(@)]
                   ELSE runs
    BY <1>7, TicksFit DEF TimeoutWrite, At, TickFits
  <2>2. CASE Owns(runs[r], k)
    <3>1. runs[r].status = "running" /\ runs[r].attempts = k
      BY <2>1, <2>2 DEF Owns, RowsCoherent
    <3>2. runs' = [runs EXCEPT ![r] = IF k < MaxAttempts[r] THEN Retried(runs[r]) ELSE Failed(runs[r])]
      BY <2>1, <2>2
    <3> HIDE DEF r, k
    <3>3. QED BY <2>1, <3>1, <3>2, OneRowMoves DEF RowMoves, RowMove
  <2>3. QED BY <2>1, <2>2, RowsStay
<1>8. ASSUME NEW s \in Stations, FailUnfit(s) PROVE RowsMove
  <2>1. PICK r \in Runs : <<s, r>> \in Unfit /\ runs' = [runs EXCEPT ![r].status = "failed"]
    BY <1>8 DEF FailUnfit
  <2>2. runs' = [runs EXCEPT ![r] = [runs[r] EXCEPT !.status = "failed"]]
    BY <2>1 DEF TypeOK
  <2>3. Unfit # {} /\ UNCHANGED credit
    BY <1>8, <2>1 DEF FailUnfit
  <2>4. QED BY <2>2, <2>3, OneRowMoves DEF RowMoves, RowMove
<1>9. ASSUME NEW s \in Stations, ClaimWon(s) PROVE RowsMove
  <2>1. PICK r \in Runs :
          /\ runs[r].status = "pending"
          /\ runs' = [runs EXCEPT ![r] = Claimed(@, s, runs[r].attempts + 1)]
    BY <1>9 DEF ClaimWon
  <2>2. UNCHANGED credit
    BY <1>9 DEF ClaimWon
  <2>3. QED BY <2>1, <2>2, OneRowMoves DEF RowMoves, RowMove
<1>10. ASSUME NEW s \in Stations, TickStep(s) PROVE RowsMove
  <2>1. CASE UNCHANGED <<runs, credit>>
    BY <2>1, RowsStay
  <2>2. CASE SlotRenew(s) \/ TimeoutScan(s) \/ TimeoutSweepSkipped(s) \/ TimeoutRead(s)
             \/ ClaimGateClosed(s) \/ DueScan(s) \/ StationFull(s) \/ SkipDue(s)
             \/ AcquireSlot(s) \/ SlotDenied(s) \/ ClaimLost(s)
    BY <2>1, <2>2 DEF SlotRenew, TimeoutScan, TimeoutSweepSkipped, TimeoutRead, ClaimGateClosed,
                      DueScan, StationFull, SkipDue, AcquireSlot, SlotDenied, ClaimLost
  <2>3. QED BY <1>5, <1>6, <1>7, <1>8, <1>9, <1>10, <2>2 DEF TickStep
<1>11. ASSUME NEW r \in Runs, NEW k \in Tokens, HandlerWrite(r, k) PROVE RowsMove
  <2> DEFINE p == proc[r][k]
  <2>1. p.at # None /\ k \in 1..runs[r].attempts /\ (p.h = "pending" => k < MaxAttempts[r])
    BY <1>11, NoneAssumption DEF HandlerWrite, Listening, ProcsCoherent, TypeOK
  <2>2. CASE Owns(runs[r], k)
    <3>1. runs[r].status = "running" /\ runs[r].attempts = k
      BY <2>2 DEF Owns, RowsCoherent
    <3>2. CASE p.h = "completed"
      <4>1. /\ runs' = [runs EXCEPT ![r] = Completed(runs[r])]
            /\ credit' = [credit EXCEPT ![r] = runs[r].attempts]
        BY <1>11, <2>2, <3>1, <3>2 DEF HandlerWrite
      <4>2. runs'[r] = Completed(runs[r]) /\ credit'[r] = runs[r].attempts
        BY <4>1 DEF TypeOK
      <4>3. RowMoves(r)
        BY <3>1, <4>2 DEF RowMoves, RowMove
      <4>4. QED BY <4>1, <4>3, OneRowMoves
    <3>3. CASE p.h \in {"pending", "failed"}
      <4>1. UNCHANGED credit
        BY <1>11, <3>3 DEF HandlerWrite
      <4>2. runs' = [runs EXCEPT ![r] = IF p.h = "pending" THEN Retried(runs[r]) ELSE Failed(runs[r])]
        BY <1>11, <2>2, <3>3 DEF HandlerWrite
      <4>3. QED BY <2>1, <3>1, <3>3, <4>1, <4>2, OneRowMoves DEF RowMoves, RowMove
    <3>4. QED BY <1>11, <3>2, <3>3 DEF HandlerWrite, Patches
  <2>3. CASE ~Owns(runs[r], k)
    BY <1>11, <2>3, RowsStay DEF HandlerWrite
  <2>4. QED BY <2>2, <2>3
<1>12. ASSUME NEW r \in Runs, NEW k \in Tokens,
              MessageEvent(r, k) \/ ExitEvent(r, k) \/ GraceOver(r, k) \/ ErrorEvent(r, k)
              \/ Exit(r, k) \/ \E m \in Reports : Report(r, k, m)
       PROVE  RowsMove
  BY <1>12, RowsStay DEF MessageEvent, ExitEvent, GraceOver, ErrorEvent, Exit, Report
<1>13. ASSUME NEW s \in Stations, Crash(s) \/ Restart(s) PROVE RowsMove
  BY <1>13, RowsStay DEF Crash, Restart
<1>14. ASSUME NEW i \in SlotNo, SlotLapses(i) PROVE RowsMove
  BY <1>14, RowsStay DEF SlotLapses
<1>15. CASE UNCHANGED vars
  BY <1>15, RowsStay DEF vars
<1>16. QED BY <1>1, <1>2, <1>3, <1>4, <1>10, <1>11, <1>12, <1>13, <1>14, <1>15 DEF Next, HandlerStep

(* One move of a row keeps it well formed, forgets no attempt, and credits *)
(* a run that is completed to its latest attempt.                          *)
RowFits(r, row, by) ==
  /\ row \in Row /\ by \in Nat
  /\ row.status = "running" => row.token = row.attempts /\ row.attempts > 0
  /\ row.attempts <= MaxAttempts[r]
  /\ row.status = "pending" => row.attempts < MaxAttempts[r]
  /\ row.status = "absent" => row.attempts = 0
  /\ row.status = "completed" => by = row.attempts

LEMMA RowKept ==
  ASSUME NEW r \in Runs, NEW row, NEW by, RowFits(r, row, by),
         NEW new, NEW newBy, RowMove(r, row, by, new, newBy)
  PROVE  RowFits(r, new, newBy) /\ row.attempts <= new.attempts
<1>1. /\ row \in Row /\ row.attempts \in Nat /\ by \in Nat
      /\ MaxAttempts[r] \in Nat \ {0}
  BY RunnerAssumption DEF RowFits, Row
<1>2. CASE new = row /\ newBy = by
  BY <1>1, <1>2
<1>3. CASE row.status = "absent" /\ new = PendingRow /\ newBy = by
  BY <1>1, <1>3, FreshRow DEF RowFits
<1>4. CASE new \in {Cancelled(row), Failed(row)} /\ newBy = by
  <2>1. /\ Cancelled(row) \in Row /\ Cancelled(row).attempts = row.attempts
        /\ Failed(row) \in Row /\ Failed(row).attempts = row.attempts
        /\ Cancelled(row).status = "cancelled" /\ Failed(row).status = "failed"
    BY <1>1, PatchRow
  <2>2. QED BY <1>1, <1>4, <2>1 DEF RowFits
<1>5. CASE new = Recovered(row, MaxAttempts[r]) /\ newBy = by
  <2> DEFINE recovered == Recovered(row, MaxAttempts[r])
  <2>1. /\ recovered \in Row /\ recovered.attempts = row.attempts
        /\ recovered.status = "failed" \/ (recovered.status = "pending" /\ row.attempts < MaxAttempts[r])
    BY <1>1, RecoveredRow
  <2> HIDE DEF recovered
  <2>2. recovered = new
    BY <1>5 DEF recovered
  <2>3. QED BY <1>1, <1>5, <2>1, <2>2 DEF RowFits
<1>6. CASE new \in {Renewed(row), [row EXCEPT !.live = FALSE], [row EXCEPT !.late = TRUE]} /\ newBy = by
  <2>1. /\ new \in Row /\ new.attempts = row.attempts
        /\ new.token = row.token /\ new.status = row.status
    BY ZenonT(60), <1>1, <1>6, PatchRow
  <2>2. QED BY <1>1, <1>6, <2>1 DEF RowFits
<1>7. CASE row.attempts < MaxAttempts[r] /\ new = Retried(row) /\ newBy = by
  <2>1. new \in Row /\ new.attempts = row.attempts /\ new.status = "pending"
    BY <1>1, <1>7, PatchRow
  <2>2. QED BY <1>1, <1>7, <2>1 DEF RowFits
<1>8. ASSUME row.status = "pending", newBy = by,
             NEW s \in Stations, new = Claimed(row, s, row.attempts + 1)
      PROVE  RowFits(r, new, newBy) /\ row.attempts <= new.attempts
  <2>1. row.attempts + 1 \in 1..MaxAttempts[r]
    BY <1>1, <1>8 DEF RowFits
  <2>2. row.attempts + 1 \in Tokens
    BY <2>1, RunnerAssumption
  <2>3. /\ new \in Row /\ new.status = "running"
        /\ new.attempts = row.attempts + 1 /\ new.token = row.attempts + 1
    BY <1>1, <1>8, <2>2, ClaimedRow
  <2>4. QED BY <1>1, <1>8, <2>1, <2>3 DEF RowFits
<1>9. CASE new = [row EXCEPT !.status = "failed"] /\ newBy = by
  <2>1. new \in Row /\ new.attempts = row.attempts /\ new.status = "failed"
    BY <1>1, <1>9, PatchRow
  <2>2. QED BY <1>1, <1>9, <2>1 DEF RowFits
<1>10. CASE new = Completed(row) /\ newBy = row.attempts
  <2>1. new \in Row /\ new.attempts = row.attempts /\ new.status = "completed"
    BY <1>1, <1>10, PatchRow
  <2>2. QED BY <1>1, <1>10, <2>1 DEF RowFits
<1>11. QED
  BY <1>2, <1>3, <1>4, <1>5, <1>6, <1>7, <1>8, <1>9, <1>10 DEF RowMove

LEMMA StepRows ==
  ASSUME TypeOK, RowsCoherent, CompletedByLatestAttempt, RowsMove
  PROVE  /\ runs' \in [Runs -> Row] /\ credit' \in [Runs -> Nat]
         /\ RowsCoherent' /\ CompletedByLatestAttempt'
         /\ \A r \in Runs : runs[r].attempts <= runs'[r].attempts
<1>1. \A r \in Runs : RowFits(r, runs[r], credit[r])
  BY DEF TypeOK, RowsCoherent, CompletedByLatestAttempt, RowFits
<1>2. \A r \in Runs : RowFits(r, runs'[r], credit'[r]) /\ runs[r].attempts <= runs'[r].attempts
  BY <1>1, RowKept DEF RowsMove, RowMoves
<1>3. QED BY <1>2 DEF RowsMove, RowFits, RowsCoherent, CompletedByLatestAttempt

-----------------------------------------------------------------------------
(* Processes, step by step.  A process fits its attempt when n attempts of *)
(* the run were made and the stations U are up.                            *)
ProcFits(r, k, p, n, U) ==
  /\ p \in Proc
  /\ p.at # None => p.at \in U /\ k \in 1..n
  /\ p.msg # "none" => p.h \in {"idle", "grace"}
  /\ p.h = "pending" => k < MaxAttempts[r]
Procs == proc \in [Runs -> [Tokens -> Proc]] /\ ProcsCoherent
AttemptsGrow == \A r \in Runs : runs[r].attempts <= runs'[r].attempts

LEMMA ProcsFit ==
  Procs <=> /\ proc \in [Runs -> [Tokens -> Proc]]
            /\ \A r \in Runs, k \in Tokens : ProcFits(r, k, proc[r][k], runs[r].attempts, up)
  BY DEF Procs, ProcsCoherent, ProcFits

LEMMA StillFits ==
  ASSUME TypeOK, Procs, AttemptsGrow, runs' \in [Runs -> Row], up \subseteq up',
         NEW r \in Runs, NEW k \in Tokens
  PROVE  /\ ProcFits(r, k, proc[r][k], runs'[r].attempts, up')
         /\ ProcFits(r, k, EnsureExit(proc[r][k]), runs'[r].attempts, up')
<1> DEFINE p == proc[r][k]
<1>1. ProcFits(r, k, p, runs[r].attempts, up) /\ p \in Proc
  BY ProcsFit, Zenon DEF ProcFits
<1>2. /\ EnsureExit(p) \in Proc /\ EnsureExit(p).at = p.at
      /\ EnsureExit(p).msg = p.msg /\ EnsureExit(p).h = p.h
  BY <1>1, EnsureExitProc, Zenon
<1>3. runs[r].attempts \in Nat /\ runs'[r].attempts \in Nat /\ runs[r].attempts <= runs'[r].attempts
  BY DEF TypeOK, Row, AttemptsGrow
<1> HIDE DEF p
<1>4. 1..runs[r].attempts \subseteq 1..runs'[r].attempts
  BY <1>3
<1>5. QED BY <1>1, <1>2, <1>4 DEF ProcFits, p

LEMMA OneProcMoves ==
  ASSUME TypeOK, Procs, AttemptsGrow, runs' \in [Runs -> Row], up \subseteq up',
         NEW r \in Runs, NEW k \in Tokens, NEW p, proc' = [proc EXCEPT ![r][k] = p],
         ProcFits(r, k, p, runs'[r].attempts, up')
  PROVE  Procs'
<1>1. /\ proc' \in [Runs -> [Tokens -> Proc]]
      /\ \A q \in Runs, j \in Tokens : proc'[q][j] = IF q = r /\ j = k THEN p ELSE proc[q][j]
  BY DEF TypeOK, ProcFits
<1>2. \A q \in Runs, j \in Tokens : ProcFits(q, j, proc'[q][j], runs'[q].attempts, up')
  BY <1>1, StillFits, Zenon
<1>3. QED BY <1>1, <1>2 DEF Procs, ProcsCoherent, ProcFits

LEMMA ReapedFits ==
  ASSUME TypeOK, Procs, AttemptsGrow, runs' \in [Runs -> Row], up \subseteq up',
         NEW s \in Stations, NEW r \in Runs, proc' = ReapTracked(s, r)
  PROVE  Procs'
<1>1. /\ proc' \in [Runs -> [Tokens -> Proc]]
      /\ \A q \in Runs, j \in Tokens : proc'[q][j] \in {proc[q][j], EnsureExit(proc[q][j])}
  BY Reaped
<1>2. \A q \in Runs, j \in Tokens : ProcFits(q, j, proc'[q][j], runs'[q].attempts, up')
  BY <1>1, StillFits, Zenon
<1>3. QED BY <1>1, <1>2 DEF Procs, ProcsCoherent, ProcFits

LEMMA ProcsStay ==
  ASSUME TypeOK, Procs, AttemptsGrow, runs' \in [Runs -> Row], up \subseteq up', UNCHANGED proc
  PROVE  Procs'
<1>1. \A q \in Runs, j \in Tokens : ProcFits(q, j, proc'[q][j], runs'[q].attempts, up')
  BY StillFits, Zenon
<1>2. proc' \in [Runs -> [Tokens -> Proc]]
  BY DEF TypeOK
<1>3. QED BY <1>1, <1>2 DEF Procs, ProcsCoherent, ProcFits

(* The events of one child and the handlers on it. *)
LEMMA ChildStep ==
  ASSUME TypeOK, Procs, NEW r \in Runs, NEW k \in Tokens,
         \/ HandlerStep(r, k) \/ ErrorEvent(r, k) \/ Exit(r, k)
         \/ \E m \in Reports : Report(r, k, m)
  PROVE  \E p \in Proc : /\ proc' = [proc EXCEPT ![r][k] = p]
                         /\ ProcFits(r, k, p, runs[r].attempts, up)
<1> DEFINE old == proc[r][k]
          Found(p) == proc' = [proc EXCEPT ![r][k] = p] /\ ProcFits(r, k, p, runs[r].attempts, up)
<1>1. old \in Proc /\ ProcFits(r, k, old, runs[r].attempts, up) /\ runs[r].attempts \in Nat
  BY ProcsFit DEF TypeOK, Row
<1>2. ProcFits(r, k, GoneProc, runs[r].attempts, up)
  BY ProcValues DEF ProcFits
<1>3. ASSUME NEW p, ProcFits(r, k, p, runs[r].attempts, up)
      PROVE  ProcFits(r, k, Tidy(p), runs[r].attempts, up)
  BY <1>2, <1>3 DEF Tidy
<1> SUFFICES \E p \in Proc : Found(p)
  OBVIOUS
<1>4. ASSUME NEW p, Found(p) PROVE \E q \in Proc : Found(q)
  BY <1>4 DEF ProcFits
<1>5. CASE \E m \in Reports : Report(r, k, m)
  <2>1. PICK m \in Reports : Report(r, k, m)
    BY <1>5
  <2>2. ProcFits(r, k, [old EXCEPT !.msg = m], runs[r].attempts, up)
    BY <1>1, <2>1 DEF ProcFits, Proc, Report
  <2>3. proc' = [proc EXCEPT ![r][k] = [old EXCEPT !.msg = m]]
    BY <2>1 DEF Report, TypeOK
  <2> HIDE DEF old
  <2>4. QED BY <1>4, <2>2, <2>3
<1>6. CASE Exit(r, k)
  <2>1. ProcFits(r, k, [old EXCEPT !.os = "down"], runs[r].attempts, up)
    BY <1>1 DEF ProcFits, Proc
  <2>2. proc' = [proc EXCEPT ![r][k] = [old EXCEPT !.os = "down"]]
    BY <1>6 DEF Exit, TypeOK
  <2> HIDE DEF old
  <2>3. QED BY <1>4, <2>1, <2>2
<1>7. CASE ErrorEvent(r, k)
  <2>1. ProcFits(r, k, [old EXCEPT !.os = "gone", !.h = "done"], runs[r].attempts, up)
    BY <1>1, <1>7 DEF ProcFits, Proc, ErrorEvent
  <2>2. proc' = [proc EXCEPT ![r][k] = Tidy([old EXCEPT !.os = "gone", !.h = "done"])]
    BY <1>7 DEF ErrorEvent
  <2> HIDE DEF old
  <2>3. QED BY <1>3, <1>4, <2>1, <2>2
<1>8. CASE MessageEvent(r, k)
  <2> DEFINE patch == CASE runs[r].status \in {"cancelled", "failed"} -> "done"
                        [] old.msg = "completed" -> "completed"
                        [] old.msg = "failed" /\ runs[r].attempts < MaxAttempts[r] -> "pending"
                        [] OTHER -> "failed"
             new == [EnsureExit(old) EXCEPT !.h = patch, !.msg = "none"]
  <2>1. patch \in Patches \cup {"done"} /\ (patch = "pending" => runs[r].attempts < MaxAttempts[r])
    BY DEF Patches
  <2>2. old.at # None /\ proc' = [proc EXCEPT ![r][k] = Tidy(new)]
    BY <1>8, NoneAssumption DEF MessageEvent, Listening, TypeOK
  <2>3. EnsureExit(old) \in Proc /\ EnsureExit(old).at = old.at
    BY <1>1, EnsureExitProc
  <2> HIDE DEF patch
  <2>4. new \in Proc /\ new.at = old.at /\ new.msg = "none" /\ new.h = patch
    BY <2>1, <2>3 DEF Proc
  <2>5. patch = "pending" => k < MaxAttempts[r]
    BY <1>1, <2>1, <2>2, RunnerAssumption DEF ProcFits
  <2> HIDE DEF new, old
  <2>6. ProcFits(r, k, new, runs[r].attempts, up)
    BY <1>1, <2>4, <2>5 DEF ProcFits
  <2>7. QED BY <1>3, <1>4, <2>2, <2>6
<1>9. CASE ExitEvent(r, k)
  <2>1. ProcFits(r, k, [old EXCEPT !.os = "gone", !.h = IF old.h = "idle" THEN "grace" ELSE old.h],
                 runs[r].attempts, up)
    BY <1>1 DEF ProcFits, Proc
  <2>2. proc' = [proc EXCEPT ![r][k] =
                   Tidy([old EXCEPT !.os = "gone", !.h = IF old.h = "idle" THEN "grace" ELSE old.h])]
    BY <1>9 DEF ExitEvent
  <2> HIDE DEF old
  <2>3. QED BY <1>3, <1>4, <2>1, <2>2
<1>10. CASE GraceOver(r, k)
  <2> DEFINE patch == CASE runs[r].status # "running" -> "done"
                        [] runs[r].attempts < MaxAttempts[r] -> "pending"
                        [] OTHER -> "failed"
             new == [old EXCEPT !.h = patch]
  <2>1. patch \in Patches \cup {"done"} /\ (patch = "pending" => runs[r].attempts < MaxAttempts[r])
    BY DEF Patches
  <2>2. old.at # None /\ old.msg = "none" /\ proc' = [proc EXCEPT ![r][k] = Tidy(new)]
    BY <1>10, NoneAssumption DEF GraceOver, Listening, TypeOK
  <2> HIDE DEF patch
  <2>3. new \in Proc /\ new.at = old.at /\ new.msg = "none" /\ new.h = patch
    BY <1>1, <2>1, <2>2 DEF Proc
  <2>4. patch = "pending" => k < MaxAttempts[r]
    BY <1>1, <2>1, <2>2, RunnerAssumption DEF ProcFits
  <2> HIDE DEF new, old
  <2>5. ProcFits(r, k, new, runs[r].attempts, up)
    BY <1>1, <2>3, <2>4 DEF ProcFits
  <2>6. QED BY <1>3, <1>4, <2>2, <2>5
<1>11. CASE HandlerWrite(r, k)
  <2>1. ProcFits(r, k, [old EXCEPT !.h = "done"], runs[r].attempts, up)
    BY <1>1, <1>11 DEF ProcFits, Proc, HandlerWrite, Patches
  <2>2. proc' = [proc EXCEPT ![r][k] = Tidy([old EXCEPT !.h = "done"])]
    BY <1>11 DEF HandlerWrite
  <2> HIDE DEF old
  <2>3. QED BY <1>3, <1>4, <2>1, <2>2
<1>12. QED
  BY <1>5, <1>6, <1>7, <1>8, <1>9, <1>10, <1>11 DEF HandlerStep

(* What a claim makes of the processes: the child it displaces is reaped,  *)
(* and the one it spawns is of the attempt the row now shows.              *)
LEMMA ClaimSpawns ==
  ASSUME TypeOK, RowsCoherent, NEW s \in Stations, ClaimWon(s)
  PROVE  \E r \in Runs : \E k \in Tokens :
           /\ runs[r].status = "pending" /\ k = runs[r].attempts + 1
           /\ runs' = [runs EXCEPT ![r] = Claimed(runs[r], s, k)]
           /\ active' = [active EXCEPT ![s] = active[s] + 1]
           /\ tracked' = [tracked EXCEPT ![s][r] = k]
           /\ proc' \in [Runs -> [Tokens -> Proc]]
           /\ \A q \in Runs, j \in Tokens :
                proc'[q][j] = IF q = r /\ j = k THEN Spawned(s)
                              ELSE IF q = r /\ j = tracked[s][r] THEN EnsureExit(proc[q][j])
                              ELSE proc[q][j]
<1>1. PICK r \in Runs :
        LET k == runs[r].attempts + 1 IN
        /\ runs[r].status = "pending"
        /\ runs' = [runs EXCEPT ![r] = Claimed(@, s, k)]
        /\ active' = [active EXCEPT ![s] = @ + 1]
        /\ tracked' = [tracked EXCEPT ![s][r] = k]
        /\ proc' = [ReapTracked(s, r) EXCEPT ![r][k] = Spawned(s)]
  BY DEF ClaimWon
<1> DEFINE k == runs[r].attempts + 1
<1>2. k \in Tokens
  <2>1. runs[r].attempts \in Nat /\ MaxAttempts[r] \in Nat /\ runs[r].attempts < MaxAttempts[r]
    BY <1>1, RunnerAssumption DEF TypeOK, Row, RowsCoherent
  <2>2. runs[r].attempts + 1 \in 1..MaxAttempts[r]
    BY <2>1
  <2>3. QED BY <2>2, RunnerAssumption
<1>3. Spawned(s) \in Proc
  BY ProcValues
<1>4. /\ ReapTracked(s, r) \in [Runs -> [Tokens -> Proc]]
      /\ \A q \in Runs, j \in Tokens :
           ReapTracked(s, r)[q][j] = IF q = r /\ j = tracked[s][r] THEN EnsureExit(proc[q][j])
                                                                   ELSE proc[q][j]
  BY Reaped
<1>5. proc' = [ReapTracked(s, r) EXCEPT ![r][k] = Spawned(s)]
  BY <1>1
<1>6. /\ runs[r].status = "pending"
      /\ runs' = [runs EXCEPT ![r] = Claimed(runs[r], s, k)]
      /\ active' = [active EXCEPT ![s] = active[s] + 1]
      /\ tracked' = [tracked EXCEPT ![s][r] = k]
  BY <1>1
<1> HIDE DEF k
<1>7. /\ proc' \in [Runs -> [Tokens -> Proc]]
      /\ \A q \in Runs, j \in Tokens :
           proc'[q][j] = IF q = r /\ j = k THEN Spawned(s)
                         ELSE IF q = r /\ j = tracked[s][r] THEN EnsureExit(proc[q][j])
                         ELSE proc[q][j]
  BY <1>2, <1>3, <1>4, <1>5
<1>8. k = runs[r].attempts + 1
  BY DEF k
<1>9. QED BY <1>2, <1>6, <1>7, <1>8

(* What a crash makes of them: nobody listens to the station's children.   *)
LEMMA CrashedProcs ==
  ASSUME TypeOK, NEW s \in Stations, Crash(s)
  PROVE  /\ proc' \in [Runs -> [Tokens -> Proc]]
         /\ \A r \in Runs, k \in Tokens :
              proc'[r][k] = IF proc[r][k].at = s THEN GoneProc ELSE proc[r][k]
  BY ProcValues DEF TypeOK, Crash

LEMMA StepProcs ==
  ASSUME TypeOK, Ticks, RowsCoherent, Procs, AttemptsGrow, runs' \in [Runs -> Row], [Next]_vars
  PROVE  Procs'
<1> USE DEF station, history
<1>1. ASSUME UNCHANGED proc, up \subseteq up' PROVE Procs'
  BY <1>1, ProcsStay
<1>2. ASSUME NEW s \in Stations, NEW r \in Runs, up' = up, proc' = ReapTracked(s, r) PROVE Procs'
  BY <1>2, ReapedFits
<1>3. ASSUME NEW r \in Runs, Trigger(r) \/ Overdue(r) \/ LeaseLapses(r) PROVE Procs'
  BY <1>1, <1>3 DEF Trigger, Overdue, LeaseLapses
<1>4. ASSUME NEW i \in SlotNo, SlotLapses(i) PROVE Procs'
  BY <1>1, <1>4 DEF SlotLapses
<1>5. ASSUME NEW s \in Stations, NEW r \in Runs, Cancel(s, r) PROVE Procs'
  BY <1>2, <1>5 DEF Cancel
<1>6. ASSUME NEW s \in Stations, LeaseRenew(s) \/ SlotRenew(s) \/ TimeoutRead(s) PROVE Procs'
  <2>1. tick[s] \in TickState /\ TickFits(tick[s]) /\ tick[s].todo \subseteq Runs
    BY TicksFit DEF Ticks, TickState
  <2>2. UNCHANGED proc \/ \E r \in Runs : proc' = ReapTracked(s, r)
    BY <1>6, <2>1 DEF LeaseRenew, SlotRenew, TimeoutRead, At, TickFits
  <2>3. up' = up
    BY <1>6 DEF LeaseRenew, SlotRenew, TimeoutRead
  <2>4. QED BY <1>1, <1>2, <2>2, <2>3
<1>7. ASSUME NEW s \in Stations, ClaimWon(s) PROVE Procs'
  <2>1. PICK r \in Runs, k \in Tokens :
          /\ runs[r].status = "pending" /\ k = runs[r].attempts + 1
          /\ runs' = [runs EXCEPT ![r] = Claimed(runs[r], s, k)]
          /\ proc' \in [Runs -> [Tokens -> Proc]]
          /\ \A q \in Runs, j \in Tokens :
               proc'[q][j] = IF q = r /\ j = k THEN Spawned(s)
                             ELSE IF q = r /\ j = tracked[s][r] THEN EnsureExit(proc[q][j])
                             ELSE proc[q][j]
    BY <1>7, ClaimSpawns
  <2>2. up' = up /\ s \in up
    BY <1>7 DEF ClaimWon, ReadyToClaim, NextDue, At
  <2>3. runs'[r].attempts = k /\ k \in 1..k
    <3>1. runs[r] \in Row /\ runs[r].attempts \in Nat
      BY DEF TypeOK, Row
    <3>2. Claimed(runs[r], s, k).attempts = k
      BY <2>1, <3>1, ClaimedRow
    <3>3. QED BY <2>1, <3>1, <3>2 DEF TypeOK
  <2>4. ProcFits(r, k, Spawned(s), runs'[r].attempts, up')
    BY <2>2, <2>3, ProcValues DEF ProcFits
  <2>5. \A q \in Runs, j \in Tokens : ProcFits(q, j, proc'[q][j], runs'[q].attempts, up')
    BY <2>1, <2>2, <2>4, StillFits
  <2>6. QED BY <2>1, <2>5 DEF Procs, ProcsCoherent, ProcFits
<1>8. ASSUME NEW s \in Stations, TickStep(s) PROVE Procs'
  <2>1. CASE TickStart(s) \/ TimeoutScan(s) \/ TimeoutSweepSkipped(s) \/ TimeoutWrite(s)
             \/ ClaimGateClosed(s) \/ DueScan(s) \/ StationFull(s) \/ SkipDue(s) \/ FailUnfit(s)
             \/ AcquireSlot(s) \/ SlotDenied(s) \/ ClaimLost(s)
    BY <1>1, <2>1 DEF TickStart, TimeoutScan, TimeoutSweepSkipped, TimeoutWrite, ClaimGateClosed,
         DueScan, StationFull, SkipDue, FailUnfit, AcquireSlot, SlotDenied, ClaimLost
  <2>2. QED BY <1>6, <1>7, <1>8, <2>1 DEF TickStep
<1>9. ASSUME NEW r \in Runs, NEW k \in Tokens,
             \/ HandlerStep(r, k) \/ ErrorEvent(r, k) \/ Exit(r, k)
             \/ \E m \in Reports : Report(r, k, m)
      PROVE  Procs'
  <2>1. PICK p \in Proc : /\ proc' = [proc EXCEPT ![r][k] = p]
                          /\ ProcFits(r, k, p, runs[r].attempts, up)
    BY <1>9, ChildStep
  <2>2. up' = up
    BY <1>9 DEF HandlerStep, MessageEvent, ExitEvent, GraceOver, HandlerWrite, ErrorEvent, Exit, Report
  <2>3. ProcFits(r, k, p, runs'[r].attempts, up')
    <3>1. runs[r].attempts \in Nat /\ runs'[r].attempts \in Nat /\ runs[r].attempts <= runs'[r].attempts
      BY DEF TypeOK, Row, AttemptsGrow
    <3>2. 1..runs[r].attempts \subseteq 1..runs'[r].attempts
      BY <3>1
    <3>3. QED BY <2>1, <2>2, <3>2 DEF ProcFits
  <2>4. QED BY <2>1, <2>2, <2>3, OneProcMoves
<1>10. ASSUME NEW s \in Stations, Restart(s) PROVE Procs'
  BY <1>1, <1>10 DEF Restart
<1>11. ASSUME NEW s \in Stations, Crash(s) PROVE Procs'
  <2>1. /\ proc' \in [Runs -> [Tokens -> Proc]]
        /\ \A r \in Runs, k \in Tokens :
             proc'[r][k] = IF proc[r][k].at = s THEN GoneProc ELSE proc[r][k]
    BY <1>11, CrashedProcs
  <2>2. up' = up \ {s} /\ UNCHANGED runs
    BY <1>11 DEF Crash
  <2>3. ASSUME NEW r \in Runs, NEW k \in Tokens
        PROVE  ProcFits(r, k, proc'[r][k], runs'[r].attempts, up')
    <3>1. ProcFits(r, k, proc[r][k], runs[r].attempts, up) /\ proc[r][k] \in Proc
      BY ProcsFit DEF ProcFits
    <3>2. CASE proc[r][k].at = s
      BY <2>1, <3>2, ProcValues DEF ProcFits
    <3>3. CASE proc[r][k].at # s
      BY <2>1, <2>2, <3>1, <3>3 DEF ProcFits
    <3>4. QED BY <3>2, <3>3
  <2>4. QED BY <2>1, <2>3 DEF Procs, ProcsCoherent, ProcFits
<1>12. CASE UNCHANGED vars
  BY <1>1, <1>12 DEF vars
<1>13. QED
  BY <1>3, <1>4, <1>5, <1>8, <1>9, <1>10, <1>11, <1>12 DEF Next

-----------------------------------------------------------------------------
(* A station's bookkeeping of its children and slots stays well formed.    *)
Books ==
  /\ slots \in [SlotNo -> SlotLease \cup {None}]
  /\ up \subseteq Stations
  /\ tracked \in [Stations -> [Runs -> Tokens \cup {None}]]
  /\ active \in [Stations -> Nat]
  /\ slotOf \in [Stations -> [Runs -> Held \cup {None}]]
  /\ crashes \in 0..MaxCrashes

LEMMA ReleasedSlots ==
  ASSUME Books, NEW s, NEW r, NEW h \in Held \cup {None}
  PROVE  Released(s, r, h) \in [SlotNo -> SlotLease \cup {None}]
  BY DEF Books, Released

LEMMA HandlerBooks ==
  ASSUME Books, NEW s \in Stations, NEW r \in Runs, NEW k \in Tokens
  PROVE  /\ Uncount(s) => active' \in [Stations -> Nat]
         /\ Untrack(s, r, k) => tracked' \in [Stations -> [Runs -> Tokens \cup {None}]]
         /\ ReleaseSlot(s, r) => /\ slots' \in [SlotNo -> SlotLease \cup {None}]
                                 /\ slotOf' \in [Stations -> [Runs -> Held \cup {None}]]
<1>1. Uncount(s) => active' \in [Stations -> Nat]
  BY DEF Books, Uncount
<1>2. Untrack(s, r, k) => tracked' \in [Stations -> [Runs -> Tokens \cup {None}]]
  BY DEF Books, Untrack
<1>3. ReleaseSlot(s, r) => slots' \in [SlotNo -> SlotLease \cup {None}]
  BY ReleasedSlots DEF Books, ReleaseSlot
<1>4. ReleaseSlot(s, r) => slotOf' \in [Stations -> [Runs -> Held \cup {None}]]
  BY DEF Books, ReleaseSlot
<1>5. QED BY <1>1, <1>2, <1>3, <1>4

LEMMA SlotTaking ==
  ASSUME TypeOK, Ticks, NEW s \in Stations
  PROVE  \A r \in Runs : /\ ReadyToClaim(s, r) => SlotTaken(s) \in Held \cup {None}
                         /\ SlotTry(s, r) => SlotTried(s) \in SlotNo
<1>1. tick[s] \in TickState /\ TickFits(tick[s])
  BY TicksFit DEF Ticks
<1>2. tick[s].pc \in {"slot", "claim"} => tick[s].slot \in SlotNo
  BY <1>1 DEF TickFits, TickState
<1>3. ASSUME NEW r \in Runs, ReadyToClaim(s, r) PROVE SlotTaken(s) \in Held \cup {None}
  <2>1. tick[s].pc \in {"due", "claim"}
    BY <1>3 DEF ReadyToClaim, NextDue, At
  <2>2. tick[s].pc = "due" => tick[s].slot = None
    BY <1>1 DEF TickFits
  <2>3. tick[s].pc = "claim" => tick[s].saw \in Nat
    BY <1>1 DEF TickFits
  <2>4. QED BY <1>2, <2>1, <2>2, <2>3 DEF SlotTaken, Held
<1>4. ASSUME NEW r \in Runs, SlotTry(s, r) PROVE SlotTried(s) \in SlotNo
  <2>1. SlotLimit \in Nat \ {0}
    BY <1>4, RunnerAssumption DEF SlotTry
  <2>2. 1 \in SlotNo
    BY <2>1 DEF SlotNo
  <2>3. QED BY <1>2, <2>2 DEF SlotTried
<1>5. QED BY <1>3, <1>4

LEMMA StepBooks ==
  ASSUME TypeOK, Ticks, RowsCoherent, Procs, [Next]_vars
  PROVE  Books'
<1> USE DEF station, history
<1>1. Books
  BY DEF TypeOK, Books
<1>2. ASSUME UNCHANGED <<slots, up, tracked, active, slotOf, crashes>> PROVE Books'
  BY <1>1, <1>2 DEF Books
<1>3. ASSUME NEW r \in Runs, \/ Trigger(r) \/ Overdue(r) \/ LeaseLapses(r)
                             \/ \E s \in Stations : Cancel(s, r)
      PROVE  Books'
  BY <1>2, <1>3 DEF Trigger, Overdue, LeaseLapses, Cancel
<1>4. ASSUME NEW i \in SlotNo, SlotLapses(i) PROVE Books'
  <2>1. slots[i] \in SlotLease
    BY <1>1, <1>4 DEF Books, SlotLapses
  <2>2. [slots[i] EXCEPT !.live = FALSE] \in SlotLease
    BY <2>1 DEF SlotLease
  <2>3. slots' = [slots EXCEPT ![i] = [slots[i] EXCEPT !.live = FALSE]]
    BY <1>4 DEF SlotLapses
  <2>4. slots' \in [SlotNo -> SlotLease \cup {None}]
    BY <1>1, <2>2, <2>3 DEF Books
  <2>5. QED BY <1>1, <1>4, <2>4 DEF Books, SlotLapses
<1>5. ASSUME NEW s \in Stations, SlotRenew(s) PROVE Books'
  <2> DEFINE r == tick[s].run
             h == slotOf[s][r]
             renewed == /\ h # None /\ HoldsSlot(s, r, h)
                        /\ slots[h.slot].live \/ h.slot \in tick[s].fresh
  <2>1. r \in Runs /\ h \in Held \cup {None}
    BY <1>1, <1>5, TicksFit DEF Books, SlotRenew, At, TickFits
  <2>2. CASE renewed
    <3>1. h.slot \in SlotNo /\ slots[h.slot] \in SlotLease
      BY <1>1, <2>1, <2>2 DEF Held, HoldsSlot, Books
    <3>2. [slots[h.slot] EXCEPT !.live = TRUE] \in SlotLease
      BY <3>1 DEF SlotLease
    <3>3. slots' = [slots EXCEPT ![h.slot] = [slots[h.slot] EXCEPT !.live = TRUE]]
      BY <1>1, <1>5, <2>2 DEF SlotRenew, Books
    <3> HIDE DEF h
    <3>4. slots' \in [SlotNo -> SlotLease \cup {None}]
      BY <1>1, <3>1, <3>2, <3>3 DEF Books
    <3>5. QED BY <1>1, <1>5, <3>4 DEF Books, SlotRenew
  <2>3. CASE ~renewed
    BY <1>2, <1>5, <2>3 DEF SlotRenew
  <2>4. QED BY <2>2, <2>3
<1>6. ASSUME NEW s \in Stations, AcquireSlot(s) PROVE Books'
  <2>1. PICK r \in Runs :
          /\ SlotTry(s, r)
          /\ slots' = [slots EXCEPT ![SlotTried(s)] =
                         [station |-> s, run |-> r, no |-> runs[r].attempts + 1, live |-> TRUE]]
    BY <1>6 DEF AcquireSlot
  <2>2. [station |-> s, run |-> r, no |-> runs[r].attempts + 1, live |-> TRUE] \in SlotLease
    BY DEF SlotLease, TypeOK, Row
  <2>3. slots' \in [SlotNo -> SlotLease \cup {None}]
    BY <1>1, <2>1, <2>2, SlotTaking DEF Books
  <2>4. QED BY <1>1, <1>6, <2>3 DEF Books, AcquireSlot
<1>7. ASSUME NEW s \in Stations, ClaimWon(s) PROVE Books'
  <2>1. PICK r \in Runs, k \in Tokens :
          /\ active' = [active EXCEPT ![s] = active[s] + 1]
          /\ tracked' = [tracked EXCEPT ![s][r] = k]
    BY <1>7, ClaimSpawns
  <2>2. /\ active' \in [Stations -> Nat]
        /\ tracked' \in [Stations -> [Runs -> Tokens \cup {None}]]
    BY <1>1, <2>1 DEF Books
  <2>3. PICK q \in Runs :
          /\ ReadyToClaim(s, q)
          /\ slotOf' = IF SlotTaken(s) = None THEN slotOf
                       ELSE [slotOf EXCEPT ![s][q] = SlotTaken(s)]
    BY <1>7 DEF ClaimWon
  <2>4. SlotTaken(s) \in Held \cup {None} /\ slotOf \in [Stations -> [Runs -> Held \cup {None}]]
    BY <1>1, <2>3, SlotTaking DEF Books
  <2>5. slotOf' \in [Stations -> [Runs -> Held \cup {None}]]
    BY <2>3, <2>4
  <2>6. QED BY <1>1, <1>7, <2>2, <2>5 DEF Books, ClaimWon
<1>8. ASSUME NEW s \in Stations, ClaimLost(s) PROVE Books'
  <2>1. PICK r \in Runs : ReadyToClaim(s, r) /\ slots' = Released(s, r, SlotTaken(s))
    BY <1>8 DEF ClaimLost
  <2>2. SlotTaken(s) \in Held \cup {None}
    BY <2>1, SlotTaking
  <2>3. slots' \in [SlotNo -> SlotLease \cup {None}]
    BY <1>1, <2>1, <2>2, ReleasedSlots
  <2>4. QED BY <1>1, <1>8, <2>3 DEF Books, ClaimLost
<1>9. ASSUME NEW s \in Stations, TickStep(s) PROVE Books'
  <2>1. CASE \/ TickStart(s) \/ LeaseRenew(s) \/ TimeoutScan(s) \/ TimeoutSweepSkipped(s)
             \/ TimeoutRead(s) \/ TimeoutWrite(s) \/ ClaimGateClosed(s) \/ DueScan(s)
             \/ StationFull(s) \/ SkipDue(s) \/ FailUnfit(s) \/ SlotDenied(s)
    BY <1>2, <2>1 DEF TickStart, LeaseRenew, TimeoutScan, TimeoutSweepSkipped, TimeoutRead,
         TimeoutWrite, ClaimGateClosed, DueScan, StationFull, SkipDue, FailUnfit, SlotDenied
  <2>2. QED BY <1>5, <1>6, <1>7, <1>8, <1>9, <2>1 DEF TickStep
<1>10. ASSUME NEW r \in Runs, NEW k \in Tokens,
              \/ HandlerStep(r, k) \/ ErrorEvent(r, k) \/ Exit(r, k)
              \/ \E m \in Reports : Report(r, k, m)
       PROVE  Books'
  <2>1. CASE HandlerWrite(r, k) \/ Exit(r, k) \/ \E m \in Reports : Report(r, k, m)
    BY <1>2, <2>1 DEF HandlerWrite, Exit, Report
  <2>2. CASE MessageEvent(r, k) \/ ExitEvent(r, k) \/ GraceOver(r, k) \/ ErrorEvent(r, k)
    <3> DEFINE s == proc[r][k].at
    <3>1. s \in Stations
      BY <1>1, <2>2 DEF MessageEvent, ExitEvent, GraceOver, ErrorEvent, Listening, Books
    <3>2. /\ Uncount(s) \/ UNCHANGED active
          /\ Untrack(s, r, k) \/ UNCHANGED tracked
          /\ ReleaseSlot(s, r) \/ UNCHANGED <<slots, slotOf>>
          /\ UNCHANGED <<up, crashes>>
      BY <2>2 DEF MessageEvent, ExitEvent, GraceOver, ErrorEvent
    <3> HIDE DEF s
    <3>3. QED BY <1>1, <3>1, <3>2, HandlerBooks DEF Books
  <2>3. QED BY <1>10, <2>1, <2>2 DEF HandlerStep
<1>11. ASSUME NEW s \in Stations, Restart(s) PROVE Books'
  BY <1>1, <1>11 DEF Restart, Books
<1>12. ASSUME NEW s \in Stations, Crash(s) PROVE Books'
  <2>1. \A i \in SlotNo : slots[i] # None => [slots[i] EXCEPT !.no = 0] \in SlotLease
    BY <1>1 DEF Books, SlotLease
  <2>2. slots' \in [SlotNo -> SlotLease \cup {None}]
    BY <1>1, <1>12, <2>1 DEF Crash, Books
  <2>3. /\ tracked' \in [Stations -> [Runs -> Tokens \cup {None}]]
        /\ active' \in [Stations -> Nat]
        /\ slotOf' \in [Stations -> [Runs -> Held \cup {None}]]
        /\ up' \subseteq Stations
    BY <1>1, <1>12 DEF Crash, Books
  <2>4. crashes' \in 0..MaxCrashes
    BY <1>1, <1>12, RunnerAssumption DEF Crash, Books
  <2>5. QED BY <2>2, <2>3, <2>4 DEF Books
<1>13. CASE UNCHANGED vars
  BY <1>2, <1>13 DEF vars
<1>14. QED
  BY <1>3, <1>4, <1>9, <1>10, <1>11, <1>12, <1>13 DEF Next

-----------------------------------------------------------------------------
(* The inductive invariant of the fleet: rows, ticks, processes and the    *)
(* stations' bookkeeping are well formed and agree with one another.       *)
LEMMA InitFleetInv == Init => FleetInv
<1> SUFFICES ASSUME Init PROVE FleetInv
  OBVIOUS
<1>1. runs \in [Runs -> Row] /\ RowsCoherent /\ CompletedByLatestAttempt
  BY FreshRow, RunnerAssumption DEF Init, RowsCoherent, CompletedByLatestAttempt
<1>2. Ticks
  <2>1. tick \in [Stations -> TickState] /\ \A s \in Stations : TickFits(tick[s])
    BY TickPlaces DEF Init, TickFits
  <2>2. QED BY <2>1, TicksFit
<1>3. Procs
  BY ProcValues DEF Init, Procs, ProcsCoherent
<1>4. Books /\ credit \in [Runs -> Nat]
  BY RunnerAssumption DEF Init, Books
<1>5. QED
  BY <1>1, <1>2, <1>3, <1>4 DEF FleetInv, TypeOK, Ticks, Procs, Books

LEMMA NextFleetInv == FleetInv /\ [Next]_vars => FleetInv'
<1> SUFFICES ASSUME FleetInv, [Next]_vars PROVE FleetInv'
  OBVIOUS
<1>1. TypeOK /\ Ticks /\ RowsCoherent /\ Procs /\ ProcsCoherent /\ CompletedByLatestAttempt
  BY DEF FleetInv, TypeOK, Ticks, Procs
<1>2. /\ runs' \in [Runs -> Row] /\ credit' \in [Runs -> Nat]
      /\ RowsCoherent' /\ CompletedByLatestAttempt' /\ AttemptsGrow
  BY <1>1, StepRowsMove, StepRows DEF AttemptsGrow
<1>3. Ticks'
  BY <1>1, StepTicks
<1>4. Procs'
  BY <1>1, <1>2, StepProcs
<1>5. Books'
  BY <1>1, StepBooks
<1>6. QED
  BY <1>2, <1>3, <1>4, <1>5 DEF FleetInv, TypeOK, Ticks, Procs, Books

(* Whatever the stations, their children, timeouts, cancellations, lapsed  *)
(* leases and crashes do, and in whatever order: the state stays well      *)
(* formed, and what each station believes of a run fits the run's row.     *)
THEOREM FleetInvariant == Spec => []FleetInv
BY InitFleetInv, NextFleetInv, PTL DEF Spec

(* Rows, leases, tick positions and processes are well formed in every     *)
(* state of the fleet.                                                     *)
THEOREM TypeCorrect == Spec => []TypeOK
<1>1. FleetInv => TypeOK
  BY DEF FleetInv
<1>2. QED BY <1>1, FleetInvariant, PTL

(* A result completes a run only if the attempt that produced it is the    *)
(* run's latest, whatever happened while the result was on its way.        *)
THEOREM ResultOfLatestAttempt == Spec => []CompletedByLatestAttempt
<1>1. FleetInv => CompletedByLatestAttempt
  BY DEF FleetInv
<1>2. QED BY <1>1, FleetInvariant, PTL

-----------------------------------------------------------------------------
(* Strays.  A process is accounted for by a station's map when the map     *)
(* tracks it, or the reaper has it, or nobody listens to it.               *)
Accounted(r, k, p, map, U) == p.os = "up" /\ p.at \in U /\ map[p.at][r] # k => p.reap

LEMMA StrayFree ==
  NoStrayProcess <=> \A r \in Runs, k \in Tokens : Accounted(r, k, proc[r][k], tracked, up)
  BY DEF NoStrayProcess, Accounted

LEMMA ReapKeeps ==
  ASSUME NEW r, NEW k, NEW p \in Proc, NEW map, NEW U, Accounted(r, k, p, map, U)
  PROVE  Accounted(r, k, EnsureExit(p), map, U)
<1>1. EnsureExit(p).at = p.at /\ EnsureExit(p).os = p.os /\ (p.os = "up" => EnsureExit(p).reap)
  BY EnsureExitProc
<1>2. QED BY <1>1 DEF Accounted

(* Forgetting the child k of r at station s leaves the others accounted.   *)
LEMMA UntrackKeeps ==
  ASSUME TypeOK, NEW s \in Stations, NEW r \in Runs, NEW k \in Tokens, Untrack(s, r, k),
         NEW q \in Runs, NEW j \in Tokens, ~(q = r /\ j = k), proc[q][j].at \in up,
         Accounted(q, j, proc[q][j], tracked, up)
  PROVE  Accounted(q, j, proc[q][j], tracked', up)
<1> DEFINE at == proc[q][j].at
<1>1. tracked \in [Stations -> [Runs -> Tokens \cup {None}]] /\ at \in Stations
  BY DEF TypeOK
<1> HIDE DEF at
<1>2. tracked'[at][q] = tracked[at][q] \/ (at = s /\ q = r /\ tracked[at][q] = k)
  BY <1>1 DEF Untrack
<1>3. tracked'[at][q] # j => tracked[at][q] # j
  BY <1>2
<1>4. QED BY <1>3 DEF Accounted, at

LEMMA StepStray ==
  ASSUME TypeOK, Ticks, RowsCoherent, Procs, NoStrayProcess, [Next]_vars
  PROVE  NoStrayProcess'
<1> USE DEF station, history
<1>0. \A r \in Runs, k \in Tokens : proc[r][k] \in Proc /\ Accounted(r, k, proc[r][k], tracked, up)
  BY StrayFree DEF TypeOK
<1>1. ASSUME UNCHANGED <<proc, tracked, up>> PROVE NoStrayProcess'
  BY <1>1 DEF NoStrayProcess
<1>2. ASSUME NEW s \in Stations, NEW r \in Runs, proc' = ReapTracked(s, r), UNCHANGED <<tracked, up>>
      PROVE  NoStrayProcess'
  <2>1. \A q \in Runs, j \in Tokens : proc'[q][j] \in {proc[q][j], EnsureExit(proc[q][j])}
    BY <1>2, Reaped
  <2>2. \A q \in Runs, j \in Tokens : Accounted(q, j, proc'[q][j], tracked, up)
    BY <1>0, <2>1, ReapKeeps
  <2>3. QED BY <1>2, <2>2 DEF NoStrayProcess, Accounted
<1>3. ASSUME NEW s \in Stations, LeaseRenew(s) \/ SlotRenew(s) \/ TimeoutRead(s) PROVE NoStrayProcess'
  <2>1. tick[s].todo \subseteq Runs /\ (tick[s].pc = "slotRenewing" => tick[s].run \in Runs)
    BY TicksFit DEF Ticks, TickState, TickFits
  <2>2. UNCHANGED proc \/ \E r \in Runs : proc' = ReapTracked(s, r)
    BY <1>3, <2>1 DEF LeaseRenew, SlotRenew, TimeoutRead, At
  <2>3. UNCHANGED <<tracked, up>>
    BY <1>3 DEF LeaseRenew, SlotRenew, TimeoutRead
  <2>4. QED BY <1>1, <1>2, <2>2, <2>3
<1>4. ASSUME NEW s \in Stations, ClaimWon(s) PROVE NoStrayProcess'
  <2>1. PICK r \in Runs, k \in Tokens :
          /\ tracked' = [tracked EXCEPT ![s][r] = k]
          /\ \A q \in Runs, j \in Tokens :
               proc'[q][j] = IF q = r /\ j = k THEN Spawned(s)
                             ELSE IF q = r /\ j = tracked[s][r] THEN EnsureExit(proc[q][j])
                             ELSE proc[q][j]
    BY <1>4, ClaimSpawns
  <2>2. up' = up /\ up \subseteq Stations
    BY <1>4 DEF ClaimWon, TypeOK
  <2>3. \A t \in Stations, q \in Runs :
          tracked'[t][q] = IF t = s /\ q = r THEN k ELSE tracked[t][q]
    BY <2>1 DEF TypeOK
  <2>4. ASSUME NEW q \in Runs, NEW j \in Tokens
        PROVE  Accounted(q, j, proc'[q][j], tracked', up')
    <3> DEFINE p == proc[q][j]
    <3>1. /\ p \in Proc /\ Accounted(q, j, p, tracked, up)
          /\ EnsureExit(p).at = p.at /\ EnsureExit(p).os = p.os
          /\ p.os = "up" \/ p.reap => EnsureExit(p).reap
      BY <1>0, EnsureExitProc
    <3>2. CASE q = r /\ j = k
      BY <2>1, <2>3, <3>2, ProcValues DEF Accounted
    <3>3. CASE ~(q = r /\ j = k) /\ q = r /\ j = tracked[s][r]
      <4>1. proc'[q][j] = EnsureExit(p)
        BY <2>1, <3>3
      <4> HIDE DEF p
      <4>2. QED BY <3>1, <4>1 DEF Accounted
    <3>4. CASE ~(q = r /\ j = k) /\ ~(q = r /\ j = tracked[s][r])
      <4>1. proc'[q][j] = p
        BY <2>1, <3>4
      <4> HIDE DEF p
      <4>2. p.at \in up /\ tracked'[p.at][q] # j => tracked[p.at][q] # j
        BY <2>2, <2>3, <3>4
      <4>3. QED BY <2>2, <3>1, <4>1, <4>2 DEF Accounted
    <3>5. QED BY <3>2, <3>3, <3>4
  <2>5. QED BY <2>4 DEF NoStrayProcess, Accounted
<1>5. ASSUME NEW s \in Stations, TickStep(s) PROVE NoStrayProcess'
  <2>1. CASE \/ TickStart(s) \/ TimeoutScan(s) \/ TimeoutSweepSkipped(s) \/ TimeoutWrite(s)
             \/ ClaimGateClosed(s) \/ DueScan(s) \/ StationFull(s) \/ SkipDue(s) \/ FailUnfit(s)
             \/ AcquireSlot(s) \/ SlotDenied(s) \/ ClaimLost(s)
    BY <1>1, <2>1 DEF TickStart, TimeoutScan, TimeoutSweepSkipped, TimeoutWrite, ClaimGateClosed,
         DueScan, StationFull, SkipDue, FailUnfit, AcquireSlot, SlotDenied, ClaimLost
  <2>2. QED BY <1>3, <1>4, <1>5, <2>1 DEF TickStep
<1>6. ASSUME NEW r \in Runs, NEW k \in Tokens,
             \/ HandlerStep(r, k) \/ ErrorEvent(r, k) \/ Exit(r, k)
             \/ \E m \in Reports : Report(r, k, m)
      PROVE  NoStrayProcess'
  <2> DEFINE old == proc[r][k]
  <2>1. PICK p \in Proc : proc' = [proc EXCEPT ![r][k] = p]
    BY <1>6, ChildStep
  <2>2. \A q \in Runs, j \in Tokens : proc'[q][j] = IF q = r /\ j = k THEN p ELSE proc[q][j]
    BY <2>1 DEF TypeOK
  <2>3. up' = up
    BY <1>6 DEF HandlerStep, MessageEvent, ExitEvent, GraceOver, HandlerWrite, ErrorEvent, Exit, Report
  <2>4. UNCHANGED tracked \/ (old.at \in up /\ Untrack(old.at, r, k))
    BY <1>6 DEF HandlerStep, MessageEvent, ExitEvent, GraceOver, HandlerWrite, ErrorEvent, Exit,
                Report, Listening
  <2>5. old \in Proc /\ Accounted(r, k, old, tracked, up) /\ up \subseteq Stations
    BY <1>0 DEF TypeOK
  <2>6. ASSUME NEW new \in Proc, proc' = [proc EXCEPT ![r][k] = Tidy(new)]
        PROVE  p = new \/ p.os = "gone"
    <3>1. p = Tidy(new)
      BY <2>1, <2>6 DEF TypeOK
    <3>2. QED BY <3>1, TidyProc, ProcValues
  <2>7. Accounted(r, k, p, tracked', up)
    <3>1. CASE Exit(r, k) \/ \E m \in Reports : Report(r, k, m)
      <4>1. p.os = "down" \/ (p.os = old.os /\ p.at = old.at /\ p.reap = old.reap)
        BY <2>2, <2>5, <3>1 DEF Exit, Report, TypeOK, Proc
      <4>2. UNCHANGED tracked
        BY <3>1 DEF Exit, Report
      <4>3. QED BY <2>5, <4>1, <4>2 DEF Accounted
    <3>2. CASE ErrorEvent(r, k) \/ ExitEvent(r, k)
      <4>1. PICK h \in Patches \cup {"idle", "grace", "done"} :
              proc' = [proc EXCEPT ![r][k] = Tidy([old EXCEPT !.os = "gone", !.h = h])]
        BY <2>5, <3>2 DEF ErrorEvent, ExitEvent, Proc
      <4>2. [old EXCEPT !.os = "gone", !.h = h] \in Proc
        BY <2>5 DEF Proc
      <4>3. [old EXCEPT !.os = "gone", !.h = h].os = "gone"
        BY <2>5 DEF Proc
      <4> HIDE DEF old
      <4>4. p.os = "gone"
        BY <2>6, <4>1, <4>2, <4>3
      <4>5. QED BY <4>4 DEF Accounted
    <3>3. CASE MessageEvent(r, k)
      <4> DEFINE patch == CASE runs[r].status \in {"cancelled", "failed"} -> "done"
                            [] old.msg = "completed" -> "completed"
                            [] old.msg = "failed" /\ runs[r].attempts < MaxAttempts[r] -> "pending"
                            [] OTHER -> "failed"
                 new == [EnsureExit(old) EXCEPT !.h = patch, !.msg = "none"]
      <4>1. patch \in Patches \cup {"done"} /\ proc' = [proc EXCEPT ![r][k] = Tidy(new)]
        BY <3>3 DEF Patches, MessageEvent
      <4> HIDE DEF patch
      <4>2. /\ EnsureExit(old) \in Proc /\ EnsureExit(old).os = old.os
            /\ old.os = "up" => EnsureExit(old).reap
        BY <2>5, EnsureExitProc
      <4>3. new \in Proc /\ new.os = old.os /\ (old.os = "up" => new.reap)
        BY ZenonT(60), <4>1, <4>2 DEF Proc
      <4> HIDE DEF new, old
      <4>4. p = new \/ p.os = "gone"
        BY <2>6, <4>1, <4>3
      <4>5. QED BY <4>3, <4>4 DEF Accounted
    <3>4. CASE GraceOver(r, k) \/ HandlerWrite(r, k)
      <4>1. PICK h \in Patches \cup {"done"} : proc' = [proc EXCEPT ![r][k] = Tidy([old EXCEPT !.h = h])]
        BY <3>4 DEF GraceOver, HandlerWrite, Patches
      <4>2. LET new == [old EXCEPT !.h = h]
            IN  new \in Proc /\ new.os = old.os /\ new.at = old.at /\ new.reap = old.reap
        BY <2>5 DEF Proc
      <4>3. UNCHANGED tracked
        BY <3>4 DEF GraceOver, HandlerWrite
      <4> DEFINE new == [old EXCEPT !.h = h]
      <4>4. p = new \/ p.os = "gone"
        BY <2>6, <4>1, <4>2
      <4> HIDE DEF new
      <4>5. new.os = old.os /\ new.at = old.at /\ new.reap = old.reap
        BY <4>2 DEF new
      <4>6. QED BY <2>5, <4>3, <4>4, <4>5 DEF Accounted
    <3>5. QED BY <1>6, <3>1, <3>2, <3>3, <3>4 DEF HandlerStep
  <2> HIDE DEF old
  <2>8. ASSUME NEW q \in Runs, NEW j \in Tokens, ~(q = r /\ j = k)
        PROVE  Accounted(q, j, proc[q][j], tracked', up)
    <3>1. CASE proc[q][j].at \in up
      BY <1>0, <2>4, <2>5, <2>8, <3>1, UntrackKeeps
    <3>2. CASE proc[q][j].at \notin up
      BY <3>2 DEF Accounted
    <3>3. QED BY <3>1, <3>2
  <2>9. QED BY <2>2, <2>3, <2>7, <2>8 DEF NoStrayProcess, Accounted
<1>7. ASSUME NEW s \in Stations, Restart(s) PROVE NoStrayProcess'
  <2>1. ASSUME NEW r \in Runs, NEW k \in Tokens
        PROVE  proc[r][k].at \in up' => proc[r][k].at \in up
    <3>1. s # None
      BY NoneAssumption
    <3>2. proc[r][k].at # None => proc[r][k].at \in up
      BY DEF Procs, ProcsCoherent
    <3>3. QED BY <1>7, <3>1, <3>2 DEF Restart
  <2>2. UNCHANGED <<proc, tracked>>
    BY <1>7 DEF Restart
  <2>3. QED BY <1>0, <2>1, <2>2 DEF NoStrayProcess, Accounted
<1>8. ASSUME NEW s \in Stations, Crash(s) PROVE NoStrayProcess'
  <2>1. \A r \in Runs, k \in Tokens :
          proc'[r][k] = IF proc[r][k].at = s THEN GoneProc ELSE proc[r][k]
    BY <1>8, CrashedProcs
  <2>2. up' = up \ {s} /\ up \subseteq Stations
    BY <1>8 DEF Crash, TypeOK
  <2>3. \A t \in Stations : t # s => tracked'[t] = tracked[t]
    BY <1>8 DEF Crash, TypeOK
  <2>4. ASSUME NEW r \in Runs, NEW k \in Tokens
        PROVE  Accounted(r, k, proc'[r][k], tracked', up')
    <3>1. CASE proc[r][k].at = s
      BY <2>1, <3>1, ProcValues DEF Accounted
    <3>2. CASE proc[r][k].at # s
      <4>1. proc'[r][k] = proc[r][k]
        BY <2>1, <3>2
      <4>2. QED BY <1>0, <2>2, <2>3, <3>2, <4>1 DEF Accounted
    <3>3. QED BY <3>1, <3>2
  <2>5. QED BY <2>4 DEF NoStrayProcess, Accounted
<1>9. ASSUME NEW r \in Runs, NEW s \in Stations, Cancel(s, r) PROVE NoStrayProcess'
  BY <1>2, <1>9 DEF Cancel
<1>10. ASSUME NEW r \in Runs, Trigger(r) \/ Overdue(r) \/ LeaseLapses(r) PROVE NoStrayProcess'
  BY <1>1, <1>10 DEF Trigger, Overdue, LeaseLapses
<1>11. ASSUME NEW i \in SlotNo, SlotLapses(i) PROVE NoStrayProcess'
  BY <1>1, <1>11 DEF SlotLapses
<1>12. CASE UNCHANGED vars
  BY <1>1, <1>12 DEF vars
<1>13. QED
  BY <1>5, <1>6, <1>7, <1>8, <1>9, <1>10, <1>11, <1>12 DEF Next

(* A child of a live station that no longer is the tracked child of its    *)
(* run is always in the reaper's hands: no order of retries, timeouts,     *)
(* cancellations, results, exits and claims leaves one running unnoticed.  *)
THEOREM NoStray == Spec => []NoStrayProcess
<1>1. Init => NoStrayProcess
  BY ProcValues DEF Init, NoStrayProcess
<1>2. FleetInv /\ NoStrayProcess /\ [Next]_vars => NoStrayProcess'
  BY StepStray DEF FleetInv, TypeOK, Ticks, Procs
<1>3. QED BY <1>1, <1>2, FleetInvariant, PTL DEF Spec

-----------------------------------------------------------------------------
(* The active count.  It is exact at every station, up or down.            *)
Counted(p, s) == p.at = s /\ p.h \in {"idle", "grace"}
CountsExact ==
  \A s \in Stations : IsFiniteSet(Unresolved(s)) /\ active[s] = Cardinality(Unresolved(s))

LEMMA UnresolvedCounted ==
  /\ \A s : Unresolved(s) = {c \in Runs \X Tokens : Counted(proc[c[1]][c[2]], s)}
  /\ \A s : Unresolved(s)' = {c \in Runs \X Tokens : Counted(proc'[c[1]][c[2]], s)}
  BY DEF Unresolved, Counted

LEMMA OtherCounts ==
  ASSUME NEW r \in Runs, NEW k \in Tokens,
         \A q \in Runs, j \in Tokens, s \in Stations :
           ~(q = r /\ j = k) => (Counted(proc'[q][j], s) <=> Counted(proc[q][j], s)),
         NEW s \in Stations
  PROVE  /\ <<r, k>> \in Runs \X Tokens
         /\ <<r, k>> \in Unresolved(s) <=> Counted(proc[r][k], s)
         /\ <<r, k>> \in Unresolved(s)' <=> Counted(proc'[r][k], s)
         /\ \A c : c # <<r, k>> => (c \in Unresolved(s)' <=> c \in Unresolved(s))
<1>1. ASSUME NEW c, c # <<r, k>> PROVE c \in Unresolved(s)' <=> c \in Unresolved(s)
  <2>1. CASE c \in Runs \X Tokens
    <3>1. PICK q \in Runs, j \in Tokens : c = <<q, j>>
      BY <2>1
    <3>2. ~(q = r /\ j = k) /\ c[1] = q /\ c[2] = j
      BY <1>1, <3>1
    <3>3. QED BY <2>1, <3>2, UnresolvedCounted
  <2>2. CASE c \notin Runs \X Tokens
    BY <2>2, UnresolvedCounted
  <2>3. QED BY <2>1, <2>2
<1>2. <<r, k>> \in Runs \X Tokens /\ <<r, k>>[1] = r /\ <<r, k>>[2] = k
  OBVIOUS
<1>3. /\ <<r, k>> \in Unresolved(s) <=> Counted(proc[r][k], s)
      /\ <<r, k>> \in Unresolved(s)' <=> Counted(proc'[r][k], s)
  BY <1>2, UnresolvedCounted
<1>4. QED BY <1>1, <1>2, <1>3

LEMMA SameCounts ==
  ASSUME CountsExact, UNCHANGED active,
         \A q \in Runs, j \in Tokens, s \in Stations :
           Counted(proc'[q][j], s) <=> Counted(proc[q][j], s)
  PROVE  CountsExact'
<1>1. ASSUME NEW s \in Stations PROVE Unresolved(s)' = Unresolved(s)
  <2>1. \A c \in Runs \X Tokens : Counted(proc'[c[1]][c[2]], s) <=> Counted(proc[c[1]][c[2]], s)
    OBVIOUS
  <2>2. QED BY <2>1, UnresolvedCounted
<1>2. QED BY <1>1 DEF CountsExact

LEMMA Counts ==
  ASSUME NEW t \in Stations, CountsExact, active \in [Stations -> Nat],
         NEW c \in Runs \X Tokens,
         \A s \in Stations : s # t => Unresolved(s)' = Unresolved(s),
         \/ /\ c \notin Unresolved(t) /\ Unresolved(t)' = Unresolved(t) \cup {c}
            /\ active' = [active EXCEPT ![t] = active[t] + 1]
         \/ c \in Unresolved(t) /\ Unresolved(t)' = Unresolved(t) \ {c} /\ Uncount(t)
  PROVE  CountsExact'
<1>1. IsFiniteSet(Unresolved(t)) /\ active[t] = Cardinality(Unresolved(t)) /\ active[t] \in Nat
  BY DEF CountsExact
<1>2. \A s \in Stations : s # t => active'[s] = active[s]
  BY DEF Uncount
<1>3. IsFiniteSet(Unresolved(t)') /\ active'[t] = Cardinality(Unresolved(t)')
  <2>1. CASE /\ c \notin Unresolved(t) /\ Unresolved(t)' = Unresolved(t) \cup {c}
             /\ active' = [active EXCEPT ![t] = active[t] + 1]
    <3>1. /\ IsFiniteSet(Unresolved(t) \cup {c})
          /\ Cardinality(Unresolved(t) \cup {c}) = Cardinality(Unresolved(t)) + 1
      BY <1>1, <2>1, FS_AddElement
    <3>2. QED BY <1>1, <2>1, <3>1
  <2>2. CASE c \in Unresolved(t) /\ Unresolved(t)' = Unresolved(t) \ {c} /\ Uncount(t)
    <3>1. /\ IsFiniteSet(Unresolved(t) \ {c})
          /\ Cardinality(Unresolved(t) \ {c}) = Cardinality(Unresolved(t)) - 1
      BY <1>1, <2>2, FS_RemoveElement
    <3>2. Cardinality(Unresolved(t) \ {c}) \in Nat
      BY <3>1, FS_CardinalityType
    <3>3. active[t] > 0 /\ active'[t] = active[t] - 1
      BY <1>1, <2>2, <3>1, <3>2 DEF Uncount
    <3>4. QED BY <1>1, <2>2, <3>1, <3>3
  <2>3. QED BY <2>1, <2>2
<1>4. \A s \in Stations : IsFiniteSet(Unresolved(s)') /\ active'[s] = Cardinality(Unresolved(s)')
  BY <1>2, <1>3 DEF CountsExact
<1>5. QED BY <1>4 DEF CountsExact

(* What the events of a child do to its being counted. *)
LEMMA ChildCounts ==
  ASSUME TypeOK, Procs, NEW r \in Runs, NEW k \in Tokens,
         \/ HandlerStep(r, k) \/ ErrorEvent(r, k) \/ Exit(r, k)
         \/ \E m \in Reports : Report(r, k, m)
  PROVE  LET old == proc[r][k]
             new == proc'[r][k]
         IN  \/ /\ UNCHANGED active
                /\ \A s \in Stations : Counted(new, s) <=> Counted(old, s)
             \/ /\ old.at \in Stations /\ Counted(old, old.at) /\ Uncount(old.at)
                /\ \A s \in Stations : ~Counted(new, s)
<1> DEFINE old == proc[r][k]
          new == proc'[r][k]
          Same == UNCHANGED active /\ \A s \in Stations : Counted(new, s) <=> Counted(old, s)
          Resolved == /\ old.at \in Stations /\ Counted(old, old.at) /\ Uncount(old.at)
                      /\ \A s \in Stations : ~Counted(new, s)
<1> SUFFICES Same \/ Resolved
  OBVIOUS
<1> USE DEF station, Counted
<1>1. old \in Proc /\ (old.msg # "none" => old.h \in {"idle", "grace"}) /\ up \subseteq Stations
  BY DEF Procs, ProcsCoherent, TypeOK
<1>2. \A s \in Stations : ~Counted(GoneProc, s)
  BY ProcValues
<1>3. ASSUME NEW p \in Proc, proc' = [proc EXCEPT ![r][k] = p] PROVE new = p
  BY <1>3 DEF TypeOK
<1>4. ASSUME NEW p \in Proc, proc' = [proc EXCEPT ![r][k] = Tidy(p)]
      PROVE  /\ new = p \/ (new = GoneProc /\ p.h = "done")
             /\ p.h \notin {"idle", "grace"} => \A s \in Stations : ~Counted(new, s)
  <2>1. new = Tidy(p)
    BY <1>4 DEF TypeOK
  <2> HIDE DEF new
  <2>2. QED BY <1>2, <2>1, TidyProc
<1>5. CASE Exit(r, k) \/ \E m \in Reports : Report(r, k, m)
  <2>1. UNCHANGED active
    BY <1>5 DEF Exit, Report
  <2>2. new.at = old.at /\ new.h = old.h
    <3>1. CASE Exit(r, k)
      BY <1>1, <3>1 DEF Exit, TypeOK, Proc
    <3>2. ASSUME NEW m \in Reports, Report(r, k, m) PROVE new.at = old.at /\ new.h = old.h
      BY <1>1, <3>2 DEF Report, TypeOK, Proc
    <3>3. QED BY <1>5, <3>1, <3>2
  <2> HIDE DEF old, new
  <2>3. QED BY <2>1, <2>2
<1>6. CASE ErrorEvent(r, k)
  <2> DEFINE p == [old EXCEPT !.os = "gone", !.h = "done"]
  <2>1. p \in Proc /\ p.h = "done"
    BY <1>1 DEF Proc
  <2>2. proc' = [proc EXCEPT ![r][k] = Tidy(p)]
    BY <1>6 DEF ErrorEvent
  <2> HIDE DEF p
  <2>3. \A s \in Stations : ~Counted(new, s)
    BY <1>4, <2>1, <2>2
  <2>4. old.at \in Stations /\ old.h = "idle" /\ Uncount(old.at)
    BY <1>1, <1>6 DEF ErrorEvent, Listening
  <2> HIDE DEF old, new
  <2>5. QED BY <2>3, <2>4
<1>7. CASE MessageEvent(r, k)
  <2> DEFINE patch == CASE runs[r].status \in {"cancelled", "failed"} -> "done"
                        [] old.msg = "completed" -> "completed"
                        [] old.msg = "failed" /\ runs[r].attempts < MaxAttempts[r] -> "pending"
                        [] OTHER -> "failed"
             p == [EnsureExit(old) EXCEPT !.h = patch, !.msg = "none"]
  <2>1. patch \in Patches \cup {"done"} /\ proc' = [proc EXCEPT ![r][k] = Tidy(p)]
    BY <1>7 DEF Patches, MessageEvent
  <2> HIDE DEF patch
  <2>2. EnsureExit(old) \in Proc
    BY <1>1, EnsureExitProc
  <2>3. p \in Proc /\ p.h \notin {"idle", "grace"}
    BY <2>1, <2>2 DEF Proc, Patches
  <2> HIDE DEF p
  <2>4. \A s \in Stations : ~Counted(new, s)
    BY <1>4, <2>1, <2>3
  <2>5. old.at \in Stations /\ old.h \in {"idle", "grace"} /\ Uncount(old.at)
    BY <1>1, <1>7 DEF MessageEvent, Listening
  <2> HIDE DEF old, new
  <2>6. QED BY <2>4, <2>5
<1>8. CASE ExitEvent(r, k)
  <2> DEFINE h == IF old.h = "idle" THEN "grace" ELSE old.h
             p == [old EXCEPT !.os = "gone", !.h = h]
  <2>1. p \in Proc /\ p.h = h /\ p.at = old.at
    BY <1>1 DEF Proc
  <2>2. proc' = [proc EXCEPT ![r][k] = Tidy(p)] /\ UNCHANGED active
    BY <1>8 DEF ExitEvent
  <2> HIDE DEF p
  <2>3. new = p \/ (new = GoneProc /\ p.h = "done")
    BY <1>4, <2>1, <2>2
  <2> HIDE DEF old, new
  <2>4. QED BY <1>2, <2>1, <2>2, <2>3
<1>9. CASE GraceOver(r, k)
  <2>1. PICK h \in Patches \cup {"done"} : proc' = [proc EXCEPT ![r][k] = Tidy([old EXCEPT !.h = h])]
    BY <1>9 DEF GraceOver, Patches
  <2> DEFINE p == [old EXCEPT !.h = h]
  <2>2. p \in Proc /\ p.h \notin {"idle", "grace"}
    BY <1>1 DEF Proc, Patches
  <2>3. proc' = [proc EXCEPT ![r][k] = Tidy(p)]
    BY <2>1
  <2> HIDE DEF p
  <2>4. \A s \in Stations : ~Counted(new, s)
    BY <1>4, <2>2, <2>3
  <2>5. old.at \in Stations /\ old.h = "grace" /\ Uncount(old.at)
    BY <1>1, <1>9 DEF GraceOver, Listening
  <2> HIDE DEF old, new
  <2>6. QED BY <2>4, <2>5
<1>10. CASE HandlerWrite(r, k)
  <2> DEFINE p == [old EXCEPT !.h = "done"]
  <2>1. p \in Proc /\ p.h = "done" /\ old.h \notin {"idle", "grace"}
    BY <1>1, <1>10 DEF Proc, HandlerWrite, Patches
  <2>2. proc' = [proc EXCEPT ![r][k] = Tidy(p)] /\ UNCHANGED active
    BY <1>10 DEF HandlerWrite
  <2> HIDE DEF p
  <2>3. \A s \in Stations : ~Counted(new, s)
    BY <1>4, <2>1, <2>2
  <2> HIDE DEF old, new
  <2>4. QED BY <2>1, <2>2, <2>3
<1>11. QED
  BY <1>5, <1>6, <1>7, <1>8, <1>9, <1>10 DEF HandlerStep

LEMMA StepCounts ==
  ASSUME TypeOK, Ticks, RowsCoherent, Procs, CountsExact, [Next]_vars
  PROVE  CountsExact'
<1> USE DEF station, history
<1>0. active \in [Stations -> Nat] /\ proc \in [Runs -> [Tokens -> Proc]]
  BY DEF TypeOK
<1>1. ASSUME UNCHANGED <<proc, active>> PROVE CountsExact'
  BY <1>1, SameCounts
<1>2. ASSUME NEW s \in Stations, NEW r \in Runs, proc' = ReapTracked(s, r), UNCHANGED active
      PROVE  CountsExact'
  <2>1. \A q \in Runs, j \in Tokens : proc'[q][j] \in {proc[q][j], EnsureExit(proc[q][j])}
    BY <1>2, Reaped
  <2>2. \A q \in Runs, j \in Tokens : /\ EnsureExit(proc[q][j]).at = proc[q][j].at
                                      /\ EnsureExit(proc[q][j]).h = proc[q][j].h
    BY <1>0, EnsureExitProc
  <2>3. \A q \in Runs, j \in Tokens, t \in Stations :
          Counted(proc'[q][j], t) <=> Counted(proc[q][j], t)
    BY <2>1, <2>2 DEF Counted
  <2>4. QED BY <1>2, <2>3, SameCounts
<1>3. ASSUME NEW s \in Stations, LeaseRenew(s) \/ SlotRenew(s) \/ TimeoutRead(s) PROVE CountsExact'
  <2>1. tick[s].todo \subseteq Runs /\ (tick[s].pc = "slotRenewing" => tick[s].run \in Runs)
    BY TicksFit DEF Ticks, TickState, TickFits
  <2>2. UNCHANGED proc \/ \E r \in Runs : proc' = ReapTracked(s, r)
    BY <1>3, <2>1 DEF LeaseRenew, SlotRenew, TimeoutRead, At
  <2>3. UNCHANGED active
    BY <1>3 DEF LeaseRenew, SlotRenew, TimeoutRead
  <2>4. QED BY <1>1, <1>2, <2>2, <2>3
<1>4. ASSUME NEW s \in Stations, ClaimWon(s) PROVE CountsExact'
  <2>1. PICK r \in Runs, k \in Tokens :
          /\ k = runs[r].attempts + 1
          /\ active' = [active EXCEPT ![s] = active[s] + 1]
          /\ \A q \in Runs, j \in Tokens :
               proc'[q][j] = IF q = r /\ j = k THEN Spawned(s)
                             ELSE IF q = r /\ j = tracked[s][r] THEN EnsureExit(proc[q][j])
                             ELSE proc[q][j]
    BY <1>4, ClaimSpawns
  <2>2. proc[r][k].at = None
    <3>1. runs[r].attempts \in Nat
      BY DEF TypeOK, Row
    <3>2. k \notin 1..runs[r].attempts
      BY <2>1, <3>1
    <3>3. QED BY <3>2 DEF Procs, ProcsCoherent
  <2>3. \A t \in Stations : ~Counted(proc[r][k], t) /\ (Counted(proc'[r][k], t) <=> t = s)
    BY <2>1, <2>2, NoneAssumption, ProcValues DEF Counted
  <2>4. \A q \in Runs, j \in Tokens : /\ EnsureExit(proc[q][j]).at = proc[q][j].at
                                      /\ EnsureExit(proc[q][j]).h = proc[q][j].h
    BY <1>0, EnsureExitProc
  <2>5. \A q \in Runs, j \in Tokens, t \in Stations : ~(q = r /\ j = k) =>
          (Counted(proc'[q][j], t) <=> Counted(proc[q][j], t))
    BY <2>1, <2>4 DEF Counted
  <2>6. /\ \A t \in Stations : t # s => Unresolved(t)' = Unresolved(t)
        /\ <<r, k>> \in Runs \X Tokens
        /\ <<r, k>> \notin Unresolved(s) /\ Unresolved(s)' = Unresolved(s) \cup {<<r, k>>}
    <3>1. \A t \in Stations :
            /\ <<r, k>> \in Unresolved(t) <=> Counted(proc[r][k], t)
            /\ <<r, k>> \in Unresolved(t)' <=> Counted(proc'[r][k], t)
            /\ \A c : c # <<r, k>> => (c \in Unresolved(t)' <=> c \in Unresolved(t))
      BY <2>5, OtherCounts
    <3>2. \A t \in Stations : \A c :
            c \in Unresolved(t)' <=> c \in Unresolved(t) \/ (t = s /\ c = <<r, k>>)
      BY <2>3, <3>1
    <3>3. <<r, k>> \notin Unresolved(s) /\ <<r, k>> \in Runs \X Tokens
      BY <2>3, <3>1
    <3>4. QED BY <3>2, <3>3
  <2>7. QED BY <1>0, <2>1, <2>6, Counts
<1>5. ASSUME NEW s \in Stations, TickStep(s) PROVE CountsExact'
  <2>1. CASE \/ TickStart(s) \/ TimeoutScan(s) \/ TimeoutSweepSkipped(s) \/ TimeoutWrite(s)
             \/ ClaimGateClosed(s) \/ DueScan(s) \/ StationFull(s) \/ SkipDue(s) \/ FailUnfit(s)
             \/ AcquireSlot(s) \/ SlotDenied(s) \/ ClaimLost(s)
    BY <1>1, <2>1 DEF TickStart, TimeoutScan, TimeoutSweepSkipped, TimeoutWrite, ClaimGateClosed,
         DueScan, StationFull, SkipDue, FailUnfit, AcquireSlot, SlotDenied, ClaimLost
  <2>2. QED BY <1>3, <1>4, <1>5, <2>1 DEF TickStep
<1>6. ASSUME NEW r \in Runs, NEW k \in Tokens,
             \/ HandlerStep(r, k) \/ ErrorEvent(r, k) \/ Exit(r, k)
             \/ \E m \in Reports : Report(r, k, m)
      PROVE  CountsExact'
  <2>1. PICK p \in Proc : proc' = [proc EXCEPT ![r][k] = p]
    BY <1>6, ChildStep
  <2>2. \A q \in Runs, j \in Tokens : proc'[q][j] = IF q = r /\ j = k THEN p ELSE proc[q][j]
    BY <1>0, <2>1
  <2>3. CASE /\ UNCHANGED active
             /\ \A s \in Stations : Counted(proc'[r][k], s) <=> Counted(proc[r][k], s)
    <3>1. \A q \in Runs, j \in Tokens, s \in Stations :
            Counted(proc'[q][j], s) <=> Counted(proc[q][j], s)
      BY <2>2, <2>3
    <3>2. QED BY <2>3, <3>1, SameCounts
  <2>4. CASE /\ proc[r][k].at \in Stations /\ Counted(proc[r][k], proc[r][k].at)
             /\ Uncount(proc[r][k].at) /\ \A s \in Stations : ~Counted(proc'[r][k], s)
    <3>0. PICK t \in Stations : t = proc[r][k].at
      BY <2>4
    <3>1. \A s \in Stations : Counted(proc[r][k], s) <=> s = t
      BY <2>4, <3>0 DEF Counted
    <3>2. \A q \in Runs, j \in Tokens : ~(q = r /\ j = k) => proc'[q][j] = proc[q][j]
      BY <2>2
    <3>3. Uncount(t) /\ \A s \in Stations : ~Counted(proc'[r][k], s)
      BY <2>4, <3>0
    <3>4. /\ \A s \in Stations : s # t => Unresolved(s)' = Unresolved(s)
          /\ <<r, k>> \in Runs \X Tokens
          /\ <<r, k>> \in Unresolved(t) /\ Unresolved(t)' = Unresolved(t) \ {<<r, k>>}
      <4>1. \A s \in Stations :
              /\ <<r, k>> \in Unresolved(s) <=> Counted(proc[r][k], s)
              /\ <<r, k>> \in Unresolved(s)' <=> Counted(proc'[r][k], s)
              /\ \A c : c # <<r, k>> => (c \in Unresolved(s)' <=> c \in Unresolved(s))
        BY <3>2, OtherCounts
      <4>2. \A s \in Stations : \A c :
              c \in Unresolved(s)' <=> c \in Unresolved(s) /\ ~(s = t /\ c = <<r, k>>)
        BY <3>1, <3>3, <4>1
      <4>3. <<r, k>> \in Unresolved(t) /\ <<r, k>> \in Runs \X Tokens
        BY <3>1, <3>3, <4>1
      <4>4. QED BY <3>3, <4>2, <4>3
    <3>5. QED BY <1>0, <3>3, <3>4, Counts
  <2>5. QED BY <1>6, <2>3, <2>4, ChildCounts
<1>7. ASSUME NEW s \in Stations, Crash(s) PROVE CountsExact'
  <2>1. \A r \in Runs, k \in Tokens :
          proc'[r][k] = IF proc[r][k].at = s THEN GoneProc ELSE proc[r][k]
    BY <1>7, CrashedProcs
  <2>2. \A r \in Runs, k \in Tokens, t \in Stations :
          Counted(proc'[r][k], t) <=> (t # s /\ Counted(proc[r][k], t))
    BY <2>1, ProcValues DEF Counted
  <2>3. Unresolved(s)' = {} /\ \A t \in Stations : t # s => Unresolved(t)' = Unresolved(t)
    BY <2>2, UnresolvedCounted
  <2>4. active'[s] = 0 /\ \A t \in Stations : t # s => active'[t] = active[t]
    BY <1>0, <1>7 DEF Crash
  <2>5. \A t \in Stations : IsFiniteSet(Unresolved(t)') /\ active'[t] = Cardinality(Unresolved(t)')
    BY <2>3, <2>4, FS_EmptySet DEF CountsExact
  <2>6. QED BY <2>5 DEF CountsExact
<1>8. ASSUME NEW s \in Stations, Restart(s) PROVE CountsExact'
  BY <1>1, <1>8 DEF Restart
<1>9. ASSUME NEW r \in Runs, NEW s \in Stations, Cancel(s, r) PROVE CountsExact'
  BY <1>2, <1>9 DEF Cancel
<1>10. ASSUME NEW r \in Runs, Trigger(r) \/ Overdue(r) \/ LeaseLapses(r) PROVE CountsExact'
  BY <1>1, <1>10 DEF Trigger, Overdue, LeaseLapses
<1>11. ASSUME NEW i \in SlotNo, SlotLapses(i) PROVE CountsExact'
  BY <1>1, <1>11 DEF SlotLapses
<1>12. CASE UNCHANGED vars
  BY <1>1, <1>12 DEF vars
<1>13. QED
  BY <1>5, <1>6, <1>7, <1>8, <1>9, <1>10, <1>11, <1>12 DEF Next

(* activeCount of a station never drifts: it is the number of its attempts *)
(* that none of the message, exit and error handlers has resolved yet.     *)
THEOREM ActiveCount == Spec => []ActiveCountExact
<1>1. Init => CountsExact
  <2>1. SUFFICES ASSUME Init, NEW s \in Stations
                 PROVE  IsFiniteSet(Unresolved(s)) /\ active[s] = Cardinality(Unresolved(s))
    BY DEF CountsExact
  <2>2. \A r \in Runs, k \in Tokens : ~Counted(proc[r][k], s)
    BY <2>1, ProcValues DEF Init, Counted
  <2>3. Unresolved(s) = {}
    BY <2>2, UnresolvedCounted
  <2>4. QED BY <2>1, <2>3, FS_EmptySet DEF Init
<1>2. FleetInv /\ CountsExact /\ [Next]_vars => CountsExact'
  BY StepCounts DEF FleetInv, TypeOK, Ticks, Procs
<1>3. FleetInv /\ CountsExact => ActiveCountExact
  BY DEF FleetInv, TypeOK, CountsExact, ActiveCountExact
<1>4. QED BY <1>1, <1>2, <1>3, FleetInvariant, PTL DEF Spec

-----------------------------------------------------------------------------
(* Where every station can execute every run (Unfit is empty), no station  *)
(* writes to a row but through the queue's conditional updates.            *)

(* A run that completed, failed or was cancelled keeps that outcome,       *)
(* whatever a station still does with what it read of the run earlier.     *)
THEOREM OutcomesAreFinal == Unfit = {} => (Spec => TerminalIsFinal)
<1> SUFFICES ASSUME Unfit = {} PROVE Spec => TerminalIsFinal
  OBVIOUS
<1> DEFINE Final == \A r \in Runs : runs[r].status \in Terminal => runs'[r].status = runs[r].status
<1>1. ASSUME FleetInv, [Next]_vars PROVE [Final]_vars
  <2>1. RowsMove /\ TypeOK
    BY <1>1, StepRowsMove DEF FleetInv, TypeOK, Ticks
  <2>2. ASSUME NEW r \in Runs, runs[r].status \in Terminal PROVE runs'[r].status = runs[r].status
    <3>1. RowMove(r, runs[r], credit[r], runs'[r], credit'[r]) /\ runs[r] \in Row
      BY <2>1 DEF RowsMove, RowMoves, TypeOK
    <3>2. runs[r].status \notin {"absent", "pending", "running"}
      BY <2>2 DEF Terminal
    <3>3. runs'[r] = runs[r] \/ runs'[r] = [runs[r] EXCEPT !.live = FALSE]
      BY <3>1, <3>2 DEF RowMove, Live, Lapsed
    <3>4. QED BY <3>1, <3>3 DEF Row
  <2>3. QED BY <2>2
<1>2. QED BY <1>1, FleetInvariant, PTL DEF Spec, TerminalIsFinal

(* The rows as the queue sees them: tokens are unique over all runs.       *)
Tag(r, row) == [row EXCEPT !.token = IF @ = None THEN None ELSE <<r, @>>]

LEMMA TagRow ==
  ASSUME NEW r \in Runs, NEW row \in Row
  PROVE  LET tag == Tag(r, row) IN
         /\ tag.status = row.status /\ tag.attempts = row.attempts
         /\ tag.live = row.live /\ tag.late = row.late /\ tag.station = row.station
         /\ row.token # None => tag.token = <<r, row.token>> /\ tag.token # None
         /\ row.token = None => tag = row
  BY NoClaimAssumption DEF Tag, Row

LEMMA TagPatch ==
  ASSUME NEW r \in Runs, NEW row \in Row
  PROVE  /\ Tag(r, AbsentRow) = Queue!AbsentRow
         /\ Tag(r, PendingRow) = Queue!PendingRow
         /\ Tag(r, Cancelled(row)) = Queue!Cancelled(Tag(r, row))
         /\ Tag(r, Completed(row)) = Queue!Completed(Tag(r, row))
         /\ Tag(r, Failed(row)) = Queue!Failed(Tag(r, row))
         /\ Tag(r, Retried(row)) = Queue!Retried(Tag(r, row))
         /\ Tag(r, Renewed(row)) = Queue!Renewed(Tag(r, row))
         /\ Tag(r, [row EXCEPT !.live = FALSE]) = [Tag(r, row) EXCEPT !.live = FALSE]
         /\ Tag(r, [row EXCEPT !.late = TRUE]) = [Tag(r, row) EXCEPT !.late = TRUE]
<1>1. Tag(r, AbsentRow) = Queue!AbsentRow /\ Tag(r, PendingRow) = Queue!PendingRow
  BY DEF Tag, AbsentRow, PendingRow, Queue!AbsentRow, Queue!PendingRow
<1>2. Tag(r, Cancelled(row)) = Queue!Cancelled(Tag(r, row))
  BY DEF Tag, Row, Cancelled, Unleased, Queue!Cancelled, Queue!Unleased
<1>3. Tag(r, Completed(row)) = Queue!Completed(Tag(r, row))
  BY DEF Tag, Row, Completed, Unleased, Queue!Completed, Queue!Unleased
<1>4. Tag(r, Failed(row)) = Queue!Failed(Tag(r, row))
  BY DEF Tag, Row, Failed, Unleased, Queue!Failed, Queue!Unleased
<1>5. Tag(r, Retried(row)) = Queue!Retried(Tag(r, row))
  BY DEF Tag, Row, Retried, Unleased, Queue!Retried, Queue!Unleased
<1>6. /\ Tag(r, Renewed(row)) = Queue!Renewed(Tag(r, row))
      /\ Tag(r, [row EXCEPT !.live = FALSE]) = [Tag(r, row) EXCEPT !.live = FALSE]
      /\ Tag(r, [row EXCEPT !.late = TRUE]) = [Tag(r, row) EXCEPT !.late = TRUE]
  BY DEF Tag, Row, Renewed, Queue!Renewed
<1>7. QED BY <1>1, <1>2, <1>3, <1>4, <1>5, <1>6

LEMMA TagRecovered ==
  ASSUME NEW r \in Runs, NEW row \in Row
  PROVE  /\ Lapsed(row) => Queue!Lapsed(Tag(r, row))
         /\ Tag(r, Recovered(row, MaxAttempts[r])) = Queue!Recovered(Tag(r, row), MaxAttempts[r])
<1>1. Lapsed(row) => Queue!Lapsed(Tag(r, row))
  BY TagRow DEF Lapsed, Queue!Lapsed
<1>2. /\ Tag(r, row).attempts = row.attempts
      /\ Tag(r, Failed(row)) = Queue!Failed(Tag(r, row))
      /\ Tag(r, Retried(row)) = Queue!Retried(Tag(r, row))
  BY TagRow, TagPatch
<1>3. Tag(r, [Failed(row) EXCEPT !.station = None]) = [Tag(r, Failed(row)) EXCEPT !.station = None]
  <2>1. Failed(row) \in Row
    BY PatchRow
  <2>2. QED BY <2>1 DEF Tag, Row
<1>4. Tag(r, Recovered(row, MaxAttempts[r])) = Queue!Recovered(Tag(r, row), MaxAttempts[r])
  BY <1>2, <1>3 DEF Recovered, Queue!Recovered
<1>5. QED BY <1>1, <1>4

LEMMA TagOwns ==
  ASSUME NEW r \in Runs, NEW row \in Row, NEW k \in Tokens, Owns(row, k)
  PROVE  Queue!Owns(Tag(r, row), <<r, k>>)
  BY NoneAssumption, TagRow DEF Owns, Queue!Owns

LEMMA TagClaimed ==
  ASSUME NEW r \in Runs, NEW row \in Row, NEW s \in Stations, NEW k \in Tokens
  PROVE  Tag(r, Claimed(row, s, k)) = Queue!Claimed(Tag(r, row), s, <<r, k>>)
<1>1. k # None
  BY NoneAssumption
<1>2. Claimed(row, s, k).token = k
  BY DEF Claimed
<1>3. Tag(r, Claimed(row, s, k)) = [Claimed(row, s, k) EXCEPT !.token = <<r, k>>]
  BY <1>1, <1>2 DEF Tag
<1>4. [Claimed(row, s, k) EXCEPT !.token = <<r, k>>] = Queue!Claimed(row, s, <<r, k>>)
  <2> DEFINE new == [Claimed(row, s, k) EXCEPT !.token = <<r, k>>]
             tag == Queue!Claimed(row, s, <<r, k>>)
             TagRows == [status : {"running"}, attempts : Nat, station : {s},
                         token : {<<r, k>>}, live : BOOLEAN, late : BOOLEAN]
  <2>1. /\ new \in TagRows /\ new.attempts = row.attempts + 1
        /\ new.live = TRUE /\ new.late = FALSE
    <3>1. PICK c : c = Claimed(row, s, k)
      OBVIOUS
    <3>2. /\ c \in [status : {"running"}, attempts : Nat, station : {s},
                    token : {k}, live : BOOLEAN, late : BOOLEAN]
          /\ c.attempts = row.attempts + 1 /\ c.live = TRUE /\ c.late = FALSE
      BY <3>1 DEF Claimed, Row
    <3>3. QED BY <3>1, <3>2
  <2>2. /\ tag \in TagRows /\ tag.attempts = row.attempts + 1
        /\ tag.live = TRUE /\ tag.late = FALSE
    BY DEF Queue!Claimed, Row
  <2> HIDE DEF new, tag
  <2>3. new = tag
    BY <2>1, <2>2
  <2>4. QED BY <2>3 DEF new, tag
<1>5. Queue!Claimed(row, s, <<r, k>>) = Queue!Claimed(Tag(r, row), s, <<r, k>>)
  BY TagRow DEF Queue!Claimed
<1>6. QED BY <1>3, <1>4, <1>5

(* The abstract table: rows with their tags, and the claims granted so far. *)
Rows   == [r \in Runs |-> QueueRow(r)]
Grants == [c \in Runs \X Tokens |-> IF c[2] \in 1..runs[c[1]].attempts
                                    THEN [run |-> c[1], attempt |-> c[2]] ELSE None]
Table  == <<Rows, Grants, credit>>

LEMMA RowsTagged ==
  /\ \A r \in Runs : Rows[r] = Tag(r, runs[r])
  /\ Rows' = [r \in Runs |-> Tag(r, runs'[r])]
  BY DEF Rows, QueueRow, Tag

LEMMA OneRowTagged ==
  ASSUME TypeOK, NEW r \in Runs, NEW row, runs' = [runs EXCEPT ![r] = row]
  PROVE  Rows' = [Rows EXCEPT ![r] = Tag(r, row)]
<1>1. \A q \in Runs : runs'[q] = IF q = r THEN row ELSE runs[q]
  BY DEF TypeOK
<1>2. Rows' = [q \in Runs |-> IF q = r THEN Tag(r, row) ELSE Tag(q, runs[q])]
  BY <1>1, RowsTagged
<1>3. Rows = [q \in Runs |-> Tag(q, runs[q])]
  BY DEF Rows, QueueRow, Tag
<1>4. QED BY <1>2, <1>3

LEMMA GrantsStay ==
  ASSUME \A r \in Runs : runs'[r].attempts = runs[r].attempts
  PROVE  UNCHANGED Grants
<1>1. \A c \in Runs \X Tokens : runs'[c[1]].attempts = runs[c[1]].attempts
  OBVIOUS
<1>2. QED BY <1>1 DEF Grants

LEMMA Granted ==
  ASSUME NEW r \in Runs, NEW k \in Tokens
  PROVE  /\ <<r, k>> \in Runs \X Tokens
         /\ k \in 1..runs[r].attempts => /\ Grants[<<r, k>>] # None
                                         /\ Grants[<<r, k>>].attempt = k
         /\ k \notin 1..runs[r].attempts => Grants[<<r, k>>] = None
<1>1. Grants[<<r, k>>] = IF k \in 1..runs[r].attempts THEN [run |-> r, attempt |-> k] ELSE None
  BY DEF Grants
<1>2. k \in 1..runs[r].attempts => [run |-> r, attempt |-> k] \in [run : Runs, attempt : Nat]
  OBVIOUS
<1>3. QED BY <1>1, <1>2, NoClaimAssumption

(* A step of the table on one row that keeps its attempts. *)
TableStep == Queue!Next \/ UNCHANGED Table

LEMMA OnePatch ==
  ASSUME TypeOK, NEW r \in Runs, NEW row, runs' = [runs EXCEPT ![r] = row],
         row.attempts = runs[r].attempts
  PROVE  Rows' = [Rows EXCEPT ![r] = Tag(r, row)] /\ UNCHANGED Grants
<1>1. \A q \in Runs : runs'[q].attempts = runs[q].attempts
  BY DEF TypeOK
<1>2. QED BY <1>1, OneRowTagged, GrantsStay

LEMMA TableStays == UNCHANGED <<runs, credit>> => UNCHANGED Table
  BY DEF Table, Rows, Grants, QueueRow

(* The updates an attempt makes of its own row, with the token it holds.   *)
LEMMA ClaimedUpdate ==
  ASSUME TypeOK, RowsCoherent, NEW r \in Runs, NEW k \in Tokens, Owns(runs[r], k),
         \/ /\ runs' = [runs EXCEPT ![r] = Completed(runs[r])]
            /\ credit' = [credit EXCEPT ![r] = k]
         \/ runs' = [runs EXCEPT ![r] = Failed(runs[r])] /\ UNCHANGED credit
         \/ k < MaxAttempts[r] /\ runs' = [runs EXCEPT ![r] = Retried(runs[r])] /\ UNCHANGED credit
  PROVE  TableStep
<1> DEFINE row == runs[r]
<1>1. row \in Row /\ k = row.attempts /\ row.attempts > 0 /\ row.attempts \in Nat
  BY DEF TypeOK, Row, Owns, RowsCoherent
<1>2. k \in 1..runs[r].attempts
  BY <1>1
<1>3. <<r, k>> \in Runs \X Tokens /\ Grants[<<r, k>>] # None /\ Grants[<<r, k>>].attempt = k
  BY <1>2, Granted
<1>4. Queue!Owns(Rows[r], <<r, k>>)
  BY <1>1, TagOwns, RowsTagged
<1>5. /\ Completed(row).attempts = row.attempts /\ Failed(row).attempts = row.attempts
      /\ Retried(row).attempts = row.attempts
      /\ Tag(r, Completed(row)) = Queue!Completed(Rows[r])
      /\ Tag(r, Failed(row)) = Queue!Failed(Rows[r])
      /\ Tag(r, Retried(row)) = Queue!Retried(Rows[r])
  <2>1. /\ Completed(row).attempts = row.attempts /\ Failed(row).attempts = row.attempts
        /\ Retried(row).attempts = row.attempts
    BY <1>1, PatchRow
  <2>2. Rows[r] = Tag(r, row)
    BY RowsTagged
  <2>3. QED BY ZenonT(60), <1>1, <2>1, <2>2, TagPatch
<1>6. SUFFICES Queue!UpdateClaimedRun(r, <<r, k>>)
  BY <1>3 DEF TableStep, Queue!Next
<1>7. SUFFICES \/ Queue!CompleteClaimedRun(r, <<r, k>>) \/ Queue!FailClaimedRun(r, <<r, k>>)
               \/ Queue!RetryClaimedRun(r, <<r, k>>)
  BY <1>3 DEF Queue!UpdateClaimedRun, Queue!NoClaim, Grants
<1>8. CASE runs' = [runs EXCEPT ![r] = Completed(runs[r])] /\ credit' = [credit EXCEPT ![r] = k]
  <2>1. Rows' = [Rows EXCEPT ![r] = Queue!Completed(Rows[r])] /\ UNCHANGED Grants
    <3>1. runs' = [runs EXCEPT ![r] = Completed(row)] /\ Completed(row).attempts = runs[r].attempts
      BY <1>5, <1>8
    <3>2. Rows' = [Rows EXCEPT ![r] = Tag(r, Completed(row))] /\ UNCHANGED Grants
      BY <3>1, OnePatch
    <3>3. QED BY <1>5, <3>2
  <2>2. QED BY <1>3, <1>4, <1>8, <2>1 DEF Queue!CompleteClaimedRun, Rows, Grants
<1>9. CASE runs' = [runs EXCEPT ![r] = Failed(runs[r])] /\ UNCHANGED credit
  <2>1. Rows' = [Rows EXCEPT ![r] = Queue!Failed(Rows[r])] /\ UNCHANGED Grants
    <3>1. runs' = [runs EXCEPT ![r] = Failed(row)] /\ Failed(row).attempts = runs[r].attempts
      BY <1>5, <1>9
    <3>2. Rows' = [Rows EXCEPT ![r] = Tag(r, Failed(row))] /\ UNCHANGED Grants
      BY <3>1, OnePatch
    <3>3. QED BY <1>5, <3>2
  <2>2. QED BY <1>4, <1>9, <2>1 DEF Queue!FailClaimedRun, Rows, Grants
<1>10. CASE /\ k < MaxAttempts[r] /\ runs' = [runs EXCEPT ![r] = Retried(runs[r])]
            /\ UNCHANGED credit
  <2>1. Rows' = [Rows EXCEPT ![r] = Queue!Retried(Rows[r])] /\ UNCHANGED Grants
    <3>1. runs' = [runs EXCEPT ![r] = Retried(row)] /\ Retried(row).attempts = runs[r].attempts
      BY <1>5, <1>10
    <3>2. Rows' = [Rows EXCEPT ![r] = Tag(r, Retried(row))] /\ UNCHANGED Grants
      BY <3>1, OnePatch
    <3>3. QED BY <1>5, <3>2
  <2>2. QED BY <1>3, <1>4, <1>10, <2>1 DEF Queue!RetryClaimedRun, Rows, Grants
<1>11. QED BY <1>8, <1>9, <1>10

LEMMA TableInit ==
  ASSUME Init
  PROVE  Queue!Init
<1>1. Rows = [r \in Runs |-> Queue!AbsentRow]
  <2>1. \A r \in Runs : QueueRow(r) = Queue!AbsentRow
    BY DEF Init, QueueRow, AbsentRow, Queue!AbsentRow
  <2>2. QED BY <2>1 DEF Rows
<1>2. Grants = [c \in Runs \X Tokens |-> None]
  <2>1. \A c \in Runs \X Tokens : runs[c[1]].attempts = 0 /\ c[2] \notin 1..0
    BY DEF Init, AbsentRow
  <2>2. QED BY <2>1 DEF Grants
<1>3. QED BY <1>1, <1>2 DEF Queue!Init, Queue!NoClaim, Rows, Grants, Init

(* A claim: the fleet brings the token of the next attempt, never used.    *)
LEMMA TableClaim ==
  ASSUME TypeOK, RowsCoherent, NEW s \in Stations, ClaimWon(s)
  PROVE  TableStep
<1>1. PICK r \in Runs, k \in Tokens :
        /\ runs[r].status = "pending" /\ k = runs[r].attempts + 1
        /\ runs' = [runs EXCEPT ![r] = Claimed(runs[r], s, k)]
  BY ClaimSpawns
<1>2. runs[r] \in Row /\ runs[r].attempts \in Nat /\ UNCHANGED credit
  BY DEF TypeOK, Row, ClaimWon, history
<1>3. Rows' = [Rows EXCEPT ![r] = Queue!Claimed(Rows[r], s, <<r, k>>)]
  <2>1. Rows' = [Rows EXCEPT ![r] = Tag(r, Claimed(runs[r], s, k))]
    BY <1>1, OneRowTagged
  <2>2. Tag(r, Claimed(runs[r], s, k)) = Queue!Claimed(Rows[r], s, <<r, k>>)
    BY <1>2, TagClaimed, RowsTagged
  <2>3. QED BY <2>1, <2>2
<1>4. /\ Rows[r].status = "pending" /\ Rows[r].attempts + 1 = k
      /\ Grants[<<r, k>>] = None /\ <<r, k>> \in Runs \X Tokens
  <2>1. k \notin 1..runs[r].attempts
    BY <1>1, <1>2
  <2>2. QED BY <1>1, <1>2, <2>1, Granted, RowsTagged, TagRow
<1>5. Grants' = [Grants EXCEPT ![<<r, k>>] = [run |-> r, attempt |-> k]]
  <2>1. \A q \in Runs : runs'[q].attempts = IF q = r THEN k ELSE runs[q].attempts
    BY <1>1, <1>2, ClaimedRow DEF TypeOK
  <2>2. \A j : j \in 1..k <=> j \in 1..runs[r].attempts \/ j = k
    BY <1>1, <1>2
  <2>3. ASSUME NEW q \in Runs, NEW j \in Tokens
        PROVE  Grants'[<<q, j>>] = IF <<q, j>> = <<r, k>> THEN [run |-> r, attempt |-> k]
                                                          ELSE Grants[<<q, j>>]
    BY <2>1, <2>2 DEF Grants
  <2>4. ASSUME NEW c \in Runs \X Tokens
        PROVE  Grants'[c] = IF c = <<r, k>> THEN [run |-> r, attempt |-> k] ELSE Grants[c]
    <3>1. PICK q \in Runs, j \in Tokens : c = <<q, j>>
      OBVIOUS
    <3>2. QED BY <2>3, <3>1
  <2>5. /\ Grants = [c \in Runs \X Tokens |-> Grants[c]]
        /\ Grants' = [c \in Runs \X Tokens |-> Grants'[c]]
    BY DEF Grants
  <2> HIDE DEF Grants
  <2>6. QED BY <2>4, <2>5
<1>6. Queue!ClaimRun(r, s, <<r, k>>)
  BY <1>2, <1>3, <1>4, <1>5 DEF Queue!ClaimRun, Queue!NoClaim, Rows, Grants
<1>7. QED BY <1>4, <1>6 DEF TableStep, Queue!Next

(* The start of a tick recovers exactly the rows whose lease had expired.  *)
LEMMA TableRecovers ==
  ASSUME TypeOK, NEW s \in Stations, TickStart(s)
  PROVE  TableStep
<1> DEFINE E == {r \in Runs : Lapsed(runs[r])}
<1>1. /\ runs' = [r \in Runs |-> IF r \in E THEN Recovered(runs[r], MaxAttempts[r]) ELSE runs[r]]
      /\ UNCHANGED credit
  BY DEF TickStart, history
<1>2. \A r \in Runs : runs[r] \in Row /\ MaxAttempts[r] \in Nat
  BY RunnerAssumption DEF TypeOK
<1>3. CASE E = {}
  <2>1. UNCHANGED runs
    BY <1>1, <1>3 DEF TypeOK
  <2>2. QED BY <1>1, <2>1, TableStays DEF TableStep
<1>4. CASE E # {}
  <2>1. \A r \in E : Queue!Lapsed(Rows[r])
    BY <1>2, TagRecovered, RowsTagged
  <2>2. Rows' = [r \in Runs |-> IF r \in E THEN Queue!Recovered(Rows[r], MaxAttempts[r]) ELSE Rows[r]]
    <3>1. \A r \in Runs :
            Tag(r, runs'[r]) = IF r \in E THEN Queue!Recovered(Rows[r], MaxAttempts[r]) ELSE Rows[r]
      BY <1>1, <1>2, TagRecovered, RowsTagged
    <3> HIDE DEF E
    <3>2. QED BY <3>1, RowsTagged
  <2>3. UNCHANGED Grants
    <3>1. \A r \in Runs : runs'[r].attempts = runs[r].attempts
      BY <1>1, <1>2, RecoveredRow
    <3>2. QED BY <3>1, GrantsStay
  <2>4. E \in SUBSET Runs
    OBVIOUS
  <2> HIDE DEF E
  <2>5. Queue!RequeueExpiredRuns(E)
    BY <1>1, <1>4, <2>1, <2>2, <2>3 DEF Queue!RequeueExpiredRuns, Rows, Grants
  <2>6. QED BY <2>4, <2>5 DEF TableStep, Queue!Next
<1>5. QED BY <1>3, <1>4

LEMMA StepOfTable ==
  ASSUME Unfit = {}, TypeOK, Ticks, RowsCoherent, Procs, [Next]_vars
  PROVE  TableStep
<1> USE DEF station, history
<1>0. \A r \in Runs : /\ runs[r] \in Row /\ Rows[r] = Tag(r, runs[r])
                      /\ Rows[r].status = runs[r].status /\ Rows[r].live = runs[r].live
                      /\ Rows[r].late = runs[r].late
  BY RowsTagged, TagRow DEF TypeOK
<1>1. ASSUME NEW r \in Runs, Trigger(r) PROVE TableStep
  <2>1. runs' = [runs EXCEPT ![r] = PendingRow] /\ PendingRow.attempts = runs[r].attempts
    BY <1>1, FreshRow DEF Trigger, RowsCoherent
  <2>2. Rows' = [Rows EXCEPT ![r] = Queue!PendingRow] /\ UNCHANGED Grants
    <3>1. Rows' = [Rows EXCEPT ![r] = Tag(r, PendingRow)] /\ UNCHANGED Grants
      BY <2>1, OnePatch
    <3>2. Tag(r, PendingRow) = Queue!PendingRow
      BY <1>0, TagPatch
    <3>3. QED BY <1>0, <3>1, <3>2
  <2>3. Queue!AddRun(r)
    BY <1>0, <1>1, <2>2 DEF Trigger, Queue!AddRun, Rows, Grants
  <2>4. QED BY <2>3 DEF TableStep, Queue!Next
<1>2. ASSUME NEW r \in Runs, NEW s \in Stations, Cancel(s, r) PROVE TableStep
  <2>1. runs' = [runs EXCEPT ![r] = Cancelled(runs[r])] /\ Cancelled(runs[r]).attempts = runs[r].attempts
    BY <1>0, <1>2, PatchRow DEF Cancel
  <2>2. Rows' = [Rows EXCEPT ![r] = Queue!Cancelled(Rows[r])] /\ UNCHANGED Grants
    <3>1. Rows' = [Rows EXCEPT ![r] = Tag(r, Cancelled(runs[r]))] /\ UNCHANGED Grants
      BY <2>1, OnePatch
    <3>2. Tag(r, Cancelled(runs[r])) = Queue!Cancelled(Tag(r, runs[r]))
      BY <1>0, TagPatch
    <3>3. QED BY <1>0, <3>1, <3>2
  <2>3. Queue!CancelRun(r)
    BY <1>0, <1>2, <2>2 DEF Cancel, Queue!CancelRun, Live, Queue!Live, Rows, Grants
  <2>4. QED BY <2>3 DEF TableStep, Queue!Next
<1>3. ASSUME NEW r \in Runs, Overdue(r) PROVE TableStep
  <2>1. /\ runs' = [runs EXCEPT ![r] = [runs[r] EXCEPT !.late = TRUE]]
        /\ [runs[r] EXCEPT !.late = TRUE].attempts = runs[r].attempts
    BY <1>0, <1>3 DEF Overdue, Row
  <2>2. Rows' = [Rows EXCEPT ![r] = [Rows[r] EXCEPT !.late = TRUE]] /\ UNCHANGED Grants
    <3>1. Rows' = [Rows EXCEPT ![r] = Tag(r, [runs[r] EXCEPT !.late = TRUE])] /\ UNCHANGED Grants
      BY <2>1, OnePatch
    <3>2. Tag(r, [runs[r] EXCEPT !.late = TRUE]) = [Tag(r, runs[r]) EXCEPT !.late = TRUE]
      BY <1>0, TagPatch
    <3>3. QED BY <1>0, <3>1, <3>2
  <2>3. Queue!Overdue(r)
    BY <1>0, <1>3, <2>2 DEF Overdue, Queue!Overdue, Rows, Grants
  <2>4. QED BY <2>3 DEF TableStep, Queue!Next
<1>4. ASSUME NEW r \in Runs, LeaseLapses(r) PROVE TableStep
  <2>1. /\ runs' = [runs EXCEPT ![r] = [runs[r] EXCEPT !.live = FALSE]]
        /\ [runs[r] EXCEPT !.live = FALSE].attempts = runs[r].attempts
    BY <1>0, <1>4 DEF LeaseLapses, Row
  <2>2. Rows' = [Rows EXCEPT ![r] = [Rows[r] EXCEPT !.live = FALSE]] /\ UNCHANGED Grants
    <3>1. Rows' = [Rows EXCEPT ![r] = Tag(r, [runs[r] EXCEPT !.live = FALSE])] /\ UNCHANGED Grants
      BY <2>1, OnePatch
    <3>2. Tag(r, [runs[r] EXCEPT !.live = FALSE]) = [Tag(r, runs[r]) EXCEPT !.live = FALSE]
      BY <1>0, TagPatch
    <3>3. QED BY <1>0, <3>1, <3>2
  <2>3. Queue!LeaseLapses(r)
    BY <1>0, <1>4, <2>2 DEF LeaseLapses, Queue!LeaseLapses, Rows, Grants
  <2>4. QED BY <2>3 DEF TableStep, Queue!Next
<1>5. ASSUME NEW s \in Stations, LeaseRenew(s) PROVE TableStep
  <2>1. PICK r \in tick[s].todo \cap TrackedRuns(s) :
          IF runs[r].station = s /\ Owns(runs[r], runs[r].token) /\ runs[r].token # None
          THEN runs' = [runs EXCEPT ![r] = Renewed(@)] ELSE UNCHANGED runs
    BY <1>5 DEF LeaseRenew
  <2>2. r \in Runs /\ UNCHANGED credit
    BY <1>5 DEF TrackedRuns, LeaseRenew
  <2>3. CASE UNCHANGED runs
    BY <2>2, <2>3, TableStays DEF TableStep
  <2>4. ASSUME NEW k \in Tokens, Owns(runs[r], k), runs' = [runs EXCEPT ![r] = Renewed(runs[r])]
        PROVE  TableStep
    <3>1. Renewed(runs[r]).attempts = runs[r].attempts
      BY <1>0, <2>2, PatchRow
    <3>2. Rows' = [Rows EXCEPT ![r] = Tag(r, Renewed(runs[r]))] /\ UNCHANGED Grants
      BY <2>2, <2>4, <3>1, OnePatch
    <3>3. Tag(r, Renewed(runs[r])) = Queue!Renewed(Rows[r]) /\ Queue!Owns(Rows[r], <<r, k>>)
      <4>1. Tag(r, Renewed(runs[r])) = Queue!Renewed(Tag(r, runs[r]))
        BY <1>0, <2>2, TagPatch
      <4>2. Queue!Owns(Tag(r, runs[r]), <<r, k>>)
        BY <1>0, <2>2, <2>4, TagOwns
      <4>3. QED BY <1>0, <2>2, <4>1, <4>2
    <3>4. Queue!RenewRunLease(r, <<r, k>>)
      BY <2>2, <3>2, <3>3 DEF Queue!RenewRunLease, Rows, Grants
    <3>5. QED BY <2>2, <3>4 DEF TableStep, Queue!Next
  <2>5. QED BY <1>0, <2>1, <2>2, <2>3, <2>4 DEF Row
<1>6. ASSUME NEW s \in Stations, TimeoutWrite(s) PROVE TableStep
  <2> DEFINE r == tick[s].run
             k == tick[s].saw
  <2>1. /\ r \in Runs /\ k \in Nat /\ UNCHANGED credit
        /\ runs' = IF Owns(runs[r], k)
                   THEN [runs EXCEPT ![r] = IF k < MaxAttempts[r] THEN Retried(runs[r]) ELSE Failed(runs[r])]
                   ELSE runs
    BY <1>6, TicksFit DEF TimeoutWrite, At, TickFits
  <2>2. CASE Owns(runs[r], k)
    <3>1. k \in Tokens
      BY <1>0, <2>1, <2>2, NoLeaseAssumption DEF Owns, Row
    <3> HIDE DEF r, k
    <3>2. QED BY <2>1, <2>2, <3>1, ClaimedUpdate
  <2>3. QED BY <2>1, <2>2, TableStays DEF TableStep
<1>7. ASSUME NEW s \in Stations, TickStep(s) PROVE TableStep
  <2>1. CASE SlotRenew(s) \/ TimeoutScan(s) \/ TimeoutSweepSkipped(s) \/ TimeoutRead(s)
             \/ ClaimGateClosed(s) \/ DueScan(s) \/ StationFull(s) \/ SkipDue(s)
             \/ AcquireSlot(s) \/ SlotDenied(s) \/ ClaimLost(s)
    <3>1. UNCHANGED <<runs, credit>>
      BY <2>1 DEF SlotRenew, TimeoutScan, TimeoutSweepSkipped, TimeoutRead, ClaimGateClosed,
                  DueScan, StationFull, SkipDue, AcquireSlot, SlotDenied, ClaimLost
    <3>2. QED BY <3>1, TableStays DEF TableStep
  <2>2. ~FailUnfit(s)
    BY DEF FailUnfit
  <2>3. QED BY <1>5, <1>6, <1>7, <2>1, <2>2, TableClaim, TableRecovers DEF TickStep
<1>8. ASSUME NEW r \in Runs, NEW k \in Tokens, HandlerWrite(r, k) PROVE TableStep
  <2> DEFINE p == proc[r][k]
  <2>1. p.h = "pending" => k < MaxAttempts[r]
    BY DEF Procs, ProcsCoherent
  <2>2. CASE Owns(runs[r], k)
    <3>1. CASE p.h = "completed"
      BY <1>8, <2>2, <3>1, ClaimedUpdate DEF HandlerWrite
    <3>2. CASE p.h = "pending"
      BY <1>8, <2>1, <2>2, <3>2, ClaimedUpdate DEF HandlerWrite
    <3>3. CASE p.h = "failed"
      BY <1>8, <2>2, <3>3, ClaimedUpdate DEF HandlerWrite
    <3>4. QED BY <1>8, <3>1, <3>2, <3>3 DEF HandlerWrite, Patches
  <2>3. CASE ~Owns(runs[r], k)
    BY <1>8, <2>3, TableStays DEF HandlerWrite, TableStep
  <2>4. QED BY <2>2, <2>3
<1>9. ASSUME NEW r \in Runs, NEW k \in Tokens,
             MessageEvent(r, k) \/ ExitEvent(r, k) \/ GraceOver(r, k) \/ ErrorEvent(r, k)
             \/ Exit(r, k) \/ \E m \in Reports : Report(r, k, m)
      PROVE  TableStep
  <2>1. UNCHANGED <<runs, credit>>
    BY <1>9 DEF MessageEvent, ExitEvent, GraceOver, ErrorEvent, Exit, Report
  <2>2. QED BY <2>1, TableStays DEF TableStep
<1>10. ASSUME NEW s \in Stations, Crash(s) \/ Restart(s) PROVE TableStep
  BY <1>10, TableStays DEF Crash, Restart, TableStep
<1>11. ASSUME NEW i \in SlotNo, SlotLapses(i) PROVE TableStep
  BY <1>11, TableStays DEF SlotLapses, TableStep
<1>12. CASE UNCHANGED vars
  BY <1>12, TableStays DEF vars, TableStep
<1>13. QED
  BY <1>1, <1>2, <1>3, <1>4, <1>7, <1>8, <1>9, <1>10, <1>11, <1>12 DEF Next, HandlerStep

(* The fleet uses the queue as RunQueue specifies it: whatever a station   *)
(* does to a row is one of the queue's operations, with a token that was   *)
(* granted for the attempt that does it.                                   *)
THEOREM FleetImplementsQueue == Unfit = {} => (Spec => UsesQueueAsSpecified)
<1> SUFFICES ASSUME Unfit = {} PROVE Spec => UsesQueueAsSpecified
  OBVIOUS
<1>1. Init => Queue!Init
  BY TableInit
<1>2. FleetInv /\ [Next]_vars => [Queue!Next]_(Queue!vars)
  <2>1. FleetInv /\ [Next]_vars => TableStep
    BY StepOfTable DEF FleetInv, TypeOK, Ticks, Procs
  <2>2. UNCHANGED Table => UNCHANGED Queue!vars
    BY DEF Table, Rows, Grants, Queue!vars
  <2>3. QED BY <2>1, <2>2 DEF TableStep
<1>3. QED BY <1>1, <1>2, FleetInvariant, PTL DEF Spec, UsesQueueAsSpecified, Queue!Spec

-----------------------------------------------------------------------------
(* Network slots.  A lease that a live station took and did not lose track *)
(* of is the one its tick is about to claim with, or the one of a run it   *)
(* claimed; a run is claimed at most once.                                 *)
OneAttempt == \A r \in Runs : MaxAttempts[r] = 1

ClaimsWith(s, i, r, n) ==
  tick[s].pc = "claim" /\ tick[s].slot = i /\ tick[s].run = r /\ tick[s].saw = n
MapsTo(s, i, r, n) ==
  slotOf[s][r] # None /\ slotOf[s][r].slot = i /\ slotOf[s][r].no = n
SlotKnown(i) ==
  slots[i] # None /\ slots[i].no # 0 =>
    LET s == slots[i].station
        r == slots[i].run
        n == slots[i].no
    IN  s \in up /\ (ClaimsWith(s, i, r, n) \/ MapsTo(s, i, r, n))
SlotsKnown == \A i \in SlotNo : SlotKnown(i)
MapsCoherent ==
  \A s \in Stations, r \in Runs :
    /\ slotOf[s][r] # None => s \in up /\ runs[r].attempts > 0
    /\ tracked[s][r] # None => tracked[s][r] \in 1..runs[r].attempts

(* Where leases lapse only when nobody renews them, whoever relies on a    *)
(* lease really holds it.                                                  *)
Holds(i, s, r, n) ==
  slots[i] # None /\ slots[i].station = s /\ slots[i].run = r /\ slots[i].no = n /\ slots[i].live
SlotsHeld ==
  \A s \in Stations :
    /\ \A i \in SlotNo, r \in Runs, n \in Nat :
         /\ MapsTo(s, i, r, n) => Holds(i, s, r, n)
         /\ ClaimsWith(s, i, r, n) => s \in up /\ Holds(i, s, r, n)
         /\ ClaimsWith(s, i, r, n) => \A p \in Runs : slotOf[s][p] # None => slotOf[s][p].slot # i
    /\ \A r \in Runs : tracked[s][r] # None => slotOf[s][r] # None

(* The steps, as far as slots are concerned.  Most do not touch them, and  *)
(* move no tick to or from the point where it claims.                      *)
TicksQuiet ==
  \A s \in Stations : tick'[s] = tick[s] \/ (tick[s].pc # "claim" /\ tick'[s].pc # "claim")
MapsStay == UNCHANGED <<slotOf, tracked, up>>
SlotsQuiet == TicksQuiet /\ MapsStay /\ UNCHANGED slots
SlotTimed(i, live) ==
  /\ slots[i] # None /\ (live \/ LeasesLapse \/ ~SlotKept(i))
  /\ slots' = [slots EXCEPT ![i].live = live]
  /\ TicksQuiet /\ MapsStay
SlotAcquired(s, i, r, n) ==
  /\ s \in up /\ tick[s].pc # "claim" /\ n # 0
  /\ slots[i] = None \/ ~slots[i].live
  /\ slots' = [slots EXCEPT ![i] = [station |-> s, run |-> r, no |-> n, live |-> TRUE]]
  /\ \A q \in Stations : q # s => tick'[q] = tick[q]
  /\ tick'[s].pc = "claim" /\ tick'[s].slot = i /\ tick'[s].run = r /\ tick'[s].saw = n
  /\ MapsStay
TickClaims(s, r) ==
  /\ s \in up /\ (tick[s].pc = "claim" => tick[s].run = r)
  /\ tick[s].pc # "claim" => SlotLimit = 0 /\ SlotTaken(s) = None
  /\ \A q \in Stations : q # s => tick'[q] = tick[q]
  /\ tick'[s].pc # "claim"
SlotClaimed(s, r, k) ==
  /\ TickClaims(s, r) /\ runs[r].status = "pending"
  /\ k = runs[r].attempts + 1 /\ runs'[r].attempts = k
  /\ tracked' = [tracked EXCEPT ![s][r] = k]
  /\ slotOf' = IF SlotTaken(s) = None THEN slotOf ELSE [slotOf EXCEPT ![s][r] = SlotTaken(s)]
  /\ UNCHANGED <<slots, up>>
SlotLost(s, r) ==
  TickClaims(s, r) /\ slots' = Released(s, r, SlotTaken(s)) /\ MapsStay
SlotFreed(s, r, k) ==
  /\ proc[r][k].at = s /\ s \in up
  /\ Untrack(s, r, k) /\ ReleaseSlot(s, r)
  /\ UNCHANGED <<tick, up>>
SlotsMove ==
  \/ SlotsQuiet
  \/ \E i \in SlotNo, live \in BOOLEAN : SlotTimed(i, live)
  \/ \E s \in Stations, i \in SlotNo, r \in Runs, n \in Nat : SlotAcquired(s, i, r, n)
  \/ \E s \in Stations, r \in Runs, k \in Tokens : SlotClaimed(s, r, k) \/ SlotFreed(s, r, k)
  \/ \E s \in Stations, r \in Runs : SlotLost(s, r)
  \/ \E s \in Stations : Crash(s) \/ Restart(s)

LEMMA ConsidersQuiet ==
  ASSUME TypeOK, NEW s \in Stations, NEW R, Consider(s, R)
  PROVE  /\ tick'[s].pc # "claim"
         /\ \A q \in Stations : q # s => tick'[q] = tick[q]
  BY DEF TypeOK, Consider, IdleTick

LEMMA TickSlotsQuiet ==
  ASSUME TypeOK, Ticks, NEW s \in Stations,
         \/ TickStart(s) \/ LeaseRenew(s) \/ TimeoutScan(s) \/ TimeoutSweepSkipped(s)
         \/ TimeoutRead(s) \/ TimeoutWrite(s) \/ ClaimGateClosed(s) \/ DueScan(s)
         \/ StationFull(s) \/ SkipDue(s) \/ FailUnfit(s) \/ SlotDenied(s) \/ SlotRenew(s)
  PROVE  TicksQuiet
<1>1. ASSUME tick[s].pc # "claim", tick'[s].pc # "claim",
             \A q \in Stations : q # s => tick'[q] = tick[q]
      PROVE  TicksQuiet
  BY <1>1 DEF TicksQuiet
<1>2. tick \in [Stations -> TickState] /\ tick[s] \in TickState
  BY DEF TypeOK
<1> USE DEF At, NextDue, TimeoutsDone, RenewalDone
<1>3. CASE DueScan(s) \/ StationFull(s) \/ SkipDue(s) \/ FailUnfit(s)
  <2>1. \E R : Consider(s, R)
    BY <1>3 DEF DueScan, StationFull, SkipDue, FailUnfit, Rest
  <2>2. tick[s].pc # "claim"
    BY <1>3 DEF DueScan, StationFull, SkipDue, FailUnfit
  <2>3. QED BY <1>1, <2>1, <2>2, ConsidersQuiet
<1>4. CASE TickStart(s) \/ TimeoutScan(s) \/ TimeoutSweepSkipped(s) \/ ClaimGateClosed(s)
  <2>1. tick[s].pc # "claim"
    BY <1>4 DEF TickStart, TimeoutScan, TimeoutSweepSkipped, ClaimGateClosed
  <2>2. tick'[s].pc \in {"renew", "timeouts", "idle"} /\ \A q \in Stations : q # s => tick'[q] = tick[q]
    <3>1. CASE TickStart(s)
      BY <1>2, <3>1 DEF TickStart, IdleTick
    <3>2. CASE TimeoutScan(s)
      BY <1>2, <3>2 DEF TimeoutScan, IdleTick
    <3>3. CASE TimeoutSweepSkipped(s) \/ ClaimGateClosed(s)
      BY <1>2, <3>3 DEF TimeoutSweepSkipped, ClaimGateClosed, IdleTick
    <3>4. QED BY <1>4, <3>1, <3>2, <3>3
  <2>3. QED BY <1>1, <2>1, <2>2
<1>5. CASE LeaseRenew(s) \/ TimeoutRead(s) \/ TimeoutWrite(s) \/ SlotRenew(s)
  <2>1. tick[s].pc # "claim"
    BY <1>5 DEF LeaseRenew, TimeoutRead, TimeoutWrite, SlotRenew
  <2>2. \/ \E r : Drop(s, r)
        \/ \E r, v : \E label \in {"slotRenewing", "timingOut"} : NextRun(s, r, label, v)
        \/ \E label \in {"renew", "timeouts"} : Resume(s, label)
    <3>1. CASE LeaseRenew(s)
      BY <3>1 DEF LeaseRenew
    <3>2. CASE TimeoutRead(s)
      BY <3>2 DEF TimeoutRead
    <3>3. CASE TimeoutWrite(s) \/ SlotRenew(s)
      BY <3>3 DEF TimeoutWrite, SlotRenew
    <3>4. QED BY <1>5, <3>1, <3>2, <3>3
  <2>3. ASSUME NEW r, Drop(s, r) PROVE TicksQuiet
    BY <1>1, <1>2, <2>1, <2>3 DEF Drop, TickState
  <2>4. ASSUME NEW r, NEW v, NEW label \in {"slotRenewing", "timingOut"}, NextRun(s, r, label, v)
        PROVE  TicksQuiet
    BY <1>1, <1>2, <2>1, <2>4 DEF NextRun, TickState
  <2>5. ASSUME NEW label \in {"renew", "timeouts"}, Resume(s, label) PROVE TicksQuiet
    BY <1>1, <1>2, <2>1, <2>5 DEF Resume, TickState
  <2>6. QED BY <2>2, <2>3, <2>4, <2>5
<1>6. CASE SlotDenied(s)
  <2>1. PICK r \in Runs :
          /\ SlotTry(s, r)
          /\ IF SlotTried(s) < SlotLimit
             THEN tick' = [tick EXCEPT ![s] = [tick[s] EXCEPT !.pc = "slot", !.run = r,
                                                 !.slot = SlotTried(s) + 1]]
             ELSE Rest(s, r)
    BY <1>2, <1>6 DEF SlotDenied
  <2>2. tick[s].pc # "claim"
    BY <2>1 DEF SlotTry
  <2>3. CASE Rest(s, r)
    BY <1>1, <2>2, <2>3, ConsidersQuiet DEF Rest
  <2>4. CASE tick' = [tick EXCEPT ![s] = [tick[s] EXCEPT !.pc = "slot", !.run = r,
                                             !.slot = SlotTried(s) + 1]]
    <3>1. tick'[s].pc = "slot" /\ \A q \in Stations : q # s => tick'[q] = tick[q]
      BY <1>2, <2>4 DEF TickState
    <3>2. QED BY <1>1, <2>2, <3>1
  <2>5. QED BY <2>1, <2>3, <2>4
<1>7. QED BY <1>3, <1>4, <1>5, <1>6

LEMMA ClaimMoves ==
  ASSUME TypeOK, Ticks, NEW s \in Stations, NEW r \in Runs, ReadyToClaim(s, r), Rest(s, r)
  PROVE  TickClaims(s, r)
<1>1. tick'[s].pc # "claim" /\ \A q \in Stations : q # s => tick'[q] = tick[q]
  BY ConsidersQuiet DEF Rest
<1>2. tick[s].pc # "claim" => SlotLimit = 0 /\ tick[s].pc = "due"
  BY DEF ReadyToClaim, At, NextDue
<1>3. tick[s].pc = "due" => tick[s].slot = None
  BY TicksFit DEF TickFits
<1>4. s \in up /\ (tick[s].pc = "claim" => tick[s].run = r)
  BY DEF ReadyToClaim, At, NextDue
<1>5. QED BY <1>1, <1>2, <1>3, <1>4 DEF TickClaims, SlotTaken

LEMMA StepSlotsMove ==
  ASSUME TypeOK, Ticks, RowsCoherent, Procs, [Next]_vars
  PROVE  SlotsMove
<1> USE DEF station, history
<1>1. CASE SlotsQuiet
  BY <1>1 DEF SlotsMove
<1>2. ASSUME UNCHANGED <<slots, tick, slotOf, tracked, up>> PROVE SlotsMove
  BY <1>1, <1>2 DEF SlotsQuiet, TicksQuiet, MapsStay
<1>3. ASSUME NEW s \in Stations,
             \/ TickStart(s) \/ LeaseRenew(s) \/ TimeoutScan(s) \/ TimeoutSweepSkipped(s)
             \/ TimeoutRead(s) \/ TimeoutWrite(s) \/ ClaimGateClosed(s) \/ DueScan(s)
             \/ StationFull(s) \/ SkipDue(s) \/ FailUnfit(s) \/ SlotDenied(s)
      PROVE  SlotsMove
  <2>1. TicksQuiet
    BY <1>3, TickSlotsQuiet
  <2>2. UNCHANGED slots /\ MapsStay
    BY <1>3 DEF TickStart, LeaseRenew, TimeoutScan, TimeoutSweepSkipped, TimeoutRead, TimeoutWrite,
         ClaimGateClosed, DueScan, StationFull, SkipDue, FailUnfit, SlotDenied, MapsStay
  <2>3. QED BY <1>1, <2>1, <2>2 DEF SlotsQuiet
<1>4. ASSUME NEW s \in Stations, SlotRenew(s) PROVE SlotsMove
  <2>1. TicksQuiet /\ MapsStay
    BY <1>4, TickSlotsQuiet DEF SlotRenew, MapsStay
  <2> DEFINE h == slotOf[s][tick[s].run]
  <2>2. tick[s].run \in Runs /\ h \in Held \cup {None}
    BY <1>4, TicksFit DEF TypeOK, SlotRenew, At, TickFits
  <2>3. CASE UNCHANGED slots
    BY <1>1, <2>1, <2>3 DEF SlotsQuiet
  <2>4. CASE h # None /\ HoldsSlot(s, tick[s].run, h) /\ slots' = [slots EXCEPT ![h.slot].live = TRUE]
    <3>1. h.slot \in SlotNo /\ slots[h.slot] # None
      BY <2>2, <2>4 DEF Held, HoldsSlot
    <3>2. SlotTimed(h.slot, TRUE)
      BY <2>1, <2>4, <3>1 DEF SlotTimed
    <3> HIDE DEF h
    <3>3. QED BY <3>1, <3>2 DEF SlotsMove
  <2>5. QED BY <1>4, <2>3, <2>4 DEF SlotRenew
<1>5. ASSUME NEW s \in Stations, AcquireSlot(s) PROVE SlotsMove
  <2>1. PICK r \in Runs :
          /\ SlotTry(s, r) /\ ~SlotBusy(s)
          /\ slots' = [slots EXCEPT ![SlotTried(s)] =
                         [station |-> s, run |-> r, no |-> runs[r].attempts + 1, live |-> TRUE]]
          /\ tick' = [tick EXCEPT ![s] = [tick[s] EXCEPT !.pc = "claim", !.run = r,
                                             !.slot = SlotTried(s), !.saw = runs[r].attempts + 1]]
    BY <1>5 DEF AcquireSlot, TypeOK
  <2> DEFINE n == runs[r].attempts + 1
             i == SlotTried(s)
  <2>2. n \in Nat /\ n # 0 /\ i \in SlotNo
    BY <2>1, SlotTaking DEF TypeOK, Row
  <2>3. tick[s].pc # "claim" /\ s \in up
    BY <2>1 DEF SlotTry, NextDue, At
  <2>4. tick \in [Stations -> TickState] /\ tick[s] \in TickState
    BY DEF TypeOK
  <2>5. slots[i] = None \/ ~slots[i].live
    BY <2>1 DEF SlotBusy
  <2>6. MapsStay
    BY <1>5 DEF AcquireSlot, MapsStay
  <2>7. /\ slots' = [slots EXCEPT ![i] = [station |-> s, run |-> r, no |-> n, live |-> TRUE]]
        /\ tick' = [tick EXCEPT ![s] = [tick[s] EXCEPT !.pc = "claim", !.run = r, !.slot = i, !.saw = n]]
    BY <2>1
  <2> HIDE DEF n, i
  <2>8. /\ \A q \in Stations : q # s => tick'[q] = tick[q]
        /\ tick'[s].pc = "claim" /\ tick'[s].slot = i /\ tick'[s].run = r /\ tick'[s].saw = n
    BY <2>4, <2>7 DEF TickState
  <2>9. SlotAcquired(s, i, r, n)
    BY <2>2, <2>3, <2>5, <2>6, <2>7, <2>8 DEF SlotAcquired
  <2>10. QED BY <2>2, <2>9 DEF SlotsMove
<1>6. ASSUME NEW s \in Stations, ClaimWon(s) PROVE SlotsMove
  <2>1. PICK r \in Runs :
          LET k == runs[r].attempts + 1 IN
          /\ ReadyToClaim(s, r) /\ Rest(s, r) /\ runs[r].status = "pending"
          /\ runs' = [runs EXCEPT ![r] = Claimed(@, s, k)]
          /\ tracked' = [tracked EXCEPT ![s][r] = k]
          /\ slotOf' = IF SlotTaken(s) = None THEN slotOf
                       ELSE [slotOf EXCEPT ![s][r] = SlotTaken(s)]
    BY <1>6 DEF ClaimWon
  <2>2. runs[r].attempts + 1 \in Tokens
    <3>1. runs[r].attempts \in Nat /\ MaxAttempts[r] \in Nat /\ runs[r].attempts < MaxAttempts[r]
      BY <2>1, RunnerAssumption DEF TypeOK, Row, RowsCoherent
    <3>2. runs[r].attempts + 1 \in 1..MaxAttempts[r]
      BY <3>1
    <3>3. QED BY <3>2, RunnerAssumption
  <2>3. UNCHANGED <<slots, up>>
    BY <1>6 DEF ClaimWon
  <2>4. runs'[r].attempts = runs[r].attempts + 1
    BY <2>1, <2>2, ClaimedRow DEF TypeOK
  <2>5. SlotClaimed(s, r, runs[r].attempts + 1)
    BY <2>1, <2>3, <2>4, ClaimMoves DEF SlotClaimed
  <2>6. QED BY <2>2, <2>5 DEF SlotsMove
<1>7. ASSUME NEW s \in Stations, ClaimLost(s) PROVE SlotsMove
  <2>1. PICK r \in Runs : /\ ReadyToClaim(s, r) /\ Rest(s, r)
                          /\ slots' = Released(s, r, SlotTaken(s))
    BY <1>7 DEF ClaimLost
  <2>2. SlotLost(s, r)
    BY <1>7, <2>1, ClaimMoves DEF SlotLost, ClaimLost, MapsStay
  <2>3. QED BY <2>2 DEF SlotsMove
<1>8. ASSUME NEW s \in Stations, TickStep(s) PROVE SlotsMove
  BY <1>3, <1>4, <1>5, <1>6, <1>7, <1>8 DEF TickStep
<1>9. ASSUME NEW r \in Runs, NEW k \in Tokens,
             MessageEvent(r, k) \/ ExitEvent(r, k) \/ ErrorEvent(r, k)
      PROVE  SlotsMove
  <2>1. PICK s \in Stations : s = proc[r][k].at
    BY <1>9 DEF MessageEvent, ExitEvent, ErrorEvent, Listening, TypeOK
  <2>2. SlotFreed(s, r, k)
    BY <1>9, <2>1 DEF MessageEvent, ExitEvent, ErrorEvent, Listening, SlotFreed
  <2>3. QED BY <2>2 DEF SlotsMove
<1>10. ASSUME NEW r \in Runs, NEW k \in Tokens,
              GraceOver(r, k) \/ HandlerWrite(r, k) \/ Exit(r, k) \/ \E m \in Reports : Report(r, k, m)
       PROVE  SlotsMove
  BY <1>2, <1>10 DEF GraceOver, HandlerWrite, Exit, Report
<1>11. ASSUME NEW i \in SlotNo, SlotLapses(i) PROVE SlotsMove
  <2>1. SlotTimed(i, FALSE)
    BY <1>11 DEF SlotLapses, SlotTimed, TicksQuiet, MapsStay
  <2>2. QED BY <2>1 DEF SlotsMove
<1>12. ASSUME NEW s \in Stations, Crash(s) \/ Restart(s) PROVE SlotsMove
  BY <1>12 DEF SlotsMove
<1>13. ASSUME NEW r \in Runs, \/ Trigger(r) \/ Overdue(r) \/ LeaseLapses(r)
                              \/ \E s \in Stations : Cancel(s, r)
       PROVE  SlotsMove
  BY <1>2, <1>13 DEF Trigger, Overdue, LeaseLapses, Cancel
<1>14. CASE UNCHANGED vars
  BY <1>2, <1>14 DEF vars
<1>15. QED
  BY <1>8, <1>9, <1>10, <1>11, <1>12, <1>13, <1>14 DEF Next, HandlerStep

LEMMA MapsKept ==
  ASSUME TypeOK, MapsCoherent, AttemptsGrow, runs' \in [Runs -> Row], SlotsMove
  PROVE  MapsCoherent'
<1> SUFFICES ASSUME NEW q \in Stations, NEW p \in Runs
             PROVE  /\ slotOf'[q][p] # None => q \in up' /\ runs'[p].attempts > 0
                    /\ tracked'[q][p] # None => tracked'[q][p] \in 1..runs'[p].attempts
  BY DEF MapsCoherent
<1>1. /\ runs[p].attempts \in Nat /\ runs'[p].attempts \in Nat /\ runs[p].attempts <= runs'[p].attempts
      /\ slotOf[q][p] # None => q \in up /\ runs[p].attempts > 0
      /\ tracked[q][p] # None => tracked[q][p] \in 1..runs[p].attempts
  BY DEF TypeOK, Row, AttemptsGrow, MapsCoherent
<1>2. ASSUME \/ slotOf'[q][p] = None
             \/ slotOf'[q][p] = slotOf[q][p] /\ (q \in up => q \in up')
             \/ q \in up' /\ runs'[p].attempts > 0,
             \/ tracked'[q][p] = None
             \/ tracked'[q][p] = tracked[q][p]
             \/ tracked'[q][p] \in 1..runs'[p].attempts
      PROVE  /\ slotOf'[q][p] # None => q \in up' /\ runs'[p].attempts > 0
             /\ tracked'[q][p] # None => tracked'[q][p] \in 1..runs'[p].attempts
  BY <1>1, <1>2
<1>3. CASE MapsStay
  BY <1>2, <1>3 DEF MapsStay
<1>4. ASSUME NEW s \in Stations, NEW r \in Runs, NEW k \in Tokens, SlotClaimed(s, r, k)
      PROVE  /\ slotOf'[q][p] # None => q \in up' /\ runs'[p].attempts > 0
             /\ tracked'[q][p] # None => tracked'[q][p] \in 1..runs'[p].attempts
  <2>1. runs[r].attempts \in Nat /\ runs'[r].attempts = runs[r].attempts + 1 /\ s \in up /\ UNCHANGED up
    BY <1>4 DEF TypeOK, Row, SlotClaimed, TickClaims
  <2>2. CASE q = s /\ p = r
    <3>1. tracked'[q][p] = k /\ k = runs'[p].attempts
      BY <1>4, <2>2 DEF SlotClaimed, TypeOK
    <3>2. QED BY <1>2, <2>1, <2>2, <3>1
  <2>3. CASE ~(q = s /\ p = r)
    <3>1. tracked'[q][p] = tracked[q][p] /\ slotOf'[q][p] = slotOf[q][p]
      BY <1>4, <2>3 DEF SlotClaimed, TypeOK
    <3>2. QED BY <1>2, <2>1, <3>1
  <2>4. QED BY <2>2, <2>3
<1>5. ASSUME NEW s \in Stations, NEW r \in Runs, NEW k \in Tokens, SlotFreed(s, r, k)
      PROVE  /\ slotOf'[q][p] # None => q \in up' /\ runs'[p].attempts > 0
             /\ tracked'[q][p] # None => tracked'[q][p] \in 1..runs'[p].attempts
  <2>1. /\ slotOf'[q][p] \in {None, slotOf[q][p]} /\ tracked'[q][p] \in {None, tracked[q][p]}
        /\ UNCHANGED up
    BY <1>5 DEF SlotFreed, Untrack, ReleaseSlot, TypeOK
  <2>2. QED BY <1>2, <2>1
<1>6. ASSUME NEW s \in Stations, Crash(s) \/ Restart(s)
      PROVE  /\ slotOf'[q][p] # None => q \in up' /\ runs'[p].attempts > 0
             /\ tracked'[q][p] # None => tracked'[q][p] \in 1..runs'[p].attempts
  <2>1. CASE Crash(s)
    <3>1. IF q = s THEN slotOf'[q][p] = None /\ tracked'[q][p] = None
                   ELSE /\ slotOf'[q][p] = slotOf[q][p] /\ tracked'[q][p] = tracked[q][p]
                        /\ q \in up => q \in up'
      BY <2>1 DEF Crash, TypeOK
    <3>2. QED BY <1>2, <3>1
  <2>2. CASE Restart(s)
    BY <1>2, <2>2 DEF Restart
  <2>3. QED BY <1>6, <2>1, <2>2
<1>7. QED
  BY <1>3, <1>4, <1>5, <1>6 DEF SlotsMove, SlotsQuiet, SlotTimed, SlotAcquired, SlotLost

(* A slot stays known when its lease, and what its station knows of it, do. *)
LEMMA KnownStays ==
  ASSUME TypeOK, NEW i \in SlotNo, SlotKnown(i), NEW q, NEW p, NEW m,
         slots[i] # None => slots[i].station = q /\ slots[i].run = p /\ slots[i].no = m,
         \/ slots'[i] = None
         \/ slots'[i] # None /\ slots'[i].no = 0
         \/ /\ slots[i] # None /\ slots'[i] # None
            /\ slots'[i].station = q /\ slots'[i].run = p /\ slots'[i].no = m
            /\ q \in up => q \in up'
            /\ ClaimsWith(q, i, p, m) \/ MapsTo(q, i, p, m)
                  => ClaimsWith(q, i, p, m)' \/ MapsTo(q, i, p, m)'
  PROVE  SlotKnown(i)'
<1>1. CASE slots'[i] = None \/ slots'[i].no = 0
  BY <1>1 DEF SlotKnown
<1>2. CASE /\ slots[i] # None /\ slots'[i] # None
           /\ slots'[i].station = q /\ slots'[i].run = p /\ slots'[i].no = m
           /\ q \in up => q \in up'
           /\ ClaimsWith(q, i, p, m) \/ MapsTo(q, i, p, m)
                 => ClaimsWith(q, i, p, m)' \/ MapsTo(q, i, p, m)'
  <2>1. m # 0 => q \in up /\ (ClaimsWith(q, i, p, m) \/ MapsTo(q, i, p, m))
    BY <1>2 DEF SlotKnown
  <2>2. m # 0 => q \in up' /\ (ClaimsWith(q, i, p, m)' \/ MapsTo(q, i, p, m)')
    BY <1>2, <2>1
  <2>3. QED BY <1>2, <2>2 DEF SlotKnown, ClaimsWith, MapsTo
<1>3. QED BY <1>1, <1>2

HeldBy(i, s, r, n) ==
  slots[i] # None /\ slots[i].station = s /\ slots[i].run = r /\ slots[i].no = n

LEMMA LostSlot ==
  ASSUME TypeOK, NEW s \in Stations, NEW r \in Runs, NEW h \in Held \cup {None},
         slots' = Released(s, r, h), NEW i \in SlotNo
  PROVE  \/ slots'[i] = None /\ h # None /\ h.slot = i /\ HeldBy(i, s, r, h.no)
         \/ slots'[i] = slots[i] /\ ~(h # None /\ h.slot = i /\ HeldBy(i, s, r, h.no))
<1>1. CASE h # None /\ HoldsSlot(s, r, h)
  <2>1. h.slot \in SlotNo /\ slots' = [slots EXCEPT ![h.slot] = None] /\ HeldBy(h.slot, s, r, h.no)
    BY <1>1 DEF Released, Held, HoldsSlot, HeldBy
  <2>2. slots \in [SlotNo -> SlotLease \cup {None}]
    BY DEF TypeOK
  <2>3. CASE h.slot = i
    BY <1>1, <2>1, <2>2, <2>3
  <2>4. CASE h.slot # i
    BY <2>1, <2>2, <2>4
  <2>5. QED BY <2>3, <2>4
<1>2. CASE ~(h # None /\ HoldsSlot(s, r, h))
  <2>1. slots' = slots
    BY <1>2 DEF Released
  <2>2. h # None /\ h.slot = i => ~HeldBy(i, s, r, h.no)
    BY <1>2 DEF HoldsSlot, HeldBy
  <2>3. QED BY <2>1, <2>2
<1>3. QED BY <1>1, <1>2

LEMMA KnownKept ==
  ASSUME OneAttempt, TypeOK, Ticks, RowsCoherent, MapsCoherent, SlotsKnown, SlotsMove
  PROVE  SlotsKnown'
<1> SUFFICES ASSUME NEW i \in SlotNo PROVE SlotKnown(i)'
  BY DEF SlotsKnown
<1>1. SlotKnown(i)
  BY DEF SlotsKnown
<1> PICK q, p, m : q = slots[i].station /\ p = slots[i].run /\ m = slots[i].no
  OBVIOUS
<1>2. slots[i] # None => q \in Stations /\ p \in Runs /\ m \in Nat
  BY DEF TypeOK, SlotLease
<1>3. ASSUME TicksQuiet, MapsStay,
             \/ slots'[i] = slots[i]
             \/ slots[i] # None /\ \E live \in BOOLEAN : slots'[i] = [slots[i] EXCEPT !.live = live]
      PROVE  SlotKnown(i)'
  <2>1. CASE slots[i] = None /\ slots'[i] = None
    BY <1>1, <2>1, KnownStays
  <2>2. CASE slots[i] # None
    <3>1. /\ slots'[i].station = q /\ slots'[i].run = p /\ slots'[i].no = m /\ slots'[i] # None
      <4>1. slots[i] \in SlotLease
        BY <2>2 DEF TypeOK
      <4>2. ASSUME NEW live \in BOOLEAN, slots'[i] = [slots[i] EXCEPT !.live = live]
            PROVE  slots'[i] \in SlotLease /\ slots'[i].station = q /\ slots'[i].run = p /\ slots'[i].no = m
        BY <4>1, <4>2 DEF SlotLease
      <4>3. QED BY <1>3, <2>2, <4>1, <4>2, NoLeaseAssumption
    <3>2. MapsTo(q, i, p, m) => MapsTo(q, i, p, m)'
      BY <1>2, <1>3, <2>2 DEF MapsTo, MapsStay
    <3>3. ClaimsWith(q, i, p, m) => ClaimsWith(q, i, p, m)'
      BY <1>2, <1>3, <2>2 DEF ClaimsWith, TicksQuiet
    <3>4. up' = up
      BY <1>3 DEF MapsStay
    <3>5. QED BY <1>1, <2>2, <3>1, <3>2, <3>3, <3>4, KnownStays
  <2>3. QED BY <1>3, <2>1, <2>2
<1>4. CASE SlotsQuiet
  BY <1>3, <1>4 DEF SlotsQuiet
<1>5. ASSUME NEW j \in SlotNo, NEW live \in BOOLEAN, SlotTimed(j, live) PROVE SlotKnown(i)'
  <2>1. slots'[i] = slots[i] \/ (slots[i] # None /\ slots'[i] = [slots[i] EXCEPT !.live = live])
    BY <1>5 DEF SlotTimed, TypeOK
  <2>2. QED BY <1>3, <1>5, <2>1 DEF SlotTimed
<1>6. ASSUME NEW s \in Stations, NEW j \in SlotNo, NEW r \in Runs, NEW n \in Nat, SlotAcquired(s, j, r, n)
      PROVE  SlotKnown(i)'
  <2>1. CASE i = j
    <3>1. slots'[i] = [station |-> s, run |-> r, no |-> n, live |-> TRUE]
      BY <1>6, <2>1 DEF SlotAcquired, TypeOK
    <3>2. slots'[i].station = s /\ slots'[i].run = r /\ slots'[i].no = n
      BY <3>1
    <3>3. ClaimsWith(s, i, r, n)' /\ s \in up'
      BY <1>6, <2>1 DEF SlotAcquired, ClaimsWith, MapsStay
    <3>4. QED BY <3>2, <3>3 DEF SlotKnown
  <2>2. CASE i # j
    <3>1. slots'[i] = slots[i]
      BY <1>6, <2>2 DEF SlotAcquired, TypeOK
    <3>2. slots[i] # None => /\ MapsTo(q, i, p, m) => MapsTo(q, i, p, m)'
                             /\ ClaimsWith(q, i, p, m) => ClaimsWith(q, i, p, m)'
      BY <1>2, <1>6 DEF SlotAcquired, ClaimsWith, MapsTo, MapsStay
    <3>3. up' = up
      BY <1>6 DEF SlotAcquired, MapsStay
    <3>4. QED BY <1>1, <3>1, <3>2, <3>3, KnownStays
  <2>3. QED BY <2>1, <2>2
<1>7. ASSUME NEW s \in Stations, NEW r \in Runs, NEW k \in Tokens, SlotClaimed(s, r, k)
      PROVE  SlotKnown(i)'
  <2>1. slots' = slots /\ up' = up
    BY <1>7 DEF SlotClaimed
  <2>2. slotOf[s][r] = None
    BY <1>7, RunnerAssumption DEF SlotClaimed, OneAttempt, RowsCoherent, MapsCoherent, TypeOK, Row
  <2>3. ASSUME slots[i] # None, MapsTo(q, i, p, m) PROVE MapsTo(q, i, p, m)'
    <3>1. ~(q = s /\ p = r)
      BY <2>2, <2>3 DEF MapsTo
    <3>2. slotOf'[q][p] = slotOf[q][p]
      BY <1>2, <1>7, <2>3, <3>1 DEF SlotClaimed, TypeOK
    <3>3. QED BY <2>3, <3>2 DEF MapsTo
  <2>4. ASSUME slots[i] # None, ClaimsWith(q, i, p, m), q # s PROVE ClaimsWith(q, i, p, m)'
    BY <1>2, <1>7, <2>4 DEF ClaimsWith, SlotClaimed, TickClaims
  <2>5. ASSUME slots[i] # None, ClaimsWith(q, i, p, m), q = s PROVE MapsTo(q, i, p, m)'
    <3>1. p = r /\ tick[s].slot = i /\ tick[s].saw = m
      BY <1>7, <2>5 DEF ClaimsWith, SlotClaimed, TickClaims
    <3>2. SlotTaken(s) = [slot |-> i, no |-> m] /\ tick[s].slot # None
      BY <2>5, <3>1, TicksFit DEF SlotTaken, TickFits, ClaimsWith
    <3>3. SlotTaken(s) \in Held
      BY <1>2, <2>5, <3>2 DEF Held
    <3>4. SlotTaken(s) # None
      BY <3>3, NoLeaseAssumption
    <3>5. slotOf'[q][p] = SlotTaken(s)
      BY <1>7, <2>5, <3>1, <3>4 DEF SlotClaimed, TypeOK
    <3>6. QED BY <3>2, <3>4, <3>5 DEF MapsTo
  <2>6. QED BY <1>1, <2>1, <2>3, <2>4, <2>5, KnownStays
<1>8. ASSUME NEW s \in Stations, NEW r \in Runs, SlotLost(s, r) PROVE SlotKnown(i)'
  <2>1. SlotTaken(s) \in Held \cup {None}
    <3>1. CASE tick[s].slot = None
      BY <3>1 DEF SlotTaken
    <3>2. CASE tick[s].slot # None
      <4>1. tick[s].pc = "claim" \/ SlotTaken(s) = None
        BY <1>8 DEF SlotLost, TickClaims
      <4>2. tick[s].pc = "claim" => tick[s].slot \in SlotNo /\ tick[s].saw \in Nat
        BY <3>2, TicksFit DEF TickFits, TypeOK, TickState
      <4>3. QED BY <3>2, <4>1, <4>2 DEF SlotTaken, Held
    <3>3. QED BY <3>1, <3>2
  <2>2. slots' = Released(s, r, SlotTaken(s)) /\ up' = up /\ UNCHANGED slotOf
    BY <1>8 DEF SlotLost, MapsStay
  <2>3. CASE slots'[i] = None
    BY <1>1, <2>3, KnownStays
  <2>4. CASE slots'[i] = slots[i] /\ slots[i] # None
    <3>1. MapsTo(q, i, p, m) => MapsTo(q, i, p, m)'
      BY <2>2 DEF MapsTo
    <3>2. ASSUME ClaimsWith(q, i, p, m) PROVE q # s
      <4> SUFFICES ASSUME q = s PROVE FALSE
        OBVIOUS
      <4>1. p = r /\ tick[s].slot = i /\ tick[s].saw = m /\ tick[s].slot # None
        BY <1>8, <3>2, TicksFit DEF ClaimsWith, SlotLost, TickClaims, TickFits
      <4>2. SlotTaken(s) = [slot |-> i, no |-> m]
        BY <4>1 DEF SlotTaken
      <4>3. SlotTaken(s) # None /\ SlotTaken(s).slot = i /\ SlotTaken(s).no = m
        <5>1. [slot |-> i, no |-> m] \in Held
          BY <1>2, <2>4 DEF Held
        <5>2. QED BY <4>2, <5>1, NoLeaseAssumption
      <4>4. slots'[i] = None
        <5>1. PICK h \in Held \cup {None} : h = SlotTaken(s)
          BY <2>1
        <5>2. slots' = Released(s, r, h) /\ h # None /\ h.slot = i /\ h.no = m
          BY <2>2, <4>3, <5>1
        <5>3. HeldBy(i, s, r, h.no)
          BY <2>4, <4>1, <5>2 DEF HeldBy
        <5>4. QED BY <5>2, <5>3, LostSlot
      <4>5. QED BY <2>4, <4>4
    <3>3. ClaimsWith(q, i, p, m) => ClaimsWith(q, i, p, m)'
      BY <1>2, <1>8, <2>4, <3>2 DEF ClaimsWith, SlotLost, TickClaims
    <3>4. QED BY <1>1, <2>2, <2>4, <3>1, <3>3, KnownStays
  <2>5. QED BY <2>1, <2>2, <2>3, <2>4, LostSlot
<1>9. ASSUME NEW s \in Stations, NEW r \in Runs, NEW k \in Tokens, SlotFreed(s, r, k) PROVE SlotKnown(i)'
  <2>1. /\ slots' = Released(s, r, slotOf[s][r]) /\ slotOf' = [slotOf EXCEPT ![s][r] = None]
        /\ up' = up /\ tick' = tick
    BY <1>9 DEF SlotFreed, ReleaseSlot
  <2>2. slotOf[s][r] \in Held \cup {None}
    BY DEF TypeOK
  <2>3. CASE slots'[i] = None
    BY <1>1, <2>3, KnownStays
  <2>4. CASE slots'[i] = slots[i] /\ slots[i] # None
    <3>1. ASSUME MapsTo(q, i, p, m) PROVE MapsTo(q, i, p, m)'
      <4>1. ~(q = s /\ p = r)
        <5>1. ~(slotOf[s][r] # None /\ slotOf[s][r].slot = i /\ HeldBy(i, s, r, slotOf[s][r].no))
          BY <2>1, <2>2, <2>4, LostSlot
        <5>2. QED BY <2>4, <3>1, <5>1 DEF MapsTo, HeldBy
      <4>2. slotOf'[q][p] = slotOf[q][p]
        BY <1>2, <2>1, <2>4, <4>1 DEF TypeOK
      <4>3. QED BY <3>1, <4>2 DEF MapsTo
    <3>2. ClaimsWith(q, i, p, m) => ClaimsWith(q, i, p, m)'
      BY <2>1 DEF ClaimsWith
    <3>3. QED BY <1>1, <2>1, <2>4, <3>1, <3>2, KnownStays
  <2>5. QED BY <2>1, <2>2, <2>3, <2>4, LostSlot
<1>10. ASSUME NEW s \in Stations, Crash(s) PROVE SlotKnown(i)'
  <2>1. slots'[i] = IF slots[i] # None /\ slots[i].station = s
                    THEN [slots[i] EXCEPT !.no = 0] ELSE slots[i]
    BY <1>10 DEF Crash
  <2>2. CASE slots[i] # None /\ q = s
    <3>1. slots'[i].no = 0 /\ slots'[i] # None
      <4>1. slots[i] \in SlotLease
        BY <2>2 DEF TypeOK
      <4>2. slots'[i] \in SlotLease /\ slots'[i].no = 0
        BY <2>1, <2>2, <4>1 DEF SlotLease
      <4>3. QED BY <4>2, NoLeaseAssumption
    <3>2. QED BY <3>1 DEF SlotKnown
  <2>3. CASE slots[i] # None /\ q # s
    <3>1. slots'[i] = slots[i] /\ (q \in up => q \in up')
      BY <1>10, <2>1, <2>3 DEF Crash
    <3>2. tick'[q] = tick[q] /\ slotOf'[q] = slotOf[q]
      BY <1>2, <1>10, <2>3 DEF Crash, TypeOK
    <3>3. QED BY <1>1, <2>3, <3>1, <3>2, KnownStays DEF ClaimsWith, MapsTo
  <2>4. CASE slots[i] = None
    BY <1>1, <2>1, <2>4, KnownStays
  <2>5. QED BY <2>2, <2>3, <2>4
<1>11. ASSUME NEW s \in Stations, Restart(s) PROVE SlotKnown(i)'
  BY <1>1, <1>11, KnownStays DEF Restart, ClaimsWith, MapsTo
<1>12. QED
  BY <1>4, <1>5, <1>6, <1>7, <1>8, <1>9, <1>10, <1>11 DEF SlotsMove

SlotInv == FleetInv /\ MapsCoherent /\ SlotsKnown

LEMMA InitSlots == Init => MapsCoherent /\ SlotsKnown
  BY DEF Init, MapsCoherent, SlotsKnown, SlotKnown

LEMMA NextGrows == FleetInv /\ [Next]_vars => runs' \in [Runs -> Row] /\ AttemptsGrow
<1> SUFFICES ASSUME FleetInv, [Next]_vars PROVE runs' \in [Runs -> Row] /\ AttemptsGrow
  OBVIOUS
<1>1. RowsMove
  BY StepRowsMove DEF FleetInv, TypeOK, Ticks
<1>2. QED BY <1>1, StepRows DEF FleetInv, AttemptsGrow

LEMMA NextSlotsKnown == OneAttempt /\ SlotInv /\ [Next]_vars => SlotInv'
<1> SUFFICES ASSUME OneAttempt, SlotInv, [Next]_vars PROVE SlotInv'
  OBVIOUS
<1>1. FleetInv'
  BY NextFleetInv DEF SlotInv
<1>2. TypeOK /\ Ticks /\ RowsCoherent /\ Procs /\ MapsCoherent /\ SlotsKnown
  BY DEF SlotInv, FleetInv, TypeOK, Ticks, Procs
<1>3. SlotsMove
  BY <1>2, StepSlotsMove
<1>4. MapsCoherent'
  BY <1>2, <1>3, NextGrows, MapsKept DEF SlotInv
<1>5. SlotsKnown'
  BY <1>2, <1>3, KnownKept
<1>6. QED BY <1>1, <1>4, <1>5 DEF SlotInv

(* A lease that a live station holds is known to it, so it will be released: *)
(* the tick about to claim has it, or the map that releases it when the      *)
(* child ends, whatever claims are lost, children die and stations crash.    *)
THEOREM NoSlotLeaks == OneAttempt => (Spec => []NoLeakedSlot)
<1> SUFFICES ASSUME OneAttempt PROVE Spec => []NoLeakedSlot
  OBVIOUS
<1>1. Init => SlotInv
  BY InitSlots, InitFleetInv DEF SlotInv
<1>2. SlotInv /\ [Next]_vars => SlotInv'
  BY NextSlotsKnown
<1>3. SlotInv => NoLeakedSlot
  BY DEF SlotInv, SlotsKnown, SlotKnown, NoLeakedSlot, SlotKept, ClaimsWith, MapsTo
<1>4. QED BY <1>1, <1>2, <1>3, PTL DEF Spec

(* A lease somebody relies on is not touched by a step that spares it, nor *)
(* by one that only renews it.                                             *)
LEMMA HoldsStay ==
  ASSUME TypeOK, NEW i \in SlotNo, NEW s, NEW r, NEW n, Holds(i, s, r, n),
         slots'[i] = slots[i] \/ slots'[i] = [slots[i] EXCEPT !.live = TRUE]
  PROVE  Holds(i, s, r, n)'
<1>1. slots[i] \in SlotLease
  BY DEF Holds, TypeOK
<1>2. slots'[i] \in SlotLease /\ slots'[i].station = s /\ slots'[i].run = r /\ slots'[i].no = n
      /\ slots'[i].live
  BY <1>1 DEF Holds, SlotLease
<1>3. QED BY <1>2, NoLeaseAssumption DEF Holds

HeldCase(q, i, p, n) ==
  /\ MapsTo(q, i, p, n) => Holds(i, q, p, n)
  /\ ClaimsWith(q, i, p, n) => q \in up /\ Holds(i, q, p, n)
  /\ ClaimsWith(q, i, p, n) => \A r \in Runs : slotOf[q][r] # None => slotOf[q][r].slot # i

LEMMA HeldClaims ==
  ASSUME TypeOK, Ticks, SlotsHeld, NEW s \in Stations, NEW r \in Runs, TickClaims(s, r), SlotLimit > 0
  PROVE  \E i \in SlotNo, n \in Nat : ClaimsWith(s, i, r, n) /\ SlotTaken(s) = [slot |-> i, no |-> n]
                                      /\ SlotTaken(s) # None
<1>1. tick[s].pc = "claim" /\ tick[s].run = r
  BY RunnerAssumption DEF TickClaims
<1>2. tick[s].slot \in SlotNo /\ tick[s].saw \in Nat /\ tick[s].slot # None
  BY <1>1, TicksFit DEF TickFits, TypeOK, TickState
<1>3. SlotTaken(s) = [slot |-> tick[s].slot, no |-> tick[s].saw] /\ SlotTaken(s) \in Held
  BY <1>2 DEF SlotTaken, Held
<1>4. SlotTaken(s) # None
  BY <1>3, NoLeaseAssumption
<1>5. ClaimsWith(s, tick[s].slot, r, tick[s].saw)
  BY <1>1 DEF ClaimsWith
<1>6. QED BY <1>2, <1>3, <1>4, <1>5

LEMMA HeldKept ==
  ASSUME OneAttempt, ~LeasesLapse, SlotLimit > 0,
         TypeOK, Ticks, RowsCoherent, Procs, MapsCoherent, SlotsHeld, SlotsMove,
         NEW q \in Stations, NEW i \in SlotNo, NEW p \in Runs, NEW n \in Nat
  PROVE  HeldCase(q, i, p, n)'
<1>1. HeldCase(q, i, p, n)
  BY DEF SlotsHeld, HeldCase
<1>2. ASSUME MapsStay, TicksQuiet,
             Holds(i, q, p, n) /\ (MapsTo(q, i, p, n) \/ ClaimsWith(q, i, p, n)) => Holds(i, q, p, n)'
      PROVE  HeldCase(q, i, p, n)'
  <2>1. MapsTo(q, i, p, n)' => MapsTo(q, i, p, n)
    BY <1>2 DEF MapsTo, MapsStay
  <2>2. ClaimsWith(q, i, p, n)' => ClaimsWith(q, i, p, n)
    BY <1>2 DEF ClaimsWith, TicksQuiet
  <2>3. QED BY <1>1, <1>2, <2>1, <2>2 DEF HeldCase, MapsStay
<1>3. CASE SlotsQuiet
  BY <1>2, <1>3, HoldsStay DEF SlotsQuiet
<1>4. ASSUME NEW j \in SlotNo, NEW live \in BOOLEAN, SlotTimed(j, live) PROVE HeldCase(q, i, p, n)'
  <2>1. ASSUME Holds(i, q, p, n), MapsTo(q, i, p, n) \/ ClaimsWith(q, i, p, n) PROVE Holds(i, q, p, n)'
    <3>1. slots' = [slots EXCEPT ![j].live = live] /\ (live = TRUE \/ ~SlotKept(j))
      BY <1>4 DEF SlotTimed
    <3>2. CASE i # j
      BY <2>1, <3>1, <3>2, HoldsStay DEF TypeOK
    <3>3. CASE i = j
      <4>1. q \in up
        BY <1>1, <2>1 DEF HeldCase, MapsTo, MapsCoherent
      <4>2. SlotKept(i)
        BY <2>1, <4>1 DEF SlotKept, Holds, MapsTo, ClaimsWith
      <4>3. slots'[i] = [slots[i] EXCEPT !.live = TRUE]
        BY <3>1, <3>3, <4>2 DEF TypeOK
      <4>4. QED BY <2>1, <4>3, HoldsStay
    <3>4. QED BY <3>2, <3>3
  <2>2. QED BY <1>2, <1>4, <2>1 DEF SlotTimed
<1>5. ASSUME NEW s \in Stations, NEW j \in SlotNo, NEW r \in Runs, NEW m \in Nat, SlotAcquired(s, j, r, m)
      PROVE  HeldCase(q, i, p, n)'
  <2>1. /\ slots' = [slots EXCEPT ![j] = [station |-> s, run |-> r, no |-> m, live |-> TRUE]]
        /\ slots[j] = None \/ ~slots[j].live
        /\ UNCHANGED <<slotOf, tracked, up>>
    BY <1>5 DEF SlotAcquired, MapsStay
  <2>2. Holds(i, q, p, n) => i # j /\ Holds(i, q, p, n)'
    <3>1. Holds(i, q, p, n) => i # j
      BY <2>1 DEF Holds
    <3>2. i # j => slots'[i] = slots[i]
      BY <2>1 DEF TypeOK
    <3>3. QED BY <3>1, <3>2, HoldsStay
  <2>3. CASE ~ClaimsWith(q, i, p, n)'
    BY <1>1, <2>1, <2>2, <2>3 DEF HeldCase, MapsTo
  <2>4. CASE ClaimsWith(q, i, p, n)' /\ q # s
    <3>1. ClaimsWith(q, i, p, n)
      BY <1>5, <2>4 DEF SlotAcquired, ClaimsWith
    <3>2. QED BY <1>1, <2>1, <2>2, <3>1 DEF HeldCase, MapsTo
  <2>5. CASE ClaimsWith(q, i, p, n)' /\ q = s
    <3>1. i = j /\ p = r /\ n = m /\ s \in up
      BY <1>5, <2>5 DEF SlotAcquired, ClaimsWith
    <3>2. Holds(i, q, p, n)'
      <4>1. slots'[i] = [station |-> s, run |-> r, no |-> m, live |-> TRUE]
        BY <2>1, <3>1 DEF TypeOK
      <4>2. slots'[i] \in SlotLease
        BY <4>1 DEF SlotLease
      <4>3. slots'[i].station = s /\ slots'[i].run = r /\ slots'[i].no = m /\ slots'[i].live = TRUE
        BY <4>1
      <4>4. QED BY <2>5, <3>1, <4>2, <4>3, NoLeaseAssumption DEF Holds
    <3>3. ASSUME NEW x \in Runs, slotOf[q][x] # None PROVE slotOf[q][x].slot # i
      <4>1. slotOf[q][x] \in Held
        BY <3>3 DEF TypeOK
      <4>2. PICK j2 \in SlotNo, m2 \in Nat : slotOf[q][x].slot = j2 /\ slotOf[q][x].no = m2
        BY <4>1 DEF Held
      <4>3. Holds(j2, q, x, m2)
        BY <3>3, <4>2 DEF SlotsHeld, MapsTo
      <4>4. QED BY <2>1, <3>1, <4>2, <4>3 DEF Holds
    <3>4. QED BY <2>1, <2>5, <3>1, <3>2, <3>3 DEF HeldCase
  <2>6. QED BY <2>3, <2>4, <2>5
<1>6. ASSUME NEW s \in Stations, NEW r \in Runs, NEW k \in Tokens, SlotClaimed(s, r, k)
      PROVE  HeldCase(q, i, p, n)'
  <2>1. TickClaims(s, r) /\ UNCHANGED <<slots, up>>
    BY <1>6 DEF SlotClaimed
  <2>2. PICK j \in SlotNo, m \in Nat : /\ ClaimsWith(s, j, r, m)
                                        /\ SlotTaken(s) = [slot |-> j, no |-> m] /\ SlotTaken(s) # None
    BY <2>1, HeldClaims
  <2>3. slotOf' = [slotOf EXCEPT ![s][r] = SlotTaken(s)]
    BY <1>6, <2>2 DEF SlotClaimed
  <2>4. ClaimsWith(q, i, p, n)' => q # s /\ ClaimsWith(q, i, p, n)
    BY <2>1 DEF ClaimsWith, TickClaims
  <2>5. q # s => slotOf'[q] = slotOf[q]
    BY <2>3 DEF TypeOK
  <2>6. MapsTo(q, i, p, n)' => MapsTo(q, i, p, n) \/ ClaimsWith(q, i, p, n)
    <3>1. CASE q = s /\ p = r
      <4>1. slotOf'[q][p] = [slot |-> j, no |-> m]
        BY <2>2, <2>3, <3>1 DEF TypeOK
      <4>2. slotOf'[q][p].slot = j /\ slotOf'[q][p].no = m
        BY <4>1
      <4>3. QED BY <2>2, <3>1, <4>2 DEF MapsTo
    <3>2. CASE ~(q = s /\ p = r)
      <4>1. slotOf'[q][p] = slotOf[q][p]
        BY <2>3, <3>2 DEF TypeOK
      <4>2. QED BY <4>1 DEF MapsTo
    <3>3. QED BY <3>1, <3>2
  <2>7. Holds(i, q, p, n) => Holds(i, q, p, n)'
    BY <2>1 DEF Holds
  <2>8. QED BY <1>1, <2>1, <2>4, <2>5, <2>6, <2>7 DEF HeldCase
<1>7. ASSUME NEW s \in Stations, NEW r \in Runs, SlotLost(s, r) PROVE HeldCase(q, i, p, n)'
  <2>1. TickClaims(s, r) /\ slots' = Released(s, r, SlotTaken(s)) /\ UNCHANGED <<slotOf, tracked, up>>
    BY <1>7 DEF SlotLost, MapsStay
  <2>2. PICK j \in SlotNo, m \in Nat : /\ ClaimsWith(s, j, r, m)
                                        /\ SlotTaken(s) = [slot |-> j, no |-> m] /\ SlotTaken(s) # None
    BY <2>1, HeldClaims
  <2>3. PICK h \in Held \cup {None} : h = SlotTaken(s) /\ h.slot = j /\ h.no = m
    BY <2>2 DEF Held
  <2>4. ClaimsWith(q, i, p, n)' => q # s /\ ClaimsWith(q, i, p, n)
    BY <2>1 DEF ClaimsWith, TickClaims
  <2>5. MapsTo(q, i, p, n)' => MapsTo(q, i, p, n)
    BY <2>1 DEF MapsTo
  <2>6. ASSUME Holds(i, q, p, n), MapsTo(q, i, p, n) \/ q # s PROVE Holds(i, q, p, n)'
    <3>1. slots'[i] = slots[i]
      <4>1. slots' = Released(s, r, h)
        BY <2>1, <2>3
      <4>2. ASSUME i = j, HeldBy(i, s, r, m) PROVE FALSE
        <5>1. q = s
          BY <2>6, <4>2 DEF Holds, HeldBy
        <5>2. slotOf[s][p] # None => slotOf[s][p].slot # j
          BY <2>2 DEF SlotsHeld
        <5>3. QED BY <2>6, <4>2, <5>1, <5>2 DEF MapsTo
      <4>3. QED BY <2>3, <4>1, <4>2, LostSlot
    <3>2. QED BY <2>6, <3>1, HoldsStay
  <2>7. QED BY <1>1, <2>1, <2>4, <2>5, <2>6 DEF HeldCase
<1>8. ASSUME NEW s \in Stations, NEW r \in Runs, NEW k \in Tokens, SlotFreed(s, r, k)
      PROVE  HeldCase(q, i, p, n)'
  <2>1. /\ slots' = Released(s, r, slotOf[s][r]) /\ slotOf' = [slotOf EXCEPT ![s][r] = None]
        /\ UNCHANGED <<up, tick>>
    BY <1>8 DEF SlotFreed, ReleaseSlot
  <2>2. PICK h \in Held \cup {None} : h = slotOf[s][r]
    BY DEF TypeOK
  <2>3. ClaimsWith(q, i, p, n)' => ClaimsWith(q, i, p, n)
    BY <2>1 DEF ClaimsWith
  <2>4. MapsTo(q, i, p, n)' => MapsTo(q, i, p, n) /\ ~(q = s /\ p = r)
    BY <2>1 DEF MapsTo, TypeOK
  <2>5. \A x \in Runs : slotOf'[q][x] \in {None, slotOf[q][x]}
    BY <2>1 DEF TypeOK
  <2>6. ASSUME Holds(i, q, p, n), ClaimsWith(q, i, p, n) \/ ~(q = s /\ p = r) PROVE Holds(i, q, p, n)'
    <3>1. slots' = Released(s, r, h)
      BY <2>1, <2>2
    <3>2. ASSUME h # None, i = h.slot, HeldBy(i, s, r, h.no) PROVE FALSE
      <4>1. q = s /\ p = r
        BY <2>6, <3>2 DEF Holds, HeldBy
      <4>2. QED BY <1>1, <2>2, <2>6, <3>2, <4>1 DEF HeldCase
    <3>3. slots'[i] = slots[i]
      BY <3>1, <3>2, LostSlot
    <3>4. QED BY <2>6, <3>3, HoldsStay
  <2>7. QED BY <1>1, <2>1, <2>3, <2>4, <2>5, <2>6 DEF HeldCase
<1>9. ASSUME NEW s \in Stations, Crash(s) PROVE HeldCase(q, i, p, n)'
  <2>1. CASE q = s
    <3>1. slotOf'[q][p] = None /\ tick'[q].pc # "claim"
      BY <1>9, <2>1, TickPlaces DEF Crash, TypeOK, IdleTick
    <3>2. QED BY <3>1 DEF HeldCase, MapsTo, ClaimsWith
  <2>2. CASE q # s
    <3>1. slotOf'[q] = slotOf[q] /\ tick'[q] = tick[q] /\ (q \in up => q \in up')
      BY <1>9, <2>2 DEF Crash, TypeOK
    <3>2. Holds(i, q, p, n) => slots'[i] = slots[i]
      BY <1>9, <2>2 DEF Crash, Holds
    <3>3. QED BY <1>1, <3>1, <3>2, HoldsStay DEF HeldCase, MapsTo, ClaimsWith
  <2>3. QED BY <2>1, <2>2
<1>10. ASSUME NEW s \in Stations, Restart(s) PROVE HeldCase(q, i, p, n)'
  BY <1>1, <1>10 DEF Restart, HeldCase, MapsTo, ClaimsWith, Holds
<1>11. QED
  BY <1>3, <1>4, <1>5, <1>6, <1>7, <1>8, <1>9, <1>10 DEF SlotsMove

LEMMA TrackedKept ==
  ASSUME OneAttempt, SlotLimit > 0, TypeOK, Ticks, RowsCoherent, Procs, MapsCoherent, SlotsHeld, SlotsMove,
         NEW q \in Stations, NEW p \in Runs
  PROVE  tracked'[q][p] # None => slotOf'[q][p] # None
<1>1. tracked[q][p] # None => slotOf[q][p] # None
  BY DEF SlotsHeld
<1>2. CASE MapsStay
  BY <1>1, <1>2 DEF MapsStay
<1>3. ASSUME NEW s \in Stations, NEW r \in Runs, NEW k \in Tokens, SlotClaimed(s, r, k)
      PROVE  tracked'[q][p] # None => slotOf'[q][p] # None
  <2>1. SlotTaken(s) # None
    BY <1>3, HeldClaims DEF SlotClaimed
  <2>2. QED BY <1>1, <1>3, <2>1 DEF SlotClaimed, TypeOK
<1>4. ASSUME NEW s \in Stations, NEW r \in Runs, NEW k \in Tokens, SlotFreed(s, r, k)
      PROVE  tracked'[q][p] # None => slotOf'[q][p] # None
  <2>1. slotOf' = [slotOf EXCEPT ![s][r] = None] /\ Untrack(s, r, k)
    BY <1>4 DEF SlotFreed, ReleaseSlot
  <2>2. CASE q = s /\ p = r
    <3>1. k \in 1..runs[r].attempts /\ runs[r].attempts \in Nat /\ runs[r].attempts <= 1
      BY <1>4, RunnerAssumption, NoneAssumption, ProcsFit
         DEF SlotFreed, ProcFits, RowsCoherent, OneAttempt, TypeOK, Row
    <3>2. tracked[s][r] # None => tracked[s][r] = k
      BY <3>1 DEF MapsCoherent
    <3>3. tracked'[s][r] = None
      BY <2>1, <3>2 DEF Untrack, TypeOK
    <3>4. QED BY <2>2, <3>3
  <2>3. CASE ~(q = s /\ p = r)
    BY <1>1, <2>1, <2>3 DEF Untrack, TypeOK
  <2>4. QED BY <2>2, <2>3
<1>5. ASSUME NEW s \in Stations, Crash(s) \/ Restart(s)
      PROVE  tracked'[q][p] # None => slotOf'[q][p] # None
  <2>1. CASE Crash(s)
    BY <1>1, <2>1 DEF Crash, TypeOK
  <2>2. CASE Restart(s)
    BY <1>1, <2>2 DEF Restart
  <2>3. QED BY <1>5, <2>1, <2>2
<1>6. QED
  BY <1>2, <1>3, <1>4, <1>5 DEF SlotsMove, SlotsQuiet, SlotTimed, SlotAcquired, SlotLost

HeldInv == SlotInv /\ SlotsHeld

LEMMA InitHeld == Init => SlotsHeld
<1> SUFFICES ASSUME Init, NEW s \in Stations, NEW r \in Runs
             PROVE  tick[s].pc # "claim" /\ slotOf[s][r] = None /\ tracked[s][r] = None
  BY ZenonT(60) DEF SlotsHeld, MapsTo, ClaimsWith
<1>1. tick[s] = IdleTick
  BY DEF Init
<1>2. QED BY <1>1 DEF Init, IdleTick

LEMMA NextHeld ==
  OneAttempt /\ ~LeasesLapse /\ SlotLimit > 0 /\ HeldInv /\ [Next]_vars => HeldInv'
<1> SUFFICES ASSUME OneAttempt, ~LeasesLapse, SlotLimit > 0, HeldInv, [Next]_vars PROVE HeldInv'
  OBVIOUS
<1>1. TypeOK /\ Ticks /\ RowsCoherent /\ Procs /\ MapsCoherent /\ SlotsHeld
  BY DEF HeldInv, SlotInv, FleetInv, TypeOK, Ticks, Procs
<1>2. SlotsMove
  BY <1>1, StepSlotsMove
<1>3. SlotInv'
  BY NextSlotsKnown DEF HeldInv
<1>4. \A s \in Stations : /\ \A i \in SlotNo, r \in Runs, n \in Nat : HeldCase(s, i, r, n)'
                          /\ \A r \in Runs : tracked'[s][r] # None => slotOf'[s][r] # None
  BY <1>1, <1>2, HeldKept, TrackedKept
<1>5. SlotsHeld'
  BY <1>4 DEF SlotsHeld, HeldCase
<1>6. QED BY <1>3, <1>5 DEF HeldInv

(* Each attempt in execution holds a slot, and no two hold the same one.   *)
SlotUsed(c) == slotOf[proc[c[1]][c[2]].at][c[1]].slot

LEMMA SlotsUsed ==
  ASSUME HeldInv, NEW c \in InExecution
  PROVE  /\ SlotUsed(c) \in SlotNo
         /\ HeldBy(SlotUsed(c), proc[c[1]][c[2]].at, c[1], slotOf[proc[c[1]][c[2]].at][c[1]].no)
         /\ runs[c[1]].token = c[2]
<1>1. PICK r \in Runs, k \in Tokens : c = <<r, k>>
  BY DEF InExecution
<1>2. /\ proc[r][k].at \in up /\ up \subseteq Stations /\ Owns(runs[r], k)
      /\ tracked[proc[r][k].at][r] = k
  BY <1>1 DEF InExecution, HeldInv, SlotInv, FleetInv, TypeOK
<1>3. PICK s \in Stations : s = proc[r][k].at
  BY <1>2
<1>4. slotOf[s][r] # None /\ slotOf[s][r] \in Held
  BY <1>2, <1>3, NoneAssumption DEF HeldInv, SlotInv, FleetInv, TypeOK, SlotsHeld
<1>5. PICK i \in SlotNo, n \in Nat : slotOf[s][r].slot = i /\ slotOf[s][r].no = n
  BY <1>4 DEF Held
<1>6. HeldBy(i, s, r, n)
  BY <1>4, <1>5 DEF HeldInv, SlotsHeld, MapsTo, Holds, HeldBy
<1>7. QED BY <1>1, <1>2, <1>3, <1>5, <1>6 DEF SlotUsed, Owns

LEMMA SlotsBound == SlotLimit > 0 /\ HeldInv => NetworkConcurrency
<1> SUFFICES ASSUME SlotLimit > 0, HeldInv PROVE Cardinality(InExecution) <= SlotLimit
  BY DEF NetworkConcurrency
<1> DEFINE f == [c \in InExecution |-> SlotUsed(c)]
<1>1. f \in [InExecution -> SlotNo]
  BY SlotsUsed
<1>2. ASSUME NEW c \in InExecution, NEW d \in InExecution, SlotUsed(c) = SlotUsed(d) PROVE c = d
  <2>1. c[1] = d[1]
    BY <1>2, SlotsUsed DEF HeldBy
  <2>2. c[2] = d[2]
    BY <2>1, SlotsUsed
  <2>3. QED BY <2>1, <2>2 DEF InExecution
<1>3. f \in Injection(InExecution, SlotNo)
  BY <1>1, <1>2 DEF Injection, IsInjective
<1>4. IsFiniteSet(SlotNo) /\ Cardinality(SlotNo) = SlotLimit
  <2>1. SlotLimit \in Int /\ 1 \in Int /\ ~(1 > SlotLimit)
    BY RunnerAssumption
  <2>2. IsFiniteSet(1..SlotLimit) /\ Cardinality(1..SlotLimit) = SlotLimit - 1 + 1
    BY <2>1, FS_Interval
  <2>3. QED BY <2>1, <2>2 DEF SlotNo
<1> HIDE DEF f
<1>5. QED BY <1>3, <1>4, FS_Injection

(* While leases lapse only when nobody renews them, the fleet never has    *)
(* more attempts of a signal in execution than it declares, whichever      *)
(* stations hold, lose, renew and free the slots, and whichever crash.     *)
THEOREM NetworkLimit ==
  OneAttempt /\ ~LeasesLapse /\ SlotLimit > 0 => (Spec => []NetworkConcurrency)
<1> SUFFICES ASSUME OneAttempt, ~LeasesLapse, SlotLimit > 0 PROVE Spec => []NetworkConcurrency
  OBVIOUS
<1>1. Init => HeldInv
  BY InitSlots, InitFleetInv, InitHeld DEF HeldInv, SlotInv
<1>2. HeldInv /\ [Next]_vars => HeldInv'
  BY NextHeld
<1>3. HeldInv => NetworkConcurrency
  BY SlotsBound
<1>4. QED BY <1>1, <1>2, <1>3, PTL DEF Spec
=============================================================================
