---------------------------- MODULE SignalRunner ----------------------------
(***************************************************************************)
(* The signal runners of a fleet of stations sharing one queue and one     *)
(* table of controller leases: the poll tick of each station, cut at every *)
(* await between whose two sides another actor can run; the child process  *)
(* of each attempt; the message, error and exit handlers the runner hangs  *)
(* on that child; cancellation; and the crash of a station.                *)
(*                                                                         *)
(* A claim's leaseToken is a fresh UUID.  Claims of one run are numbered   *)
(* by run.attempts and a token is only ever compared for one run, so the   *)
(* token of the k-th claim of a run is written k, and its child process is *)
(* proc[r][k].                                                             *)
(*                                                                         *)
(* Time is abstracted to flags set by actions of their own: a lease has    *)
(* expired (live = FALSE), an attempt has exceeded run.timeout (late).     *)
(*                                                                         *)
(* Where a read is followed by a conditional update that re-checks all the *)
(* read found, the two are one step (cancel, lease renewal); everywhere    *)
(* else a value read before an await is kept and used after it.            *)
(***************************************************************************)
EXTENDS RunRecords, FiniteSets

CONSTANTS Runs,           \* run ids; a smaller id was created earlier
          MaxAttempts,    \* run.maxAttempts, per run
          MaxConcurrent,  \* options.maxConcurrent of every station
          SlotLimit,      \* signal.networkConcurrency, 0 when undeclared
          Unfit,          \* <<station, run>> where the station does not know the
                          \* run's signal, or lacks an environment variable
          Reports,        \* the results a child may send
          Cancellable,    \* runs an operator may cancel
          Mortal,         \* stations that may crash
          MaxCrashes,     \* bound on crashes
          LeasesLapse     \* whether a lease may expire although it is renewed

ASSUME RunnerAssumption ==
  /\ Runs \subseteq Nat /\ Cancellable \subseteq Runs
  /\ MaxAttempts \in [Runs -> Nat \ {0}]
  /\ \A r \in Runs : 1..MaxAttempts[r] \subseteq Tokens
  /\ MaxConcurrent \in Nat \ {0} /\ SlotLimit \in Nat /\ MaxCrashes \in Nat
  /\ Unfit \subseteq Stations \X Runs /\ Mortal \subseteq Stations
  /\ LeasesLapse \in BOOLEAN /\ Reports \subseteq {"completed", "failed", "fatal"}

VARIABLES
  runs,     \* the queue: run id -> row
  slots,    \* controller leases of the signal: slot -> lease or None
  up,       \* stations whose process is running
  tick,     \* station -> where its tick() stands, and its local variables
  tracked,  \* childByRunId: station -> run -> attempt or None
  active,   \* activeCount
  slotOf,   \* networkSlotByRunId: station -> run -> slot lease or None
  proc,     \* run -> attempt -> the attempt's child process and its handlers
  credit,   \* history: run -> the attempt whose result completed it, or 0
  crashes

station == <<up, tick, tracked, active, slotOf>>
history == <<credit, crashes>>
vars == <<runs, slots, station, proc, credit, crashes>>

SlotNo == 1..SlotLimit

-----------------------------------------------------------------------------
(* One child process and the runner's handlers on it.                      *)
(*   at   the station that spawned it                                      *)
(*   os   "up"; "down": exited, exit event not handled; "gone": handled,   *)
(*        or its station crashed and nobody listens any more               *)
(*   msg  a result it sent that is not handled yet: run:completed,         *)
(*        run:failed (retryable), or run:failed with retryable = false     *)
(*   h    its handlers: "idle"; "grace": exit seen, 200 ms wait for a late *)
(*        message; "done"; or the patch about to be written to the row:    *)
(*        "completed", "pending" (a retry), "failed"                       *)
(*   reap ensureExit was called: it will be SIGTERMed, then SIGKILLed      *)
Patches == {"completed", "pending", "failed"}
NoProc == [at |-> None, os |-> "none", msg |-> "none", h |-> "done", reap |-> FALSE]
GoneProc == [NoProc EXCEPT !.os = "gone"]
Spawned(s) == [NoProc EXCEPT !.at = s, !.os = "up", !.h = "idle"]
Proc == [at : Stations \cup {None}, os : {"none", "up", "down", "gone"},
         msg : Reports \cup {"none"}, h : Patches \cup {"idle", "grace", "done"},
         reap : BOOLEAN]

(* A process whose exit and result have both been dealt with is forgotten. *)
Tidy(p) == IF p.h = "done" /\ p.os = "gone" THEN GoneProc ELSE p

(* ensureExit: a no-op on a process that has exited or is being reaped. *)
EnsureExit(p) == IF p.os = "up" THEN [p EXCEPT !.reap = TRUE] ELSE p

(* ensureExit on whatever childByRunId holds for r at station s, if anything. *)
LeaveTracked(s, r) == proc   \* deviation: the child is not killed
ReapTracked(s, r) ==
  IF tracked[s][r] = None THEN proc
  ELSE [proc EXCEPT ![r][tracked[s][r]] = EnsureExit(@)]

TrackedRuns(s) == {r \in Runs : tracked[s][r] # None}
Oldest(R) == CHOOSE r \in R : \A q \in R : r <= q

SlotLease == [station : Stations, run : Runs, no : Nat, live : BOOLEAN]
Held      == [slot : SlotNo, no : Nat]

ASSUME NoLeaseAssumption == None \notin SlotLease \cup Held \cup Nat
ASSUME NoClaimAssumption == None \notin (Runs \X Tokens) \cup [run : Runs, attempt : Nat]

(* releaseControllerLease: only if it still carries this holder and token. *)
HoldsSlot(s, r, h) ==
  slots[h.slot] # None /\ slots[h.slot].station = s
                       /\ slots[h.slot].run = r /\ slots[h.slot].no = h.no
Released(s, r, h) ==
  IF h # None /\ HoldsSlot(s, r, h) THEN [slots EXCEPT ![h.slot] = None] ELSE slots

(* releaseNetworkSlot(run.id) at station s: the map's entry, then the lease. *)
ReleaseSlot(s, r) ==
  /\ slotOf' = [slotOf EXCEPT ![s][r] = None]
  /\ slots' = Released(s, r, slotOf[s][r])

TickState == [pc : {"idle", "renew", "slotRenewing", "timeouts", "timingOut", "due", "slot", "claim"},
              todo : SUBSET Runs, run : Runs \cup {None}, saw : Nat \cup {None},
              slot : SlotNo \cup {None}, fresh : SUBSET SlotNo]
IdleTick == [pc |-> "idle", todo |-> {}, run |-> None, saw |-> None,
             slot |-> None, fresh |-> {}]

Init ==
  /\ runs    = [r \in Runs |-> AbsentRow]
  /\ slots   = [i \in SlotNo |-> None]
  /\ up      = Stations
  /\ tick    = [s \in Stations |-> IdleTick]
  /\ tracked = [s \in Stations |-> [r \in Runs |-> None]]
  /\ active  = [s \in Stations |-> 0]
  /\ slotOf  = [s \in Stations |-> [r \in Runs |-> None]]
  /\ proc    = [r \in Runs |-> [k \in Tokens |-> NoProc]]
  /\ credit  = [r \in Runs |-> 0]
  /\ crashes = 0

-----------------------------------------------------------------------------
(* Callers.  trigger() enqueues the runs in order of creation.             *)
Trigger(r) ==
  /\ runs[r].status = "absent"
  /\ \A q \in Runs : q < r => runs[q].status # "absent"
  /\ runs' = [runs EXCEPT ![r] = PendingRow]
  /\ UNCHANGED <<slots, station, proc, history>>

(* cancel(): cancelRun re-checks what getRun read, so the two are one      *)
(* step; the child is killed only if this very station runs it.            *)
Cancel(s, r) ==
  /\ s \in up /\ r \in Cancellable /\ runs[r].status \in Live
  /\ runs' = [runs EXCEPT ![r] = Cancelled(@)]
  /\ proc' = ReapTracked(s, r)
  /\ UNCHANGED <<slots, station, history>>

-----------------------------------------------------------------------------
(* tick(): requeueExpiredRuns, then renew the lease of every tracked child *)
At(s, label) == s \in up /\ tick[s].pc = label
Goto(s, label) == tick' = [tick EXCEPT ![s].pc = label]
Resume(s, label) == tick' = [tick EXCEPT ![s] = [@ EXCEPT !.pc = label, !.run = None, !.saw = None]]
NextRun(s, r, label, value) ==
  tick' = [tick EXCEPT ![s] = [@ EXCEPT !.pc = label, !.todo = tick[s].todo \ {r},
                                        !.run = r, !.saw = value]]
Drop(s, r) == tick' = [tick EXCEPT ![s].todo = @ \ {r}]

(* Date.now() is read once here; "fresh" are the slot leases it finds      *)
(* unexpired.  Every run lease it finds expired is recovered.              *)
TickStart(s) ==
  /\ At(s, "idle")
  /\ runs' = [r \in Runs |-> IF Lapsed(runs[r]) THEN Recovered(runs[r], MaxAttempts[r])
                                                ELSE runs[r]]
  /\ tick' = [tick EXCEPT ![s] =
                [IdleTick EXCEPT !.pc = "renew", !.todo = TrackedRuns(s),
                   !.fresh = {i \in SlotNo : slots[i] # None /\ slots[i].live}]]
  /\ UNCHANGED <<slots, up, tracked, active, slotOf, proc, history>>

(* For the next run still tracked: getRun, then renewRunLease with the     *)
(* token it shows, or the child is killed.  renewRunLease repeats every    *)
(* test; its expiry test is against the tick's own "now", by which every   *)
(* expired lease was just requeued, so it cannot fail.                     *)
LeaseRenew(s) ==
  /\ At(s, "renew")
  /\ \E r \in tick[s].todo \cap TrackedRuns(s) :
       /\ IF runs[r].station = s /\ Owns(runs[r], runs[r].token) /\ runs[r].token # None
          THEN runs' = [runs EXCEPT ![r] = Renewed(@)] /\ UNCHANGED proc
          ELSE proc' = ReapTracked(s, r) /\ UNCHANGED runs
       /\ IF slotOf[s][r] # None THEN NextRun(s, r, "slotRenewing", None) ELSE Drop(s, r)
  /\ UNCHANGED <<slots, up, tracked, active, slotOf, history>>

SlotRenew(s) ==
  /\ At(s, "slotRenewing")
  /\ LET r == tick[s].run
         h == slotOf[s][r]
         renewed == /\ h # None /\ HoldsSlot(s, r, h)
                    /\ slots[h.slot].live \/ h.slot \in tick[s].fresh
     IN  IF renewed THEN slots' = [slots EXCEPT ![h.slot].live = TRUE] /\ UNCHANGED proc
                    ELSE proc' = ReapTracked(s, r) /\ UNCHANGED slots
  /\ Resume(s, "renew")
  /\ UNCHANGED <<runs, up, tracked, active, slotOf, history>>

-----------------------------------------------------------------------------
(* checkTimeouts(): a snapshot of the running runs, of which it handles    *)
(* this station's overdue ones.                                            *)
RenewalDone(s) == At(s, "renew") /\ tick[s].todo \cap TrackedRuns(s) = {}

TimeoutScan(s) ==
  /\ RenewalDone(s)
  /\ tick' = [tick EXCEPT ![s] = [IdleTick EXCEPT !.pc = "timeouts",
       !.todo = {r \in Runs : /\ runs[r].status = "running" /\ runs[r].station \in {s, None}
                              /\ runs[r].late}]]
  /\ UNCHANGED <<runs, slots, up, tracked, active, slotOf, proc, history>>

(* Without children the sweep runs only every ORPHAN_SWEEP_INTERVAL_MS. *)
TimeoutSweepSkipped(s) ==
  /\ RenewalDone(s) /\ TrackedRuns(s) = {}
  /\ tick' = [tick EXCEPT ![s] = [IdleTick EXCEPT !.pc = "timeouts"]]
  /\ UNCHANGED <<runs, slots, up, tracked, active, slotOf, proc, history>>

(* Kill the child, then read the run again: "current". *)
TimeoutRead(s) ==
  /\ At(s, "timeouts")
  /\ \E r \in tick[s].todo :
       /\ proc' = ReapTracked(s, r)
       /\ IF runs[r].status = "running" THEN NextRun(s, r, "timingOut", runs[r].token)
                                        ELSE Drop(s, r)
  /\ UNCHANGED <<runs, slots, up, tracked, active, slotOf, history>>

(* updateOwnedRun(current, ...): with the token, and the attempt number,   *)
(* that "current" had.                                                     *)
TimeoutWriteUnfenced(s) ==   \* deviation: a plain updateRun
  /\ At(s, "timingOut")
  /\ runs' = [runs EXCEPT ![tick[s].run] =
                 IF tick[s].saw < MaxAttempts[tick[s].run] THEN Retried(@) ELSE Failed(@)]
  /\ Resume(s, "timeouts")
  /\ UNCHANGED <<slots, up, tracked, active, slotOf, proc, history>>
TimeoutWrite(s) ==
  /\ At(s, "timingOut")
  /\ LET r == tick[s].run
         k == tick[s].saw
     IN  runs' = IF Owns(runs[r], k)
                 THEN [runs EXCEPT ![r] = IF k < MaxAttempts[r] THEN Retried(@) ELSE Failed(@)]
                 ELSE runs
  /\ Resume(s, "timeouts")
  /\ UNCHANGED <<slots, up, tracked, active, slotOf, proc, history>>
-----------------------------------------------------------------------------
(* tick(): claim due runs.  canClaim() is the station's drain switch, which *)
(* another component owns: it may answer no at any tick.                    *)
TimeoutsDone(s) == At(s, "timeouts") /\ tick[s].todo = {}

ClaimGateClosed(s) ==
  /\ TimeoutsDone(s)
  /\ tick' = [tick EXCEPT ![s] = IdleTick]
  /\ UNCHANGED <<runs, slots, up, tracked, active, slotOf, proc, history>>

(* The rest R of the snapshot getRunsDue returned; with none left, the tick *)
(* is over.                                                                *)
Consider(s, R) ==
  tick' = [tick EXCEPT ![s] = IF R = {} THEN IdleTick
                                        ELSE [IdleTick EXCEPT !.pc = "due", !.todo = R]]

DueScan(s) ==
  /\ TimeoutsDone(s)
  /\ Consider(s, {r \in Runs : runs[r].status = "pending"})
  /\ UNCHANGED <<runs, slots, up, tracked, active, slotOf, proc, history>>

(* activeCount >= maxConcurrent: the tick ends. *)
StationFull(s) ==
  /\ At(s, "due") /\ active[s] >= MaxConcurrent
  /\ Consider(s, {})
  /\ UNCHANGED <<runs, slots, up, tracked, active, slotOf, proc, history>>

NextDue(s, r) == At(s, "due") /\ active[s] < MaxConcurrent /\ r = Oldest(tick[s].todo)
Rest(s, r) == Consider(s, tick[s].todo \ {r})

(* Labels, per-signal concurrency, retry back-off, or an unreachable env    *)
(* store make the tick leave this run for a later one.                      *)
SkipDue(s) ==
  /\ \E r \in Runs : NextDue(s, r) /\ Rest(s, r)
  /\ UNCHANGED <<runs, slots, up, tracked, active, slotOf, proc, history>>

(* The station cannot execute the run: updateRun sets the status alone, of  *)
(* whatever the row has become since getRunsDue.                            *)
FailUnfit(s) ==
  /\ \E r \in Runs :
       /\ NextDue(s, r) /\ Rest(s, r) /\ <<s, r>> \in Unfit
       /\ runs' = [runs EXCEPT ![r].status = "failed"]
  /\ UNCHANGED <<slots, up, tracked, active, slotOf, proc, history>>

(* acquireNetworkSlot tries one slot after the other.  A lease is denied    *)
(* while another holder or token has it unexpired; the lease token is new   *)
(* for each claim, written here as the number of the next attempt.          *)
SlotTry(s, r) ==
  /\ SlotLimit > 0 /\ <<s, r>> \notin Unfit
  /\ NextDue(s, r) \/ (At(s, "slot") /\ r = tick[s].run)
SlotTried(s) == IF tick[s].pc = "slot" THEN tick[s].slot ELSE 1
SlotExpired(s) ==   \* deviation: the expiry test is inverted
  LET lease == slots[SlotTried(s)] IN lease # None /\ ~lease.live
SlotBusy(s)  == LET lease == slots[SlotTried(s)] IN lease # None /\ lease.live

AcquireSlot(s) ==
  /\ \E r \in Runs :
       LET i == SlotTried(s)
           n == runs[r].attempts + 1
       IN  /\ SlotTry(s, r) /\ ~SlotBusy(s)
           /\ slots' = [slots EXCEPT ![i] = [station |-> s, run |-> r, no |-> n, live |-> TRUE]]
           /\ tick' = [tick EXCEPT ![s] = [@ EXCEPT !.pc = "claim", !.run = r,
                                              !.slot = i, !.saw = n]]
  /\ UNCHANGED <<runs, up, tracked, active, slotOf, proc, history>>

SlotDenied(s) ==
  /\ \E r \in Runs :
       /\ SlotTry(s, r) /\ SlotBusy(s)
       /\ IF SlotTried(s) < SlotLimit
          THEN tick' = [tick EXCEPT ![s] = [@ EXCEPT !.pc = "slot", !.run = r,
                                              !.slot = SlotTried(s) + 1]]
          ELSE Rest(s, r)
  /\ UNCHANGED <<runs, slots, up, tracked, active, slotOf, proc, history>>

(* Without network concurrency the claim needs nothing but the run's id     *)
(* from the snapshot.                                                       *)
ReadyToClaim(s, r) ==
  \/ SlotLimit = 0 /\ <<s, r>> \notin Unfit /\ NextDue(s, r)
  \/ At(s, "claim") /\ r = tick[s].run
SlotTaken(s) == IF tick[s].slot = None THEN None
                ELSE [slot |-> tick[s].slot, no |-> tick[s].saw]

(* claimRun wins, and the child is dispatched in the same breath: a child   *)
(* of an earlier attempt still tracked for the run is handed to the reaper. *)
ClaimWon(s) ==
  /\ \E r \in Runs :
       LET k == runs[r].attempts + 1 IN
       /\ ReadyToClaim(s, r) /\ Rest(s, r)
       /\ runs[r].status = "pending"
       /\ runs' = [runs EXCEPT ![r] = Claimed(@, s, k)]
       /\ active' = [active EXCEPT ![s] = @ + 1]
       /\ tracked' = [tracked EXCEPT ![s][r] = k]
       /\ slotOf' = IF SlotTaken(s) = None THEN slotOf
                    ELSE [slotOf EXCEPT ![s][r] = SlotTaken(s)]
       /\ proc' = [ReapTracked(s, r) EXCEPT ![r][k] = Spawned(s)]
  /\ UNCHANGED <<slots, up, history>>

(* Another station won, or the run is no longer pending: give the slot back. *)
ClaimLostKeepingSlot(s) ==   \* deviation: the slot is not given back
  /\ \E r \in Runs :
       /\ ReadyToClaim(s, r) /\ Rest(s, r)
       /\ runs[r].status # "pending"
  /\ UNCHANGED <<runs, slots, up, tracked, active, slotOf, proc, history>>
ClaimLost(s) ==
  /\ \E r \in Runs :
       /\ ReadyToClaim(s, r) /\ Rest(s, r)
       /\ runs[r].status # "pending"
       /\ slots' = Released(s, r, SlotTaken(s))
  /\ UNCHANGED <<runs, up, tracked, active, slotOf, proc, history>>

-----------------------------------------------------------------------------
(* The child process, and the runner's handlers on it.                     *)
Listening(r, k) == proc[r][k].at \in up

Report(r, k, m) ==
  /\ proc[r][k].os = "up" /\ proc[r][k].msg = "none" /\ proc[r][k].h = "idle"
  /\ proc' = [proc EXCEPT ![r][k].msg = m]
  /\ UNCHANGED <<runs, slots, station, history>>

(* Done, crashed, or killed. *)
Exit(r, k) ==
  /\ proc[r][k].os = "up"
  /\ proc' = [proc EXCEPT ![r][k].os = "down"]
  /\ UNCHANGED <<runs, slots, station, history>>

Untrack(s, r, k) ==
  tracked' = IF tracked[s][r] = k THEN [tracked EXCEPT ![s][r] = None] ELSE tracked
Uncount(s) == active' = [active EXCEPT ![s] = IF @ > 0 THEN @ - 1 ELSE 0]

(* on("error"): the process could not be spawned.  The run stays "running". *)
ErrorEvent(r, k) ==
  LET p == proc[r][k] IN
  /\ Listening(r, k) /\ p.os = "up" /\ p.h = "idle" /\ p.msg = "none" /\ ~p.reap
  /\ proc' = [proc EXCEPT ![r][k] = Tidy([@ EXCEPT !.os = "gone", !.h = "done"])]
  /\ Uncount(p.at) /\ Untrack(p.at, r, k) /\ ReleaseSlot(p.at, r)
  /\ UNCHANGED <<runs, up, tick, history>>

(* on("message") with a result: count, untrack, reap and free the slot at   *)
(* once; then getRun, which stops here if the run is cancelled or failed.   *)
(* A failure is retried while the attempts read leave budget.               *)
MessageEventWithoutReap(r, k) ==   \* deviation: a resolved child is not reaped
  LET p == proc[r][k] IN
  /\ Listening(r, k) /\ p.msg # "none"
  /\ Uncount(p.at) /\ Untrack(p.at, r, k) /\ ReleaseSlot(p.at, r)
  /\ proc' = [proc EXCEPT ![r][k] = Tidy([@ EXCEPT !.h = "done", !.msg = "none"])]
  /\ UNCHANGED <<runs, up, tick, history>>
MessageEvent(r, k) ==
  LET p == proc[r][k]
      patch == CASE runs[r].status \in {"cancelled", "failed"} -> "done"
                 [] p.msg = "completed" -> "completed"
                 [] p.msg = "failed" /\ runs[r].attempts < MaxAttempts[r] -> "pending"
                 [] OTHER -> "failed"
  IN
  /\ Listening(r, k) /\ p.msg # "none"
  /\ Uncount(p.at) /\ Untrack(p.at, r, k) /\ ReleaseSlot(p.at, r)
  /\ proc' = [proc EXCEPT ![r][k] = Tidy([EnsureExit(@) EXCEPT !.h = patch, !.msg = "none"])]
  /\ UNCHANGED <<runs, up, tick, history>>

(* on("exit"): untrack, free the slot; without a result so far, wait 200 ms. *)
ExitEventRecounting(r, k) ==     \* deviation: a resolved child is counted again
  LET p == proc[r][k] IN
  /\ Listening(r, k) /\ p.os = "down"
  /\ Untrack(p.at, r, k) /\ ReleaseSlot(p.at, r)
  /\ IF p.h = "idle" THEN UNCHANGED active ELSE Uncount(p.at)
  /\ proc' = [proc EXCEPT ![r][k] =
                Tidy([@ EXCEPT !.os = "gone", !.h = IF p.h = "idle" THEN "grace" ELSE p.h])]
  /\ UNCHANGED <<runs, up, tick, history>>
ExitEventKeepingSlot(r, k) ==    \* deviation: the slot is not given back
  LET p == proc[r][k] IN
  /\ Listening(r, k) /\ p.os = "down"
  /\ Untrack(p.at, r, k)
  /\ proc' = [proc EXCEPT ![r][k] =
                Tidy([@ EXCEPT !.os = "gone", !.h = IF p.h = "idle" THEN "grace" ELSE p.h])]
  /\ UNCHANGED <<runs, slots, slotOf, up, tick, active, history>>
ExitEvent(r, k) ==
  LET p == proc[r][k] IN
  /\ Listening(r, k) /\ p.os = "down"
  /\ Untrack(p.at, r, k) /\ ReleaseSlot(p.at, r)
  /\ proc' = [proc EXCEPT ![r][k] =
                Tidy([@ EXCEPT !.os = "gone", !.h = IF p.h = "idle" THEN "grace" ELSE p.h])]
  /\ UNCHANGED <<runs, up, tick, active, history>>

(* The grace period ends with no message: count, then getRun.  A message    *)
(* sent before the exit is taken to arrive within the 200 ms.               *)
GraceOver(r, k) ==
  LET p == proc[r][k]
      patch == CASE runs[r].status # "running" -> "done"
                 [] runs[r].attempts < MaxAttempts[r] -> "pending"
                 [] OTHER -> "failed"
  IN
  /\ Listening(r, k) /\ p.h = "grace" /\ p.msg = "none"
  /\ Uncount(p.at)
  /\ proc' = [proc EXCEPT ![r][k] = Tidy([@ EXCEPT !.h = patch])]
  /\ UNCHANGED <<runs, slots, up, tick, tracked, slotOf, history>>

(* updateOwnedRun(run, patch), with the token this attempt was claimed with. *)
HandlerWrite(r, k) ==
  LET p == proc[r][k]
      patched == CASE p.h = "completed" -> Completed(runs[r])
                   [] p.h = "pending"   -> Retried(runs[r])
                   [] p.h = "failed"    -> Failed(runs[r])
  IN
  /\ Listening(r, k) /\ p.h \in Patches
  /\ runs' = IF Owns(runs[r], k) THEN [runs EXCEPT ![r] = patched] ELSE runs
  /\ credit' = IF Owns(runs[r], k) /\ p.h = "completed"
               THEN [credit EXCEPT ![r] = k] ELSE credit
  /\ proc' = [proc EXCEPT ![r][k] = Tidy([@ EXCEPT !.h = "done"])]
  /\ UNCHANGED <<slots, station, crashes>>

-----------------------------------------------------------------------------
(* Time, and the crash and restart of a station.  A station that is up      *)
(* renews the leases of the runs it tracks; LeasesLapse lets them expire    *)
(* all the same, as when the station is stalled or partitioned.             *)
Renewing(r) == runs[r].station \in up /\ tracked[runs[r].station][r] # None
SlotKept(i) ==
  LET s == slots[i].station
      r == slots[i].run
  IN  s \in up /\ (tick[s].slot = i \/ (slotOf[s][r] # None /\ slotOf[s][r].slot = i))

LeaseLapses(r) ==
  /\ LeasesLapse \/ ~Renewing(r)
  /\ runs[r].live
  /\ runs' = [runs EXCEPT ![r].live = FALSE]
  /\ UNCHANGED <<slots, station, proc, history>>

SlotLapses(i) ==
  /\ slots[i] # None /\ slots[i].live
  /\ LeasesLapse \/ ~SlotKept(i)
  /\ slots' = [slots EXCEPT ![i].live = FALSE]
  /\ UNCHANGED <<runs, station, proc, history>>

Overdue(r) ==
  /\ runs[r].status = "running" /\ ~runs[r].late
  /\ runs' = [runs EXCEPT ![r].late = TRUE]
  /\ UNCHANGED <<slots, station, proc, history>>

(* Everything in memory is lost, slot tokens included ("no" becomes 0);     *)
(* child processes live on unheard.  The rows and leases stay as they are.  *)
Crash(s) ==
  /\ s \in up \cap Mortal /\ crashes < MaxCrashes
  /\ crashes' = crashes + 1
  /\ up' = up \ {s}
  /\ tick' = [tick EXCEPT ![s] = IdleTick]
  /\ tracked' = [tracked EXCEPT ![s] = [r \in Runs |-> None]]
  /\ active' = [active EXCEPT ![s] = 0]
  /\ slotOf' = [slotOf EXCEPT ![s] = [r \in Runs |-> None]]
  /\ slots' = [i \in SlotNo |-> IF slots[i] # None /\ slots[i].station = s
                                 THEN [slots[i] EXCEPT !.no = 0] ELSE slots[i]]
  /\ proc' = [r \in Runs |-> [k \in Tokens |->
                IF proc[r][k].at = s THEN GoneProc ELSE proc[r][k]]]
  /\ UNCHANGED <<runs, credit>>

Restart(s) ==
  /\ s \notin up
  /\ up' = up \cup {s}
  /\ UNCHANGED <<runs, slots, tick, tracked, active, slotOf, proc, history>>

-----------------------------------------------------------------------------
TickStep(s) ==
  \/ TickStart(s) \/ LeaseRenew(s) \/ SlotRenew(s)
  \/ TimeoutScan(s) \/ TimeoutSweepSkipped(s) \/ TimeoutRead(s) \/ TimeoutWrite(s)
  \/ ClaimGateClosed(s) \/ DueScan(s) \/ StationFull(s) \/ SkipDue(s) \/ FailUnfit(s)
  \/ AcquireSlot(s) \/ SlotDenied(s) \/ ClaimWon(s) \/ ClaimLost(s)

HandlerStep(r, k) ==
  MessageEvent(r, k) \/ ExitEvent(r, k) \/ GraceOver(r, k) \/ HandlerWrite(r, k)

Next ==
  \/ \E r \in Runs : Trigger(r) \/ Overdue(r) \/ LeaseLapses(r)
  \/ \E i \in SlotNo : SlotLapses(i)
  \/ \E s \in Stations : TickStep(s) \/ Crash(s) \/ Restart(s)
  \/ \E s \in Stations, r \in Runs : Cancel(s, r)
  \/ \E r \in Runs, k \in Tokens :
        HandlerStep(r, k) \/ ErrorEvent(r, k) \/ Exit(r, k) \/ \E m \in Reports : Report(r, k, m)

Spec == Init /\ [][Next]_vars

-----------------------------------------------------------------------------
(* What is relied on to happen: the poll loop of a station that is up takes *)
(* its next step; the drain switch and the conditions that skip a run or a  *)
(* sweep do not hold for ever, so a sweep, a scan or a claim that is again  *)
(* and again possible is made (strong fairness); events of a live station's *)
(* children are delivered; the reaper ends a process it was given; time     *)
(* passes an attempt's timeout and a lease nobody renews.  Nothing is       *)
(* assumed of a child (it may hang, or report, or exit, or never have been  *)
(* spawned), of a crash, or of a restart while another station is up.       *)
Fairness ==
  /\ \A s \in Stations :
       /\ WF_vars(TickStep(s))
       /\ SF_vars(TimeoutScan(s)) /\ SF_vars(DueScan(s))
       /\ SF_vars(AcquireSlot(s) \/ ClaimWon(s)) /\ SF_vars(FailUnfit(s))
       /\ WF_vars(up = {} /\ Restart(s))
  /\ \A i \in SlotNo : WF_vars(slots[i] # None /\ ~SlotKept(i) /\ SlotLapses(i))
  /\ \A r \in Runs :
       /\ WF_vars(Overdue(r))
       /\ WF_vars(~Renewing(r) /\ LeaseLapses(r))
       /\ \A k \in Tokens : WF_vars(HandlerStep(r, k)) /\ WF_vars(proc[r][k].reap /\ Exit(r, k))

FairSpec == Spec /\ Fairness

-----------------------------------------------------------------------------
(* Rows, leases, tick positions and processes are well formed.              *)
TypeOK ==
  /\ runs \in [Runs -> Row]
  /\ slots \in [SlotNo -> SlotLease \cup {None}]
  /\ up \subseteq Stations
  /\ tick \in [Stations -> TickState]
  /\ tracked \in [Stations -> [Runs -> Tokens \cup {None}]]
  /\ active \in [Stations -> Nat]
  /\ slotOf \in [Stations -> [Runs -> Held \cup {None}]]
  /\ proc \in [Runs -> [Tokens -> Proc]]
  /\ credit \in [Runs -> Nat] /\ crashes \in 0..MaxCrashes

(* activeCount is decremented in three handlers that can interleave (error, *)
(* message, exit after its grace period); each attempt is counted until     *)
(* exactly one of them has resolved it, so the limit never drifts.          *)
Unresolved(s) == {c \in Runs \X Tokens : LET p == proc[c[1]][c[2]] IN
                                           p.at = s /\ p.h \in {"idle", "grace"}}
ActiveCountExact == \A s \in up : active[s] = Cardinality(Unresolved(s))

(* Nothing but childByRunId and the reaper ever ends a child: a process of  *)
(* a live station that is no longer the tracked child of its run, whichever *)
(* of retry, timeout, cancellation or result displaced it, is being reaped. *)
NoStrayProcess ==
  \A r \in Runs, k \in Tokens :
    LET p == proc[r][k] IN
    p.os = "up" /\ p.at \in up /\ tracked[p.at][r] # k => p.reap

(* A result is applied only to the attempt that produced it, whatever       *)
(* timeouts, recoveries and new claims happened while it was on its way.    *)
CompletedByLatestAttempt ==
  \A r \in Runs : runs[r].status = "completed" => credit[r] = runs[r].attempts

(* The inductive invariant of a station's part in all this: its tick holds  *)
(* what the next step of it needs; a running row carries the number of its  *)
(* latest attempt, within its budget; a process that is listened to belongs *)
(* to a station that is up and to an attempt that was made, has no result   *)
(* left unhandled once it is resolved, and asks for a retry within budget.  *)
TickCoherent ==
  \A s \in Stations :
    LET t == tick[s] IN
    /\ t.pc \in {"slotRenewing", "timingOut", "slot", "claim"} => t.run \in Runs
    /\ t.pc \in {"timingOut", "claim"} => t.saw \in Nat
    /\ t.slot # None <=> t.pc \in {"slot", "claim"}
RowsCoherent ==
  \A r \in Runs :
    LET row == runs[r] IN
    /\ row.status = "running" => row.token = row.attempts /\ row.attempts > 0
    /\ row.attempts <= MaxAttempts[r]
    /\ row.status = "pending" => row.attempts < MaxAttempts[r]
    /\ row.status = "absent" => row.attempts = 0
ProcsCoherent ==
  \A r \in Runs, k \in Tokens :
    LET p == proc[r][k] IN
    /\ p.at # None => p.at \in up /\ k \in 1..runs[r].attempts
    /\ p.msg # "none" => p.h \in {"idle", "grace"}
    /\ p.h = "pending" => k < MaxAttempts[r]
FleetInv ==
  /\ TypeOK
  /\ TickCoherent
  /\ RowsCoherent
  /\ ProcsCoherent
  /\ CompletedByLatestAttempt

(* networkConcurrency: never more attempts in execution in the fleet than   *)
(* the signal declares, counting the attempts that own their run, with an   *)
(* unexpired lease, in a process a live station still tracks.               *)
InExecution ==
  {c \in Runs \X Tokens :
     LET r == c[1]
         k == c[2]
         p == proc[r][k]
     IN  p.os = "up" /\ p.at \in up /\ tracked[p.at][r] = k /\ Owns(runs[r], k) /\ runs[r].live}
NetworkConcurrency == Cardinality(InExecution) <= SlotLimit

(* No slot is lost: a controller lease of a live station's claim is always  *)
(* known to it, by the tick that is about to claim or by the map that will  *)
(* release it when the child ends (runs of one attempt each).               *)
NoLeakedSlot ==
  \A i \in SlotNo :
    slots[i] # None /\ slots[i].station \in up /\ slots[i].no # 0 => SlotKept(i)

(* A run that completed, failed or was cancelled keeps that outcome,        *)
(* whatever a station still does with what it read of the run earlier.      *)
TerminalIsFinal ==
  [][\A r \in Runs : runs[r].status \in Terminal => runs'[r].status = runs[r].status]_vars

(* The fleet's use of the queue is use RunQueue allows, row by row: every   *)
(* update of a run is fenced by the token of the attempt that makes it.     *)
QueueRow(r) == [runs[r] EXCEPT !.token = IF @ = None THEN None ELSE <<r, @>>]
Queue == INSTANCE RunQueue
           WITH Tokens <- Runs \X Tokens,
                runs <- [r \in Runs |-> QueueRow(r)],
                granted <- [c \in Runs \X Tokens |->
                              IF c[2] \in 1..runs[c[1]].attempts
                              THEN [run |-> c[1], attempt |-> c[2]] ELSE None],
                credit <- credit
UsesQueueAsSpecified == Queue!Spec

(* Every run is settled in the end, although children hang or die, results  *)
(* are lost with a station, and retries start over.                         *)
EveryRunSettles ==
  \A r \in Runs : runs[r].status = "pending" ~> runs[r].status \in Terminal

(* The process of an attempt that lost its run, by cancellation, timeout or *)
(* recovery, does not execute for ever: again and again there is none (an   *)
(* attempt never regains its run, so one that stayed would be there always).*)
Fenced(r, k) == proc[r][k].os = "up" /\ proc[r][k].at \in up /\ ~Owns(runs[r], k)
FencedProcessesEnd == []<>(\A r \in Runs, k \in Tokens : ~Fenced(r, k))
=============================================================================
