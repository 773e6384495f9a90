------------------------- MODULE ScheduleReconciler -------------------------
(***************************************************************************)
(* One stored schedule and the reconcilers of the control-plane processes  *)
(* that poll it: each lists the due schedules, claims the occurrence with  *)
(* a compare-and-set on nextRunAt, applies the misfire and overlap         *)
(* policies and triggers the target.  Operators enable, disable, change    *)
(* and delete the schedule meanwhile, and a reconciler may crash between   *)
(* any two of its calls.                                                   *)
(*                                                                         *)
(* Time is a number of ticks.  The lastRun* fields, which nothing reads    *)
(* back, are left out.                                                     *)
(***************************************************************************)
EXTENDS Naturals, FiniteSets

CONSTANTS
  Reconcilers,  \* the processes that poll the store
  Rules,        \* the rules a schedule may have: [every, at], see below
  Policies,     \* [overlap, misfire] of the schedules considered
  Grace,        \* misfireGraceMs
  MaxTime,      \* bound on time
  Horizon,      \* no occurrence after it is computed
  MaxEvents     \* bound on changes by operators, crashes and failing calls

Times == 0..Horizon

(* every > 0: an interval.  every = 0: a cron expression, at = its minutes. *)
ASSUME ScheduleAssumption ==
  /\ IsFiniteSet(Reconcilers)
  /\ Rules \subseteq [every : Nat, at : SUBSET Nat]
  /\ Policies \subseteq [overlap : {"allow", "skip"},
                         misfire : {"skip", "fire-once", "catch-up"}]
  /\ Grace \in Nat /\ MaxTime \in Nat /\ Horizon \in Nat /\ MaxEvents \in Nat

VARIABLES
  now,       \* the clock
  policy,    \* the schedule's policies
  sched,     \* the stored schedule
  job,       \* reconciler -> where its tick stands, and the schedule it listed
  fired,     \* history: occurrence -> how often the target was triggered for it
  live,      \* runs of the target that are pending or running
  swept,     \* history: when an occurrence was last claimed
  blind,     \* history: an overlap check failed and was ignored
  events

history == <<fired, swept, blind>>
scheduleVars == <<now, policy, sched, job, live, history, events>>

(* nextScheduleOccurrence, and the loop that repeats it until it is past   *)
(* `bound`: the first occurrence after both.                               *)
Follows(rule, from, t) ==
  t > from /\ IF rule.every > 0 THEN (t - from) % rule.every = 0 ELSE t \in rule.at
NextAfter(rule, from, bound, t) ==
  /\ t \in Times /\ Follows(rule, from, t) /\ t > bound
  /\ \A u \in Times : Follows(rule, from, u) /\ u > bound => t <= u

Idle == [pc |-> "idle", next |-> 0, rule |-> CHOOSE rule \in Rules : TRUE]
Job  == [pc : {"idle", "listed", "check", "trigger", "down"}, next : Times, rule : Rules]
Schedule == [there : BOOLEAN, enabled : BOOLEAN, rule : Rules, next : Times]

ScheduleInit ==
  /\ now = 0 /\ policy \in Policies
  /\ \E rule \in Rules, t \in Times :
       /\ NextAfter(rule, 0, 0, t)
       /\ sched = [there |-> TRUE, enabled |-> TRUE, rule |-> rule, next |-> t]
  /\ job = [r \in Reconcilers |-> Idle]
  /\ fired = [o \in Times |-> 0] /\ live = 0 /\ swept = 0 /\ blind = FALSE
  /\ events = 0

Step(r, pc, next) == job[r].pc = pc /\ job' = [job EXCEPT ![r].pc = next]
Event == events < MaxEvents /\ events' = events + 1

-----------------------------------------------------------------------------
(* tick(): list({due: true}) returns a copy of the schedule.               *)
List(r) ==
  /\ job[r].pc = "idle"
  /\ sched.there /\ sched.enabled /\ sched.next <= now
  /\ job' = [job EXCEPT ![r] = [pc |-> "listed", next |-> sched.next, rule |-> sched.rule]]
  /\ UNCHANGED <<now, policy, sched, live, history, events>>

(* fireOne(): the new nextRunAt is computed from the copy; the claim       *)
(* succeeds if the stored one is still the copy's.                         *)
ClaimableEnabled(copy) == sched.there /\ sched.enabled   \* deviation: any nextRunAt will do
Claimable(copy) == sched.there /\ sched.enabled /\ sched.next = copy.next
NewNextOnly(copy, t) == NextAfter(copy.rule, copy.next, copy.next, t)   \* deviation: missed ones stay due
NewNext(copy, t) ==
  NextAfter(copy.rule, copy.next, IF policy.misfire = "catch-up" THEN copy.next ELSE now, t)
Misfired(copy) == policy.misfire = "skip" /\ now - copy.next > Grace
AfterClaim(copy) == IF Misfired(copy) THEN "idle"                  \* skipped:misfire
                    ELSE IF policy.overlap = "skip" THEN "check" ELSE "trigger"

Claim(r) ==
  /\ Claimable(job[r])
  /\ \E t \in Times : NewNext(job[r], t) /\ sched' = [sched EXCEPT !.next = t]
  /\ Step(r, "listed", AfterClaim(job[r]))
  /\ swept' = now
  /\ UNCHANGED <<now, policy, fired, live, blind, events>>
ClaimLostRetried(r) ==           \* deviation: the stale copy is tried for ever
  ~Claimable(job[r]) /\ job[r].pc = "listed" /\ UNCHANGED scheduleVars
ClaimLost(r) ==
  /\ ~Claimable(job[r])
  /\ Step(r, "listed", "idle")
  /\ UNCHANGED <<now, policy, sched, live, history, events>>

(* hasPendingOrRunning: when it fails, the target is triggered anyway.     *)
CheckIgnored(r) ==               \* deviation: the answer is not looked at
  /\ Step(r, "check", "trigger")
  /\ UNCHANGED <<now, policy, sched, live, history, events>>
Check(r) ==
  /\ Step(r, "check", IF live > 0 THEN "idle" ELSE "trigger")   \* skipped:overlap
  /\ UNCHANGED <<now, policy, sched, live, history, events>>
CheckFails(r) ==
  /\ Step(r, "check", "trigger") /\ Event
  /\ blind' = TRUE
  /\ UNCHANGED <<now, policy, sched, fired, live, swept>>

Trigger(r) ==
  /\ Step(r, "trigger", "idle")
  /\ fired' = [fired EXCEPT ![job[r].next] = @ + 1]
  /\ live' = live + 1
  /\ UNCHANGED <<now, policy, sched, swept, blind, events>>
TriggerFails(r) ==               \* "errored"; the occurrence is not tried again
  /\ Step(r, "trigger", "idle") /\ Event
  /\ UNCHANGED <<now, policy, sched, live, history>>

Crash(r) ==
  /\ job[r].pc \notin {"idle", "down"} /\ Event
  /\ job' = [job EXCEPT ![r] = [Idle EXCEPT !.pc = "down"]]
  /\ UNCHANGED <<now, policy, sched, live, history>>
Restart(r) ==
  /\ Step(r, "down", "idle")
  /\ UNCHANGED <<now, policy, sched, live, history, events>>

-----------------------------------------------------------------------------
(* PATCH and DELETE /schedules/:id.  A new rule moves nextRunAt; enabling  *)
(* the schedule does not.                                                  *)
Edit == Event /\ sched.there /\ UNCHANGED <<now, policy, job, live, history>>
Toggle == Edit /\ sched' = [sched EXCEPT !.enabled = ~@]
ChangeRule ==
  /\ Edit
  /\ \E rule \in Rules, t \in Times :
       NextAfter(rule, now, now, t) /\ sched' = [sched EXCEPT !.rule = rule, !.next = t]
Delete == Edit /\ sched' = [sched EXCEPT !.there = FALSE]

(* The target, and time.                                                   *)
RunEnds ==
  /\ live > 0 /\ live' = live - 1
  /\ UNCHANGED <<now, policy, sched, job, history, events>>
Tick ==
  /\ now < MaxTime /\ now' = now + 1
  /\ UNCHANGED <<policy, sched, job, live, history, events>>

Reconcile(r) == \/ List(r) \/ Claim(r) \/ ClaimLost(r) \/ Check(r) \/ CheckFails(r)
                \/ Trigger(r) \/ TriggerFails(r) \/ Restart(r)
ScheduleNext == \/ \E r \in Reconcilers : Reconcile(r) \/ Crash(r)
        \/ Toggle \/ ChangeRule \/ Delete \/ RunEnds \/ Tick

ScheduleSpec == ScheduleInit /\ [][ScheduleNext]_scheduleVars

(* Ticks of the runner's loop recur, and its calls return.                 *)
ScheduleFairness == \A r \in Reconcilers : WF_scheduleVars(Reconcile(r))

-----------------------------------------------------------------------------
\* The shape of every variable.
ScheduleTypeOK ==
  /\ now \in 0..MaxTime /\ policy \in Policies /\ sched \in Schedule
  /\ job \in [Reconcilers -> Job] /\ fired \in [Times -> Nat]
  /\ live \in Nat /\ swept \in Nat /\ blind \in BOOLEAN
  /\ events \in 0..MaxEvents

\* "Two workers can't both fire the same schedule" (the comment on the class):
\* the target is triggered at most once for an occurrence, whoever listed it,
\* whatever operators changed in between, and whoever crashed.
AtMostOnce == \A o \in Times : fired[o] <= 1

\* Occurrences missed while nobody polled are not made up for one by one: once
\* an occurrence is claimed, the next one lies in the future of that claim,
\* unless the schedule asks to catch up.
NoBurst == policy.misfire # "catch-up" => sched.next > swept \/ swept = 0

\* With overlapPolicy "skip" the runs of the target that overlap are no more
\* than the reconcilers that decide at the same time: one, if there is one.
OverlapBounded ==
  policy.overlap = "skip" /\ ~blind => live <= Cardinality(Reconcilers)

\* An enabled schedule that is due does not stay due.
Due == sched.there /\ sched.enabled /\ sched.next <= now
DueIsClaimed == Due ~> ~Due
=============================================================================
