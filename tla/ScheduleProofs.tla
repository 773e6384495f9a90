--------------------------- MODULE ScheduleProofs ---------------------------
(***************************************************************************)
(* Proofs about the schedule reconcilers, for any finite set of them, any  *)
(* rules and policies, and any bounds on time and on faults.               *)
(***************************************************************************)
EXTENDS ScheduleReconciler, FiniteSetTheorems, TLAPS

-----------------------------------------------------------------------------
(* Why an occurrence is not triggered twice: the occurrence a reconciler   *)
(* took but has not triggered yet is its alone and untriggered, and all    *)
(* the triggered and the taken ones lie behind both the clock and the      *)
(* stored nextRunAt, from which the next claim takes its occurrence.       *)
Took(r) == job[r].pc \in {"check", "trigger"}

Behind ==
  /\ \A o \in Times : fired[o] > 0 => o <= now /\ o < sched.next
  /\ \A r \in Reconcilers : job[r].pc = "listed" => job[r].next <= now
  /\ \A r \in Reconcilers : Took(r) => job[r].next <= now /\ job[r].next < sched.next
Exclusive ==
  /\ \A r \in Reconcilers : Took(r) => fired[job[r].next] = 0
  /\ \A r, q \in Reconcilers : Took(r) /\ Took(q) /\ r # q => job[r].next # job[q].next

(* Claims happen in the past, so a rule that is changed later moves        *)
(* nextRunAt beyond the last of them as well.                              *)
Swept == swept <= now /\ NoBurst

(* Under "skip" a reconciler about to trigger saw no live run, so runs and *)
(* reconcilers about to trigger are together no more than the reconcilers. *)
Triggering == {r \in Reconcilers : job[r].pc = "trigger"}
Bounded ==
  policy.overlap = "skip" /\ ~blind
    => live + Cardinality(Triggering) <= Cardinality(Reconcilers)

SInv == ScheduleTypeOK /\ AtMostOnce /\ Behind /\ Exclusive /\ Swept /\ Bounded

-----------------------------------------------------------------------------
LEMMA NextAfterFacts ==
  ASSUME NEW rule, NEW from, NEW bound, NEW t, NextAfter(rule, from, bound, t)
  PROVE  t \in Times /\ t \in Nat /\ t > from /\ t > bound
  BY ScheduleAssumption DEF NextAfter, Follows, Times

LEMMA IdleType == ASSUME NEW rule \in Rules PROVE Idle \in Job
<1>1. (CHOOSE x \in Rules : TRUE) \in Rules
  OBVIOUS
<1>2. 0 \in Times
  BY ScheduleAssumption DEF Times
<1>3. QED BY <1>1, <1>2 DEF Idle, Job

LEMMA InitInv == ScheduleInit => SInv
<1> SUFFICES ASSUME ScheduleInit PROVE SInv
  OBVIOUS
<1>1. PICK rule \in Rules, t \in Times :
         /\ NextAfter(rule, 0, 0, t)
         /\ sched = [there |-> TRUE, enabled |-> TRUE, rule |-> rule, next |-> t]
  BY DEF ScheduleInit
<1>2. \A r \in Reconcilers : job[r] = Idle /\ job[r].pc = "idle"
  BY DEF ScheduleInit, Idle
<1>3. ScheduleTypeOK
  <2>1. Idle \in Job
    BY <1>1, IdleType
  <2>2. job \in [Reconcilers -> Job]
    BY <2>1 DEF ScheduleInit
  <2>3. sched \in Schedule
    BY <1>1 DEF Schedule
  <2>4. fired \in [Times -> Nat]
    BY DEF ScheduleInit
  <2>5. now \in 0..MaxTime /\ events \in 0..MaxEvents
    BY ScheduleAssumption DEF ScheduleInit
  <2>6. policy \in Policies /\ live \in Nat /\ swept \in Nat /\ blind \in BOOLEAN
    BY DEF ScheduleInit
  <2>7. QED BY <2>2, <2>3, <2>4, <2>5, <2>6 DEF ScheduleTypeOK
<1>4. AtMostOnce /\ Behind /\ Exclusive /\ Swept
  BY <1>1, <1>2, <1>3 DEF ScheduleInit, AtMostOnce, Behind, Exclusive, Took, Swept, NoBurst
<1>5. Bounded
  <2>1. Triggering = {}
    BY <1>2 DEF Triggering
  <2>2. live + Cardinality(Triggering) = 0
    BY <2>1, FS_EmptySet DEF ScheduleInit
  <2>3. QED BY <2>2, FS_CardinalityType, ScheduleAssumption DEF Bounded
<1>6. QED BY <1>3, <1>4, <1>5 DEF SInv

-----------------------------------------------------------------------------
(* Types. *)
LEMMA StepType ==
  ASSUME ScheduleTypeOK, [ScheduleNext]_scheduleVars PROVE ScheduleTypeOK'
<1> USE DEF ScheduleTypeOK, history
<1>1. ASSUME NEW r \in Reconcilers, NEW pc, NEW next \in {"idle", "check", "trigger"},
             Step(r, pc, next)
      PROVE  job' \in [Reconcilers -> Job]
  BY <1>1 DEF Step, Job
<1>2. ASSUME NEW r \in Reconcilers, List(r) PROVE ScheduleTypeOK'
  <2>1. [pc |-> "listed", next |-> sched.next, rule |-> sched.rule] \in Job
    BY DEF Job, Schedule
  <2>2. QED BY <1>2, <2>1 DEF List
<1>3. ASSUME NEW r \in Reconcilers, Claim(r) PROVE ScheduleTypeOK'
  <2>1. PICK t \in Times : sched' = [sched EXCEPT !.next = t]
    BY <1>3 DEF Claim
  <2>2. sched' \in Schedule
    BY <2>1 DEF Schedule
  <2>3. AfterClaim(job[r]) \in {"idle", "check", "trigger"}
    BY DEF AfterClaim
  <2>4. job' \in [Reconcilers -> Job]
    BY <1>1, <1>3, <2>3 DEF Claim
  <2>5. swept' \in Nat
    BY <1>3, ScheduleAssumption DEF Claim
  <2>6. QED BY <1>3, <2>2, <2>4, <2>5 DEF Claim
<1>4. ASSUME NEW r \in Reconcilers,
             ClaimLost(r) \/ Check(r) \/ CheckFails(r) \/ TriggerFails(r) \/ Restart(r)
      PROVE  ScheduleTypeOK'
  <2>1. job' \in [Reconcilers -> Job]
    BY <1>1, <1>4 DEF ClaimLost, Check, CheckFails, TriggerFails, Restart
  <2>2. CASE ClaimLost(r) \/ Check(r) \/ Restart(r)
    BY <2>1, <2>2 DEF ClaimLost, Check, Restart
  <2>3. CASE CheckFails(r)
    BY <2>1, <2>3, ScheduleAssumption DEF CheckFails, Event
  <2>4. CASE TriggerFails(r)
    BY <2>1, <2>4, ScheduleAssumption DEF TriggerFails, Event
  <2>5. QED BY <1>4, <2>2, <2>3, <2>4
<1>5. ASSUME NEW r \in Reconcilers, Trigger(r) PROVE ScheduleTypeOK'
  <2>1. job' \in [Reconcilers -> Job]
    BY <1>1, <1>5 DEF Trigger
  <2>2. fired' \in [Times -> Nat]
    <3>1. job[r].next \in Times
      BY DEF Job
    <3>2. fired[job[r].next] + 1 \in Nat
      BY <3>1
    <3>3. QED BY <1>5, <3>2 DEF Trigger
  <2>3. QED BY <1>5, <2>1, <2>2 DEF Trigger
<1>6. ASSUME NEW r \in Reconcilers, Crash(r) PROVE ScheduleTypeOK'
  <2>1. Idle \in Job
    BY IdleType DEF Schedule
  <2>2. [Idle EXCEPT !.pc = "down"] \in Job
    BY <2>1 DEF Job
  <2>3. QED BY <1>6, <2>2, ScheduleAssumption DEF Crash, Event
<1>7. CASE Toggle
  <2>1. sched' \in Schedule
    BY <1>7 DEF Toggle, Schedule
  <2>2. QED BY <1>7, <2>1, ScheduleAssumption DEF Toggle, Edit, Event
<1>8. CASE ChangeRule
  <2>1. sched' \in Schedule
    BY <1>8 DEF ChangeRule, Schedule
  <2>2. QED BY <1>8, <2>1, ScheduleAssumption DEF ChangeRule, Edit, Event
<1>9. CASE Delete
  <2>1. sched' \in Schedule
    BY <1>9 DEF Delete, Schedule
  <2>2. QED BY <1>9, <2>1, ScheduleAssumption DEF Delete, Edit, Event
<1>10. CASE RunEnds
  BY <1>10 DEF RunEnds
<1>11. CASE Tick
  BY <1>11, ScheduleAssumption DEF Tick
<1>12. CASE UNCHANGED scheduleVars
  BY <1>12 DEF scheduleVars
<1>13. QED BY <1>2, <1>3, <1>4, <1>5, <1>6, <1>7, <1>8, <1>9, <1>10, <1>11, <1>12
       DEF ScheduleNext, Reconcile

-----------------------------------------------------------------------------
(* What a step of one reconciler does to the jobs. *)
LEMMA StepJobs ==
  ASSUME ScheduleTypeOK, NEW r \in Reconcilers, NEW from, NEW to, Step(r, from, to)
  PROVE  /\ job[r].pc = from
         /\ job'[r].pc = to /\ job'[r].next = job[r].next
         /\ \A q \in Reconcilers : q # r => job'[q] = job[q]
         /\ \A q \in Reconcilers : job'[q].next = job[q].next
  BY DEF Step, ScheduleTypeOK, Job

(* No occurrence twice. *)
LEMMA StepOnce ==
  ASSUME SInv, [ScheduleNext]_scheduleVars
  PROVE  AtMostOnce' /\ Behind' /\ Exclusive'
<1> USE DEF SInv
<1>0. /\ now \in Nat /\ sched.next \in Nat
      /\ \A o \in Times : o \in Nat /\ fired[o] \in Nat
      /\ \A r \in Reconcilers : job[r].next \in Times
  BY ScheduleAssumption DEF ScheduleTypeOK, Times, Schedule, Job
(* Steps after which the same or fewer occurrences are taken. *)
<1>1. ASSUME UNCHANGED <<fired, now>>, sched'.next >= sched.next \/ sched'.next > now,
             sched'.next \in Nat,
             \A q \in Reconcilers :
               /\ Took(q)' => Took(q)
               /\ Took(q)' \/ job'[q].pc = "listed" => job'[q].next = job[q].next
               /\ job'[q].pc = "listed" => job[q].pc = "listed"
      PROVE  AtMostOnce' /\ Behind' /\ Exclusive'
  <2>1. AtMostOnce'
    BY <1>1 DEF AtMostOnce
  <2>2. Behind'
    <3>1. ASSUME NEW o \in Times, fired'[o] > 0 PROVE o <= now' /\ o < sched'.next
      BY <1>0, <1>1, <3>1 DEF Behind
    <3>2. ASSUME NEW q \in Reconcilers, job'[q].pc = "listed" PROVE job'[q].next <= now'
      BY <1>1, <3>2 DEF Behind
    <3>3. ASSUME NEW q \in Reconcilers, Took(q)'
          PROVE  job'[q].next <= now' /\ job'[q].next < sched'.next
      BY <1>0, <1>1, <3>3 DEF Behind, Times
    <3>4. QED BY <3>1, <3>2, <3>3 DEF Behind
  <2>3. Exclusive'
    BY <1>1 DEF Exclusive
  <2>4. QED BY <2>1, <2>2, <2>3
<1>2. ASSUME NEW r \in Reconcilers, List(r) PROVE AtMostOnce' /\ Behind' /\ Exclusive'
  <2>1. /\ job'[r].pc = "listed" /\ job'[r].next = sched.next /\ sched.next <= now
        /\ \A q \in Reconcilers : q # r => job'[q] = job[q]
        /\ UNCHANGED <<fired, now, sched>>
    BY <1>2 DEF List, ScheduleTypeOK, history
  <2>2. \A q \in Reconcilers : Took(q)' => Took(q) /\ q # r
    BY <2>1 DEF Took
  <2>3. AtMostOnce'
    BY <2>1 DEF AtMostOnce
  <2>4. Behind'
    BY <2>1, <2>2 DEF Behind
  <2>5. Exclusive'
    BY <2>1, <2>2 DEF Exclusive
  <2>6. QED BY <2>3, <2>4, <2>5
<1>3. ASSUME NEW r \in Reconcilers, Claim(r) PROVE AtMostOnce' /\ Behind' /\ Exclusive'
  <2>1. PICK t \in Times : NewNext(job[r], t) /\ sched' = [sched EXCEPT !.next = t]
    BY <1>3 DEF Claim
  <2>2. t \in Nat /\ t > job[r].next
    BY <2>1, NextAfterFacts DEF NewNext
  <2>3. sched'.next = t /\ job[r].next = sched.next
    BY <1>3, <2>1 DEF Claim, Claimable, ScheduleTypeOK, Schedule
  <2>4. UNCHANGED <<fired, now>>
    BY <1>3 DEF Claim
  <2>5. /\ job[r].pc = "listed" /\ job'[r].pc # "listed" /\ job'[r].next = job[r].next
        /\ \A q \in Reconcilers : q # r => job'[q] = job[q]
    BY <1>3, StepJobs DEF Claim, AfterClaim
  <2>6. fired[job[r].next] = 0
    BY <1>0, <2>3 DEF Behind
  <2>7. ASSUME NEW q \in Reconcilers, Took(q)' PROVE q = r \/ (Took(q) /\ q # r)
    <3>1. CASE q # r
      <4>1. job'[q] = job[q]
        BY <2>5, <3>1
      <4>2. QED BY <2>7, <3>1, <4>1 DEF Took
    <3>2. QED BY <3>1
  <2>8. \A q \in Reconcilers : Took(q) => job[q].next < job[r].next
    BY <2>3 DEF Behind
  <2>9. AtMostOnce'
    BY <2>4 DEF AtMostOnce
  <2>10. Behind'
    <3>1. ASSUME NEW o \in Times, fired'[o] > 0 PROVE o <= now' /\ o < sched'.next
      <4>1. fired[o] > 0
        BY <2>4, <3>1
      <4>2. o <= now /\ o < sched.next
        BY <4>1 DEF Behind
      <4>3. QED BY <1>0, <2>2, <2>3, <2>4, <4>2
    <3>2. ASSUME NEW q \in Reconcilers, job'[q].pc = "listed" PROVE job'[q].next <= now'
      BY <2>4, <2>5, <3>2 DEF Behind
    <3>3. ASSUME NEW q \in Reconcilers, Took(q)'
          PROVE  job'[q].next <= now' /\ job'[q].next < sched'.next
      <4>1. CASE q = r
        BY <2>2, <2>3, <2>4, <2>5, <4>1 DEF Behind
      <4>2. CASE q # r
        <5>1. Took(q) /\ job'[q].next = job[q].next
          BY <2>5, <2>7, <3>3, <4>2
        <5>2. job[q].next <= now /\ job[q].next < job[r].next
          BY <2>8, <5>1 DEF Behind
        <5>3. job[q].next \in Nat /\ job[r].next \in Nat
          BY <1>0
        <5>4. QED BY <2>2, <2>3, <2>4, <5>1, <5>2, <5>3
      <4>3. QED BY <4>1, <4>2
    <3>4. QED BY <3>1, <3>2, <3>3 DEF Behind
  <2>11. Exclusive'
    <3>1. ASSUME NEW q \in Reconcilers, Took(q)' PROVE fired'[job'[q].next] = 0
      BY <2>4, <2>5, <2>6, <2>7, <3>1 DEF Exclusive
    <3>2. ASSUME NEW p \in Reconcilers, NEW q \in Reconcilers, Took(p)', Took(q)', p # q
          PROVE  job'[p].next # job'[q].next
      <4>1. \A x \in Reconcilers : job'[x].next = job[x].next /\ job[x].next \in Nat
        BY <1>0, <2>5
      <4>2. QED BY <2>7, <2>8, <3>2, <4>1 DEF Exclusive
    <3>3. QED BY <3>1, <3>2 DEF Exclusive
  <2>12. QED BY <2>9, <2>10, <2>11
<1>4. ASSUME NEW r \in Reconcilers,
             ClaimLost(r) \/ Check(r) \/ CheckFails(r) \/ TriggerFails(r) \/ Restart(r)
      PROVE  AtMostOnce' /\ Behind' /\ Exclusive'
  <2>1. UNCHANGED <<fired, now, sched>>
    BY <1>4 DEF ClaimLost, Check, CheckFails, TriggerFails, Restart, history
  <2>2. /\ \A q \in Reconcilers : q # r => job'[q] = job[q]
        /\ job'[r].next = job[r].next /\ job'[r].pc \in {"idle", "trigger"}
        /\ job'[r].pc = "trigger" => job[r].pc = "check"
    <3>1. PICK from \in {"listed", "check", "trigger", "down"}, to \in {"idle", "trigger"} :
             Step(r, from, to) /\ (to = "trigger" => from = "check")
      BY <1>4 DEF ClaimLost, Check, CheckFails, TriggerFails, Restart
    <3>2. QED BY <3>1, StepJobs
  <2>3. \A q \in Reconcilers : /\ Took(q)' => Took(q)
                               /\ job'[q].next = job[q].next
                               /\ job'[q].pc = "listed" => job[q].pc = "listed"
    BY <2>2 DEF Took
  <2>4. QED BY <1>0, <1>1, <2>1, <2>3
<1>5. ASSUME NEW r \in Reconcilers, Trigger(r) PROVE AtMostOnce' /\ Behind' /\ Exclusive'
  <2>1. /\ UNCHANGED <<now, sched>> /\ job[r].pc = "trigger" /\ job'[r].pc = "idle"
        /\ \A q \in Reconcilers : q # r => job'[q] = job[q]
    BY <1>5, StepJobs DEF Trigger
  <2>2. Took(r) /\ ~Took(r)' /\ job[r].next \in Times
    BY <1>0, <2>1 DEF Took
  <2>3. fired[job[r].next] = 0 /\ job[r].next <= now /\ job[r].next < sched.next
    BY <2>2 DEF Exclusive, Behind
  <2>4. /\ fired'[job[r].next] = 1
        /\ \A o \in Times : o # job[r].next => fired'[o] = fired[o]
    BY <1>5, <2>2, <2>3 DEF Trigger, ScheduleTypeOK
  <2>5. \A q \in Reconcilers : Took(q)' => q # r /\ Took(q) /\ job[q].next # job[r].next
    BY <2>1, <2>2 DEF Exclusive, Took
  <2>6. AtMostOnce'
    BY <2>4 DEF AtMostOnce
  <2>7. Behind'
    <3>1. ASSUME NEW o \in Times, fired'[o] > 0 PROVE o <= now' /\ o < sched'.next
      BY <2>1, <2>3, <2>4, <3>1 DEF Behind
    <3>2. ASSUME NEW q \in Reconcilers, job'[q].pc = "listed" PROVE job'[q].next <= now'
      BY <2>1, <3>2 DEF Behind
    <3>3. ASSUME NEW q \in Reconcilers, Took(q)'
          PROVE  job'[q].next <= now' /\ job'[q].next < sched'.next
      BY <2>1, <2>5, <3>3 DEF Behind
    <3>4. QED BY <3>1, <3>2, <3>3 DEF Behind
  <2>8. Exclusive'
    BY <1>0, <2>1, <2>4, <2>5 DEF Exclusive
  <2>9. QED BY <2>6, <2>7, <2>8
<1>6. ASSUME NEW r \in Reconcilers, Crash(r) PROVE AtMostOnce' /\ Behind' /\ Exclusive'
  <2>1. /\ UNCHANGED <<fired, now, sched>> /\ job'[r].pc = "down"
        /\ \A q \in Reconcilers : q # r => job'[q] = job[q]
    BY <1>6 DEF Crash, Idle, ScheduleTypeOK, history
  <2>2. QED BY <1>0, <1>1, <2>1 DEF Took
<1>7. CASE Toggle \/ Delete
  <2>1. UNCHANGED <<fired, now, job>> /\ sched'.next = sched.next
    BY <1>7 DEF Toggle, Delete, Edit, history, ScheduleTypeOK, Schedule
  <2>2. QED BY <1>0, <1>1, <2>1 DEF Took
<1>8. CASE ChangeRule
  <2>1. UNCHANGED <<fired, now, job>>
    BY <1>8 DEF ChangeRule, Edit, history
  <2>2. PICK rule \in Rules, t \in Times :
           NextAfter(rule, now, now, t) /\ sched' = [sched EXCEPT !.rule = rule, !.next = t]
    BY <1>8 DEF ChangeRule
  <2>3. sched'.next = t /\ t \in Nat /\ t > now
    BY <2>2, NextAfterFacts DEF ScheduleTypeOK, Schedule
  <2>4. QED BY <1>0, <1>1, <2>1, <2>3 DEF Took
<1>9. CASE RunEnds \/ UNCHANGED scheduleVars
  <2>1. UNCHANGED <<fired, now, sched, job>>
    BY <1>9 DEF RunEnds, scheduleVars, history
  <2>2. QED BY <1>0, <1>1, <2>1 DEF Took
<1>10. CASE Tick
  <2>1. UNCHANGED <<fired, sched, job>> /\ now' = now + 1
    BY <1>10 DEF Tick, history
  <2>2. \A q \in Reconcilers : Took(q)' <=> Took(q)
    BY <2>1 DEF Took
  <2>3. AtMostOnce' /\ Exclusive'
    BY <2>1, <2>2 DEF AtMostOnce, Exclusive
  <2>4. Behind'
    BY <1>0, <2>1, <2>2 DEF Behind, Times
  <2>5. QED BY <2>3, <2>4
<1>11. QED BY <1>2, <1>3, <1>4, <1>5, <1>6, <1>7, <1>8, <1>9, <1>10 DEF ScheduleNext, Reconcile

(* No burst. *)
LEMMA StepSwept == ASSUME SInv, [ScheduleNext]_scheduleVars PROVE Swept'
<1> USE DEF SInv
<1>0. now \in Nat /\ swept \in Nat /\ sched.next \in Nat
  BY ScheduleAssumption DEF ScheduleTypeOK, Times, Schedule
<1>1. ASSUME UNCHANGED <<swept, policy, now>>,
             sched'.next = sched.next \/ sched'.next > now, sched'.next \in Nat
      PROVE  Swept'
  BY <1>0, <1>1 DEF Swept, NoBurst
<1>2. ASSUME NEW r \in Reconcilers, Claim(r) PROVE Swept'
  <2>1. PICK t \in Times : NewNext(job[r], t) /\ sched' = [sched EXCEPT !.next = t]
    BY <1>2 DEF Claim
  <2>2. sched'.next = t /\ swept' = now /\ UNCHANGED <<policy, now>>
    BY <1>2, <2>1 DEF Claim, ScheduleTypeOK, Schedule
  <2>3. policy.misfire # "catch-up" => t > now
    BY <2>1, NextAfterFacts DEF NewNext
  <2>4. QED BY <1>0, <2>2, <2>3 DEF Swept, NoBurst
<1>3. ASSUME NEW r \in Reconcilers,
             \/ List(r) \/ ClaimLost(r) \/ Check(r) \/ CheckFails(r) \/ Trigger(r)
             \/ TriggerFails(r) \/ Restart(r) \/ Crash(r)
      PROVE  Swept'
  <2>1. UNCHANGED <<swept, policy, now, sched>>
    BY <1>3 DEF List, ClaimLost, Check, CheckFails, Trigger, TriggerFails, Restart, Crash, history
  <2>2. QED BY <1>0, <1>1, <2>1
<1>4. CASE Toggle \/ Delete
  <2>1. UNCHANGED <<swept, policy, now>> /\ sched'.next = sched.next
    BY <1>4 DEF Toggle, Delete, Edit, history, ScheduleTypeOK, Schedule
  <2>2. QED BY <1>0, <1>1, <2>1
<1>5. CASE ChangeRule
  <2>1. UNCHANGED <<swept, policy, now>>
    BY <1>5 DEF ChangeRule, Edit, history
  <2>2. PICK rule \in Rules, t \in Times :
           NextAfter(rule, now, now, t) /\ sched' = [sched EXCEPT !.rule = rule, !.next = t]
    BY <1>5 DEF ChangeRule
  <2>3. sched'.next = t /\ t \in Nat /\ t > now
    BY <2>2, NextAfterFacts DEF ScheduleTypeOK, Schedule
  <2>4. QED BY <1>1, <2>1, <2>3
<1>6. CASE RunEnds \/ UNCHANGED scheduleVars
  <2>1. UNCHANGED <<swept, policy, now, sched>>
    BY <1>6 DEF RunEnds, scheduleVars, history
  <2>2. QED BY <1>0, <1>1, <2>1
<1>7. CASE Tick
  BY <1>0, <1>7 DEF Tick, history, Swept, NoBurst
<1>8. QED BY <1>2, <1>3, <1>4, <1>5, <1>6, <1>7 DEF ScheduleNext, Reconcile

(* Overlapping runs.  Only Check brings a reconciler to trigger, and it     *)
(* does so when no run is live.                                             *)
LEMMA TriggeringFinite ==
  /\ IsFiniteSet(Triggering) /\ Cardinality(Triggering) \in Nat
  /\ IsFiniteSet(Triggering') /\ Cardinality(Triggering') \in Nat
  /\ Cardinality(Triggering') <= Cardinality(Reconcilers)
  /\ Cardinality(Reconcilers) \in Nat
<1>1. Triggering \in SUBSET Reconcilers /\ Triggering' \in SUBSET Reconcilers
  BY DEF Triggering
<1>2. QED BY <1>1, FS_Subset, FS_CardinalityType, ScheduleAssumption

LEMMA StepBounded ==
  ASSUME SInv, [ScheduleNext]_scheduleVars PROVE Bounded'
<1> USE DEF SInv
<1>0. live \in Nat /\ blind \in BOOLEAN
  BY DEF ScheduleTypeOK
<1>1. ASSUME UNCHANGED <<policy, blind>>, live' \in Nat, live' <= live,
             \A q \in Reconcilers : job'[q].pc = "trigger" => job[q].pc = "trigger"
      PROVE  Bounded'
  <2>1. Triggering' \in SUBSET Triggering
    BY <1>1 DEF Triggering
  <2>2. Cardinality(Triggering') <= Cardinality(Triggering)
    BY <2>1, TriggeringFinite, FS_Subset
  <2>3. QED BY <1>0, <1>1, <2>2, TriggeringFinite DEF Bounded
<1>2. ASSUME NEW r \in Reconcilers, List(r) PROVE Bounded'
  <2>1. /\ UNCHANGED <<policy, blind, live>>
        /\ \A q \in Reconcilers : job'[q].pc = "trigger" => job[q].pc = "trigger"
    BY <1>2 DEF List, history, ScheduleTypeOK
  <2>2. QED BY <1>0, <1>1, <2>1
<1>3. ASSUME NEW r \in Reconcilers, Claim(r) PROVE Bounded'
  <2>1. UNCHANGED <<policy, blind, live>>
    BY <1>3 DEF Claim
  <2>2. CASE policy.overlap = "skip"
    <3>1. job'[r].pc # "trigger" /\ \A q \in Reconcilers : q # r => job'[q] = job[q]
      BY <1>3, <2>2, StepJobs DEF Claim, AfterClaim
    <3>2. \A q \in Reconcilers : job'[q].pc = "trigger" => job[q].pc = "trigger"
      BY <3>1
    <3>3. QED BY <1>0, <1>1, <2>1, <3>2
  <2>3. CASE policy.overlap # "skip"
    BY <2>1, <2>3 DEF Bounded
  <2>4. QED BY <2>2, <2>3
<1>4. ASSUME NEW r \in Reconcilers, ClaimLost(r) \/ TriggerFails(r) \/ Restart(r)
      PROVE  Bounded'
  <2>1. UNCHANGED <<policy, blind, live>>
    BY <1>4 DEF ClaimLost, TriggerFails, Restart, history
  <2>2. job'[r].pc = "idle" /\ \A q \in Reconcilers : q # r => job'[q] = job[q]
    BY <1>4, StepJobs DEF ClaimLost, TriggerFails, Restart
  <2>3. \A q \in Reconcilers : job'[q].pc = "trigger" => job[q].pc = "trigger"
    BY <2>2
  <2>4. QED BY <1>0, <1>1, <2>1, <2>3
<1>5. ASSUME NEW r \in Reconcilers, Check(r) PROVE Bounded'
  <2>1. UNCHANGED <<policy, blind, live>>
    BY <1>5 DEF Check, history
  <2>2. CASE live > 0
    <3>1. job'[r].pc = "idle" /\ \A q \in Reconcilers : q # r => job'[q] = job[q]
      BY <1>5, <2>2, StepJobs DEF Check
    <3>2. \A q \in Reconcilers : job'[q].pc = "trigger" => job[q].pc = "trigger"
      BY <3>1
    <3>3. QED BY <1>0, <1>1, <2>1, <3>2
  <2>3. CASE live = 0
    BY <2>1, <2>3, TriggeringFinite DEF Bounded
  <2>4. QED BY <1>0, <2>2, <2>3
<1>6. ASSUME NEW r \in Reconcilers, CheckFails(r) PROVE Bounded'
  BY <1>6 DEF CheckFails, Bounded
<1>7. ASSUME NEW r \in Reconcilers, Trigger(r) PROVE Bounded'
  <2>1. UNCHANGED <<policy, blind>> /\ live' = live + 1
    BY <1>7 DEF Trigger
  <2>2. /\ job[r].pc = "trigger" /\ job'[r].pc = "idle"
        /\ \A q \in Reconcilers : q # r => job'[q] = job[q]
    BY <1>7, StepJobs DEF Trigger
  <2>3. Triggering' = Triggering \ {r} /\ r \in Triggering
    BY <2>2 DEF Triggering
  <2>4. Cardinality(Triggering') = Cardinality(Triggering) - 1
    BY <2>3, TriggeringFinite, FS_RemoveElement
  <2>5. QED BY <1>0, <2>1, <2>4, TriggeringFinite DEF Bounded
<1>8. ASSUME NEW r \in Reconcilers, Crash(r) PROVE Bounded'
  <2>1. /\ UNCHANGED <<policy, blind, live>> /\ job'[r].pc = "down"
        /\ \A q \in Reconcilers : q # r => job'[q] = job[q]
    BY <1>8 DEF Crash, Idle, ScheduleTypeOK, history
  <2>2. \A q \in Reconcilers : job'[q].pc = "trigger" => job[q].pc = "trigger"
    BY <2>1
  <2>3. QED BY <1>0, <1>1, <2>1, <2>2
<1>9. CASE Toggle \/ ChangeRule \/ Delete \/ Tick \/ UNCHANGED scheduleVars
  <2>1. UNCHANGED <<policy, blind, live, job>>
    BY <1>9 DEF Toggle, ChangeRule, Delete, Edit, Tick, scheduleVars, history
  <2>2. QED BY <1>0, <1>1, <2>1
<1>10. CASE RunEnds
  <2>1. UNCHANGED <<policy, blind, job>> /\ live' = live - 1 /\ live > 0
    BY <1>10 DEF RunEnds, history
  <2>2. QED BY <1>0, <1>1, <2>1
<1>11. QED BY <1>2, <1>3, <1>4, <1>5, <1>6, <1>7, <1>8, <1>9, <1>10 DEF ScheduleNext, Reconcile

-----------------------------------------------------------------------------
(* The inductive invariant holds in every reachable state. *)
THEOREM ScheduleInvariant == ScheduleSpec => []SInv
<1>1. ScheduleInit => SInv
  BY InitInv
<1>2. SInv /\ [ScheduleNext]_scheduleVars => SInv'
  <2> SUFFICES ASSUME SInv, [ScheduleNext]_scheduleVars PROVE SInv'
    OBVIOUS
  <2>1. ScheduleTypeOK'
    BY StepType DEF SInv
  <2>2. QED BY <2>1, StepOnce, StepSwept, StepBounded DEF SInv
<1>3. QED BY <1>1, <1>2, PTL DEF ScheduleSpec

(* The comment on the class, "two workers can't both fire the same          *)
(* schedule", for any number of them: no occurrence is triggered twice.     *)
THEOREM FiredAtMostOnce == ScheduleSpec => []AtMostOnce
<1>1. SInv => AtMostOnce
  BY DEF SInv
<1>2. QED BY <1>1, ScheduleInvariant, PTL

(* Missed occurrences are not made up for in a burst: nextRunAt lies beyond *)
(* the moment of the last claim unless the schedule is to catch up.         *)
THEOREM NoBurstAfterMisfire == ScheduleSpec => []NoBurst
<1>1. SInv => NoBurst
  BY DEF SInv, Swept
<1>2. QED BY <1>1, ScheduleInvariant, PTL

(* What overlapPolicy "skip" really bounds: as many overlapping runs as     *)
(* reconcilers, since the check and the trigger are two calls.              *)
THEOREM OverlapLimited == ScheduleSpec => []OverlapBounded
<1>1. SInv => OverlapBounded
  <2>1. SInv => live \in Nat /\ IsFiniteSet(Triggering) /\ Cardinality(Triggering) \in Nat
    BY TriggeringFinite DEF SInv, ScheduleTypeOK
  <2>2. QED BY <2>1, TriggeringFinite DEF SInv, Bounded, OverlapBounded
<1>2. QED BY <1>1, ScheduleInvariant, PTL
=============================================================================
