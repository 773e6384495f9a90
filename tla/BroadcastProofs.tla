--------------------------- MODULE BroadcastProofs ---------------------------
(***************************************************************************)
(* Proofs about a broadcast run, for every number of nodes, every set of   *)
(* graphs over them, cyclic ones too, every policy and any number of       *)
(* crashes.                                                                *)
(***************************************************************************)
EXTENDS BroadcastRunner, FiniteSetTheorems, TLAPS

Views == [Nodes -> Node]

-----------------------------------------------------------------------------
(* Positions.                                                              *)
LEMMA LeastMember ==
  ASSUME NEW S \in SUBSET Nat, S # {}
  PROVE  \E m \in S : \A n \in S : m <= n
<1>1. PICK m \in S : \A n \in S : <<n, m>> \notin OpToRel(<, Nat)
  BY WFMin, NatLessThanWellFounded, Zenon
<1>2. \A n \in S : ~(n < m)
  BY <1>1 DEF OpToRel
<1>3. QED BY <1>2

LEMMA FromLeast ==
  ASSUME NEW S \in SUBSET Nodes, NEW i \in 1..(N + 1)
  PROVE  /\ From(S, i) \in i..(N + 1)
         /\ From(S, i) <= N => From(S, i) \in S
         /\ \A m \in S : m >= i => From(S, i) <= m
<1> DEFINE T == {n \in S : n >= i}
<1>1. N \in Nat /\ Nodes = 1..N /\ i \in Nat
  BY BroadcastAssumption DEF Nodes
<1>2. CASE T = {}
  BY <1>1, <1>2 DEF From
<1>3. CASE T # {}
  <2>1. S \subseteq Nat /\ T \subseteq S
    BY <1>1
  <2>2. PICK m \in T : \A n \in T : m <= n
    BY <1>3, <2>1, LeastMember
  <2>3. (\E n \in S : n >= i) /\ m \in S /\ m >= i /\ \A l \in S : l >= i => m <= l
    BY <2>2
  <2>4. From(S, i) \in S /\ From(S, i) >= i /\ \A l \in S : l >= i => From(S, i) <= l
    BY <2>3 DEF From
  <2>5. From(S, i) \in Nodes
    BY <2>4
  <2>6. From(S, i) \in i..(N + 1)
    BY <1>1, <2>4, <2>5
  <2>7. QED BY <2>4, <2>6
<1>4. QED BY <1>2, <1>3

-----------------------------------------------------------------------------
(* Places.                                                                 *)
PlacePcs == {"idle", "unresolved", "start", "create", "expire", "advance", "collect", "skip",
             "trigger", "record", "finish", "stop", "skipNode", "swept", "nodes"}

LEMMA NoNodeRuns == /\ None \in Views /\ Missing \in Node
                    /\ \A n \in Nodes : None[n] = Missing /\ None[n].st = "missing" /\ None[n].run = 0
BY DEF None, Views, Node, Missing, NodeStatus

LEMMA PlaceFields ==
  ASSUME NEW pc \in PlacePcs, NEW v \in Views, NEW a \in 0..(N + 1), NEW f \in BOOLEAN
  PROVE  /\ Place(pc, v, a, f) \in Where /\ Place(pc, v, a, f).pc = pc
         /\ Place(pc, v, a, f).view = v /\ Place(pc, v, a, f).at = a
BY DEF Place, Where, Views, PlacePcs

At(pc, v, a) == Place(pc, v, a, FALSE)

LEMMA AtFields ==
  ASSUME NEW pc \in PlacePcs, NEW v \in Views, NEW a \in 0..(N + 1)
  PROVE  /\ At(pc, v, a) \in Where /\ At(pc, v, a).pc = pc
         /\ At(pc, v, a).view = v /\ At(pc, v, a).at = a
BY DEF At, Place, Where, Views, PlacePcs

LEMMA IdleFields ==
  /\ Idle \in Where /\ Idle.pc = "idle" /\ Idle.view = None /\ Idle.at = 0
  /\ \A pc \in PlacePcs : /\ [Idle EXCEPT !.pc = pc] \in Where
                          /\ [Idle EXCEPT !.pc = pc].pc = pc
                          /\ [Idle EXCEPT !.pc = pc].view = None
<1>1. Idle = At("idle", None, 0)
  BY DEF Idle, Place, At
<1>2. "idle" \in PlacePcs /\ 0 \in 0..(N + 1)
  BY BroadcastAssumption DEF PlacePcs
<1>3. Idle \in Where /\ Idle.pc = "idle" /\ Idle.view = None /\ Idle.at = 0
  BY <1>1, <1>2, NoNodeRuns, AtFields
<1>4. \A p \in Where, pc \in PlacePcs : /\ [p EXCEPT !.pc = pc] \in Where
                                       /\ [p EXCEPT !.pc = pc].pc = pc
                                       /\ [p EXCEPT !.pc = pc].view = p.view
                                       /\ [p EXCEPT !.pc = pc].at = p.at
  BY DEF Where, PlacePcs
<1>5. QED BY <1>3, <1>4

(* What a place may claim about its view. *)
Sound(p) ==
  /\ p.pc \in {"create", "collect", "trigger", "record", "stop", "skipNode"} => p.at \in Nodes
  /\ p.pc \in {"collect", "stop"} => p.view[p.at].st = "running" /\ p.view[p.at].run # 0
  /\ p.pc = "skipNode" => p.view[p.at].st \in Unresolved
  /\ p.pc \in {"trigger", "record"} => p.at \in Ready(p.view)
  /\ p.pc = "swept" => p.at = N + 1
  /\ p.pc = "finish" => Ended(p.view)

LEMMA SweepPlace ==
  ASSUME NEW v \in Views, NEW i \in 1..(N + 1), NEW p, p = Sweep(v, i)
  PROVE  /\ p \in Where /\ p.view = v /\ p.pc \in Sweeping /\ Sound(p)
         /\ p.at \in i..(N + 1) /\ \A m \in Nodes : i <= m /\ m < p.at => v[m].st \notin Unresolved
         /\ p.pc = "skipNode" => ~(v[p.at].st = "running" /\ v[p.at].run # 0)
<1> DEFINE n == From(ToSweep(v), i)
<1>1. N \in Nat /\ Nodes = 1..N /\ ToSweep(v) \in SUBSET Nodes
  BY BroadcastAssumption DEF Nodes, ToSweep
<1>2. /\ n \in i..(N + 1) /\ (n <= N => n \in ToSweep(v))
      /\ \A m \in ToSweep(v) : m >= i => n <= m
  BY <1>1, FromLeast
<1> HIDE DEF n
<1>3. n \in 0..(N + 1)
  BY <1>1, <1>2
<1>4. \A m \in Nodes : i <= m /\ m < n => v[m].st \notin Unresolved
  BY <1>1, <1>2 DEF ToSweep
<1>5. p = At(IF n > N THEN "swept"
                ELSE IF v[n].st = "running" /\ v[n].run # 0 THEN "stop" ELSE "skipNode", v, n)
  BY DEF Sweep, n, At
<1>6. CASE n > N
  <2>1. p = At("swept", v, n)
    BY <1>5, <1>6 DEF At
  <2>2. p \in Where /\ p.pc = "swept" /\ p.view = v /\ p.at = n
    BY <1>3, <2>1, AtFields DEF PlacePcs
  <2>3. p.at = N + 1
    BY <1>1, <1>2, <1>6, <2>2
  <2>4. QED BY <1>2, <1>4, <2>2, <2>3 DEF Sound, Sweeping
<1>7. CASE ~(n > N)
  <2>1. n \in Nodes /\ v[n].st \in Unresolved
    BY <1>1, <1>2, <1>7 DEF ToSweep
  <2>2. CASE v[n].st = "running" /\ v[n].run # 0
    <3>1. p = At("stop", v, n)
      BY <1>5, <1>7, <2>2 DEF At
    <3>2. p \in Where /\ p.pc = "stop" /\ p.view = v /\ p.at = n
      BY <1>3, <3>1, AtFields DEF PlacePcs
    <3>3. QED BY <1>2, <1>4, <2>1, <2>2, <3>2 DEF Sound, Sweeping
  <2>3. CASE ~(v[n].st = "running" /\ v[n].run # 0)
    <3>1. p = At("skipNode", v, n)
      BY <1>5, <1>7, <2>3 DEF At
    <3>2. p \in Where /\ p.pc = "skipNode" /\ p.view = v /\ p.at = n
      BY <1>3, <3>1, AtFields DEF PlacePcs
    <3>3. QED BY <1>2, <1>4, <2>1, <2>3, <3>2 DEF Sound, Sweeping
  <2>4. QED BY <2>2, <2>3
<1>8. QED BY <1>6, <1>7

(* A sweep that begins, and where a pass over a view may end up. *)
Sweeps(p, v) ==
  /\ p \in Where /\ Sound(p) /\ p.view = v /\ p.pc \in Sweeping
  /\ \A m \in Nodes : m < p.at => v[m].st \notin Unresolved
  /\ p.pc = "skipNode" => ~(v[p.at].st = "running" /\ v[p.at].run # 0)
Passed(p, v) ==
  /\ p \in Where /\ Sound(p)
  /\ \/ p = Idle
     \/ p.view = v /\ p.pc \in {"collect", "skip", "trigger", "finish"}
     \/ Sweeps(p, v) /\ policy = "fail-fast" /\ \E n \in Nodes : v[n].st = "failed"

LEMMA IdlePassed == \A v : Passed(Idle, v)
<1>1. Idle \in Where /\ Idle.pc = "idle"
  BY IdleFields
<1>2. Sound(Idle)
  BY <1>1 DEF Sound
<1>3. QED BY <1>1, <1>2 DEF Passed

LEMMA TriggerPlace ==
  ASSUME NEW v \in Views, NEW i \in 1..(N + 1), NEW f \in BOOLEAN, NEW p, p = TriggerPass(v, i, f)
  PROVE  Passed(p, v)
<1> DEFINE n == From(Ready(v), i)
<1>1. N \in Nat /\ Nodes = 1..N /\ Ready(v) \in SUBSET Nodes
  BY BroadcastAssumption DEF Nodes, Ready
<1>2. n \in i..(N + 1) /\ (n <= N => n \in Ready(v))
  BY <1>1, FromLeast
<1> HIDE DEF n
<1>3. n \in 0..(N + 1) /\ 0 \in 0..(N + 1)
  BY <1>1, <1>2
<1>4. p = IF n > N THEN Finish(v, f) ELSE Place("trigger", v, n, f)
  BY DEF TriggerPass, n
<1>5. CASE n > N /\ ~f /\ Ended(v)
  <2>1. p = At("finish", v, 0)
    BY <1>4, <1>5 DEF Finish, At
  <2>2. p \in Where /\ p.pc = "finish" /\ p.view = v
    BY <1>3, <2>1, AtFields DEF PlacePcs
  <2>3. Sound(p)
    BY <1>5, <2>2 DEF Sound
  <2>4. QED BY <2>2, <2>3 DEF Passed
<1>6. CASE n > N /\ ~(~f /\ Ended(v))
  <2>1. p = Idle
    BY <1>4, <1>6 DEF Finish
  <2>2. QED BY <2>1, IdlePassed
<1>7. CASE ~(n > N)
  <2>1. p = Place("trigger", v, n, f)
    BY <1>4, <1>7
  <2>2. p \in Where /\ p.pc = "trigger" /\ p.view = v /\ p.at = n
    BY <1>3, <2>1, PlaceFields DEF PlacePcs
  <2>3. n \in Nodes /\ n \in Ready(v)
    BY <1>1, <1>2, <1>7
  <2>4. Sound(p)
    BY <2>2, <2>3 DEF Sound
  <2>5. QED BY <2>2, <2>4 DEF Passed
<1>8. QED BY <1>5, <1>6, <1>7

LEMMA SkipPlace ==
  ASSUME NEW v \in Views, NEW p, p = SkipPass(v)
  PROVE  Passed(p, v)
<1>1. 1 \in 1..(N + 1) /\ 0 \in 0..(N + 1)
  BY BroadcastAssumption
<1>2. CASE Doomed(v) = {}
  <2>1. PICK f \in BOOLEAN : f = FALSE
    OBVIOUS
  <2>2. p = TriggerPass(v, 1, f)
    BY <1>2, <2>1 DEF SkipPass
  <2>3. QED BY <1>1, <2>2, TriggerPlace
<1>3. CASE Doomed(v) # {}
  <2>1. p = At("skip", v, 0)
    BY <1>3 DEF SkipPass, At
  <2>2. p \in Where /\ p.pc = "skip" /\ p.view = v
    BY <1>1, <2>1, AtFields DEF PlacePcs
  <2>3. Sound(p)
    BY <2>2 DEF Sound
  <2>4. QED BY <2>2, <2>3 DEF Passed
<1>4. QED BY <1>2, <1>3

LEMMA SweepBegins ==
  ASSUME NEW v \in Views, NEW p, p = Sweep(v, 1)
  PROVE  Sweeps(p, v)
<1>1. 1 \in 1..(N + 1) /\ N \in Nat /\ Nodes = 1..N
  BY BroadcastAssumption DEF Nodes
<1>2. /\ p \in Where /\ p.view = v /\ p.pc \in Sweeping /\ Sound(p)
      /\ \A m \in Nodes : 1 <= m /\ m < p.at => v[m].st \notin Unresolved
      /\ p.pc = "skipNode" => ~(v[p.at].st = "running" /\ v[p.at].run # 0)
  BY <1>1, SweepPlace
<1>3. \A m \in Nodes : m < p.at => v[m].st \notin Unresolved
  BY <1>1, <1>2
<1>4. QED BY <1>2, <1>3 DEF Sweeps

LEMMA FailurePlace ==
  ASSUME NEW v \in Views, NEW p, p = HandleFailure(v)
  PROVE  Passed(p, v)
<1>1. 1 \in 1..(N + 1) /\ N \in Nat /\ Nodes = 1..N
  BY BroadcastAssumption DEF Nodes
<1> DEFINE failure == (\E n \in Nodes : v[n].st = "failed") /\ ToSweep(v) # {}
<1>2. CASE failure /\ policy = "fail-fast"
  <2>1. p = Sweep(v, 1)
    BY <1>2 DEF HandleFailure
  <2>2. Sweeps(p, v)
    BY <2>1, SweepBegins
  <2>3. QED BY <1>2, <2>2 DEF Passed, Sweeps
<1>3. CASE failure /\ policy # "fail-fast"
  BY <1>3, SkipPlace DEF HandleFailure
<1>4. CASE ~failure
  <2>1. PICK f \in BOOLEAN : f = FALSE
    OBVIOUS
  <2>2. p = TriggerPass(v, 1, f)
    BY <1>4, <2>1 DEF HandleFailure
  <2>3. QED BY <1>1, <2>2, TriggerPlace
<1>5. QED BY <1>2, <1>3, <1>4

LEMMA CollectPlace ==
  ASSUME NEW v \in Views, NEW i \in 1..(N + 1), NEW p, p = CollectPass(v, i)
  PROVE  Passed(p, v)
<1> DEFINE S == {m \in Nodes : v[m].st = "running" /\ v[m].run # 0}
           n == From(S, i)
<1>1. N \in Nat /\ Nodes = 1..N /\ S \in SUBSET Nodes
  BY BroadcastAssumption DEF Nodes
<1>2. n \in i..(N + 1) /\ (n <= N => n \in S)
  BY <1>1, FromLeast
<1>3. p = IF n > N THEN HandleFailure(v) ELSE At("collect", v, n)
  BY DEF CollectPass, At
<1> HIDE DEF n
<1>4. CASE n > N
  BY <1>3, <1>4, FailurePlace
<1>5. CASE ~(n > N)
  <2>1. n \in Nodes /\ v[n].st = "running" /\ v[n].run # 0 /\ n \in 0..(N + 1)
    BY <1>1, <1>2, <1>5
  <2>2. p \in Where /\ p.pc = "collect" /\ p.view = v /\ p.at = n
    BY <1>3, <1>5, <2>1, AtFields DEF PlacePcs
  <2>3. Sound(p)
    BY <2>1, <2>2 DEF Sound
  <2>4. QED BY <2>2, <2>3 DEF Passed
<1>6. QED BY <1>4, <1>5

LEMMA PassedPcs ==
  ASSUME NEW v, NEW p, Passed(p, v) \/ Sweeps(p, v)
  PROVE  /\ p \in Where /\ Sound(p) /\ (p = Idle \/ p.view = v)
         /\ p.pc \in {"idle", "collect", "skip", "trigger", "finish", "stop", "skipNode", "swept"}
BY IdleFields DEF Passed, Sweeps, Sweeping

-----------------------------------------------------------------------------
(* The inductive invariant, part by part.                                  *)
LEMMA OnlyMember ==
  ASSUME NEW S, NEW q \in Seq(S), Len(q) <= 1, NEW k \in DOMAIN q
  PROVE  Len(q) = 1 /\ k = 1
<1>1. PICK l \in Nat : l = Len(q)
  OBVIOUS
<1>2. k \in 1..l
  BY <1>1
<1>3. l <= 1
  BY <1>1
<1>4. l = 1 /\ k = 1
  BY <1>2, <1>3
<1>5. QED BY <1>1, <1>4

LEMMA TickPlace ==
  ASSUME NEW p \in Where, p = tick', Sound(p), UNCHANGED definition,
         \A n \in Nodes : p.view[n].run <= Len(signals'[n])
  PROVE  PlaceCoherent(tick)'
<1>1. Ready(p.view)' = Ready(p.view)
  BY DEF definition, Ready
<1>2. QED BY <1>1 DEF PlaceCoherent, Sound, definition, Ready, Ended, Recorded

LEMMA CancelPlace ==
  ASSUME NEW p \in Where, p = cancel', Sound(p), UNCHANGED definition,
         \A n \in Nodes : p.view[n].run <= Len(signals'[n])
  PROVE  PlaceCoherent(cancel)'
<1>1. Ready(p.view)' = Ready(p.view)
  BY DEF definition, Ready
<1>2. QED BY <1>1 DEF PlaceCoherent, Sound, definition, Ready, Ended, Recorded

LEMMA Coherent ==
  ASSUME BroadcastInv
  PROVE  /\ TypeOK /\ PlacesCoherent /\ StartCoherent /\ TriggersCounted /\ TriggeredOnce
         /\ Evidence(nodes) /\ Evidence(tick.view)
         /\ (~history.asked => LoopAlone) /\ (Undisturbed => LoopUntorn)
         /\ OutcomeJustified /\ NothingLeftRunning
         /\ nodes \in Views /\ tick \in Where /\ cancel \in Where
         /\ tick.view \in Views /\ cancel.view \in Views
         /\ Sound(tick) /\ Sound(cancel)
<1>1. tick \in Where /\ cancel \in Where /\ nodes \in Views
  BY DEF BroadcastInv, TypeOK, Views
<1>2. tick.view \in Views /\ cancel.view \in Views
  BY <1>1 DEF Where, Views
<1>3. Sound(tick) /\ Sound(cancel)
  BY DEF BroadcastInv, PlacesCoherent, PlaceCoherent, Sound
<1>4. QED BY <1>1, <1>2, <1>3 DEF BroadcastInv

(* The poll loop looks the broadcast up. *)
LEMMA LookupKeeps ==
  ASSUME BroadcastInv, FindRunning \/ FindDue
  PROVE  BroadcastInv'
<1>1. /\ tick.pc = "idle" /\ broadcast.status \in {"pending", "running"}
      /\ UNCHANGED <<definition, broadcast, nodes, signals, known, cancel, history>>
  BY DEF FindRunning, FindDue
<1>2. PICK pc \in {"unresolved", "start", "expire", "advance"} :
        /\ tick' = [Idle EXCEPT !.pc = pc]
        /\ pc = "start" => broadcast.status = "pending"
        /\ pc \in {"expire", "advance"} => broadcast.status = "running"
        /\ pc = "expire" => broadcast.late
        /\ pc = "unresolved" => ~known
  BY DEF FindRunning, FindDue
<1>3. PICK p \in Where : p = tick' /\ p.pc = pc /\ p.view = None
  BY <1>2, IdleFields DEF PlacePcs
<1>4. /\ TypeOK /\ PlacesCoherent /\ StartCoherent /\ TriggersCounted /\ TriggeredOnce
      /\ Evidence(nodes) /\ Evidence(tick.view)
      /\ (~history.asked => LoopAlone) /\ (Undisturbed => LoopUntorn)
      /\ OutcomeJustified /\ NothingLeftRunning /\ cancel \in Where /\ Sound(cancel)
  BY Coherent
<1>5. UNCHANGED <<dependsOn, policy, broadcast, nodes, signals, known, cancel, history>>
  BY <1>1 DEF definition
<1>6. TypeOK'
  BY <1>3, <1>4, <1>5 DEF TypeOK
<1>7. PlacesCoherent'
  <2>1. Sound(p)
    BY <1>3 DEF Sound
  <2>2. \A n \in Nodes : p.view[n].run <= Len(signals'[n])
    BY <1>3, <1>4, <1>5, NoNodeRuns DEF TypeOK
  <2>3. PlaceCoherent(tick)'
    BY <1>1, <1>3, <2>1, <2>2, TickPlace
  <2>4. PlaceCoherent(cancel)'
    BY <1>4, <1>5 DEF PlacesCoherent, PlaceCoherent, Ready, Ended, Recorded
  <2>5. QED BY <1>3, <1>4, <1>5, <2>3, <2>4 DEF PlacesCoherent
<1>8. StartCoherent'
  BY <1>1, <1>3, <1>2, <1>4, <1>5 DEF StartCoherent
<1>9. TriggersCounted' /\ TriggeredOnce'
  <2>1. \A n \in Nodes : p.view[n].st # "pending"
    BY <1>3, NoNodeRuns
  <2>2. QED BY <1>1, <1>3, <1>4, <1>5, <2>1 DEF TriggersCounted, TriggeredOnce
<1>10. Evidence(nodes)' /\ Evidence(tick.view)'
  <2>1. \A n \in Nodes : p.view[n].st \notin {"completed", "guard"}
    BY <1>3, NoNodeRuns
  <2>2. QED BY <1>3, <1>4, <1>5, <2>1 DEF Evidence, Satisfied
<1>11. (~history.asked => LoopAlone)'
  BY <1>2, <1>3, <1>4, <1>5, <1>1 DEF LoopAlone, Passing, Sweeping
<1>12. (Undisturbed => LoopUntorn)'
  BY <1>1, <1>2, <1>3, <1>4, <1>5 DEF LoopUntorn, Undisturbed, Creating, NodeFailed, Sweeping
<1>13. OutcomeJustified' /\ NothingLeftRunning'
  BY <1>4, <1>5
  DEF OutcomeJustified, NothingLeftRunning, CompletedJustly, FailedJustly, Good, Undisturbed
<1>14. QED BY <1>6, <1>7, <1>8, <1>9, <1>10, <1>11, <1>12, <1>13 DEF BroadcastInv

(* The invariants that say nothing while a broadcast has not ended. *)
LEMMA StillRunning ==
  ASSUME broadcast'.status \notin Settled
  PROVE  OutcomeJustified' /\ NothingLeftRunning'
BY DEF OutcomeJustified, NothingLeftRunning, Settled

LEMMA Disturbed ==
  ASSUME history'.asked \/ history'.crashes # 0
  PROVE  OutcomeJustified' /\ NothingLeftRunning' /\ (Undisturbed => LoopUntorn)'
BY DEF OutcomeJustified, NothingLeftRunning, Undisturbed

(* A pass over a view that the node runs agree with begins or goes on. *)
LEMMA PassKeeps ==
  ASSUME BroadcastInv, NEW v \in Views, NEW p, p = tick',
         \/ tick.pc \in {"advance", "expire"} /\ v = nodes
         \/ tick.pc = "collect" /\ v = tick.view,
         Passed(p, v) \/ (tick.pc = "expire" /\ Sweeps(p, v)),
         UNCHANGED <<definition, broadcast, nodes, signals, known, cancel, history>>
  PROVE  BroadcastInv'
<1>1. /\ TypeOK /\ PlacesCoherent /\ StartCoherent /\ TriggersCounted /\ TriggeredOnce
      /\ Evidence(nodes) /\ Evidence(tick.view)
      /\ (~history.asked => LoopAlone) /\ (Undisturbed => LoopUntorn)
      /\ OutcomeJustified /\ NothingLeftRunning /\ cancel \in Where /\ Sound(cancel)
  BY Coherent
<1>2. UNCHANGED <<dependsOn, policy, broadcast, nodes, signals, known, cancel, history>>
  BY DEF definition
<1>3. /\ p \in Where /\ Sound(p) /\ (p.view = None \/ p.view = v)
      /\ p.pc \in {"idle", "collect", "skip", "trigger", "finish", "stop", "skipNode", "swept"}
      /\ p.pc \notin {"idle"} => p.view = v
  BY PassedPcs, IdleFields
<1>4. tick.pc \in {"advance", "expire", "collect"}
  OBVIOUS
<1>5. TypeOK'
  BY <1>1, <1>2, <1>3 DEF TypeOK
<1>6. PlacesCoherent'
  <2>1. \A n \in Nodes : v[n].run <= Len(signals[n])
    BY <1>1 DEF TypeOK, PlacesCoherent, PlaceCoherent
  <2>2. \A n \in Nodes : p.view[n].run <= Len(signals'[n])
    <3>1. \A n \in Nodes : 0 <= Len(signals[n])
      BY <1>1 DEF TypeOK
    <3>2. QED BY <1>2, <1>3, <2>1, <3>1, NoNodeRuns
  <2>3. PlaceCoherent(tick)'
    BY <1>3, <2>2, TickPlace
  <2>4. PlaceCoherent(cancel)'
    BY <1>1, <1>2 DEF PlacesCoherent, PlaceCoherent, Ready, Ended, Recorded
  <2>5. QED BY <1>1, <1>2, <1>3, <2>3, <2>4 DEF PlacesCoherent
<1>7. StartCoherent'
  BY <1>1, <1>2, <1>3, <1>4 DEF StartCoherent
<1>8. TriggersCounted' /\ TriggeredOnce'
  <2>1. \A n \in Nodes : p.view[n].st = "pending" => v[n].st = "pending"
    BY <1>3, NoNodeRuns
  <2>2. QED BY <1>1, <1>2, <1>4, <2>1 DEF TriggersCounted, TriggeredOnce
<1>9. Evidence(nodes)' /\ Evidence(tick.view)'
  <2>1. \A n \in Nodes : p.view[n].st \in {"completed", "guard"} => p.view[n].st = v[n].st
    BY <1>3, NoNodeRuns
  <2>2. QED BY <1>1, <1>2, <2>1 DEF Evidence, Satisfied
<1>10. ASSUME ~history.asked PROVE LoopAlone' /\ v = nodes /\ broadcast.status = "running"
  <2>1. LoopAlone /\ v = nodes /\ broadcast.status = "running"
    BY <1>1, <1>4, <1>10 DEF LoopAlone, Passing
  <2>2. p.pc \in Sweeping => \A m \in Nodes : m < p.at => v[m].st \notin Unresolved
    BY IdleFields DEF Passed, Sweeps, Sweeping
  <2>3. QED BY <1>2, <1>3, <2>1, <2>2 DEF LoopAlone, Passing, Sweeping
<1>11. ASSUME Undisturbed PROVE LoopUntorn'
  <2>1. LoopUntorn /\ ~history.asked /\ v = nodes /\ broadcast.status = "running"
    BY <1>1, <1>10, <1>11 DEF Undisturbed
  <2>2. p.pc \in Sweeping => broadcast.late \/ (policy = "fail-fast" /\ NodeFailed)
    BY <2>1, IdleFields DEF Passed, Sweeping, LoopUntorn, NodeFailed
  <2>3. p.pc = "skipNode" => ~(v[p.at].st = "running" /\ v[p.at].run = 1) /\ p.at \in Nodes
    BY <1>3, IdleFields DEF Passed, Sweeps, Sound
  <2>4. p.pc = "skipNode" => \A k \in DOMAIN signals[p.at] : signals[p.at][k] # "live"
    BY <1>4, <2>1, <2>3 DEF LoopUntorn
  <2>5. \A n \in Nodes : nodes[n].st # "cancelled"
    BY <1>4, <2>1 DEF LoopUntorn, Sweeping
  <2>6. QED BY <1>2, <1>3, <1>4, <2>1, <2>2, <2>4, <2>5 DEF LoopUntorn, Creating, NodeFailed
<1>12. OutcomeJustified' /\ NothingLeftRunning'
  BY <1>1, <1>2
  DEF OutcomeJustified, NothingLeftRunning, CompletedJustly, FailedJustly, Good, Undisturbed
<1>13. QED
  BY <1>2, <1>5, <1>6, <1>7, <1>8, <1>9, <1>10, <1>11, <1>12 DEF BroadcastInv, Undisturbed

(* A pass settles a node of its view, or records the node's signal run, and *)
(* writes the node run.                                                    *)
LEMMA WriteKeeps ==
  ASSUME BroadcastInv, NEW n \in Nodes, NEW s \in NodeStatus \ {"missing", "pending", "cancelled"},
         NEW w \in Views, NEW p, p = tick', Passed(p, w),
         tick.pc \in {"collect", "skip", "trigger", "record"},
         tick.view[n].st \in Unresolved,
         nodes' \in Views, nodes'[n].st = s, w[n].st = s,
         nodes'[n].run <= Len(signals[n]), w[n].run <= Len(signals[n]),
         \A m \in Nodes \ {n} : nodes'[m] = nodes[m] /\ w[m] = tick.view[m],
         nodes[n] = tick.view[n] => nodes'[n] = w[n],
         tick.pc = "record" => tick.at = n,
         s = "running" => nodes'[n].run = Len(signals[n]),
         s = "completed" => Satisfied(n), s = "guard" => n \in history'.guarded,
         s = "upstream" => \E d \in dependsOn[n] : tick.view[d].st \in {"failed", "upstream"},
         Undisturbed /\ s # "running" => \A k \in DOMAIN signals[n] : signals[n][k] # "live",
         UNCHANGED <<definition, broadcast, signals, known, cancel>>,
         history' \in [asked : BOOLEAN, guarded : SUBSET Nodes, crashes : 0..MaxCrashes, torn : BOOLEAN],
         history.guarded \subseteq history'.guarded,
         history'.asked = history.asked, history'.crashes = history.crashes
  PROVE  BroadcastInv'
<1>1. /\ TypeOK /\ PlacesCoherent /\ StartCoherent /\ TriggersCounted /\ TriggeredOnce
      /\ Evidence(nodes) /\ Evidence(tick.view)
      /\ (~history.asked => LoopAlone) /\ (Undisturbed => LoopUntorn)
      /\ cancel \in Where /\ Sound(cancel) /\ nodes \in Views /\ tick.view \in Views
  BY Coherent
<1>2. UNCHANGED <<dependsOn, policy, broadcast, signals, known, cancel>>
  BY DEF definition
<1>3. /\ p \in Where /\ Sound(p) /\ (p.view = None \/ p.view = w)
      /\ p.pc \in {"idle", "collect", "skip", "trigger", "finish", "stop", "skipNode", "swept"}
      /\ p.pc # "idle" => p.view = w
  BY PassedPcs, IdleFields
<1>4. \A m \in Nodes : nodes'[m].st = nodes[m].st \/ (m = n /\ nodes'[m].st = s)
  OBVIOUS
<1>5. TypeOK'
  <2>1. \A m \in Nodes : nodes'[m].run <= Len(signals'[m])
    BY <1>1, <1>2 DEF TypeOK
  <2>2. QED BY <1>1, <1>2, <1>3, <2>1 DEF TypeOK, Views
<1>6. PlacesCoherent'
  <2>1. \A m \in Nodes : w[m].run <= Len(signals[m])
    BY <1>1 DEF PlacesCoherent, PlaceCoherent
  <2>2. \A m \in Nodes : p.view[m].run <= Len(signals'[m])
    <3>1. \A m \in Nodes : 0 <= Len(signals[m])
      BY <1>1 DEF TypeOK
    <3>2. QED BY <1>2, <1>3, <2>1, <3>1, NoNodeRuns
  <2>3. PlaceCoherent(tick)'
    BY <1>3, <2>2, TickPlace
  <2>4. PlaceCoherent(cancel)'
    BY <1>1, <1>2 DEF PlacesCoherent, PlaceCoherent, Ready, Ended, Recorded
  <2>5. \A m \in Nodes : nodes[m].st # "missing" => nodes'[m].st # "missing"
    BY <1>4
  <2>6. QED BY <1>1, <1>2, <1>3, <2>3, <2>4, <2>5 DEF PlacesCoherent
<1>7. StartCoherent'
  BY <1>1, <1>2, <1>3 DEF StartCoherent
<1>8. TriggersCounted' /\ TriggeredOnce'
  <2>1. \A m \in Nodes : p.view[m].st = "pending" => m # n /\ tick.view[m].st = "pending"
    BY <1>3, NoNodeRuns
  <2>2. \A m \in Nodes : nodes'[m].st = "pending" => m # n /\ nodes[m].st = "pending"
    BY <1>4
  <2>3. QED BY <1>1, <1>2, <2>1, <2>2 DEF TriggersCounted, TriggeredOnce
<1>9. Evidence(nodes)' /\ Evidence(tick.view)'
  <2>1. \A m \in Nodes : Satisfied(m) => Satisfied(m)'
    BY <1>2 DEF Satisfied
  <2>2. s \in {"completed", "guard"} => Satisfied(n)'
    BY <2>1 DEF Satisfied
  <2>3. \A m \in Nodes : p.view[m].st \in {"completed", "guard"} => p.view[m].st = w[m].st
    BY <1>3, NoNodeRuns
  <2>4. QED BY <1>1, <2>1, <2>2, <2>3 DEF Evidence
<1>10. ASSUME ~history.asked
       PROVE  LoopAlone' /\ nodes = tick.view /\ nodes' = w /\ broadcast.status = "running"
  <2>1. LoopAlone /\ nodes = tick.view /\ broadcast.status = "running"
    BY <1>1, <1>10 DEF LoopAlone, Passing
  <2>2. nodes' = w
    <3>1. \A m \in Nodes : nodes'[m] = w[m]
      BY <2>1
    <3>2. QED BY <3>1 DEF Views
  <2>3. p.pc \in Sweeping => \A m \in Nodes : m < p.at => w[m].st \notin Unresolved
    BY IdleFields DEF Passed, Sweeps, Sweeping
  <2>4. QED BY <1>2, <1>3, <2>1, <2>2, <2>3 DEF LoopAlone, Passing, Sweeping
<1>11. ASSUME Undisturbed PROVE LoopUntorn'
  <2>1. LoopUntorn /\ nodes = tick.view /\ nodes' = w /\ broadcast.status = "running"
    BY <1>1, <1>10, <1>11 DEF Undisturbed
  <2>2. NodeFailed => NodeFailed'
    BY <2>1 DEF NodeFailed, Unresolved
  <2>3. p.pc \in Sweeping => policy = "fail-fast" /\ NodeFailed'
    BY <2>1, IdleFields DEF Passed, Sweeping, NodeFailed
  <2>4. \A m \in Nodes : (\E k \in DOMAIN signals[m] : signals[m][k] = "live") =>
          nodes'[m].st = "running" /\ nodes'[m].run = 1
    <3>1. ASSUME NEW m \in Nodes \ {n}, \E k \in DOMAIN signals[m] : signals[m][k] = "live"
          PROVE  nodes'[m].st = "running" /\ nodes'[m].run = 1
      BY <2>1, <3>1 DEF LoopUntorn
    <3>2. ASSUME \E k \in DOMAIN signals[n] : signals[n][k] = "live"
          PROVE  nodes'[n].st = "running" /\ nodes'[n].run = 1
      <4>1. s = "running"
        BY <1>11, <3>2
      <4>2. PICK sigs \in Seq({"live"} \cup Settled) : sigs = signals[n]
        BY <1>1 DEF TypeOK
      <4>3. Len(sigs) <= 1
        BY <1>1, <1>11, <4>2 DEF TriggeredOnce, Undisturbed
      <4>4. \E k \in DOMAIN sigs : TRUE
        BY <3>2, <4>2
      <4>5. Len(sigs) = 1
        BY <4>3, <4>4, OnlyMember, Zenon
      <4>6. QED BY <4>1, <4>2, <4>5
    <3>3. QED BY <3>1, <3>2
  <2>5. p.pc = "skipNode" => ~(w[p.at].st = "running" /\ w[p.at].run = 1) /\ p.at \in Nodes
    BY <1>3, IdleFields DEF Passed, Sweeps, Sound
  <2>6. p.pc = "skipNode" => \A k \in DOMAIN signals[p.at] : signals[p.at][k] # "live"
    BY <2>1, <2>4, <2>5
  <2>7. \A m \in Nodes : nodes'[m].st # "cancelled"
    BY <2>1, <1>4 DEF LoopUntorn, Sweeping
  <2>8. \A m \in Nodes : nodes'[m].st = "upstream" =>
          NodeFailed' /\ \E d \in dependsOn[m] : nodes'[d].st \in {"failed", "upstream"}
    <3>1. \A d \in Nodes : nodes[d].st \in {"failed", "upstream"} => nodes'[d].st = nodes[d].st
      BY <2>1 DEF Unresolved
    <3>2. dependsOn \in [Nodes -> SUBSET Nodes]
      BY <1>1, BroadcastAssumption DEF TypeOK
    <3>3. \A d \in Nodes : nodes[d].st = "upstream" => NodeFailed
      BY <2>1 DEF LoopUntorn
    <3>4. \A d \in Nodes : nodes[d].st = "failed" => NodeFailed
      BY DEF NodeFailed
    <3>5. ASSUME NEW m \in Nodes, nodes'[m].st = "upstream"
          PROVE  \E d \in dependsOn[m] : nodes[d].st \in {"failed", "upstream"}
      <4>1. CASE m = n
        BY <2>1, <3>5, <4>1
      <4>2. CASE m # n
        BY <2>1, <3>5, <4>2 DEF LoopUntorn
      <4>3. QED BY <4>1, <4>2
    <3>6. ASSUME NEW m \in Nodes, nodes'[m].st = "upstream"
          PROVE  NodeFailed' /\ \E d \in dependsOn[m] : nodes'[d].st \in {"failed", "upstream"}
      BY <2>2, <3>1, <3>2, <3>3, <3>4, <3>5, <3>6
    <3>7. QED BY <3>6
  <2>9. \A m \in Nodes : nodes[m].st # "missing" => nodes'[m].st # "missing"
    BY <1>4
  <2>10. p.pc \notin {"expire", "create", "unresolved", "record"}
    BY <1>3
  <2>11. QED
    BY <1>2, <2>1, <2>3, <2>4, <2>6, <2>7, <2>8, <2>9, <2>10 DEF LoopUntorn, Creating
<1>12. (~history.asked => OutcomeJustified' /\ NothingLeftRunning')
  <2>1. ~history.asked => broadcast'.status \notin Settled
    BY <1>2, <1>10 DEF Settled
  <2>2. QED BY <2>1, StillRunning
<1>13. history.asked => OutcomeJustified' /\ NothingLeftRunning'
  BY DEF OutcomeJustified, NothingLeftRunning, Undisturbed
<1>14. QED
  BY <1>5, <1>6, <1>7, <1>8, <1>9, <1>10, <1>11, <1>12, <1>13 DEF BroadcastInv, Undisturbed

LEMMA PassesKeep ==
  ASSUME BroadcastInv, Expire \/ Advance
  PROVE  BroadcastInv'
<1>1. nodes \in Views /\ 1 \in 1..(N + 1)
  BY Coherent, BroadcastAssumption
<1>2. CASE Expire
  <2>1. PICK p : p = tick'
    OBVIOUS
  <2>2. p = Sweep(nodes, 1) /\ tick.pc = "expire"
        /\ UNCHANGED <<definition, broadcast, nodes, signals, known, cancel, history>>
    BY <1>2, <2>1 DEF Expire
  <2>3. PICK v \in Views : v = nodes
    BY <1>1
  <2>4. Sweeps(p, v)
    BY <2>2, <2>3, SweepBegins
  <2>5. QED BY <2>1, <2>2, <2>3, <2>4, PassKeeps
<1>3. CASE Advance
  <2>1. PICK p : p = tick'
    OBVIOUS
  <2>2. p = CollectPass(nodes, 1) /\ tick.pc = "advance"
        /\ UNCHANGED <<definition, broadcast, nodes, signals, known, cancel, history>>
    BY <1>3, <2>1 DEF Advance
  <2>3. PICK v \in Views : v = nodes
    BY <1>1
  <2>4. Passed(p, v)
    BY <1>1, <2>2, <2>3, CollectPlace
  <2>5. QED BY <2>1, <2>2, <2>3, <2>4, PassKeeps
<1>4. QED BY <1>2, <1>3

(* Updating one node of a view, or one node run. *)
LEMMA SetNode ==
  ASSUME NEW v \in Views, NEW n \in Nodes, NEW s \in NodeStatus
  PROVE  /\ [v EXCEPT ![n].st = s] \in Views
         /\ [v EXCEPT ![n].st = s][n].st = s /\ [v EXCEPT ![n].st = s][n].run = v[n].run
         /\ \A m \in Nodes \ {n} : [v EXCEPT ![n].st = s][m] = v[m]
BY DEF Views, Node

LEMMA CollectKeeps ==
  ASSUME BroadcastInv, Collect
  PROVE  BroadcastInv'
<1>1. /\ TypeOK /\ PlacesCoherent /\ TriggeredOnce /\ (Undisturbed => LoopUntorn)
      /\ nodes \in Views /\ tick.view \in Views /\ Sound(tick) /\ (~history.asked => LoopAlone)
  BY Coherent
<1>2. PICK n \in Nodes : n = tick.at
  BY <1>1 DEF Collect, Sound
<1>3. PICK r : r = Result(signals[n][tick.view[n].run])
  OBVIOUS
<1>4. /\ tick.pc = "collect"
      /\ nodes' = IF r = "running" THEN nodes ELSE [nodes EXCEPT ![n].st = r]
      /\ UNCHANGED <<definition, broadcast, signals, known, cancel, history>>
  BY <1>2, <1>3 DEF Collect
<1>5. PICK p : p = tick'
  OBVIOUS
<1>6. PICK w : w = [tick.view EXCEPT ![n].st = r]
  OBVIOUS
<1>7. p = CollectPass(w, n + 1)
  BY <1>2, <1>3, <1>5, <1>6 DEF Collect
<1>8. tick.view[n].st = "running" /\ tick.view[n].run # 0
  BY <1>1, <1>2, <1>4 DEF Sound
<1>9. signals[n] \in Seq({"live"} \cup Settled) /\ tick.view[n].run \in 1..Len(signals[n])
  <2>1. signals[n] \in Seq({"live"} \cup Settled) /\ tick.view[n].run \in Nat
    BY <1>1 DEF TypeOK, Views, Node
  <2>2. tick.view[n].run <= Len(signals[n])
    BY <1>1 DEF PlacesCoherent, PlaceCoherent
  <2>3. QED BY <1>8, <2>1, <2>2
<1>10. /\ r \in {"completed", "running", "failed"}
       /\ r = "completed" => signals[n][tick.view[n].run] = "completed"
       /\ r # "running" => signals[n][tick.view[n].run] # "live"
  BY <1>3, <1>9 DEF Result, Settled
<1>11. r \in NodeStatus \ {"missing", "pending", "cancelled"}
  BY <1>10 DEF NodeStatus, Unresolved
<1>12. w \in Views /\ w[n].st = r /\ w[n].run = tick.view[n].run
       /\ \A m \in Nodes \ {n} : w[m] = tick.view[m]
  BY <1>1, <1>6, <1>11, SetNode
<1>13. Passed(p, w)
  <2>1. n + 1 \in 1..(N + 1)
    BY BroadcastAssumption DEF Nodes
  <2>2. QED BY <1>7, <1>12, <2>1, CollectPlace
<1>14. CASE r = "running"
  <2>1. w = tick.view
    <3>1. w[n] = tick.view[n]
      BY <1>1, <1>8, <1>12, <1>14 DEF Views, Node
    <3>2. \A m \in Nodes : w[m] = tick.view[m]
      BY <1>12, <3>1
    <3>3. QED BY <1>1, <1>12, <3>2 DEF Views
  <2>2. QED BY <1>4, <1>5, <1>12, <1>13, <1>14, <2>1, PassKeeps
<1>15. CASE r # "running"
  <2>1. /\ nodes' \in Views /\ nodes'[n].st = r /\ nodes'[n].run = nodes[n].run
        /\ \A m \in Nodes \ {n} : nodes'[m] = nodes[m]
    <3>1. PICK x : x = [nodes EXCEPT ![n].st = r]
      OBVIOUS
    <3>2. nodes \in Views /\ r \in NodeStatus
      BY <1>1, <1>11
    <3>3. /\ x \in Views /\ x[n].st = r /\ x[n].run = nodes[n].run
          /\ \A m \in Nodes \ {n} : x[m] = nodes[m]
      BY <3>1, <3>2, SetNode DEF Views, Node
    <3>4. nodes' = x
      BY <1>4, <1>15, <3>1
    <3>5. QED BY <3>3, <3>4
  <2>2. nodes[n] = tick.view[n] => nodes'[n] = w[n]
    BY <1>1, <1>4, <1>6, <1>15 DEF Views
  <2>3. nodes'[n].run <= Len(signals[n]) /\ w[n].run <= Len(signals[n])
    BY <1>1, <1>12, <2>1 DEF TypeOK, PlacesCoherent, PlaceCoherent
  <2>4. r = "completed" => Satisfied(n)
    BY <1>9, <1>10 DEF Satisfied
  <2>5. Undisturbed => \A k \in DOMAIN signals[n] : signals[n][k] # "live"
    <3>1. SUFFICES ASSUME Undisturbed, NEW k \in DOMAIN signals[n]
                   PROVE  signals[n][k] # "live"
      OBVIOUS
    <3>2. Len(signals[n]) <= 1
      BY <1>1, <3>1 DEF TriggeredOnce, Undisturbed, TypeOK
    <3>3. k = tick.view[n].run
      BY <1>9, <3>2
    <3>4. QED BY <1>10, <1>15, <3>3
  <2>6. history' \in [asked : BOOLEAN, guarded : SUBSET Nodes, crashes : 0..MaxCrashes, torn : BOOLEAN]
        /\ history.guarded \subseteq history'.guarded
        /\ history'.asked = history.asked /\ history'.crashes = history.crashes
    BY <1>1, <1>4 DEF TypeOK
  <2>7. tick.view[n].st \in Unresolved
    BY <1>8 DEF Unresolved
  <2>8. r # "guard" /\ r # "upstream"
    BY <1>10
  <2>9. /\ UNCHANGED <<definition, broadcast, signals, known, cancel>> /\ tick.pc # "record"
        /\ \A m \in Nodes \ {n} : nodes'[m] = nodes[m] /\ w[m] = tick.view[m]
    BY <1>4, <1>12, <2>1
  <2>10. QED
    BY ZenonT(60), <1>4, <1>5, <1>11, <1>12, <1>13, <1>15, <2>1, <2>2, <2>3, <2>4, <2>5, <2>6, <2>7, <2>8, <2>9, WriteKeeps
<1>16. QED BY <1>14, <1>15

LEMMA SkipDownstreamKeeps ==
  ASSUME BroadcastInv, SkipDownstream
  PROVE  BroadcastInv'
<1>1. /\ TypeOK /\ PlacesCoherent /\ (Undisturbed => LoopUntorn)
      /\ nodes \in Views /\ tick.view \in Views /\ (~history.asked => LoopAlone)
  BY Coherent
<1>2. PICK n \in Doomed(tick.view) :
        /\ nodes' = [nodes EXCEPT ![n].st = "upstream"]
        /\ tick' = SkipPass([tick.view EXCEPT ![n].st = "upstream"])
  BY DEF SkipDownstream
<1>3. /\ tick.pc = "skip" /\ UNCHANGED <<definition, broadcast, signals, known, cancel, history>>
  BY DEF SkipDownstream
<1>4. /\ n \in Nodes /\ tick.view[n].st = "pending"
      /\ \E d \in dependsOn[n] : tick.view[d].st \in {"failed", "upstream"}
  BY <1>2 DEF Doomed
<1>5. PICK p : p = tick'
  OBVIOUS
<1>6. PICK w : w = [tick.view EXCEPT ![n].st = "upstream"]
  OBVIOUS
<1>7. "upstream" \in NodeStatus \ {"missing", "pending", "cancelled"}
  BY DEF NodeStatus, Skips, Unresolved
<1>8. w \in Views /\ w[n].st = "upstream" /\ w[n].run = tick.view[n].run
      /\ \A m \in Nodes \ {n} : w[m] = tick.view[m]
  BY <1>1, <1>4, <1>6, <1>7, SetNode
<1>9. Passed(p, w)
  BY <1>2, <1>5, <1>6, <1>8, SkipPlace
<1>10. /\ nodes' \in Views /\ nodes'[n].st = "upstream" /\ nodes'[n].run = nodes[n].run
       /\ \A m \in Nodes \ {n} : nodes'[m] = nodes[m]
  <2>1. PICK x : x = [nodes EXCEPT ![n].st = "upstream"]
    OBVIOUS
  <2>2. nodes \in Views /\ n \in Nodes /\ "upstream" \in NodeStatus
    BY <1>1, <1>4, <1>7
  <2>3. /\ x \in Views /\ x[n].st = "upstream" /\ x[n].run = nodes[n].run
        /\ \A m \in Nodes \ {n} : x[m] = nodes[m]
    BY <2>1, <2>2, SetNode DEF Views, Node
  <2>4. nodes' = x
    BY <1>2, <2>1
  <2>5. QED BY <2>3, <2>4
<1>11. nodes[n] = tick.view[n] => nodes'[n] = w[n]
  BY <1>1, <1>2, <1>4, <1>6 DEF Views
<1>12. nodes'[n].run <= Len(signals[n]) /\ w[n].run <= Len(signals[n])
  BY <1>1, <1>4, <1>8, <1>10 DEF TypeOK, PlacesCoherent, PlaceCoherent
<1>13. Undisturbed => \A k \in DOMAIN signals[n] : signals[n][k] # "live"
  BY <1>1, <1>3, <1>4 DEF LoopUntorn, LoopAlone, Passing, Undisturbed
<1>14. history' \in [asked : BOOLEAN, guarded : SUBSET Nodes, crashes : 0..MaxCrashes, torn : BOOLEAN]
       /\ history.guarded \subseteq history'.guarded
       /\ history'.asked = history.asked /\ history'.crashes = history.crashes
  BY <1>1, <1>3 DEF TypeOK
<1>15. tick.view[n].st \in Unresolved
  BY <1>4 DEF Unresolved
<1>16. PICK s \in NodeStatus \ {"missing", "pending", "cancelled"} : s = "upstream"
  BY <1>7
<1>17. QED
  BY <1>3, <1>4, <1>5, <1>8, <1>9, <1>10, <1>11, <1>12, <1>13, <1>14, <1>15, <1>16, WriteKeeps

(* triggerReadyNodes settles the node it is at, or records its signal run. *)
LEMMA SettleKeeps ==
  ASSUME BroadcastInv, NEW s \in {"guard", "failed"}, tick.pc = "trigger", Settle(tick.at, s),
         UNCHANGED <<definition, broadcast, signals, known, cancel>>,
         history' \in [asked : BOOLEAN, guarded : SUBSET Nodes, crashes : 0..MaxCrashes, torn : BOOLEAN],
         history.guarded \subseteq history'.guarded,
         history'.asked = history.asked, history'.crashes = history.crashes,
         s = "guard" => tick.at \in history'.guarded
  PROVE  BroadcastInv'
<1>1. /\ TypeOK /\ PlacesCoherent /\ (Undisturbed => LoopUntorn) /\ tick \in Where
      /\ nodes \in Views /\ tick.view \in Views /\ Sound(tick) /\ (~history.asked => LoopAlone)
  BY Coherent
<1>2. PICK n \in Nodes : n = tick.at
  BY <1>1 DEF Sound
<1>3. tick.view[n].st = "pending"
  BY <1>1, <1>2 DEF Sound, Ready
<1>4. PICK p : p = tick'
  OBVIOUS
<1>5. PICK w : w = [tick.view EXCEPT ![n].st = s]
  OBVIOUS
<1>6. PICK f \in BOOLEAN : f = tick.first
  BY <1>1 DEF Where
<1>7. p = TriggerPass(w, n + 1, f)
  BY <1>2, <1>4, <1>5, <1>6 DEF Settle
<1>8. s \in NodeStatus /\ s \in NodeStatus \ {"missing", "pending", "cancelled"}
  BY DEF NodeStatus, Skips, Unresolved
<1>9. w \in Views /\ w[n].st = s /\ w[n].run = tick.view[n].run
      /\ \A m \in Nodes \ {n} : w[m] = tick.view[m]
  BY <1>1, <1>5, <1>8, SetNode
<1>10. Passed(p, w)
  <2>1. n + 1 \in 1..(N + 1)
    BY BroadcastAssumption DEF Nodes
  <2>2. QED BY <1>6, <1>7, <1>9, <2>1, TriggerPlace
<1>11. nodes' = [nodes EXCEPT ![n].st = s]
  BY <1>2 DEF Settle
<1>12. /\ nodes' \in Views /\ nodes'[n].st = s /\ nodes'[n].run = nodes[n].run
       /\ \A m \in Nodes \ {n} : nodes'[m] = nodes[m]
  <2>1. PICK x : x = [nodes EXCEPT ![n].st = s]
    OBVIOUS
  <2>2. nodes \in Views
    BY <1>1
  <2>3. /\ x \in Views /\ x[n].st = s /\ x[n].run = nodes[n].run
        /\ \A m \in Nodes \ {n} : x[m] = nodes[m]
    BY <1>8, <2>1, <2>2 DEF Views, Node
  <2>4. QED BY <1>11, <2>1, <2>3
<1>13. nodes[n] = tick.view[n] => nodes'[n] = w[n]
  BY <1>1, <1>5, <1>11 DEF Views
<1>14. nodes'[n].run <= Len(signals[n]) /\ w[n].run <= Len(signals[n])
  BY <1>1, <1>9, <1>12 DEF TypeOK, PlacesCoherent, PlaceCoherent
<1>15. Undisturbed => \A k \in DOMAIN signals[n] : signals[n][k] # "live"
  BY <1>1, <1>3 DEF LoopUntorn, LoopAlone, Passing, Undisturbed
<1>16. /\ tick.view[n].st \in Unresolved /\ s # "completed" /\ s # "upstream" /\ s # "running"
       /\ s = "guard" => n \in history'.guarded
  BY <1>2, <1>3 DEF Unresolved
<1>17. \A m \in Nodes \ {n} : nodes'[m] = nodes[m] /\ w[m] = tick.view[m]
  BY <1>9, <1>12
<1>18. QED
  BY <1>4, <1>8, <1>9, <1>10, <1>12, <1>13, <1>14, <1>15, <1>16, <1>17, WriteKeeps

LEMMA NodeSettledKeeps ==
  ASSUME BroadcastInv, GuardDeclines \/ NodeThrows
  PROVE  BroadcastInv'
<1>1. TypeOK /\ Sound(tick)
  BY Coherent
<1>2. CASE GuardDeclines
  <2>1. /\ tick.pc = "trigger" /\ Settle(tick.at, "guard")
        /\ UNCHANGED <<definition, broadcast, signals, known, cancel>>
        /\ history' = [history EXCEPT !.guarded = history.guarded \cup {tick.at}]
    BY <1>2 DEF GuardDeclines
  <2>2. tick.at \in Nodes
    BY <1>1, <2>1 DEF Sound
  <2>3. /\ history' \in [asked : BOOLEAN, guarded : SUBSET Nodes, crashes : 0..MaxCrashes, torn : BOOLEAN]
        /\ history.guarded \subseteq history'.guarded /\ tick.at \in history'.guarded
        /\ history'.asked = history.asked /\ history'.crashes = history.crashes
    BY <1>1, <2>1, <2>2 DEF TypeOK
  <2>4. PICK s \in {"guard", "failed"} : s = "guard"
    OBVIOUS
  <2>5. QED BY <2>1, <2>3, <2>4, SettleKeeps
<1>3. CASE NodeThrows
  <2>1. /\ tick.pc = "trigger" /\ Settle(tick.at, "failed") /\ history' = history
        /\ UNCHANGED <<definition, broadcast, signals, known, cancel>>
    BY <1>3 DEF NodeThrows
  <2>2. /\ history' \in [asked : BOOLEAN, guarded : SUBSET Nodes, crashes : 0..MaxCrashes, torn : BOOLEAN]
        /\ history.guarded \subseteq history'.guarded
        /\ history'.asked = history.asked /\ history'.crashes = history.crashes
    BY <1>1, <2>1 DEF TypeOK
  <2>3. PICK s \in {"guard", "failed"} : s = "failed"
    OBVIOUS
  <2>4. QED BY <2>1, <2>2, <2>3, SettleKeeps
<1>4. QED BY <1>2, <1>3

LEMMA RecordRunKeeps ==
  ASSUME BroadcastInv, RecordRun
  PROVE  BroadcastInv'
<1>1. /\ TypeOK /\ PlacesCoherent /\ (Undisturbed => LoopUntorn) /\ tick \in Where
      /\ nodes \in Views /\ tick.view \in Views /\ Sound(tick) /\ (~history.asked => LoopAlone)
  BY Coherent
<1>2. tick.pc = "record" /\ UNCHANGED <<definition, broadcast, signals, known, cancel, history>>
  BY DEF RecordRun
<1>3. PICK n \in Nodes : n = tick.at
  BY <1>1, <1>2 DEF Sound
<1>4. tick.view[n].st = "pending"
  BY <1>1, <1>2, <1>3 DEF Sound, Ready
<1>5. PICK l \in Nat : l = Len(signals[n])
  BY <1>1 DEF TypeOK
<1>6. PICK new \in Node : new = [st |-> "running", run |-> l]
  BY DEF Node, NodeStatus, Unresolved
<1>7. PICK w : w = [tick.view EXCEPT ![n] = new]
  OBVIOUS
<1>8. PICK p : p = tick'
  OBVIOUS
<1>9. PICK f \in BOOLEAN : f = tick.first
  BY <1>1 DEF Where
<1>10. nodes' = [nodes EXCEPT ![n] = new] /\ p = TriggerPass(w, n + 1, f)
  BY <1>3, <1>5, <1>6, <1>7, <1>8, <1>9 DEF RecordRun
<1>11. /\ w \in Views /\ w[n] = new /\ \A m \in Nodes \ {n} : w[m] = tick.view[m]
       /\ nodes' \in Views /\ nodes'[n] = new /\ \A m \in Nodes \ {n} : nodes'[m] = nodes[m]
  BY <1>1, <1>7, <1>10 DEF Views
<1>12. Passed(p, w)
  <2>1. n + 1 \in 1..(N + 1)
    BY BroadcastAssumption DEF Nodes
  <2>2. QED BY <1>9, <1>10, <1>11, <2>1, TriggerPlace
<1>13. new.st = "running" /\ new.run = Len(signals[n]) /\ l <= l
  BY <1>5, <1>6
<1>14. PICK s \in NodeStatus \ {"missing", "pending", "cancelled"} : s = "running"
  BY DEF NodeStatus, Unresolved
<1>15. tick.view[n].st \in Unresolved
  BY <1>4 DEF Unresolved
<1>16. history' \in [asked : BOOLEAN, guarded : SUBSET Nodes, crashes : 0..MaxCrashes, torn : BOOLEAN]
       /\ history.guarded \subseteq history'.guarded
       /\ history'.asked = history.asked /\ history'.crashes = history.crashes
  BY <1>1, <1>2 DEF TypeOK
<1>17. \A m \in Nodes \ {n} : nodes'[m] = nodes[m] /\ w[m] = tick.view[m]
  BY <1>11
<1>18. /\ nodes'[n].st = s /\ w[n].st = s /\ nodes'[n] = w[n] /\ nodes'[n].run = Len(signals[n])
       /\ nodes'[n].run <= Len(signals[n]) /\ w[n].run <= Len(signals[n])
  BY <1>5, <1>11, <1>13, <1>14
<1>19. QED
  BY <1>2, <1>3, <1>8, <1>11, <1>12, <1>14, <1>15, <1>16, <1>17, <1>18, WriteKeeps

(* The signal of a node is triggered. *)
LEMMA SignalsStayTyped ==
  ASSUME TypeOK, signals' \in [Nodes -> Seq({"live"} \cup Settled)],
         \A n \in Nodes : Len(signals[n]) <= Len(signals'[n])
  PROVE  /\ \A n \in Nodes : Len(signals[n]) \in Nat /\ Len(signals'[n]) \in Nat
         /\ \A n \in Nodes, r \in Nat : r <= Len(signals[n]) => r <= Len(signals'[n])
<1>1. \A n \in Nodes : Len(signals[n]) \in Nat
  BY DEF TypeOK
<1>2. \A n \in Nodes : Len(signals'[n]) \in Nat
  OBVIOUS
<1>3. QED BY <1>1, <1>2

(* A step that only lets signal runs be added or end: what holds of places. *)
LEMMA PlacesStay ==
  ASSUME BroadcastInv, signals' \in [Nodes -> Seq({"live"} \cup Settled)],
         \A n \in Nodes : Len(signals[n]) <= Len(signals'[n]), UNCHANGED definition
  PROVE  /\ tick' = tick => PlaceCoherent(tick)'
         /\ cancel' = cancel => PlaceCoherent(cancel)'
         /\ \A n \in Nodes : nodes[n].run <= Len(signals'[n])
<1>1. TypeOK /\ PlacesCoherent /\ tick.view \in Views /\ cancel.view \in Views /\ nodes \in Views
  BY Coherent
<1>2. \A n \in Nodes, r \in Nat : r <= Len(signals[n]) => r <= Len(signals'[n])
  BY <1>1, SignalsStayTyped
<1>3. \A n \in Nodes : /\ tick.view[n].run \in Nat /\ tick.view[n].run <= Len(signals[n])
                       /\ cancel.view[n].run \in Nat /\ cancel.view[n].run <= Len(signals[n])
                       /\ nodes[n].run \in Nat /\ nodes[n].run <= Len(signals[n])
  BY <1>1 DEF Views, Node, PlacesCoherent, PlaceCoherent, TypeOK
<1>4. \A n \in Nodes : /\ tick.view[n].run <= Len(signals'[n])
                       /\ cancel.view[n].run <= Len(signals'[n])
                       /\ nodes[n].run <= Len(signals'[n])
  BY <1>2, <1>3
<1>5. tick' = tick => PlaceCoherent(tick)'
  BY <1>1, <1>4 DEF PlacesCoherent, PlaceCoherent, Ready, Ended, Recorded, definition
<1>6. cancel' = cancel => PlaceCoherent(cancel)'
  BY <1>1, <1>4 DEF PlacesCoherent, PlaceCoherent, Ready, Ended, Recorded, definition
<1>7. QED BY <1>4, <1>5, <1>6

LEMMA TriggerSignalKeeps ==
  ASSUME BroadcastInv, TriggerSignal
  PROVE  BroadcastInv'
<1>1. /\ TypeOK /\ PlacesCoherent /\ StartCoherent /\ TriggersCounted /\ TriggeredOnce
      /\ Evidence(nodes) /\ Evidence(tick.view)
      /\ (~history.asked => LoopAlone) /\ (Undisturbed => LoopUntorn)
      /\ tick \in Where /\ Sound(tick) /\ nodes \in Views /\ tick.view \in Views
  BY Coherent
<1>2. /\ tick.pc = "trigger"
      /\ UNCHANGED <<definition, dependsOn, policy, broadcast, nodes, known, cancel, history>>
  BY DEF TriggerSignal, definition
<1>3. PICK n \in Nodes : n = tick.at
  BY <1>1, <1>2 DEF Sound
<1>4. n \in Ready(tick.view) /\ tick.view[n].st = "pending"
  BY <1>1, <1>2, <1>3 DEF Sound, Ready
<1>5. PICK sigs \in Seq({"live"} \cup Settled) : sigs = signals[n]
  BY <1>1 DEF TypeOK
<1>6. /\ Append(sigs, "live") \in Seq({"live"} \cup Settled) /\ Len(Append(sigs, "live")) = Len(sigs) + 1
      /\ Len(sigs) \in Nat /\ \A k \in 1..Len(sigs) : Append(sigs, "live")[k] = sigs[k]
      /\ DOMAIN sigs = 1..Len(sigs) /\ DOMAIN Append(sigs, "live") = 1..(Len(sigs) + 1)
  OBVIOUS
<1>7. signals' = [signals EXCEPT ![n] = Append(sigs, "live")]
  BY <1>3, <1>5 DEF TriggerSignal
<1>8. /\ signals' \in [Nodes -> Seq({"live"} \cup Settled)] /\ signals'[n] = Append(sigs, "live")
      /\ \A m \in Nodes \ {n} : signals'[m] = signals[m]
  BY <1>1, <1>6, <1>7 DEF TypeOK
<1>9. \A m \in Nodes : Len(signals[m]) <= Len(signals'[m])
  <2>1. Len(signals[n]) <= Len(signals'[n])
    BY <1>5, <1>6, <1>8
  <2>2. \A m \in Nodes : Len(signals[m]) \in Nat
    BY <1>1 DEF TypeOK
  <2>3. QED BY <1>8, <2>1, <2>2
<1>10. PICK p \in Where : /\ p = tick' /\ p.pc = "record" /\ p.view = tick.view /\ p.at = n
  BY <1>1, <1>3 DEF TriggerSignal, Where
<1>11. Len(sigs) <= history.crashes /\ history.crashes \in Nat
  BY <1>1, <1>2, <1>3, <1>4, <1>5 DEF TriggersCounted, TypeOK
<1>12. TypeOK'
  BY <1>1, <1>2, <1>8, <1>9, <1>10, PlacesStay DEF TypeOK
<1>13. PlacesCoherent'
  <2>1. \A m \in Nodes : p.view[m].run <= Len(signals'[m])
    <3>1. \A m \in Nodes : tick.view[m].run \in Nat /\ tick.view[m].run <= Len(signals[m])
      BY <1>1 DEF Views, Node, PlacesCoherent, PlaceCoherent
    <3>2. QED BY <1>1, <1>8, <1>9, <1>10, <3>1, SignalsStayTyped
  <2>2. Sound(p)
    BY <1>3, <1>4, <1>10 DEF Sound
  <2>3. PlaceCoherent(tick)'
    BY <1>2, <1>10, <2>1, <2>2, TickPlace
  <2>4. PlaceCoherent(cancel)'
    BY <1>2, <1>8, <1>9, PlacesStay
  <2>5. QED BY <1>1, <1>2, <1>10, <2>3, <2>4 DEF PlacesCoherent
<1>14. StartCoherent'
  BY <1>1, <1>2, <1>10 DEF StartCoherent
<1>15. TriggersCounted' /\ TriggeredOnce'
  <2>1. Len(signals'[n]) <= 1 + history.crashes
    BY <1>6, <1>8, <1>11
  <2>2. TriggeredOnce'
    BY <1>1, <1>2, <1>8, <2>1 DEF TriggeredOnce
  <2>3. TriggersCounted'
    BY <1>1, <1>2, <1>3, <1>8, <1>10 DEF TriggersCounted
  <2>4. QED BY <2>2, <2>3
<1>16. Evidence(nodes)' /\ Evidence(tick.view)'
  <2>1. \A m \in Nodes : Satisfied(m) => Satisfied(m)'
    <3>1. ASSUME NEW m \in Nodes, NEW k \in DOMAIN signals[m], signals[m][k] = "completed"
          PROVE  k \in DOMAIN signals'[m] /\ signals'[m][k] = "completed"
      BY <1>5, <1>6, <1>8, <3>1
    <3>2. QED BY <1>2, <3>1 DEF Satisfied
  <2>2. QED BY <1>1, <1>2, <1>10, <2>1 DEF Evidence
<1>17. (~history.asked => LoopAlone)'
  BY <1>1, <1>2, <1>10 DEF LoopAlone, Passing, Sweeping
<1>18. (Undisturbed => LoopUntorn)'
  BY <1>1, <1>2, <1>8, <1>10 DEF LoopUntorn, Undisturbed, Creating, NodeFailed, Sweeping
<1>19. OutcomeJustified' /\ NothingLeftRunning'
  <2>1. CASE ~history.asked
    BY <1>1, <1>2, <2>1, StillRunning DEF LoopAlone, Passing, Settled
  <2>2. CASE history.asked
    BY <1>2, <2>2, Disturbed
  <2>3. QED BY <2>1, <2>2
<1>20. QED
  BY <1>12, <1>13, <1>14, <1>15, <1>16, <1>17, <1>18, <1>19 DEF BroadcastInv

(* The loop ends the broadcast. *)
LEMMA EndsKeeps ==
  ASSUME BroadcastInv, NEW s \in {"completed", "failed"}, SetStatus(s), tick' = Idle,
         tick.pc \in {"unresolved", "finish", "swept"},
         tick.pc = "unresolved" => s = "failed", tick.pc = "swept" => s = "failed",
         tick.pc = "finish" => s = Outcome(tick.view),
         UNCHANGED <<definition, nodes, signals, known, cancel, history>>
  PROVE  BroadcastInv'
<1>1. /\ TypeOK /\ PlacesCoherent /\ StartCoherent /\ TriggersCounted /\ TriggeredOnce
      /\ Evidence(nodes) /\ Evidence(tick.view)
      /\ (~history.asked => LoopAlone) /\ (Undisturbed => LoopUntorn)
      /\ tick \in Where /\ Sound(tick) /\ nodes \in Views /\ tick.view \in Views
  BY Coherent
<1>2. UNCHANGED <<dependsOn, policy, nodes, signals, known, cancel, history>>
  BY DEF definition
<1>3. PICK p \in Where : p = tick' /\ p.pc = "idle" /\ p.view = None
  BY IdleFields
<1>4. /\ broadcast' \in [status : {"pending", "running"} \cup Settled, late : BOOLEAN]
      /\ broadcast'.status = s /\ broadcast'.late = broadcast.late
  BY <1>1 DEF SetStatus, TypeOK, Settled
<1>5. TypeOK'
  BY <1>1, <1>2, <1>3, <1>4 DEF TypeOK
<1>6. PlacesCoherent'
  <2>1. Sound(p)
    BY <1>3 DEF Sound
  <2>2. \A n \in Nodes : p.view[n].run <= Len(signals'[n])
    BY <1>1, <1>2, <1>3, NoNodeRuns DEF TypeOK
  <2>3. PlaceCoherent(tick)'
    BY <1>3, <2>1, <2>2, TickPlace
  <2>4. PlaceCoherent(cancel)'
    BY <1>1, <1>2 DEF PlacesCoherent, PlaceCoherent, Ready, Ended, Recorded
  <2>5. QED BY <1>1, <1>2, <1>3, <2>3, <2>4 DEF PlacesCoherent
<1>7. StartCoherent'
  BY <1>3, <1>4 DEF StartCoherent
<1>8. TriggersCounted' /\ TriggeredOnce'
  <2>1. \A n \in Nodes : p.view[n].st # "pending"
    BY <1>3, NoNodeRuns
  <2>2. QED BY <1>1, <1>2, <1>3, <2>1 DEF TriggersCounted, TriggeredOnce
<1>9. Evidence(nodes)' /\ Evidence(tick.view)'
  <2>1. \A n \in Nodes : p.view[n].st \notin {"completed", "guard"}
    BY <1>3, NoNodeRuns
  <2>2. QED BY <1>1, <1>2, <1>3, <2>1 DEF Evidence, Satisfied
<1>10. (~history.asked => LoopAlone)'
  BY <1>1, <1>2, <1>3 DEF LoopAlone, Passing, Sweeping
<1>11. ASSUME Undisturbed PROVE LoopUntorn' /\ OutcomeJustified' /\ NothingLeftRunning'
  <2>1. /\ LoopUntorn /\ LoopAlone /\ broadcast.status = "running" /\ tick.pc \in {"finish", "swept"}
    BY <1>1, <1>11 DEF LoopUntorn, LoopAlone, Undisturbed, Passing, Sweeping
  <2>2. \A n \in Nodes : nodes[n].st # "missing"
    BY <2>1 DEF LoopUntorn, Creating
  <2>3. /\ \A n \in Nodes : nodes[n].st \notin Unresolved
        /\ tick.pc = "finish" => nodes = tick.view /\ \A n \in Nodes : nodes[n].st # "cancelled"
    <3>1. CASE tick.pc = "finish"
      <4>1. nodes = tick.view /\ \A n \in Nodes : nodes[n].st # "cancelled"
        BY <2>1, <3>1 DEF LoopUntorn, LoopAlone, Passing, Sweeping
      <4>2. Ended(tick.view) /\ Recorded(tick.view) = Nodes
        BY <1>1, <2>2, <3>1, <4>1 DEF Sound, Recorded
      <4>3. QED BY <4>1, <4>2 DEF Ended
    <3>2. CASE tick.pc = "swept"
      <4>1. \A n \in Nodes : n < tick.at
        BY <1>1, <3>2, BroadcastAssumption DEF Sound, Nodes
      <4>2. \A n \in Nodes : nodes[n] = IF tick.view[n].st \in Unresolved
                                        THEN [tick.view[n] EXCEPT !.st = "cancelled"] ELSE tick.view[n]
        BY <2>1, <3>2, <4>1 DEF LoopAlone, Sweeping
      <4>3. \A n \in Nodes : [tick.view[n] EXCEPT !.st = "cancelled"].st = "cancelled"
        BY <1>1 DEF Views, Node
      <4>4. QED BY <3>2, <4>2, <4>3 DEF Unresolved
    <3>3. QED BY <2>1, <3>1, <3>2
  <2>4. \A n \in Nodes : \A k \in DOMAIN signals[n] : signals[n][k] # "live"
    BY <2>1, <2>3 DEF LoopUntorn, Unresolved
  <2>5. NothingLeftRunning'
    BY <1>2, <2>3, <2>4 DEF NothingLeftRunning
  <2>6. LoopUntorn'
    <3>1. /\ \A n \in Nodes : nodes'[n].st # "missing"
          /\ \A n \in Nodes : nodes[n].st = "cancelled" => broadcast'.status = "failed"
      BY <1>2, <1>4, <2>1, <2>2, <2>3 DEF LoopUntorn
    <3>2. QED BY <1>2, <1>3, <1>4, <2>1, <2>4, <3>1 DEF LoopUntorn, NodeFailed, Sweeping
  <2>7. s = "failed" => FailedJustly'
    <3>1. CASE tick.pc = "finish"
      BY <1>2, <1>4, <2>1, <2>3, <3>1 DEF Outcome, FailedJustly
    <3>2. CASE tick.pc = "swept"
      BY <1>2, <1>4, <2>1, <3>2 DEF LoopUntorn, Sweeping, NodeFailed, FailedJustly
    <3>3. QED BY <2>1, <3>1, <3>2
  <2>8. s = "completed" => CompletedJustly'
    <3>1. SUFFICES ASSUME s = "completed", NEW n \in Nodes
                   PROVE  (\/ Good(n)
                           \/ /\ policy = "continue" /\ nodes[n].st \in {"failed", "upstream"}
                              /\ nodes[n].st = "upstream" =>
                                   \E d \in dependsOn[n] : nodes[d].st \in {"failed", "upstream"})'
      BY DEF CompletedJustly
    <3>2. tick.pc = "finish" /\ nodes = tick.view
      BY <2>1, <2>3, <3>1
    <3>3. nodes[n].st \in {"completed", "guard", "failed", "upstream"}
      BY <1>1, <2>2, <2>3, <3>2 DEF Views, Node, NodeStatus, Skips, Unresolved
    <3>4. NodeFailed => policy = "continue"
      BY <3>1, <3>2 DEF Outcome, NodeFailed
    <3>5. nodes[n].st \in {"failed", "upstream"} => NodeFailed
      BY <2>1 DEF LoopUntorn, NodeFailed
    <3>6. nodes[n].st = "upstream" => \E d \in dependsOn[n] : nodes[d].st \in {"failed", "upstream"}
      BY <2>1 DEF LoopUntorn
    <3>7. QED BY <1>2, <3>3, <3>4, <3>5, <3>6 DEF Good
  <2>9. OutcomeJustified'
    BY <1>4, <2>7, <2>8 DEF OutcomeJustified
  <2>10. QED BY <2>5, <2>6, <2>9
<1>12. ~Undisturbed => OutcomeJustified' /\ NothingLeftRunning' /\ (Undisturbed => LoopUntorn)'
  BY <1>2 DEF OutcomeJustified, NothingLeftRunning, Undisturbed
<1>13. QED
  BY <1>5, <1>6, <1>7, <1>8, <1>9, <1>10, <1>11, <1>12 DEF BroadcastInv

LEMMA EndingsKeep ==
  ASSUME BroadcastInv, Unresolvable \/ SetOutcome \/ SweptFails
  PROVE  BroadcastInv'
<1>1. PICK s \in {"completed", "failed"} : /\ SetStatus(s)
                                           /\ tick.pc = "unresolved" => s = "failed"
                                           /\ tick.pc = "swept" => s = "failed"
                                           /\ tick.pc = "finish" => s = Outcome(tick.view)
  BY DEF Unresolvable, SetOutcome, SweptFails, Outcome
<1>2. /\ tick' = Idle /\ tick.pc \in {"unresolved", "finish", "swept"}
      /\ UNCHANGED <<definition, nodes, signals, known, cancel, history>>
  BY DEF Unresolvable, SetOutcome, SweptFails
<1>3. QED BY <1>1, <1>2, EndsKeeps

(* The broadcast is started, and its node runs are created. *)
LEMMA StartKeeps ==
  ASSUME BroadcastInv, Start
  PROVE  BroadcastInv'
<1>1. /\ TypeOK /\ PlacesCoherent /\ StartCoherent /\ TriggersCounted /\ TriggeredOnce
      /\ Evidence(nodes) /\ Evidence(tick.view)
      /\ (~history.asked => LoopAlone) /\ (Undisturbed => LoopUntorn)
  BY Coherent
<1>2. /\ tick.pc = "start" /\ broadcast' = [status |-> "running", late |-> FALSE]
      /\ UNCHANGED <<definition, dependsOn, policy, nodes, signals, known, cancel, history>>
  BY DEF Start, definition
<1>3. 1 \in 0..(N + 1) /\ 1 \in Nodes /\ N \in Nat /\ Nodes = 1..N
  BY BroadcastAssumption DEF Nodes
<1>4. PICK f \in BOOLEAN : f = TRUE
  OBVIOUS
<1>5. tick' = Place("create", None, 1, f)
  BY <1>4 DEF Start
<1>6. PICK p \in Where : p = tick' /\ p.pc = "create" /\ p.view = None /\ p.at = 1
  BY <1>3, <1>5, NoNodeRuns, PlaceFields DEF PlacePcs
<1>7. nodes = None /\ \A n \in Nodes : signals[n] = <<>>
  BY <1>1, <1>2 DEF StartCoherent
<1>8. broadcast' \in [status : {"pending", "running"} \cup Settled, late : BOOLEAN]
      /\ broadcast'.status = "running"
  BY <1>2
<1>9. TypeOK'
  BY <1>1, <1>2, <1>6, <1>8 DEF TypeOK
<1>10. PlacesCoherent'
  <2>1. Sound(p)
    BY <1>3, <1>6 DEF Sound
  <2>2. \A n \in Nodes : p.view[n].run <= Len(signals'[n])
    BY <1>1, <1>2, <1>6, NoNodeRuns DEF TypeOK
  <2>3. PlaceCoherent(tick)'
    BY <1>2, <1>6, <2>1, <2>2, TickPlace
  <2>4. PlaceCoherent(cancel)'
    BY <1>1, <1>2 DEF PlacesCoherent, PlaceCoherent, Ready, Ended, Recorded
  <2>5. QED BY <1>1, <1>2, <1>6, <2>3, <2>4 DEF PlacesCoherent
<1>11. StartCoherent'
  <2>1. \A n \in Nodes : ~(n < 1)
    BY <1>3
  <2>2. QED BY <1>2, <1>6, <1>7, <1>8, <2>1, NoNodeRuns DEF StartCoherent
<1>12. TriggersCounted' /\ TriggeredOnce'
  <2>1. \A n \in Nodes : p.view[n].st # "pending"
    BY <1>6, NoNodeRuns
  <2>2. QED BY <1>1, <1>2, <1>6, <2>1 DEF TriggersCounted, TriggeredOnce
<1>13. Evidence(nodes)' /\ Evidence(tick.view)'
  <2>1. \A n \in Nodes : p.view[n].st \notin {"completed", "guard"}
    BY <1>6, NoNodeRuns
  <2>2. QED BY <1>1, <1>2, <1>6, <2>1 DEF Evidence, Satisfied
<1>14. (~history.asked => LoopAlone)'
  BY <1>1, <1>2, <1>6, <1>7, <1>8 DEF LoopAlone, Passing, Sweeping
<1>15. (Undisturbed => LoopUntorn)'
  <2>1. \A n \in Nodes : nodes[n].st = "missing" /\ DOMAIN signals[n] = {}
    BY <1>7, NoNodeRuns
  <2>2. QED BY <1>1, <1>2, <1>6, <1>8, <2>1 DEF LoopUntorn, Undisturbed, Creating, Sweeping
<1>16. OutcomeJustified' /\ NothingLeftRunning'
  BY <1>8, StillRunning DEF Settled
<1>17. QED
  BY <1>9, <1>10, <1>11, <1>12, <1>13, <1>14, <1>15, <1>16 DEF BroadcastInv

LEMMA CreateNodeKeeps ==
  ASSUME BroadcastInv, CreateNode
  PROVE  BroadcastInv'
<1>1. /\ TypeOK /\ PlacesCoherent /\ StartCoherent /\ TriggersCounted /\ TriggeredOnce
      /\ Evidence(nodes) /\ Evidence(tick.view)
      /\ (~history.asked => LoopAlone) /\ (Undisturbed => LoopUntorn)
      /\ tick \in Where /\ Sound(tick) /\ nodes \in Views /\ tick.view \in Views
  BY Coherent
<1>2. /\ tick.pc = "create"
      /\ UNCHANGED <<definition, dependsOn, policy, broadcast, signals, known, cancel, history>>
  BY DEF CreateNode, definition
<1>3. N \in Nat /\ Nodes = 1..N
  BY BroadcastAssumption DEF Nodes
<1>4. PICK n \in Nodes : n = tick.at
  BY <1>1, <1>2 DEF Sound
<1>5. PICK new \in Node : new = [st |-> "pending", run |-> 0]
  BY DEF Node, NodeStatus, Unresolved
<1>6. PICK w : w = [tick.view EXCEPT ![n] = new]
  OBVIOUS
<1>7. PICK p : p = tick'
  OBVIOUS
<1>8. PICK f \in BOOLEAN : f = TRUE
  OBVIOUS
<1>9. /\ nodes' = [nodes EXCEPT ![n] = new]
      /\ p = IF n < N THEN Place("create", w, n + 1, f) ELSE TriggerPass(w, 1, f)
  BY <1>4, <1>5, <1>6, <1>7, <1>8 DEF CreateNode
<1>10. /\ w \in Views /\ w[n] = new /\ \A m \in Nodes \ {n} : w[m] = tick.view[m]
       /\ nodes' \in Views /\ nodes'[n] = new /\ \A m \in Nodes \ {n} : nodes'[m] = nodes[m]
  BY <1>1, <1>6, <1>9 DEF Views
<1>11. /\ \A m \in Nodes : signals[m] = <<>> /\ Len(signals[m]) = 0 /\ DOMAIN signals[m] = {}
       /\ broadcast.status # "pending"
       /\ \A m \in Nodes : IF m < n THEN nodes[m].st # "missing" /\ tick.view[m].st = "pending"
                                    ELSE nodes[m] = Missing /\ tick.view[m] = Missing
  BY <1>1, <1>2, <1>4 DEF StartCoherent
<1>12. /\ p \in Where /\ Sound(p) /\ (p.view = None \/ p.view = w)
       /\ \/ p.pc = "create" /\ p.at = n + 1 /\ n < N /\ p.view = w
          \/ n = N /\ Passed(p, w)
  <2>1. CASE n < N
    <3>1. n + 1 \in 0..(N + 1) /\ n + 1 \in Nodes
      BY <1>3, <2>1
    <3>2. p = Place("create", w, n + 1, f)
      BY <1>9, <2>1
    <3>3. p \in Where /\ p.pc = "create" /\ p.view = w /\ p.at = n + 1
      BY <1>10, <3>1, <3>2, PlaceFields DEF PlacePcs
    <3>4. Sound(p)
      BY <3>1, <3>3 DEF Sound
    <3>5. QED BY <2>1, <3>3, <3>4
  <2>2. CASE ~(n < N)
    <3>1. n = N /\ 1 \in 1..(N + 1)
      BY <1>3, <2>2
    <3>2. Passed(p, w)
      BY <1>8, <1>9, <1>10, <2>2, <3>1, TriggerPlace
    <3>3. QED BY <3>1, <3>2, PassedPcs, IdleFields
  <2>3. QED BY <2>1, <2>2
<1>13. /\ p.pc \in {"create", "idle", "collect", "skip", "trigger", "finish", "stop", "skipNode", "swept"}
       /\ p.pc # "idle" => p.view = w
  BY <1>12, PassedPcs, IdleFields
<1>14. \A m \in Nodes : nodes[m].run \in Nat /\ w[m].run \in Nat /\ w[m].run <= 0
  <2>1. new.run = 0
    BY <1>5
  <2>2. \A m \in Nodes : tick.view[m].run <= 0
    BY <1>1, <1>11 DEF PlacesCoherent, PlaceCoherent
  <2>3. QED BY <1>1, <1>10, <2>1, <2>2 DEF Views, Node
<1>15. TypeOK'
  <2>1. \A m \in Nodes : nodes'[m].run <= Len(signals'[m])
    <3>1. new.run = 0
      BY <1>5
    <3>2. \A m \in Nodes : nodes[m].run <= Len(signals[m])
      BY <1>1 DEF TypeOK
    <3>3. QED BY <1>2, <1>10, <1>11, <3>1, <3>2
  <2>2. QED BY <1>1, <1>2, <1>7, <1>10, <1>12, <2>1 DEF TypeOK, Views
<1>16. PlacesCoherent'
  <2>1. \A m \in Nodes : p.view[m].run <= Len(signals'[m])
    BY <1>2, <1>11, <1>12, <1>14, NoNodeRuns
  <2>2. PlaceCoherent(tick)'
    BY <1>2, <1>7, <1>12, <2>1, TickPlace
  <2>3. PlaceCoherent(cancel)'
    BY <1>1, <1>2 DEF PlacesCoherent, PlaceCoherent, Ready, Ended, Recorded
  <2>4. \A m \in Nodes : nodes[m].st # "missing" => nodes'[m].st # "missing"
    BY <1>5, <1>10
  <2>5. QED BY <1>1, <1>2, <1>7, <1>13, <2>2, <2>3, <2>4 DEF PlacesCoherent
<1>17. StartCoherent'
  <2>1. ASSUME p.pc = "create", NEW m \in Nodes
        PROVE  IF m < n + 1 THEN nodes'[m].st # "missing" /\ p.view[m].st = "pending"
                            ELSE nodes'[m] = Missing /\ p.view[m] = Missing
    <3>1. p.view = w
      BY <1>13, <2>1
    <3>2. new.st = "pending"
      BY <1>5
    <3>3. CASE m = n
      BY <1>3, <1>10, <3>1, <3>2, <3>3
    <3>4. CASE m # n
      <4>1. m < n + 1 <=> m < n
        BY <1>3, <3>4
      <4>2. QED BY <1>10, <1>11, <3>1, <3>4, <4>1
    <3>5. QED BY <3>3, <3>4
  <2>2. p.pc = "create" => p.at = n + 1
    BY <1>12, PassedPcs
  <2>3. QED BY <1>2, <1>7, <1>11, <1>13, <2>1, <2>2 DEF StartCoherent
<1>18. TriggersCounted' /\ TriggeredOnce'
  <2>1. \A m \in Nodes : Len(signals'[m]) <= history.crashes
    BY <1>1, <1>2, <1>11 DEF TypeOK
  <2>2. QED BY <1>1, <1>2, <2>1 DEF TriggersCounted, TriggeredOnce
<1>19. Evidence(nodes)' /\ Evidence(tick.view)'
  <2>1. new.st = "pending" /\ Missing.st = "missing"
    BY <1>5 DEF Missing
  <2>2. \A m \in Nodes : nodes'[m].st \in {"completed", "guard"} => nodes'[m] = nodes[m]
    BY <1>10, <2>1
  <2>3. \A m \in Nodes : p.view[m].st \notin {"completed", "guard"}
    BY <1>10, <1>11, <1>12, <2>1, NoNodeRuns
  <2>4. QED BY <1>1, <1>2, <1>7, <2>2, <2>3 DEF Evidence, Satisfied
<1>20. ASSUME ~history.asked
       PROVE  LoopAlone' /\ broadcast.status = "running" /\ nodes = tick.view /\ nodes' = w
  <2>1. LoopAlone /\ broadcast.status = "running" /\ nodes = tick.view
    BY <1>1, <1>2, <1>20 DEF LoopAlone, Passing
  <2>2. nodes' = w
    BY <1>6, <1>9, <2>1
  <2>3. p.pc \in Sweeping => \A m \in Nodes : m < p.at => w[m].st \notin Unresolved
    BY <1>12, IdleFields DEF Passed, Sweeps, Sweeping
  <2>4. QED BY <1>2, <1>7, <1>13, <2>1, <2>2, <2>3 DEF LoopAlone, Passing, Sweeping
<1>21. ASSUME Undisturbed PROVE LoopUntorn'
  <2>1. LoopUntorn /\ nodes' = w /\ broadcast.status = "running" /\ nodes = tick.view
    BY <1>1, <1>20, <1>21 DEF Undisturbed
  <2>2. new.st = "pending" /\ Missing.st = "missing"
    BY <1>5 DEF Missing
  <2>3. \A m \in Nodes : w[m].st \in {"pending", "missing"}
    BY <1>10, <1>11, <2>2
  <2>4. p.pc # "create" => \A m \in Nodes : w[m].st # "missing"
    <3>1. SUFFICES ASSUME p.pc # "create" PROVE \A m \in Nodes : w[m].st # "missing"
      OBVIOUS
    <3>2. n = N
      BY <1>12, <3>1
    <3>3. \A m \in Nodes \ {n} : m < n
      BY <1>3, <3>2
    <3>4. QED BY <1>10, <1>11, <2>2, <3>3
  <2>5. p.pc \notin Sweeping
    <3>1. \A m \in Nodes : w[m].st # "failed"
      BY <2>3
    <3>2. QED BY <1>12, <3>1, IdleFields DEF Passed, Sweeping
  <2>6. p.pc \notin {"unresolved", "expire", "skipNode"}
    BY <1>13, <2>5 DEF Sweeping
  <2>7. QED
    BY <1>2, <1>7, <1>11, <2>1, <2>3, <2>4, <2>5, <2>6 DEF LoopUntorn, Creating
<1>22. OutcomeJustified' /\ NothingLeftRunning'
  <2>1. CASE ~history.asked
    BY <1>2, <1>20, <2>1, StillRunning DEF Settled
  <2>2. CASE history.asked
    BY <1>2, <2>2, Disturbed
  <2>3. QED BY <2>1, <2>2
<1>23. QED
  BY <1>2, <1>15, <1>16, <1>17, <1>18, <1>19, <1>20, <1>21, <1>22 DEF BroadcastInv, Undisturbed

(* Sweeping: signals stop, and nodes are skipped. *)
LEMMA StopKeepsSignals ==
  ASSUME TypeOK, NEW n \in Nodes, NEW k \in DOMAIN signals[n], NEW s \in {"live"} \cup Settled,
         signals' = [signals EXCEPT ![n][k] = s], s = "live" => signals[n][k] = "live",
         signals[n][k] # "live" => s = signals[n][k]
  PROVE  /\ signals' \in [Nodes -> Seq({"live"} \cup Settled)]
         /\ \A m \in Nodes : Len(signals'[m]) = Len(signals[m]) /\ DOMAIN signals'[m] = DOMAIN signals[m]
         /\ \A m \in Nodes : signals[m] = <<>> => signals'[m] = <<>>
         /\ \A m \in Nodes : \A l \in DOMAIN signals[m] :
              /\ signals'[m][l] = "live" => signals[m][l] = "live"
              /\ signals[m][l] = "completed" => signals'[m][l] = "completed"
         /\ signals'[n][k] = s
<1>1. PICK sigs \in Seq({"live"} \cup Settled) : sigs = signals[n]
  BY DEF TypeOK
<1>2. PICK new : new = [sigs EXCEPT ![k] = s]
  OBVIOUS
<1>3. /\ new \in Seq({"live"} \cup Settled) /\ Len(new) = Len(sigs) /\ DOMAIN new = DOMAIN sigs
      /\ new[k] = s /\ \A l \in DOMAIN sigs \ {k} : new[l] = sigs[l]
  BY <1>1, <1>2
<1>4. signals' = [signals EXCEPT ![n] = new]
  BY <1>1, <1>2
<1>5. /\ signals' \in [Nodes -> Seq({"live"} \cup Settled)] /\ signals'[n] = new
      /\ \A m \in Nodes \ {n} : signals'[m] = signals[m]
  BY <1>3, <1>4 DEF TypeOK
<1>6. \A m \in Nodes : Len(signals'[m]) = Len(signals[m]) /\ DOMAIN signals'[m] = DOMAIN signals[m]
  BY <1>1, <1>3, <1>5
<1>7. \A m \in Nodes : signals[m] = <<>> => signals'[m] = <<>>
  <2>1. DOMAIN signals[n] # {}
    OBVIOUS
  <2>2. signals[n] # <<>>
    BY <2>1
  <2>3. QED BY <1>5, <2>2
<1>8. \A m \in Nodes : \A l \in DOMAIN signals[m] :
        /\ signals'[m][l] = "live" => signals[m][l] = "live"
        /\ signals[m][l] = "completed" => signals'[m][l] = "completed"
  <2>1. ASSUME NEW l \in DOMAIN sigs
        PROVE  /\ new[l] = "live" => sigs[l] = "live"
               /\ sigs[l] = "completed" => new[l] = "completed"
    <3>1. CASE l = k
      BY <1>1, <1>3, <3>1
    <3>2. CASE l # k
      BY <1>3, <3>2
    <3>3. QED BY <3>1, <3>2
  <2>2. QED BY <1>1, <1>5, <2>1
<1>9. QED BY <1>3, <1>5, <1>6, <1>7, <1>8

(* Signal runs end or are stopped, whoever does it. *)
LEMMA SignalsEndKeeps ==
  ASSUME BroadcastInv,
         signals' \in [Nodes -> Seq({"live"} \cup Settled)],
         \A m \in Nodes : Len(signals'[m]) = Len(signals[m]) /\ DOMAIN signals'[m] = DOMAIN signals[m],
         \A m \in Nodes : signals[m] = <<>> => signals'[m] = <<>>,
         \A m \in Nodes : \A l \in DOMAIN signals[m] :
           /\ signals'[m][l] = "live" => signals[m][l] = "live"
           /\ signals[m][l] = "completed" => signals'[m][l] = "completed",
         UNCHANGED <<definition, broadcast, nodes, known, history>>,
         \/ UNCHANGED <<tick, cancel>>
         \/ UNCHANGED tick /\ cancel.pc = "stop" /\ cancel' = Stopped(cancel)
         \/ /\ UNCHANGED cancel /\ tick.pc = "stop" /\ tick' = Stopped(tick)
            /\ signals'[tick.at][tick.view[tick.at].run] # "live"
  PROVE  BroadcastInv'
<1>1. /\ TypeOK /\ PlacesCoherent /\ StartCoherent /\ TriggersCounted /\ TriggeredOnce
      /\ Evidence(nodes) /\ Evidence(tick.view)
      /\ (~history.asked => LoopAlone) /\ (Undisturbed => LoopUntorn)
      /\ OutcomeJustified /\ NothingLeftRunning
      /\ tick \in Where /\ Sound(tick) /\ cancel \in Where /\ Sound(cancel)
      /\ nodes \in Views /\ tick.view \in Views /\ cancel.view \in Views
  BY Coherent
<1>2. UNCHANGED <<dependsOn, policy, broadcast, nodes, known, history>>
  BY DEF definition
<1>3. PICK p \in Where : /\ p = tick' /\ p.view = tick.view /\ p.at = tick.at
                         /\ p.pc = tick.pc \/ (tick.pc = "stop" /\ p.pc = "skipNode")
                         /\ p.pc = "skipNode" => tick.pc = "skipNode" \/
                              (tick.pc = "stop" /\ signals'[tick.at][tick.view[tick.at].run] # "live")
  <2>1. CASE UNCHANGED tick
    BY <1>1, <2>1
  <2>2. CASE tick.pc = "stop" /\ tick' = Stopped(tick)
             /\ signals'[tick.at][tick.view[tick.at].run] # "live"
    <3>1. /\ Stopped(tick) \in Where /\ Stopped(tick).view = tick.view
          /\ Stopped(tick).at = tick.at /\ Stopped(tick).pc = "skipNode"
      BY <1>1 DEF Where, Stopped
    <3>2. QED BY <2>2, <3>1
  <2>3. QED BY <2>1, <2>2
<1>4. PICK c \in Where : /\ c = cancel' /\ c.view = cancel.view /\ c.at = cancel.at
                         /\ c.pc = cancel.pc \/ (cancel.pc = "stop" /\ c.pc = "skipNode")
  <2>1. CASE UNCHANGED cancel
    BY <1>1, <2>1
  <2>2. CASE cancel.pc = "stop" /\ cancel' = Stopped(cancel)
    <3>1. /\ Stopped(cancel) \in Where /\ Stopped(cancel).view = cancel.view
          /\ Stopped(cancel).at = cancel.at /\ Stopped(cancel).pc = "skipNode"
      BY <1>1 DEF Where, Stopped
    <3>2. QED BY <2>2, <3>1
  <2>3. QED BY <2>1, <2>2
<1>5. /\ Sound(p)
      /\ Sound(c)
  <2>1. Sound(p)
    BY <1>1, <1>3 DEF Sound, Unresolved
  <2>2. Sound(c)
    BY <1>1, <1>4 DEF Sound, Unresolved
  <2>3. QED BY <2>1, <2>2
<1>6. TypeOK'
  BY <1>1, <1>2, <1>3, <1>4 DEF TypeOK
<1>7. PlacesCoherent'
  <2>1. \A m \in Nodes : p.view[m].run <= Len(signals'[m]) /\ c.view[m].run <= Len(signals'[m])
    BY <1>1, <1>3, <1>4 DEF PlacesCoherent, PlaceCoherent
  <2>2. PlaceCoherent(tick)'
    BY <1>3, <1>5, <2>1, TickPlace
  <2>3. PlaceCoherent(cancel)'
    BY <1>4, <1>5, <2>1, CancelPlace
  <2>4. QED BY <1>1, <1>2, <1>3, <1>4, <2>2, <2>3 DEF PlacesCoherent, Sweeping
<1>8. StartCoherent'
  BY <1>1, <1>2, <1>3 DEF StartCoherent
<1>9. TriggersCounted' /\ TriggeredOnce'
  BY <1>1, <1>2, <1>3 DEF TriggersCounted, TriggeredOnce
<1>10. Evidence(nodes)' /\ Evidence(tick.view)'
  <2>1. \A m \in Nodes : Satisfied(m) => Satisfied(m)'
    BY <1>2 DEF Satisfied
  <2>2. QED BY <1>1, <1>2, <1>3, <2>1 DEF Evidence
<1>11. (~history.asked => LoopAlone)'
  <2>1. ASSUME ~history.asked PROVE LoopAlone'
    <3>1. LoopAlone /\ cancel.pc = "idle" /\ c.pc = "idle"
      BY <1>1, <1>4, <2>1 DEF LoopAlone
    <3>2. QED BY <1>2, <1>3, <1>4, <3>1 DEF LoopAlone, Passing, Sweeping
  <2>2. QED BY <1>2, <2>1
<1>12. (Undisturbed => LoopUntorn)'
  <2>1. ASSUME Undisturbed PROVE LoopUntorn'
    <3>1. LoopUntorn
      BY <1>1, <2>1
    <3>2. \A n \in Nodes : (\E k \in DOMAIN signals'[n] : signals'[n][k] = "live") =>
            (\E k \in DOMAIN signals[n] : signals[n][k] = "live")
      OBVIOUS
    <3>3. p.pc = "skipNode" => \A k \in DOMAIN signals'[p.at] : signals'[p.at][k] # "live"
      <4>1. CASE tick.pc = "skipNode"
        BY <1>1, <1>3, <3>1, <4>1 DEF LoopUntorn, Sound
      <4>2. CASE tick.pc = "stop" /\ p.pc = "skipNode"
        <5>1. PICK n \in Nodes : n = tick.at
          BY <1>1, <4>2 DEF Sound
        <5>2. PICK sigs \in Seq({"live"} \cup Settled) : sigs = signals'[n]
          OBVIOUS
        <5>3. Len(sigs) <= 1
          BY <1>1, <2>1, <5>2 DEF TriggeredOnce, Undisturbed
        <5>4. tick.view[n].run \in Nat /\ tick.view[n].run # 0 /\ tick.view[n].run <= Len(sigs)
          BY ZenonT(60), <1>1, <4>2, <5>1, <5>2 DEF Views, Node, Sound, PlacesCoherent, PlaceCoherent
        <5>5. tick.view[n].run \in DOMAIN sigs
          BY <5>4
        <5>6. \A k \in DOMAIN sigs : k = 1
          BY <5>3, OnlyMember, Zenon
        <5>7. \A k \in DOMAIN sigs : k = tick.view[n].run
          BY <5>5, <5>6
        <5>8. sigs[tick.view[n].run] # "live"
          BY <1>3, <4>2, <5>1, <5>2
        <5>9. QED BY <1>3, <5>1, <5>2, <5>7, <5>8
      <4>3. QED BY <1>3, <4>1, <4>2
    <3>4. QED BY <1>2, <1>3, <3>1, <3>2, <3>3 DEF LoopUntorn, Creating, NodeFailed, Sweeping
  <2>2. QED BY <1>2, <2>1 DEF Undisturbed
<1>13. OutcomeJustified'
  BY <1>1, <1>2 DEF OutcomeJustified, CompletedJustly, FailedJustly, Good, Undisturbed
<1>14. NothingLeftRunning'
  BY <1>1, <1>2 DEF NothingLeftRunning, Undisturbed
<1>15. QED
  BY <1>6, <1>7, <1>8, <1>9, <1>10, <1>11, <1>12, <1>13, <1>14 DEF BroadcastInv

(* What a sweep's step does to the signal runs, and what the end of one does. *)
LEMMA SweptSignals ==
  ASSUME BroadcastInv, NEW q \in Where, q \in {tick, cancel}, StopSwept(q)
  PROVE  /\ signals' \in [Nodes -> Seq({"live"} \cup Settled)]
         /\ \A m \in Nodes : Len(signals'[m]) = Len(signals[m]) /\ DOMAIN signals'[m] = DOMAIN signals[m]
         /\ \A m \in Nodes : signals[m] = <<>> => signals'[m] = <<>>
         /\ \A m \in Nodes : \A j \in DOMAIN signals[m] :
              /\ signals'[m][j] = "live" => signals[m][j] = "live"
              /\ signals[m][j] = "completed" => signals'[m][j] = "completed"
         /\ signals'[q.at][q.view[q.at].run] # "live"
<1>1. /\ TypeOK /\ PlacesCoherent /\ q.pc = "stop" /\ q.view \in Views /\ Sound(q)
  BY Coherent DEF StopSwept
<1>2. PICK n \in Nodes : n = q.at
  BY <1>1 DEF Sound
<1>3. PICK sigs \in Seq({"live"} \cup Settled) : sigs = signals[n]
  BY <1>1 DEF TypeOK
<1>4. q.view[n].run \in Nat /\ q.view[n].run # 0 /\ q.view[n].run <= Len(sigs)
  BY <1>1, <1>2, <1>3 DEF Sound, PlacesCoherent, PlaceCoherent, Views, Node
<1>5. q.view[n].run \in DOMAIN sigs
  BY <1>4
<1>6. PICK k \in DOMAIN signals[n] : k = q.view[n].run
  BY <1>3, <1>5
<1>7. PICK s \in {"live"} \cup Settled : s = IF signals[n][k] = "live" THEN "cancelled" ELSE signals[n][k]
  BY <1>3, <1>6 DEF Settled
<1>8. s \in {"live"} \cup Settled /\ s # "live" /\ (signals[n][k] # "live" => s = signals[n][k])
  BY <1>7
<1>9. signals' = [signals EXCEPT ![n][k] = s]
  BY <1>2, <1>6, <1>7 DEF StopSwept
<1>10. PICK l \in {"live"} \cup Settled : l = s
  BY <1>8
<1>11. /\ signals' = [signals EXCEPT ![n][k] = l] /\ (l = "live" => signals[n][k] = "live")
       /\ (signals[n][k] # "live" => l = signals[n][k])
  BY <1>8, <1>9, <1>10
<1>12. /\ signals' \in [Nodes -> Seq({"live"} \cup Settled)]
       /\ \A m \in Nodes : Len(signals'[m]) = Len(signals[m]) /\ DOMAIN signals'[m] = DOMAIN signals[m]
       /\ \A m \in Nodes : signals[m] = <<>> => signals'[m] = <<>>
       /\ \A m \in Nodes : \A j \in DOMAIN signals[m] :
            /\ signals'[m][j] = "live" => signals[m][j] = "live"
            /\ signals[m][j] = "completed" => signals'[m][j] = "completed"
       /\ signals'[n][k] = l
  BY <1>1, <1>11, StopKeepsSignals
<1>13. signals'[n][k] # "live"
  BY <1>8, <1>10, <1>12
<1>14. QED BY <1>2, <1>6, <1>12, <1>13

LEMMA EndedSignals ==
  ASSUME TypeOK, SomeSignalEnds
  PROVE  /\ signals' \in [Nodes -> Seq({"live"} \cup Settled)]
         /\ \A m \in Nodes : Len(signals'[m]) = Len(signals[m]) /\ DOMAIN signals'[m] = DOMAIN signals[m]
         /\ \A m \in Nodes : signals[m] = <<>> => signals'[m] = <<>>
         /\ \A m \in Nodes : \A j \in DOMAIN signals[m] :
              /\ signals'[m][j] = "live" => signals[m][j] = "live"
              /\ signals[m][j] = "completed" => signals'[m][j] = "completed"
<1>1. PICK n \in Nodes : \E k \in DOMAIN signals[n] : SignalEnds(n, k)
  BY DEF SomeSignalEnds
<1>2. PICK k \in DOMAIN signals[n] : SignalEnds(n, k)
  BY <1>1
<1>3. PICK s \in {"completed", "failed"} : signals' = [signals EXCEPT ![n][k] = s]
  BY <1>2 DEF SignalEnds
<1>4. signals[n][k] = "live" /\ s \in {"live"} \cup Settled /\ s # "live"
  BY <1>2 DEF SignalEnds, Settled
<1>5. PICK l \in {"live"} \cup Settled : l = s
  BY <1>4
<1>6. QED BY <1>3, <1>4, <1>5, StopKeepsSignals

LEMMA StopSweptKeeps ==
  ASSUME BroadcastInv,
         \/ StopSwept(tick) /\ tick' = Stopped(tick) /\ UNCHANGED cancel
         \/ StopSwept(cancel) /\ cancel' = Stopped(cancel) /\ UNCHANGED tick
  PROVE  BroadcastInv'
<1>1. tick \in Where /\ cancel \in Where
  BY Coherent
<1>2. PICK q \in Where : /\ q \in {tick, cancel} /\ StopSwept(q)
                         /\ \/ q = tick /\ tick' = Stopped(tick) /\ UNCHANGED cancel
                            \/ q = cancel /\ cancel' = Stopped(cancel) /\ UNCHANGED tick
  BY <1>1
<1>3. q.pc = "stop" /\ UNCHANGED <<definition, broadcast, nodes, known, history>>
  BY <1>2 DEF StopSwept
<1>4. /\ signals' \in [Nodes -> Seq({"live"} \cup Settled)]
      /\ \A m \in Nodes : Len(signals'[m]) = Len(signals[m]) /\ DOMAIN signals'[m] = DOMAIN signals[m]
      /\ \A m \in Nodes : signals[m] = <<>> => signals'[m] = <<>>
      /\ \A m \in Nodes : \A j \in DOMAIN signals[m] :
           /\ signals'[m][j] = "live" => signals[m][j] = "live"
           /\ signals[m][j] = "completed" => signals'[m][j] = "completed"
      /\ signals'[q.at][q.view[q.at].run] # "live"
  BY <1>2, SweptSignals
<1>5. \/ UNCHANGED tick /\ cancel.pc = "stop" /\ cancel' = Stopped(cancel)
      \/ /\ UNCHANGED cancel /\ tick.pc = "stop" /\ tick' = Stopped(tick)
         /\ signals'[tick.at][tick.view[tick.at].run] # "live"
  BY <1>2, <1>3, <1>4
<1>6. QED BY <1>3, <1>4, <1>5, SignalsEndKeeps

LEMMA SomeSignalEndsKeeps ==
  ASSUME BroadcastInv, SomeSignalEnds
  PROVE  BroadcastInv'
<1>1. TypeOK
  BY Coherent
<1>2. UNCHANGED <<definition, broadcast, nodes, known, tick, cancel, history>>
  BY DEF SomeSignalEnds, SignalEnds
<1>3. /\ signals' \in [Nodes -> Seq({"live"} \cup Settled)]
      /\ \A m \in Nodes : Len(signals'[m]) = Len(signals[m]) /\ DOMAIN signals'[m] = DOMAIN signals[m]
      /\ \A m \in Nodes : signals[m] = <<>> => signals'[m] = <<>>
      /\ \A m \in Nodes : \A j \in DOMAIN signals[m] :
           /\ signals'[m][j] = "live" => signals[m][j] = "live"
           /\ signals[m][j] = "completed" => signals'[m][j] = "completed"
  BY <1>1, EndedSignals
<1>4. QED BY <1>2, <1>3, SignalsEndKeeps

(* A node of a sweep is skipped, ... *)
LEMMA NodeSkipped ==
  ASSUME TypeOK, NEW n \in Nodes, nodes' = [nodes EXCEPT ![n].st = "cancelled"], UNCHANGED signals
  PROVE  /\ nodes' \in [Nodes -> Node] /\ nodes'[n].st = "cancelled" /\ nodes'[n].run = nodes[n].run
         /\ \A m \in Nodes \ {n} : nodes'[m] = nodes[m]
         /\ \A m \in Nodes : nodes'[m].run = nodes[m].run /\ nodes'[m].run <= Len(signals'[m])
<1>1. nodes \in [Nodes -> Node] /\ \A m \in Nodes : nodes[m].run <= Len(signals[m])
  BY DEF TypeOK
<1>2. "cancelled" \in NodeStatus
  BY DEF NodeStatus, Skips
<1>3. /\ nodes' \in [Nodes -> Node] /\ nodes'[n].st = "cancelled" /\ nodes'[n].run = nodes[n].run
      /\ \A m \in Nodes \ {n} : nodes'[m] = nodes[m]
  BY <1>1, <1>2 DEF Node
<1>4. QED BY <1>1, <1>3

(* ... by the loop, ... *)
LEMMA LoopSkipsKeeps ==
  ASSUME BroadcastInv, SkipSwept(tick), tick' = Skipped(tick), UNCHANGED cancel
  PROVE  BroadcastInv'
<1>1. /\ TypeOK /\ PlacesCoherent /\ StartCoherent /\ TriggersCounted /\ TriggeredOnce
      /\ Evidence(nodes) /\ Evidence(tick.view)
      /\ (~history.asked => LoopAlone) /\ (Undisturbed => LoopUntorn)
      /\ tick \in Where /\ Sound(tick) /\ nodes \in Views /\ tick.view \in Views
  BY Coherent
<1>2. /\ tick.pc = "skipNode"
      /\ UNCHANGED <<definition, dependsOn, policy, broadcast, signals, known, cancel, history>>
  BY DEF SkipSwept, definition
<1>3. PICK n \in Nodes : n = tick.at
  BY <1>1, <1>2 DEF Sound
<1>4. tick.view[n].st \in Unresolved
  BY <1>1, <1>2, <1>3 DEF Sound
<1>5. /\ nodes' \in [Nodes -> Node] /\ nodes'[n].st = "cancelled"
      /\ \A m \in Nodes \ {n} : nodes'[m] = nodes[m]
      /\ \A m \in Nodes : nodes'[m].run = nodes[m].run /\ nodes'[m].run <= Len(signals'[m])
  BY <1>1, <1>2, <1>3, NodeSkipped DEF SkipSwept
<1>6. PICK v \in Views : v = tick.view
  BY <1>1
<1>7. PICK p : p = tick'
  OBVIOUS
<1>8. N \in Nat /\ Nodes = 1..N
  BY BroadcastAssumption DEF Nodes
<1>9. /\ p \in Where /\ p.view = v /\ p.pc \in Sweeping /\ Sound(p)
      /\ p.at \in (n + 1)..(N + 1) /\ \A m \in Nodes : n + 1 <= m /\ m < p.at => v[m].st \notin Unresolved
      /\ p.pc = "skipNode" => ~(v[p.at].st = "running" /\ v[p.at].run # 0)
  <2>1. p = Sweep(v, n + 1)
    BY <1>3, <1>6, <1>7 DEF Skipped
  <2>2. n + 1 \in 1..(N + 1)
    BY <1>8
  <2>3. QED BY <2>1, <2>2, SweepPlace
<1>10. \A m \in Nodes : nodes'[m].st = nodes[m].st \/ (m = n /\ nodes'[m].st = "cancelled")
  BY <1>5
<1>11. TypeOK'
  BY <1>1, <1>2, <1>5, <1>7, <1>9 DEF TypeOK
<1>12. PlacesCoherent'
  <2>1. \A m \in Nodes : p.view[m].run <= Len(signals'[m])
    BY <1>1, <1>2, <1>6, <1>9 DEF PlacesCoherent, PlaceCoherent
  <2>2. PlaceCoherent(tick)'
    BY <1>2, <1>7, <1>9, <2>1, TickPlace
  <2>3. PlaceCoherent(cancel)'
    BY <1>1, <1>2 DEF PlacesCoherent, PlaceCoherent, Ready, Ended, Recorded
  <2>4. \A m \in Nodes : nodes[m].st # "missing" => nodes'[m].st # "missing"
    BY <1>10
  <2>5. QED BY <1>1, <1>2, <1>7, <1>9, <2>2, <2>3, <2>4 DEF PlacesCoherent, Sweeping
<1>13. StartCoherent'
  BY <1>1, <1>2, <1>7, <1>9 DEF StartCoherent, Sweeping
<1>14. TriggersCounted' /\ TriggeredOnce'
  BY <1>1, <1>2, <1>6, <1>7, <1>9, <1>10 DEF TriggersCounted, TriggeredOnce, Sweeping
<1>15. Evidence(nodes)' /\ Evidence(tick.view)'
  BY <1>1, <1>2, <1>6, <1>7, <1>9, <1>10 DEF Evidence, Satisfied
<1>16. ASSUME ~history.asked PROVE LoopAlone' /\ broadcast.status = "running"
  <2>1. /\ LoopAlone /\ broadcast.status = "running"
        /\ \A m \in Nodes : nodes[m] = IF m < n /\ v[m].st \in Unresolved
                                       THEN [v[m] EXCEPT !.st = "cancelled"] ELSE v[m]
    BY <1>1, <1>2, <1>3, <1>6, <1>16 DEF LoopAlone, Sweeping
  <2>2. ASSUME NEW m \in Nodes
        PROVE  nodes'[m] = IF m < p.at /\ v[m].st \in Unresolved
                           THEN [v[m] EXCEPT !.st = "cancelled"] ELSE v[m]
    <3>1. CASE m = n
      <4>1. n < p.at /\ ~(n < n)
        BY <1>8, <1>9
      <4>2. nodes[n] = v[n]
        BY <2>1, <4>1
      <4>3. nodes'[n] = [nodes[n] EXCEPT !.st = "cancelled"]
        BY <1>1, <1>3 DEF SkipSwept, Views
      <4>4. QED BY <1>4, <1>6, <3>1, <4>1, <4>2, <4>3
    <3>2. CASE m < n
      <4>1. m < p.at /\ m # n
        BY <1>8, <1>9, <3>2
      <4>2. QED BY <1>5, <2>1, <3>2, <4>1
    <3>3. CASE m > n
      <4>1. n + 1 <= m /\ ~(m < n) /\ m # n
        BY <1>8, <3>3
      <4>2. m < p.at => v[m].st \notin Unresolved
        BY <1>9, <4>1
      <4>3. QED BY <1>5, <2>1, <4>1, <4>2
    <3>4. QED BY <1>8, <3>1, <3>2, <3>3
  <2>3. QED BY <1>2, <1>7, <1>9, <2>1, <2>2 DEF LoopAlone, Passing, Sweeping
<1>17. ASSUME Undisturbed PROVE LoopUntorn'
  <2>1. /\ LoopUntorn /\ broadcast.status = "running" /\ LoopAlone
        /\ \A m \in Nodes : ~(m < n) => nodes[m] = v[m]
    BY <1>1, <1>2, <1>3, <1>6, <1>16, <1>17 DEF LoopAlone, Sweeping, Undisturbed
  <2>2. nodes[n].st \in Unresolved
    BY <1>4, <1>6, <1>8, <2>1
  <2>3. NodeFailed => NodeFailed'
    BY <1>5, <2>2 DEF NodeFailed, Unresolved
  <2>4. \A m \in Nodes : (\E k \in DOMAIN signals[m] : signals[m][k] = "live") =>
          m # n /\ nodes'[m] = nodes[m] /\ nodes[m].st = "running" /\ nodes[m].run = 1
    <3>1. \A k \in DOMAIN signals[n] : signals[n][k] # "live"
      BY <1>2, <1>3, <2>1 DEF LoopUntorn
    <3>2. \A m \in Nodes : (\E k \in DOMAIN signals[m] : signals[m][k] = "live") =>
            nodes[m].st = "running" /\ nodes[m].run = 1
      BY <1>2, <2>1 DEF LoopUntorn
    <3>3. QED BY <1>5, <3>1, <3>2
  <2>5. p.pc = "skipNode" => \A k \in DOMAIN signals[p.at] : signals[p.at][k] # "live"
    <3>1. SUFFICES ASSUME p.pc = "skipNode"
                   PROVE  \A k \in DOMAIN signals[p.at] : signals[p.at][k] # "live"
      OBVIOUS
    <3>2. p.at \in Nodes /\ ~(p.at < n)
      BY <1>8, <1>9, <3>1 DEF Sound
    <3>3. ~(nodes[p.at].st = "running" /\ nodes[p.at].run = 1)
      BY <1>9, <2>1, <3>1, <3>2
    <3>4. QED BY <2>4, <3>2, <3>3
  <2>6. \A m \in Nodes : nodes'[m].st = "upstream" =>
          NodeFailed' /\ \E d \in dependsOn[m] : nodes'[d].st \in {"failed", "upstream"}
    <3>1. \A d \in Nodes : nodes[d].st \in {"failed", "upstream"} => nodes'[d].st = nodes[d].st
      BY <1>10, <2>2 DEF Unresolved
    <3>2. dependsOn \in [Nodes -> SUBSET Nodes]
      BY <1>1, BroadcastAssumption DEF TypeOK
    <3>3. ASSUME NEW m \in Nodes, nodes'[m].st = "upstream"
          PROVE  NodeFailed' /\ \E d \in dependsOn[m] : nodes'[d].st \in {"failed", "upstream"}
      <4>1. nodes[m].st = "upstream"
        BY <1>10, <3>3
      <4>2. NodeFailed /\ \E d \in dependsOn[m] : nodes[d].st \in {"failed", "upstream"}
        BY <2>1, <4>1 DEF LoopUntorn
      <4>3. QED BY <2>3, <3>1, <3>2, <4>2
    <3>4. QED BY <3>3
  <2>7. broadcast.late \/ (policy = "fail-fast" /\ NodeFailed')
    BY <1>2, <2>1, <2>3 DEF LoopUntorn, Sweeping
  <2>8. \A m \in Nodes : nodes[m].st # "missing" => nodes'[m].st # "missing"
    BY <1>10
  <2>9. p.pc \notin {"create", "expire", "unresolved", "record"} /\ tick.pc # "create"
    BY <1>2, <1>9 DEF Sweeping
  <2>10. QED BY <1>2, <1>7, <1>9, <2>1, <2>4, <2>5, <2>6, <2>7, <2>8, <2>9 DEF LoopUntorn, Creating
<1>18. OutcomeJustified' /\ NothingLeftRunning'
  <2>1. CASE ~history.asked
    BY <1>2, <1>16, <2>1, StillRunning DEF Settled
  <2>2. CASE history.asked
    BY <1>2, <2>2, Disturbed
  <2>3. QED BY <2>1, <2>2
<1>19. QED
  BY <1>2, <1>11, <1>12, <1>13, <1>14, <1>15, <1>16, <1>17, <1>18 DEF BroadcastInv, Undisturbed

LEMMA SweepTickKeeps ==
  ASSUME BroadcastInv, SweepTick
  PROVE  BroadcastInv'
<1>1. \/ StopSwept(tick) /\ tick' = Stopped(tick) /\ UNCHANGED cancel
      \/ SkipSwept(tick) /\ tick' = Skipped(tick) /\ UNCHANGED cancel
  BY DEF SweepTick
<1>2. QED BY <1>1, StopSweptKeeps, LoopSkipsKeeps

-----------------------------------------------------------------------------
(* A call of cancel(): it moves, and perhaps skips a node or ends the       *)
(* broadcast, while the loop stands where it stood.                        *)
LEMMA CancelMovesKeep ==
  ASSUME BroadcastInv, NEW p \in Where, p = cancel', Sound(p), p.pc \in {"idle", "nodes"} \cup Sweeping,
         nodes' \in Views,
         \A n \in Nodes : p.view[n].run <= Len(signals[n]) /\ nodes'[n].run <= Len(signals[n]),
         \A n \in Nodes : p.view[n].st # "missing" => nodes'[n].st # "missing",
         \A n \in Nodes : nodes'[n] = nodes[n] \/ (nodes[n].st # "missing" /\ nodes'[n].st = "cancelled"),
         broadcast' \in [status : {"pending", "running"} \cup Settled, late : BOOLEAN],
         broadcast'.status \in {broadcast.status, "cancelled"},
         history' \in [asked : BOOLEAN, guarded : SUBSET Nodes, crashes : 0..MaxCrashes, torn : BOOLEAN],
         history'.asked, history'.guarded = history.guarded, history'.crashes = history.crashes,
         UNCHANGED <<definition, signals, known, tick>>
  PROVE  BroadcastInv'
<1>1. /\ TypeOK /\ PlacesCoherent /\ StartCoherent /\ TriggersCounted /\ TriggeredOnce
      /\ Evidence(nodes) /\ Evidence(tick.view)
  BY Coherent
<1>2. UNCHANGED <<dependsOn, policy, signals, known, tick>>
  BY DEF definition
<1>3. TypeOK'
  BY <1>1, <1>2 DEF TypeOK, Views
<1>4. PlacesCoherent'
  <2>1. PlaceCoherent(tick)'
    BY <1>1, <1>2 DEF PlacesCoherent, PlaceCoherent, Ready, Ended, Recorded
  <2>2. PlaceCoherent(cancel)'
    BY <1>2, CancelPlace
  <2>3. QED BY <1>1, <1>2, <2>1, <2>2 DEF PlacesCoherent
<1>5. StartCoherent'
  <2>1. broadcast'.status = "pending" => broadcast.status = "pending"
    OBVIOUS
  <2>2. broadcast.status = "pending" \/ tick.pc = "start" => nodes' = nodes
    <3>1. SUFFICES ASSUME broadcast.status = "pending" \/ tick.pc = "start" PROVE nodes' = nodes
      OBVIOUS
    <3>2. nodes = None
      BY <1>1, <3>1 DEF StartCoherent
    <3>3. \A n \in Nodes : nodes'[n] = nodes[n]
      BY <3>2, NoNodeRuns
    <3>4. QED BY <1>1, <3>3 DEF TypeOK, Views
  <2>3. tick.pc = "create" =>
          \A n \in Nodes :
            IF n < tick.at THEN nodes'[n].st # "missing" /\ tick.view[n].st = "pending"
                           ELSE nodes'[n] = Missing /\ tick.view[n] = Missing
    <3>1. ASSUME tick.pc = "create", NEW n \in Nodes
          PROVE  IF n < tick.at THEN nodes'[n].st # "missing" /\ tick.view[n].st = "pending"
                                ELSE nodes'[n] = Missing /\ tick.view[n] = Missing
      <4>1. IF n < tick.at THEN nodes[n].st # "missing" /\ tick.view[n].st = "pending"
                           ELSE nodes[n] = Missing /\ tick.view[n] = Missing
        BY <1>1, <3>1 DEF StartCoherent
      <4>2. nodes[n] = Missing => nodes[n].st = "missing"
        BY DEF Missing
      <4>3. nodes'[n] = nodes[n] \/ (nodes[n].st # "missing" /\ nodes'[n].st = "cancelled")
        OBVIOUS
      <4>4. QED BY <4>1, <4>2, <4>3
    <3>2. QED BY <3>1
  <2>4. QED BY <1>1, <1>2, <2>1, <2>2, <2>3 DEF StartCoherent
<1>6. \A n \in Nodes : nodes'[n].st = nodes[n].st \/ nodes'[n].st = "cancelled"
  OBVIOUS
<1>7. TriggersCounted' /\ TriggeredOnce'
  BY <1>1, <1>2, <1>6 DEF TriggersCounted, TriggeredOnce
<1>8. Evidence(nodes)' /\ Evidence(tick.view)'
  BY <1>1, <1>2, <1>6 DEF Evidence, Satisfied
<1>9. OutcomeJustified' /\ NothingLeftRunning' /\ (Undisturbed => LoopUntorn)'
  BY Disturbed
<1>10. QED BY <1>3, <1>4, <1>5, <1>7, <1>8, <1>9 DEF BroadcastInv

LEMMA CancelStartKeeps ==
  ASSUME BroadcastInv, CancelStart
  PROVE  BroadcastInv'
<1>1. TypeOK /\ nodes \in Views
  BY Coherent
<1>2. PICK p \in Where : p = cancel' /\ p.pc = "nodes" /\ p.view = None
  BY IdleFields DEF CancelStart, PlacePcs
<1>3. Sound(p)
  BY <1>2 DEF Sound
<1>4. UNCHANGED <<definition, broadcast, nodes, signals, known, tick>>
  BY DEF CancelStart
<1>5. \A n \in Nodes : /\ p.view[n].run <= Len(signals[n]) /\ nodes[n].run <= Len(signals[n])
                       /\ p.view[n].st = "missing"
  BY <1>1, <1>2, NoNodeRuns DEF TypeOK
<1>6. /\ history' \in [asked : BOOLEAN, guarded : SUBSET Nodes, crashes : 0..MaxCrashes, torn : BOOLEAN]
      /\ history'.asked /\ history'.guarded = history.guarded /\ history'.crashes = history.crashes
  BY <1>1 DEF TypeOK, CancelStart
<1>7. broadcast \in [status : {"pending", "running"} \cup Settled, late : BOOLEAN]
  BY <1>1 DEF TypeOK
<1>8. QED BY <1>1, <1>2, <1>3, <1>4, <1>5, <1>6, <1>7, CancelMovesKeep

(* From then on cancel() only goes on once it was called. *)
LEMMA CancelAsked ==
  ASSUME BroadcastInv, cancel.pc # "idle"
  PROVE  /\ history.asked
         /\ history \in [asked : BOOLEAN, guarded : SUBSET Nodes, crashes : 0..MaxCrashes, torn : BOOLEAN]
         /\ broadcast \in [status : {"pending", "running"} \cup Settled, late : BOOLEAN]
BY Coherent DEF LoopAlone, TypeOK

LEMMA CancelNodesKeeps ==
  ASSUME BroadcastInv, CancelNodes
  PROVE  BroadcastInv'
<1>1. /\ cancel.pc = "nodes"
      /\ UNCHANGED <<definition, broadcast, nodes, signals, known, tick, history>>
  BY DEF CancelNodes
<1>2. TypeOK /\ nodes \in Views
  BY Coherent
<1>3. PICK v \in Views : v = nodes
  BY <1>2
<1>4. PICK p : p = cancel'
  OBVIOUS
<1>5. p = Sweep(v, 1)
  BY <1>3, <1>4 DEF CancelNodes
<1>6. p \in Where /\ Sound(p) /\ p.view = v /\ p.pc \in Sweeping
  BY <1>5, SweepBegins DEF Sweeps
<1>7. \A n \in Nodes : p.view[n].run <= Len(signals[n]) /\ nodes[n].run <= Len(signals[n])
  BY <1>2, <1>3, <1>6 DEF TypeOK
<1>8. /\ history.asked
      /\ history \in [asked : BOOLEAN, guarded : SUBSET Nodes, crashes : 0..MaxCrashes, torn : BOOLEAN]
      /\ broadcast \in [status : {"pending", "running"} \cup Settled, late : BOOLEAN]
  BY <1>1, CancelAsked
<1>9. QED BY <1>1, <1>2, <1>3, <1>4, <1>6, <1>7, <1>8, CancelMovesKeep

LEMMA CancelSkipsKeeps ==
  ASSUME BroadcastInv, SkipSwept(cancel), cancel' = Skipped(cancel), UNCHANGED tick
  PROVE  BroadcastInv'
<1>1. /\ cancel.pc = "skipNode"
      /\ UNCHANGED <<definition, broadcast, signals, known, tick, history>>
  BY DEF SkipSwept
<1>2. /\ TypeOK /\ PlacesCoherent /\ cancel \in Where /\ Sound(cancel) /\ nodes \in Views
      /\ cancel.view \in Views
  BY Coherent
<1>3. PICK n \in Nodes : n = cancel.at
  BY <1>1, <1>2 DEF Sound
<1>4. cancel.view[n].st \in Unresolved
  BY <1>1, <1>2, <1>3 DEF Sound
<1>5. /\ nodes' \in Views /\ nodes'[n].st = "cancelled"
      /\ \A m \in Nodes \ {n} : nodes'[m] = nodes[m]
      /\ \A m \in Nodes : nodes'[m].run <= Len(signals'[m])
  BY <1>1, <1>2, <1>3, NodeSkipped DEF SkipSwept, Views
<1>6. PICK v \in Views : v = cancel.view
  BY <1>2
<1>7. PICK p : p = cancel'
  OBVIOUS
<1>8. N \in Nat /\ Nodes = 1..N
  BY BroadcastAssumption DEF Nodes
<1>9. p \in Where /\ p.view = v /\ p.pc \in Sweeping /\ Sound(p)
  <2>1. p = Sweep(v, n + 1)
    BY <1>3, <1>6, <1>7 DEF Skipped
  <2>2. n + 1 \in 1..(N + 1)
    BY <1>8
  <2>3. QED BY <2>1, <2>2, SweepPlace
<1>10. nodes[n].st # "missing"
  BY <1>2, <1>4 DEF PlacesCoherent, Unresolved
<1>11. \A m \in Nodes : nodes'[m] = nodes[m] \/ (nodes[m].st # "missing" /\ nodes'[m].st = "cancelled")
  BY <1>5, <1>10
<1>12. \A m \in Nodes : p.view[m].st # "missing" => nodes'[m].st # "missing"
  BY <1>2, <1>6, <1>9, <1>11 DEF PlacesCoherent
<1>13. \A m \in Nodes : p.view[m].run <= Len(signals[m]) /\ nodes'[m].run <= Len(signals[m])
  BY <1>1, <1>2, <1>5, <1>6, <1>9 DEF PlacesCoherent, PlaceCoherent
<1>14. /\ history.asked
       /\ history \in [asked : BOOLEAN, guarded : SUBSET Nodes, crashes : 0..MaxCrashes, torn : BOOLEAN]
       /\ broadcast \in [status : {"pending", "running"} \cup Settled, late : BOOLEAN]
  BY <1>1, CancelAsked
<1>15. QED BY <1>1, <1>5, <1>7, <1>9, <1>11, <1>12, <1>13, <1>14, CancelMovesKeep

LEMMA CancelSweepKeeps ==
  ASSUME BroadcastInv, CancelSweep
  PROVE  BroadcastInv'
<1>1. \/ StopSwept(cancel) /\ cancel' = Stopped(cancel) /\ UNCHANGED tick
      \/ SkipSwept(cancel) /\ cancel' = Skipped(cancel) /\ UNCHANGED tick
  BY DEF CancelSweep
<1>2. QED BY <1>1, StopSweptKeeps, CancelSkipsKeeps

LEMMA CancelEndKeeps ==
  ASSUME BroadcastInv, CancelEnd
  PROVE  BroadcastInv'
<1>1. /\ cancel.pc = "swept" /\ SetStatus("cancelled") /\ cancel' = Idle
      /\ UNCHANGED <<definition, nodes, signals, known, tick, history>>
  BY DEF CancelEnd
<1>2. TypeOK /\ nodes \in Views
  BY Coherent
<1>3. PICK p \in Where : p = cancel' /\ p.pc = "idle" /\ p.view = None
  BY <1>1, IdleFields
<1>4. Sound(p)
  BY <1>3 DEF Sound
<1>5. \A n \in Nodes : /\ p.view[n].run <= Len(signals[n]) /\ nodes[n].run <= Len(signals[n])
                       /\ p.view[n].st = "missing"
  BY <1>2, <1>3, NoNodeRuns DEF TypeOK
<1>6. /\ history.asked
      /\ history \in [asked : BOOLEAN, guarded : SUBSET Nodes, crashes : 0..MaxCrashes, torn : BOOLEAN]
      /\ broadcast \in [status : {"pending", "running"} \cup Settled, late : BOOLEAN]
  BY <1>1, CancelAsked
<1>7. /\ broadcast' \in [status : {"pending", "running"} \cup Settled, late : BOOLEAN]
      /\ broadcast'.status = "cancelled"
  BY <1>1, <1>6 DEF SetStatus, Settled
<1>8. QED BY <1>1, <1>2, <1>3, <1>4, <1>5, <1>6, <1>7, CancelMovesKeep

-----------------------------------------------------------------------------
(* The environment. *)
LEMMA OverdueKeeps ==
  ASSUME BroadcastInv, Overdue
  PROVE  BroadcastInv'
<1>1. /\ TypeOK /\ PlacesCoherent /\ StartCoherent /\ TriggersCounted /\ TriggeredOnce
      /\ Evidence(nodes) /\ Evidence(tick.view)
      /\ (~history.asked => LoopAlone) /\ (Undisturbed => LoopUntorn)
  BY Coherent
<1>2. UNCHANGED <<dependsOn, policy, nodes, signals, known, tick, cancel, history>>
  BY DEF Overdue, definition
<1>3. /\ broadcast' \in [status : {"pending", "running"} \cup Settled, late : BOOLEAN]
      /\ broadcast'.status = broadcast.status /\ broadcast.status = "running" /\ broadcast'.late
  BY <1>1 DEF TypeOK, Overdue
<1>4. TypeOK'
  BY <1>1, <1>2, <1>3 DEF TypeOK
<1>5. PlacesCoherent'
  BY <1>1, <1>2 DEF PlacesCoherent, PlaceCoherent, Ready, Ended, Recorded
<1>6. StartCoherent' /\ TriggersCounted' /\ TriggeredOnce'
  BY <1>1, <1>2, <1>3 DEF StartCoherent, TriggersCounted, TriggeredOnce
<1>7. Evidence(nodes)' /\ Evidence(tick.view)'
  BY <1>1, <1>2 DEF Evidence, Satisfied
<1>8. (~history.asked => LoopAlone)'
  BY <1>1, <1>2, <1>3 DEF LoopAlone
<1>9. (Undisturbed => LoopUntorn)'
  BY <1>1, <1>2, <1>3 DEF LoopUntorn, Undisturbed, Creating, NodeFailed
<1>10. OutcomeJustified' /\ NothingLeftRunning'
  BY <1>3, StillRunning DEF Settled
<1>11. QED BY <1>4, <1>5, <1>6, <1>7, <1>8, <1>9, <1>10 DEF BroadcastInv

LEMMA CrashRestartKeeps ==
  ASSUME BroadcastInv, CrashRestart
  PROVE  BroadcastInv'
<1>1. /\ TypeOK /\ PlacesCoherent /\ StartCoherent /\ TriggersCounted /\ TriggeredOnce
      /\ Evidence(nodes) /\ (~history.asked => LoopAlone)
  BY Coherent
<1>2. UNCHANGED <<definition, dependsOn, policy, broadcast, nodes, signals>> /\ known' \in BOOLEAN
  BY DEF CrashRestart, definition
<1>3. PICK p \in Where : p = Idle /\ p.pc = "idle" /\ p.view = None
  BY IdleFields
<1>4. p = tick' /\ p = cancel'
  BY <1>3 DEF CrashRestart
<1>5. PICK torn \in BOOLEAN : torn = (history.torn \/ tick.pc = "create" \/ cancel.pc # "idle")
  OBVIOUS
<1>6. history' = [history EXCEPT !.crashes = history.crashes + 1, !.torn = torn]
  BY <1>5 DEF CrashRestart
<1>7. /\ history' \in [asked : BOOLEAN, guarded : SUBSET Nodes, crashes : 0..MaxCrashes, torn : BOOLEAN]
      /\ history'.asked = history.asked /\ history'.guarded = history.guarded
      /\ history'.crashes = history.crashes + 1 /\ history'.crashes # 0 /\ history.crashes \in Nat
  <2>1. /\ history \in [asked : BOOLEAN, guarded : SUBSET Nodes, crashes : 0..MaxCrashes, torn : BOOLEAN]
        /\ history.crashes < MaxCrashes /\ MaxCrashes \in Nat
    BY <1>1, BroadcastAssumption DEF TypeOK, CrashRestart
  <2>2. history.crashes + 1 \in 0..MaxCrashes /\ history.crashes \in Nat
    BY <2>1
  <2>3. torn \in BOOLEAN
    BY <1>5
  <2>4. PICK c \in 0..MaxCrashes : c = history.crashes + 1
    BY <2>2
  <2>5. history' = [history EXCEPT !.crashes = c, !.torn = torn] /\ c \in 0..MaxCrashes
    BY <1>6, <2>4
  <2>6. /\ history'.asked = history.asked /\ history'.guarded = history.guarded /\ history'.crashes = c
        /\ history' \in [asked : BOOLEAN, guarded : SUBSET Nodes, crashes : 0..MaxCrashes, torn : BOOLEAN]
    BY <2>1, <2>3, <2>5
  <2>7. QED BY <2>2, <2>4, <2>6
<1>8. Sound(p) /\ \A n \in Nodes : p.view[n].st = "missing" /\ p.view[n].run <= Len(signals'[n])
  BY <1>1, <1>2, <1>3, NoNodeRuns DEF Sound, TypeOK
<1>9. TypeOK'
  BY <1>1, <1>2, <1>3, <1>4, <1>7 DEF TypeOK
<1>10. PlacesCoherent'
  <2>1. PlaceCoherent(tick)'
    BY <1>2, <1>4, <1>8, TickPlace
  <2>2. PlaceCoherent(cancel)'
    BY <1>2, <1>4, <1>8, CancelPlace
  <2>3. QED BY <1>3, <1>4, <1>8, <2>1, <2>2 DEF PlacesCoherent
<1>11. StartCoherent'
  BY <1>1, <1>2, <1>3, <1>4 DEF StartCoherent
<1>12. TriggersCounted' /\ TriggeredOnce'
  <2>1. \A n \in Nodes : Len(signals[n]) \in Nat /\ Len(signals[n]) <= 1 + history.crashes
    BY <1>1 DEF TypeOK, TriggeredOnce
  <2>2. \A n \in Nodes : Len(signals'[n]) <= history'.crashes /\ Len(signals'[n]) <= 1 + history'.crashes
    BY <1>2, <1>7, <2>1
  <2>3. QED BY <2>2 DEF TriggersCounted, TriggeredOnce
<1>13. Evidence(nodes)' /\ Evidence(tick.view)'
  BY <1>1, <1>2, <1>4, <1>7, <1>8 DEF Evidence, Satisfied
<1>14. (~history.asked => LoopAlone)'
  BY <1>3, <1>4 DEF LoopAlone, Passing, Sweeping
<1>15. OutcomeJustified' /\ NothingLeftRunning' /\ (Undisturbed => LoopUntorn)'
  BY <1>7, Disturbed
<1>16. QED BY <1>9, <1>10, <1>11, <1>12, <1>13, <1>14, <1>15 DEF BroadcastInv

-----------------------------------------------------------------------------
LEMMA InitKeeps ==
  ASSUME Init
  PROVE  BroadcastInv
<1>1. /\ broadcast.status = "pending" /\ nodes = None /\ tick = Idle /\ cancel = Idle /\ known
      /\ \A n \in Nodes : signals[n] = <<>> /\ Len(signals[n]) = 0
      /\ signals \in [Nodes -> Seq({"live"} \cup Settled)]
      /\ ~history.asked /\ history.crashes = 0 /\ known \in BOOLEAN
      /\ broadcast \in [status : {"pending", "running"} \cup Settled, late : BOOLEAN]
  BY DEF Init
<1>2. history \in [asked : BOOLEAN, guarded : SUBSET Nodes, crashes : 0..MaxCrashes, torn : BOOLEAN]
  BY BroadcastAssumption DEF Init
<1>3. /\ tick \in Where /\ tick.pc = "idle" /\ cancel.pc = "idle" /\ nodes \in Views
      /\ tick.view = nodes /\ cancel.view = nodes
      /\ \A n \in Nodes : nodes[n].st = "missing" /\ nodes[n].run = 0
  BY <1>1, IdleFields, NoNodeRuns
<1>4. TypeOK
  BY <1>1, <1>2, <1>3 DEF TypeOK, Views, Init
<1>5. PlacesCoherent
  BY <1>1, <1>3 DEF PlacesCoherent, PlaceCoherent
<1>6. StartCoherent
  BY <1>1, <1>3 DEF StartCoherent
<1>7. TriggersCounted /\ TriggeredOnce
  BY <1>1, <1>3 DEF TriggersCounted, TriggeredOnce
<1>8. Evidence(nodes) /\ Evidence(tick.view)
  BY <1>3 DEF Evidence
<1>9. LoopAlone
  BY <1>3 DEF LoopAlone, Passing, Sweeping
<1>10. LoopUntorn
  BY <1>1, <1>3 DEF LoopUntorn, Creating, Sweeping
<1>11. OutcomeJustified /\ NothingLeftRunning
  BY <1>1 DEF OutcomeJustified, NothingLeftRunning, Settled
<1>12. QED BY <1>4, <1>5, <1>6, <1>7, <1>8, <1>9, <1>10, <1>11 DEF BroadcastInv

LEMMA StutterKeeps ==
  ASSUME BroadcastInv, UNCHANGED vars
  PROVE  BroadcastInv'
<1>1. UNCHANGED <<dependsOn, policy, broadcast, nodes, signals, known, tick, cancel, history>>
  BY DEF vars, definition
<1>2. TypeOK' /\ PlacesCoherent' /\ StartCoherent' /\ TriggersCounted' /\ TriggeredOnce'
  BY <1>1, Coherent
  DEF TypeOK, PlacesCoherent, PlaceCoherent, Ready, Ended, Recorded, StartCoherent, TriggersCounted,
      TriggeredOnce
<1>3. Evidence(nodes)' /\ Evidence(tick.view)'
  BY <1>1, Coherent DEF Evidence, Satisfied
<1>4. (~history.asked => LoopAlone)' /\ (Undisturbed => LoopUntorn)'
  BY <1>1, Coherent DEF LoopAlone, LoopUntorn, Creating, NodeFailed, Undisturbed
<1>5. OutcomeJustified' /\ NothingLeftRunning'
  BY <1>1, Coherent
  DEF OutcomeJustified, NothingLeftRunning, CompletedJustly, FailedJustly, Good, Undisturbed
<1>6. QED BY <1>2, <1>3, <1>4, <1>5 DEF BroadcastInv

LEMMA NextKeeps ==
  ASSUME BroadcastInv, [Next]_vars
  PROVE  BroadcastInv'
<1>1. CASE TickStep
  <2>1. CASE FindRunning \/ FindDue
    BY <2>1, LookupKeeps
  <2>2. CASE Unresolvable \/ SetOutcome \/ SweptFails
    BY <2>2, EndingsKeep
  <2>3. CASE Start
    BY <2>3, StartKeeps
  <2>4. CASE CreateNode
    BY <2>4, CreateNodeKeeps
  <2>5. CASE Expire \/ Advance
    BY <2>5, PassesKeep
  <2>6. CASE Collect
    BY <2>6, CollectKeeps
  <2>7. CASE SkipDownstream
    BY <2>7, SkipDownstreamKeeps
  <2>8. CASE GuardDeclines \/ NodeThrows
    BY <2>8, NodeSettledKeeps
  <2>9. CASE TriggerSignal
    BY <2>9, TriggerSignalKeeps
  <2>10. CASE RecordRun
    BY <2>10, RecordRunKeeps
  <2>11. CASE SweepTick
    BY <2>11, SweepTickKeeps
  <2>12. QED
    BY <1>1, <2>1, <2>2, <2>3, <2>4, <2>5, <2>6, <2>7, <2>8, <2>9, <2>10, <2>11 DEF TickStep
<1>2. CASE CancelStart
  BY <1>2, CancelStartKeeps
<1>3. CASE CancelStep
  BY <1>3, CancelNodesKeeps, CancelSweepKeeps, CancelEndKeeps DEF CancelStep
<1>4. CASE SomeSignalEnds
  BY <1>4, SomeSignalEndsKeeps
<1>5. CASE Overdue
  BY <1>5, OverdueKeeps
<1>6. CASE CrashRestart
  BY <1>6, CrashRestartKeeps
<1>7. CASE UNCHANGED vars
  BY <1>7, StutterKeeps
<1>8. QED BY <1>1, <1>2, <1>3, <1>4, <1>5, <1>6, <1>7 DEF Next

(* The inductive invariant: what the loop and a call of cancel() know of    *)
(* the node runs agrees with the tables, whatever crashes and cancellations *)
(* came between.                                                           *)
THEOREM BroadcastInvariant == Spec => []BroadcastInv
<1>1. Init => BroadcastInv
  BY InitKeeps
<1>2. BroadcastInv /\ [Next]_vars => BroadcastInv'
  BY NextKeeps
<1>3. QED BY <1>1, <1>2, PTL DEF Spec

(* advanceBroadcast triggers a node's signal once, and over again only      *)
(* where a crash came between the trigger and the record of it: at most     *)
(* once for every crash.                                                    *)
THEOREM SignalsTriggeredOnce == Spec => []TriggeredOnce
<1>1. BroadcastInv => TriggeredOnce
  BY DEF BroadcastInv
<1>2. QED BY <1>1, BroadcastInvariant, PTL

(* Without a cancellation or a crash, a broadcast marked completed or       *)
(* failed has the node runs that justify it under its policy.              *)
THEOREM OutcomesJustified == Spec => []OutcomeJustified
<1>1. BroadcastInv => OutcomeJustified
  BY DEF BroadcastInv
<1>2. QED BY <1>1, BroadcastInvariant, PTL

(* Without a cancellation or a crash, a broadcast that has ended leaves     *)
(* neither a node run nor a signal run behind that still executes: the      *)
(* sweep of a timeout or of fail-fast misses none, whatever finished while  *)
(* it went on.                                                             *)
THEOREM NothingRuns == Spec => []NothingLeftRunning
<1>1. BroadcastInv => NothingLeftRunning
  BY DEF BroadcastInv
<1>2. QED BY <1>1, BroadcastInvariant, PTL

-----------------------------------------------------------------------------
(* Only the loop's trigger adds a signal run. *)
LEMMA OnlyTriggerAdds ==
  ASSUME BroadcastInv, [Next]_vars, ~TriggerSignal, NEW n \in Nodes
  PROVE  Len(signals'[n]) = Len(signals[n])
<1>1. TypeOK /\ tick \in Where /\ cancel \in Where
  BY Coherent
<1>2. CASE SomeSignalEnds
  BY <1>1, <1>2, EndedSignals
<1>3. CASE StopSwept(tick)
  <2>1. PICK q \in Where : q = tick
    BY <1>1
  <2>2. StopSwept(q) /\ q \in {tick, cancel}
    BY <1>3, <2>1
  <2>3. QED BY <2>2, SweptSignals
<1>4. CASE StopSwept(cancel)
  <2>1. PICK q \in Where : q = cancel
    BY <1>1
  <2>2. StopSwept(q) /\ q \in {tick, cancel}
    BY <1>4, <2>1
  <2>3. QED BY <2>2, SweptSignals
<1>5. CASE ~SomeSignalEnds /\ ~StopSwept(tick) /\ ~StopSwept(cancel)
  <2>1. CASE TickStep
    BY <1>5, <2>1
    DEF TickStep, FindRunning, FindDue, Unresolvable, Start, CreateNode, Expire, Advance, Collect,
        SkipDownstream, GuardDeclines, NodeThrows, RecordRun, SetOutcome, SweepTick, SweptFails, SkipSwept
  <2>2. CASE ~TickStep
    BY <1>5, <2>2
    DEF Next, CancelStart, CancelStep, CancelNodes, CancelSweep, CancelEnd, SkipSwept, Overdue,
        CrashRestart, vars
  <2>3. QED BY <2>1, <2>2
<1>6. QED BY <1>2, <1>3, <1>4, <1>5

(* A signal is triggered only when each dependency of its node had a signal *)
(* run that completed, or was declined by its guard: triggerReadyNodes      *)
(* works on a snapshot, and this holds of it over crashes, retried passes   *)
(* and a cancellation that rewrites the node runs meanwhile.               *)
THEOREM DependenciesComeFirst == Spec => DependenciesFirst
<1> DEFINE Triggers == \A n \in Nodes : Len(signals'[n]) > Len(signals[n]) =>
                         \A d \in dependsOn[n] : Satisfied(d)
<1>1. ASSUME BroadcastInv, [Next]_vars
      PROVE  Triggers
  <2>1. CASE ~TriggerSignal
    <3>1. \A n \in Nodes : Len(signals'[n]) = Len(signals[n]) /\ Len(signals[n]) \in Nat
      BY <1>1, <2>1, OnlyTriggerAdds, Coherent DEF TypeOK
    <3>2. QED BY <3>1
  <2>2. CASE TriggerSignal
    <3>1. tick.pc = "trigger" /\ Sound(tick) /\ tick.at \in Nodes /\ Evidence(tick.view) /\ TypeOK
      BY <1>1, <2>2, Coherent DEF TriggerSignal, Sound
    <3>2. \A n \in Nodes \ {tick.at} : signals'[n] = signals[n] /\ Len(signals[n]) \in Nat
      BY <2>2, <3>1 DEF TriggerSignal, TypeOK
    <3>3. \A d \in dependsOn[tick.at] : tick.view[d].st \in {"completed", "guard"}
      BY <3>1 DEF Sound, Ready
    <3>4. dependsOn[tick.at] \subseteq Nodes
      BY <3>1, BroadcastAssumption DEF TypeOK
    <3>5. \A d \in dependsOn[tick.at] : Satisfied(d)
      BY <3>1, <3>3, <3>4 DEF Evidence
    <3>6. QED BY <3>2, <3>5
  <2>3. QED BY <2>1, <2>2
<1>2. BroadcastInv /\ [Next]_vars => [Triggers]_vars
  BY <1>1
<1>3. QED BY <1>2, BroadcastInvariant, PTL DEF Spec, DependenciesFirst

-----------------------------------------------------------------------------
(* The loop works on a node the tables have unresolved, or not at all. *)
LEMMA BroadcastStaysEnded ==
  ASSUME BroadcastInv, [Next]_vars, ~history.asked, broadcast.status \in Settled
  PROVE  broadcast'.status = broadcast.status
<1>1. LoopAlone /\ cancel.pc = "idle" /\ StartCoherent
  BY Coherent DEF LoopAlone
<1>2. tick.pc \notin {"unresolved", "start", "finish", "swept"}
  BY <1>1 DEF LoopAlone, Settled, Passing, Sweeping
<1>3. CASE TickStep
  BY <1>2, <1>3
  DEF TickStep, FindRunning, FindDue, Unresolvable, Start, CreateNode, Expire, Advance, Collect,
      SkipDownstream, GuardDeclines, NodeThrows, TriggerSignal, RecordRun, SetOutcome, SweepTick, SweptFails,
      SkipSwept, StopSwept
<1>4. CASE ~TickStep
  BY <1>1, <1>4
  DEF Next, CancelStart, CancelStep, CancelNodes, CancelSweep, CancelEnd, SkipSwept, StopSwept, Overdue,
      CrashRestart, SomeSignalEnds, SignalEnds, vars, Settled
<1>5. QED BY <1>3, <1>4

LEMMA NodesStayEnded ==
  ASSUME BroadcastInv, [Next]_vars, ~history.asked,
         NEW n \in Nodes, nodes[n].st \notin Unresolved \cup {"missing"}
  PROVE  nodes'[n] = nodes[n]
<1>1. /\ LoopAlone /\ cancel.pc = "idle" /\ StartCoherent /\ Sound(tick) /\ nodes \in Views
      /\ tick.view \in Views /\ tick \in Where
  BY Coherent DEF LoopAlone
<1>2. CASE CreateNode
  <2>1. nodes[tick.at] = Missing
    BY <1>1, <1>2 DEF CreateNode, StartCoherent, Sound, Nodes
  <2>2. QED BY <1>1, <1>2, <2>1 DEF CreateNode, Missing, Views
<1>3. CASE Collect
  <2>1. nodes[tick.at].st = "running"
    BY <1>1, <1>3 DEF Collect, LoopAlone, Passing, Sound
  <2>2. n # tick.at
    BY <2>1 DEF Unresolved
  <2>3. QED BY <1>1, <1>3, <2>2 DEF Collect, Views
<1>4. CASE SkipDownstream
  <2>1. PICK m \in Doomed(tick.view) : nodes' = [nodes EXCEPT ![m].st = "upstream"]
    BY <1>4 DEF SkipDownstream
  <2>2. nodes[m].st = "pending"
    BY <1>1, <1>4, <2>1 DEF SkipDownstream, LoopAlone, Passing, Doomed
  <2>3. n # m
    BY <2>2 DEF Unresolved
  <2>4. QED BY <1>1, <2>1, <2>3 DEF Views
<1>5. CASE GuardDeclines \/ NodeThrows \/ RecordRun
  <2>1. nodes[tick.at].st = "pending"
    BY <1>1, <1>5 DEF GuardDeclines, NodeThrows, RecordRun, LoopAlone, Passing, Sound, Ready
  <2>2. n # tick.at
    BY <2>1 DEF Unresolved
  <2>3. QED BY <1>1, <1>5, <2>2 DEF GuardDeclines, NodeThrows, RecordRun, Settle, Views
<1>6. CASE SkipSwept(tick)
  <2>1. tick.pc = "skipNode" /\ tick.at \in Nodes /\ tick.view[tick.at].st \in Unresolved
    BY <1>1, <1>6 DEF SkipSwept, Sound
  <2>2. ~(tick.at < tick.at)
    BY <2>1 DEF Nodes
  <2>3. nodes[tick.at] = tick.view[tick.at]
    BY <1>1, <2>1, <2>2 DEF LoopAlone, Sweeping
  <2>4. n # tick.at
    BY <2>1, <2>3
  <2>5. QED BY <1>1, <1>6, <2>4 DEF SkipSwept, Views
<1>7. CASE TickStep /\ ~(CreateNode \/ Collect \/ SkipDownstream \/ GuardDeclines \/ NodeThrows
                         \/ RecordRun \/ SkipSwept(tick))
  BY <1>7
  DEF TickStep, FindRunning, FindDue, Unresolvable, Start, Expire, Advance, TriggerSignal, SetOutcome,
      SweepTick, SweptFails, StopSwept
<1>8. CASE ~TickStep
  BY <1>1, <1>8
  DEF Next, CancelStart, CancelStep, CancelNodes, CancelSweep, CancelEnd, SkipSwept, StopSwept, Overdue,
      CrashRestart, SomeSignalEnds, SignalEnds, vars
<1>9. QED BY <1>2, <1>3, <1>4, <1>5, <1>6, <1>7, <1>8

(* Unless cancel() is called, neither a broadcast nor a node that has ended *)
(* changes again, over crashes and restarts too.                           *)
THEOREM EndsAreFinal == Spec => EndsOnce
<1> DEFINE Final == ~history.asked =>
              /\ broadcast.status \in Settled => broadcast'.status = broadcast.status
              /\ \A n \in Nodes : nodes[n].st \notin Unresolved \cup {"missing"} => nodes'[n] = nodes[n]
<1>1. ASSUME BroadcastInv, [Next]_vars
      PROVE  Final
  BY <1>1, BroadcastStaysEnded, NodesStayEnded
<1>2. BroadcastInv /\ [Next]_vars => [Final]_vars
  BY <1>1
<1>3. QED BY <1>2, BroadcastInvariant, PTL DEF Spec, EndsOnce

-----------------------------------------------------------------------------
(* The broadcast as an execution of its DAG.                               *)
Look == [n \in Nodes |-> Seen(nodes[n].st)]

LEMMA Looks ==
  ASSUME nodes \in Views, NEW n \in Nodes
  PROVE  /\ Look[n] = Seen(nodes[n].st)
         /\ Look[n] = "waiting" <=> nodes[n].st \in {"pending", "missing"}
         /\ Look[n] = "executing" <=> nodes[n].st = "running"
         /\ \A st \in {"completed", "failed", "guard", "upstream", "cancelled"} :
              Look[n] = st <=> nodes[n].st = st
  BY DEF Look, Seen, Views, Node, NodeStatus, Unresolved, Skips

LEMMA LookAfter ==
  ASSUME nodes \in Views, NEW n \in Nodes, NEW st \in NodeStatus,
         \/ nodes' = [nodes EXCEPT ![n].st = st]
         \/ \E run : nodes' = [nodes EXCEPT ![n] = [st |-> st, run |-> run]]
  PROVE  Look' = [Look EXCEPT ![n] = Seen(st)]
<1>1. nodes'[n].st = st /\ \A m \in Nodes \ {n} : nodes'[m] = nodes[m]
  BY DEF Views, Node
<1>2. QED BY <1>1 DEF Look

LEMMA LookSame ==
  ASSUME UNCHANGED nodes
  PROVE  Look' = Look
  BY DEF Look

(* Steps of the abstract broadcast, and none. *)
LEMMA DagStutter ==
  ASSUME UNCHANGED <<definition, broadcast, known>>, Look' = Look
  PROVE  DagStep
  BY DEF DagStep, Dag!vars, Dag!definition, definition, Look

LEMMA DagMoves ==
  ASSUME nodes \in Views, UNCHANGED <<definition, broadcast, known>>, broadcast.status = "running",
         NEW n \in Nodes, NEW st \in NodeStatus, Look' = [Look EXCEPT ![n] = Seen(st)],
         \/ /\ nodes[n].st \in {"pending", "missing"} /\ st \in {"running", "guard", "failed"}
            /\ \A d \in dependsOn[n] : Look[d] \in {"completed", "guard"}
         \/ nodes[n].st = "running" /\ st \in {"completed", "failed"}
         \/ /\ nodes[n].st \in {"pending", "missing"} /\ st = "upstream" /\ policy # "fail-fast"
            /\ \E d \in dependsOn[n] : Look[d] \in {"failed", "upstream"}
         \/ /\ nodes[n].st \in Unresolved /\ st = "cancelled"
            /\ broadcast.late \/ (policy = "fail-fast" /\ NodeFailed)
  PROVE  DagStep
<1>1. UNCHANGED <<dependsOn, policy, broadcast.status, broadcast.late>> /\ (~known)' = ~known
  BY DEF definition
<1>2. /\ Look = [m \in Nodes |-> Seen(nodes[m].st)]
      /\ Look' = [m \in Nodes |-> Seen(nodes'[m].st)]
  BY DEF Look
<1>3. CASE /\ nodes[n].st \in {"pending", "missing"} /\ st \in {"running", "guard", "failed"}
           /\ \A d \in dependsOn[n] : Look[d] \in {"completed", "guard"}
  <2>1. Look[n] = "waiting" /\ Seen(st) \in {"executing", "guard", "failed"}
    BY <1>3, Looks DEF Seen
  <2>2. Dag!Serve(n)
    BY <1>1, <1>2, <1>3, <2>1 DEF Dag!Serve, Dag!Move, Dag!Served, Dag!definition
  <2>3. QED BY <2>2 DEF DagStep, Dag!Next
<1>4. CASE nodes[n].st = "running" /\ st \in {"completed", "failed"}
  <2>1. Look[n] = "executing" /\ Seen(st) \in {"completed", "failed"}
    BY <1>4, Looks DEF Seen
  <2>2. Dag!Report(n)
    BY <1>1, <1>2, <1>4, <2>1 DEF Dag!Report, Dag!Move, Dag!definition
  <2>3. QED BY <2>2 DEF DagStep, Dag!Next
<1>5. CASE /\ nodes[n].st \in {"pending", "missing"} /\ st = "upstream" /\ policy # "fail-fast"
           /\ \E d \in dependsOn[n] : Look[d] \in {"failed", "upstream"}
  <2>1. Look[n] = "waiting" /\ Seen(st) = "upstream"
    BY <1>5, Looks DEF Seen
  <2>2. Dag!Skip(n)
    BY <1>1, <1>2, <1>5, <2>1 DEF Dag!Skip, Dag!Move, Dag!Broken, Dag!definition
  <2>3. QED BY <2>2 DEF DagStep, Dag!Next
<1>6. CASE /\ nodes[n].st \in Unresolved /\ st = "cancelled"
           /\ broadcast.late \/ (policy = "fail-fast" /\ NodeFailed)
  <2>1. Look[n] \in {"waiting", "executing"} /\ Seen(st) = "cancelled"
    BY <1>6, Looks DEF Seen, Unresolved
  <2>2. NodeFailed => Dag!Failed
    BY <1>2, Looks DEF Dag!Failed, NodeFailed
  <2>3. Dag!Stop(n)
    BY <1>1, <1>2, <1>6, <2>1, <2>2 DEF Dag!Stop, Dag!Move, Dag!Open, Dag!definition
  <2>4. QED BY <2>3 DEF DagStep, Dag!Next
<1>7. QED BY <1>3, <1>4, <1>5, <1>6

LEMMA DagEnds ==
  ASSUME nodes \in Views, UNCHANGED <<definition, nodes, known>>, broadcast.status = "running",
         NEW outcome \in {"completed", "failed"}, broadcast' = [broadcast EXCEPT !.status = outcome],
         broadcast \in [status : {"pending", "running"} \cup Settled, late : BOOLEAN],
         \A n \in Nodes : nodes[n].st \notin Unresolved \cup {"missing"},
         outcome = "failed" => broadcast.late \/ (policy # "continue" /\ NodeFailed),
         outcome = "completed" =>
           \A n \in Nodes : \/ nodes[n].st \in {"completed", "guard"}
                            \/ policy = "continue" /\ nodes[n].st \in {"failed", "upstream"}
  PROVE  DagStep
<1>1. /\ UNCHANGED <<dependsOn, policy>> /\ (~known)' = ~known
      /\ broadcast'.status = outcome /\ broadcast'.late = broadcast.late
  BY DEF definition
<1>2. Look = [m \in Nodes |-> Seen(nodes[m].st)] /\ Look' = Look
  BY DEF Look
<1>3. Dag!End(outcome)
  BY <1>1, <1>2 DEF Dag!End, Dag!definition, Look
<1>4. CASE outcome = "completed"
  <2>1. \A n \in Nodes : \/ Look[n] \in {"completed", "guard"}
                         \/ policy = "continue" /\ Look[n] \in {"failed", "upstream"}
    BY <1>4, Looks
  <2>2. Dag!Complete
    BY <1>2, <1>3, <1>4, <2>1 DEF Dag!Complete, Dag!Served, Dag!Broken
  <2>3. QED BY <2>2 DEF DagStep, Dag!Next
<1>5. CASE outcome = "failed"
  <2>1. \A n \in Nodes : Look[n] \notin {"waiting", "executing"}
    BY Looks DEF Unresolved
  <2>2. NodeFailed => Dag!Failed
    BY <1>2, Looks DEF Dag!Failed, NodeFailed
  <2>3. Dag!Fail
    BY <1>2, <1>3, <1>5, <2>1, <2>2 DEF Dag!Fail, Dag!Open
  <2>4. QED BY <2>3 DEF DagStep, Dag!Next
<1>6. QED BY <1>4, <1>5

(* Every step of the loop, until cancel() is called, is one of the abstract *)
(* broadcast or none.                                                      *)
LEMMA DagStepping ==
  ASSUME BroadcastInv, Untroubled, LoopResumes, [Next]_vars, ~history'.asked
  PROVE  DagStep
<1>1. /\ LoopAlone /\ TypeOK /\ StartCoherent /\ PlacesCoherent /\ nodes \in Views /\ tick \in Where
      /\ tick.view \in Views /\ Sound(tick) /\ ~history.asked
      /\ broadcast \in [status : {"pending", "running"} \cup Settled, late : BOOLEAN]
  BY Coherent DEF Untroubled, TypeOK
<1>2. dependsOn \in [Nodes -> SUBSET Nodes]
  BY <1>1, BroadcastAssumption DEF TypeOK
<1>3. tick.pc \in Passing => nodes = tick.view /\ broadcast.status = "running"
  BY <1>1 DEF LoopAlone
<1>4. CASE UNCHANGED <<definition, broadcast, known, nodes>>
  BY <1>4, LookSame, DagStutter
<1>5. CASE Unresolvable
  <2>1. ~known /\ broadcast.status \in {"pending", "running"} /\ broadcast'.status = "failed"
        /\ broadcast'.late = broadcast.late
    BY <1>1, <1>5 DEF Unresolvable, SetStatus, LoopResumes, LoopAlone
  <2>2. Dag!GiveUp
    BY <1>5, <2>1 DEF Unresolvable, Dag!GiveUp, Dag!definition, definition
  <2>3. QED BY <2>2 DEF DagStep, Dag!Next
<1>6. CASE Start
  <2>1. broadcast.status = "pending" /\ broadcast'.status = "running" /\ ~broadcast'.late
    BY <1>1, <1>6 DEF Start, LoopAlone
  <2>2. Dag!Begin
    BY <1>6, <2>1 DEF Start, Dag!Begin, Dag!definition, definition
  <2>3. QED BY <2>2 DEF DagStep, Dag!Next
<1>7. CASE CreateNode
  <2>1. tick.at \in Nodes /\ nodes[tick.at] = Missing
    BY <1>1, <1>7 DEF CreateNode, StartCoherent, Sound, Nodes
  <2>2. nodes' = [nodes EXCEPT ![tick.at] = [st |-> "pending", run |-> 0]]
    BY <1>7 DEF CreateNode
  <2>3. PICK n \in Nodes, st \in NodeStatus : n = tick.at /\ st = "pending"
    BY <2>1 DEF NodeStatus, Unresolved
  <2>4. Look' = [Look EXCEPT ![n] = Seen(st)]
    BY <1>1, <2>2, <2>3, LookAfter
  <2>5. Look[n] = "waiting" /\ Seen(st) = "waiting"
    BY <1>1, <2>1, <2>3, Looks DEF Missing, Seen
  <2>6. Look' = Look
    BY <2>4, <2>5 DEF Look
  <2>7. QED BY <1>7, <2>6, DagStutter DEF CreateNode
<1>8. CASE Collect
  <2>1. /\ tick.pc \in Passing /\ tick.at \in Nodes /\ nodes[tick.at].st = "running"
        /\ broadcast.status = "running" /\ UNCHANGED <<definition, broadcast, known>>
    BY <1>1, <1>3, <1>8 DEF Collect, Passing, Sound
  <2>2. PICK n \in Nodes, st \in {"completed", "failed", "running"} :
          n = tick.at /\ st = Result(signals[n][tick.view[n].run])
    BY <2>1 DEF Result
  <2>3. nodes' = IF st = "running" THEN nodes ELSE [nodes EXCEPT ![n].st = st]
    BY <1>8, <2>2 DEF Collect
  <2>4. CASE st = "running"
    BY <2>1, <2>3, <2>4, LookSame, DagStutter
  <2>5. CASE st # "running"
    <3>1. st \in NodeStatus /\ st \in {"completed", "failed"}
      BY <2>5 DEF NodeStatus
    <3>2. Look' = [Look EXCEPT ![n] = Seen(st)]
      BY <1>1, <2>3, <2>5, <3>1, LookAfter
    <3>3. QED BY <1>1, <2>1, <2>2, <3>1, <3>2, DagMoves
  <2>6. QED BY <2>4, <2>5
<1>9. CASE SkipDownstream
  <2>1. /\ tick.pc = "skip" /\ broadcast.status = "running" /\ nodes = tick.view
        /\ UNCHANGED <<definition, broadcast, known>> /\ policy # "fail-fast"
    BY <1>3, <1>9 DEF SkipDownstream, Passing, LoopResumes
  <2>2. PICK n \in Doomed(nodes), st \in {"upstream"} : nodes' = [nodes EXCEPT ![n].st = st]
    BY <1>9, <2>1 DEF SkipDownstream
  <2>3. n \in Nodes /\ nodes[n].st = "pending" /\ st \in NodeStatus /\ st = "upstream"
        /\ \E d \in dependsOn[n] : nodes[d].st \in {"failed", "upstream"}
    BY <2>2 DEF Doomed, NodeStatus, Skips
  <2>4. Look' = [Look EXCEPT ![n] = Seen(st)]
    BY <1>1, <2>2, <2>3, LookAfter
  <2>5. \E d \in dependsOn[n] : Look[d] \in {"failed", "upstream"}
    BY <1>1, <1>2, <2>3, Looks
  <2>6. QED BY <1>1, <2>1, <2>3, <2>4, <2>5, DagMoves
<1>10. CASE GuardDeclines \/ NodeThrows \/ RecordRun
  <2>1. /\ tick.pc \in {"trigger", "record"} /\ broadcast.status = "running" /\ nodes = tick.view
        /\ UNCHANGED <<definition, broadcast, known>>
    BY <1>3, <1>10 DEF GuardDeclines, NodeThrows, RecordRun, Passing
  <2>2. tick.at \in Nodes /\ tick.at \in Ready(nodes)
    BY <1>1, <2>1 DEF Sound
  <2>3. PICK n \in Nodes : n = tick.at
    BY <2>2
  <2>4. nodes[n].st = "pending" /\ \A d \in dependsOn[n] : nodes[d].st \in {"completed", "guard"}
    BY <2>2, <2>3 DEF Ready
  <2>5. \A d \in dependsOn[n] : Look[d] \in {"completed", "guard"}
    BY <1>1, <1>2, <2>4, Looks
  <2>6. PICK st \in {"guard", "failed", "running"} :
          \/ nodes' = [nodes EXCEPT ![n].st = st]
          \/ \E run : nodes' = [nodes EXCEPT ![n] = [st |-> st, run |-> run]]
    BY <1>10, <2>3 DEF GuardDeclines, NodeThrows, RecordRun, Settle
  <2>7. st \in NodeStatus
    BY DEF NodeStatus, Unresolved, Skips
  <2>8. Look' = [Look EXCEPT ![n] = Seen(st)]
    BY <1>1, <2>6, <2>7, LookAfter
  <2>9. QED BY <1>1, <2>1, <2>4, <2>5, <2>7, <2>8, DagMoves
<1>11. CASE SetOutcome
  <2>1. /\ tick.pc = "finish" /\ broadcast.status = "running" /\ nodes = tick.view
        /\ UNCHANGED <<definition, nodes, known>> /\ Ended(nodes)
    BY <1>1, <1>3, <1>11 DEF SetOutcome, Passing, Sound
  <2>2. PICK outcome \in {"completed", "failed"} : outcome = Outcome(nodes)
    BY DEF Outcome
  <2>3. broadcast' = [broadcast EXCEPT !.status = outcome]
    BY <1>11, <2>1, <2>2 DEF SetOutcome, SetStatus
  <2>4. \A n \in Nodes : nodes[n].st \notin Unresolved \cup {"missing"}
    BY <2>1 DEF Ended, Recorded, LoopResumes
  <2>5. outcome = "failed" => policy # "continue" /\ NodeFailed
    BY <2>2 DEF Outcome, NodeFailed
  <2>6. ASSUME outcome = "completed", NEW n \in Nodes
        PROVE  \/ nodes[n].st \in {"completed", "guard"}
               \/ policy = "continue" /\ nodes[n].st \in {"failed", "upstream"}
    <3>1. ~NodeFailed \/ policy = "continue"
      BY <2>2, <2>6 DEF Outcome, NodeFailed
    <3>2. nodes[n].st # "cancelled"
      BY <2>1, <3>1 DEF LoopResumes, Passing
    <3>3. nodes[n].st \in {"failed", "upstream"} => NodeFailed
      BY DEF LoopResumes, NodeFailed
    <3>4. nodes[n].st \in {"completed", "guard", "failed", "upstream", "cancelled"}
      BY <1>1, <2>4 DEF Views, Node, NodeStatus, Skips
    <3>5. QED BY <3>1, <3>2, <3>3, <3>4
  <2>7. QED BY <1>1, <2>1, <2>3, <2>4, <2>5, <2>6, DagEnds
<1>12. CASE SweptFails
  <2>1. /\ tick.pc = "swept" /\ broadcast.status = "running" /\ tick.at = N + 1
        /\ UNCHANGED <<definition, nodes, known>>
    BY <1>1, <1>12 DEF SweptFails, Sound, LoopAlone, Sweeping
  <2>2. PICK outcome \in {"completed", "failed"} : outcome = "failed"
    OBVIOUS
  <2>3. broadcast' = [broadcast EXCEPT !.status = outcome]
    BY <1>12, <2>2 DEF SweptFails, SetStatus
  <2>4. ASSUME NEW n \in Nodes PROVE nodes[n].st \notin Unresolved \cup {"missing"}
    <3>1. n < tick.at
      BY <2>1, BroadcastAssumption DEF Nodes
    <3>2. tick.view[n].st \in Unresolved => nodes[n].st = "cancelled"
      BY <1>1, <2>1, <3>1 DEF LoopAlone, Sweeping, Views, Node
    <3>3. tick.view[n].st \notin Unresolved => nodes[n] = tick.view[n]
      BY <1>1, <2>1, <3>1 DEF LoopAlone, Sweeping
    <3>4. nodes[n].st # "missing"
      BY <2>1 DEF LoopResumes
    <3>5. QED BY <3>2, <3>3, <3>4 DEF Unresolved
  <2>5. broadcast.late \/ (policy # "continue" /\ NodeFailed)
    BY <2>1 DEF LoopResumes, Sweeping
  <2>6. QED BY <1>1, <2>1, <2>2, <2>3, <2>4, <2>5, DagEnds
<1>13. CASE SkipSwept(tick)
  <2>1. /\ tick.pc = "skipNode" /\ broadcast.status = "running" /\ tick.at \in Nodes
        /\ tick.view[tick.at].st \in Unresolved /\ UNCHANGED <<definition, broadcast, known>>
    BY <1>1, <1>13 DEF SkipSwept, Sound, LoopAlone, Sweeping
  <2>2. ~(tick.at < tick.at)
    BY <2>1 DEF Nodes
  <2>3. PICK n \in Nodes, st \in {"cancelled"} : n = tick.at
    BY <2>1
  <2>4. nodes[n].st \in Unresolved
    BY <1>1, <2>1, <2>2, <2>3 DEF LoopAlone, Sweeping
  <2>5. broadcast.late \/ (policy = "fail-fast" /\ NodeFailed)
    BY <2>1 DEF LoopResumes, Sweeping
  <2>6. nodes' = [nodes EXCEPT ![n].st = st] /\ st \in NodeStatus /\ st = "cancelled"
    BY <1>13, <2>3 DEF SkipSwept, NodeStatus, Skips
  <2>7. Look' = [Look EXCEPT ![n] = Seen(st)]
    BY <1>1, <2>6, LookAfter
  <2>8. QED BY <1>1, <2>1, <2>4, <2>5, <2>6, <2>7, DagMoves
<1>14. CASE Overdue
  <2>1. broadcast.status = "running" /\ broadcast'.status = "running" /\ broadcast'.late = TRUE
    BY <1>1, <1>14 DEF Overdue
  <2>2. Dag!Overdue
    BY <1>14, <2>1 DEF Overdue, Dag!Overdue, Dag!definition, definition
  <2>3. QED BY <2>2 DEF DagStep, Dag!Next
<1>15. CASE CrashRestart
  <2>1. (~known)' \in BOOLEAN
    BY <1>15 DEF CrashRestart
  <2>2. Dag!Replaced
    BY <1>15, <2>1 DEF CrashRestart, Dag!Replaced, Dag!definition, definition
  <2>3. QED BY <2>2 DEF DagStep, Dag!Next
<1>16. CASE TickStep
  BY <1>4, <1>5, <1>6, <1>7, <1>8, <1>9, <1>10, <1>11, <1>12, <1>13, <1>16
  DEF TickStep, FindRunning, FindDue, Expire, Advance, TriggerSignal, SweepTick, StopSwept
<1>17. CASE CancelStart \/ CancelStep \/ SomeSignalEnds \/ UNCHANGED vars
  BY <1>1, <1>4, <1>17
  DEF CancelStart, CancelStep, CancelNodes, CancelSweep, CancelEnd, SkipSwept, StopSwept, LoopAlone,
      SomeSignalEnds, SignalEnds, vars
<1>18. QED BY <1>14, <1>15, <1>16, <1>17 DEF Next

-----------------------------------------------------------------------------
(* What a loop relies on when it takes the broadcast up again.             *)
LEMMA PassPcs ==
  ASSUME NEW v \in Views, NEW i \in 1..(N + 1), NEW f \in BOOLEAN, NEW p,
         \/ p = TriggerPass(v, i, f) \/ p = CollectPass(v, i)
         \/ p = SkipPass(v) /\ policy # "fail-fast"
  PROVE  Passed(p, v) /\ (p.pc = "skip" => policy # "fail-fast")
<1>1. 1 \in 1..(N + 1) /\ FALSE \in BOOLEAN
  BY BroadcastAssumption
<1>2. ASSUME NEW j \in 1..(N + 1), NEW g \in BOOLEAN PROVE TriggerPass(v, j, g).pc # "skip"
  BY DEF TriggerPass, Finish, Place, Idle
<1>3. CASE p = TriggerPass(v, i, f)
  BY <1>2, <1>3, TriggerPlace
<1>4. CASE p = SkipPass(v) /\ policy # "fail-fast"
  BY <1>4, SkipPlace
<1>5. CASE p = CollectPass(v, i)
  <2>1. Passed(p, v)
    BY <1>5, CollectPlace
  <2>2. CASE policy # "fail-fast"
    BY <2>1, <2>2
  <2>3. CASE policy = "fail-fast"
    <3>1. HandleFailure(v).pc # "skip"
      BY <1>1, <1>2, <2>3 DEF HandleFailure, Sweep, Place
    <3>2. p.pc # "skip"
      BY <1>5, <3>1 DEF CollectPass, Place
    <3>3. QED BY <2>1, <3>2
  <2>4. QED BY <2>2, <2>3
<1>6. QED BY <1>3, <1>4, <1>5

LEMMA PassResumes ==
  ASSUME LoopResumes, nodes \in Views, nodes' \in Views, UNCHANGED <<definition, broadcast, known>>,
         tick.pc \in {"advance"} \cup Passing,
         NEW p, p = tick', Passed(p, nodes'), p.pc = "skip" => policy # "fail-fast",
         broadcast.status = "running" => \A n \in Nodes : nodes'[n].st # "missing",
         NodeFailed => NodeFailed',
         \A n \in Nodes : nodes'[n].st = "upstream" => NodeFailed',
         \A n \in Nodes : nodes'[n].st = "cancelled" => nodes[n].st = "cancelled"
  PROVE  LoopResumes'
<1>1. p.pc \in {"idle", "collect", "skip", "trigger", "finish"} \cup Sweeping
  BY IdleFields DEF Passed, Sweeps
<1>2. p.pc \in Sweeping => policy = "fail-fast" /\ NodeFailed'
  BY IdleFields DEF Passed, Sweeps, Sweeping, NodeFailed
<1>3. \A n \in Nodes : nodes'[n].st = "cancelled" => policy = "fail-fast" /\ NodeFailed'
  BY DEF LoopResumes
<1>4. UNCHANGED <<policy, broadcast, known>>
  BY DEF definition
<1>5. p.pc \notin {"unresolved", "expire", "create"}
  BY <1>1 DEF Sweeping
<1>6. QED BY <1>2, <1>3, <1>4, <1>5 DEF LoopResumes

(* One node of the view is written, and it was not settled before. *)
LEMMA WriteResumes ==
  ASSUME LoopResumes, nodes \in Views, UNCHANGED <<definition, broadcast, known>>,
         tick.pc \in Passing, tick.pc # "create", broadcast.status = "running",
         NEW n \in Nodes, nodes[n].st \in Unresolved, NEW new \in Node,
         nodes' = [nodes EXCEPT ![n] = new], new.st \notin {"missing", "cancelled"},
         new.st = "upstream" => \E d \in dependsOn[n] : nodes[d].st \in {"failed", "upstream"},
         dependsOn[n] \subseteq Nodes,
         NEW p, p = tick', Passed(p, nodes'), p.pc = "skip" => policy # "fail-fast"
  PROVE  LoopResumes'
<1>1. nodes' \in Views /\ nodes'[n] = new /\ \A m \in Nodes \ {n} : nodes'[m] = nodes[m]
  BY DEF Views
<1>2. NodeFailed => NodeFailed'
  BY <1>1 DEF NodeFailed, Unresolved
<1>3. \A m \in Nodes : nodes'[m].st # "missing"
  BY <1>1 DEF LoopResumes
<1>4. \A m \in Nodes : nodes'[m].st = "upstream" => NodeFailed
  <2>1. new.st = "upstream" => NodeFailed
    BY DEF LoopResumes, NodeFailed
  <2>2. QED BY <1>1, <2>1 DEF LoopResumes
<1>5. \A m \in Nodes : nodes'[m].st = "cancelled" => nodes[m].st = "cancelled"
  BY <1>1
<1>6. QED BY <1>1, <1>2, <1>3, <1>4, <1>5, PassResumes

LEMMA PassingResumes ==
  ASSUME BroadcastInv, Untroubled, LoopResumes,
         Advance \/ Collect \/ SkipDownstream \/ GuardDeclines \/ NodeThrows \/ RecordRun
  PROVE  LoopResumes'
<1>1. /\ LoopAlone /\ TypeOK /\ nodes \in Views /\ tick \in Where /\ tick.view \in Views /\ Sound(tick)
  BY Coherent DEF Untroubled
<1>2. dependsOn \in [Nodes -> SUBSET Nodes] /\ 1 \in 1..(N + 1) /\ FALSE \in BOOLEAN
      /\ N \in Nat /\ Nodes = 1..N
  BY <1>1, BroadcastAssumption DEF TypeOK, Nodes
<1>3. tick.pc \in Passing \cup {"advance"} => broadcast.status = "running"
  BY <1>1 DEF LoopAlone
<1>4. tick.pc \in Passing => nodes = tick.view
  BY <1>1 DEF LoopAlone
<1>5. CASE Advance
  <2>1. tick.pc = "advance" /\ UNCHANGED <<definition, broadcast, nodes, known>>
    BY <1>5 DEF Advance
  <2>2. PICK p : p = CollectPass(nodes, 1)
    OBVIOUS
  <2>3. p = tick'
    BY <1>5, <2>2 DEF Advance
  <2>4. Passed(p, nodes') /\ (p.pc = "skip" => policy # "fail-fast")
    BY <1>1, <1>2, <2>1, <2>2, PassPcs
  <2>5. /\ \A n \in Nodes : nodes'[n].st # "missing"
        /\ NodeFailed' = NodeFailed
        /\ \A n \in Nodes : nodes'[n].st = "upstream" => NodeFailed'
        /\ \A n \in Nodes : nodes'[n].st = "cancelled" => nodes[n].st = "cancelled"
    BY <1>3, <2>1 DEF LoopResumes, NodeFailed
  <2>6. nodes' \in Views
    BY <1>1, <2>1
  <2>7. QED BY <1>1, <2>1, <2>3, <2>4, <2>5, <2>6, PassResumes
<1>6. CASE Collect
  <2>1. /\ tick.pc = "collect" /\ tick.pc \in Passing /\ tick.at \in Nodes
        /\ nodes = tick.view /\ nodes[tick.at].st = "running" /\ broadcast.status = "running"
        /\ UNCHANGED <<definition, broadcast, known>>
    BY <1>1, <1>3, <1>4, <1>6 DEF Collect, Passing, Sound
  <2>2. PICK n \in Nodes, st \in {"completed", "failed", "running"} :
          n = tick.at /\ st = Result(signals[n][tick.view[n].run])
    BY <2>1 DEF Result
  <2>3. PICK new : new = [nodes[n] EXCEPT !.st = st]
    OBVIOUS
  <2>4. new \in Node /\ new.st = st
    BY <1>1, <2>3 DEF Views, Node, NodeStatus, Unresolved
  <2>5. [nodes EXCEPT ![n].st = st] = [nodes EXCEPT ![n] = new]
    BY <2>3
  <2>6. st = "running" => [nodes EXCEPT ![n] = new] = nodes
    <3>1. ASSUME st = "running" PROVE new = nodes[n]
      BY <1>1, <2>1, <2>2, <2>3, <3>1 DEF Views, Node
    <3>2. QED BY <1>1, <3>1 DEF Views
  <2>7. nodes' = [nodes EXCEPT ![n] = new]
    BY <1>6, <2>2, <2>5, <2>6 DEF Collect
  <2>8. nodes' \in Views /\ n + 1 \in 1..(N + 1)
    BY <1>1, <1>2, <2>4, <2>7 DEF Views
  <2>9. PICK p : p = CollectPass(nodes', n + 1)
    OBVIOUS
  <2>10. p = tick'
    BY <1>6, <2>1, <2>2, <2>5, <2>7, <2>9 DEF Collect
  <2>11. Passed(p, nodes') /\ (p.pc = "skip" => policy # "fail-fast")
    BY <1>2, <2>8, <2>9, PassPcs
  <2>12. nodes[n].st \in Unresolved /\ new.st \notin {"missing", "cancelled", "upstream"}
    BY <2>1, <2>2, <2>4 DEF Unresolved
  <2>13. QED BY <1>1, <1>2, <2>1, <2>4, <2>7, <2>10, <2>11, <2>12, WriteResumes
<1>7. CASE SkipDownstream
  <2>1. /\ tick.pc = "skip" /\ tick.pc \in Passing /\ broadcast.status = "running" /\ nodes = tick.view
        /\ UNCHANGED <<definition, broadcast, known>> /\ policy # "fail-fast"
    BY <1>3, <1>4, <1>7 DEF SkipDownstream, Passing, LoopResumes
  <2>2. PICK n \in Doomed(nodes) : /\ nodes' = [nodes EXCEPT ![n].st = "upstream"]
                                   /\ tick' = SkipPass([nodes EXCEPT ![n].st = "upstream"])
    BY <1>7, <2>1 DEF SkipDownstream
  <2>3. /\ n \in Nodes /\ nodes[n].st \in Unresolved
        /\ \E d \in dependsOn[n] : nodes[d].st \in {"failed", "upstream"}
    BY <2>2 DEF Doomed, Unresolved
  <2>4. PICK new : new = [nodes[n] EXCEPT !.st = "upstream"]
    OBVIOUS
  <2>5. new \in Node /\ new.st = "upstream" /\ nodes' = [nodes EXCEPT ![n] = new]
    BY <1>1, <2>2, <2>3, <2>4 DEF Views, Node, NodeStatus, Skips
  <2>6. nodes' \in Views
    BY <1>1, <2>3, <2>5 DEF Views
  <2>7. PICK p : p = SkipPass(nodes')
    OBVIOUS
  <2>8. p = tick'
    BY <2>2, <2>7
  <2>9. Passed(p, nodes') /\ (p.pc = "skip" => policy # "fail-fast")
    BY <1>2, <2>1, <2>6, <2>7, PassPcs
  <2>10. QED BY <1>1, <1>2, <2>1, <2>3, <2>5, <2>8, <2>9, WriteResumes
<1>8. CASE GuardDeclines \/ NodeThrows \/ RecordRun
  <2>1. /\ tick.pc \in {"trigger", "record"} /\ tick.pc \in Passing /\ broadcast.status = "running"
        /\ nodes = tick.view /\ UNCHANGED <<definition, broadcast, known>>
    BY <1>3, <1>4, <1>8 DEF GuardDeclines, NodeThrows, RecordRun, Passing
  <2>2. PICK n \in Nodes, f \in BOOLEAN : n = tick.at /\ f = tick.first
    BY <1>1, <2>1 DEF Sound, Where
  <2>3. nodes[n].st \in Unresolved
    BY <1>1, <2>1, <2>2 DEF Sound, Ready, Unresolved
  <2>4. PICK new \in Node : /\ new.st \in {"guard", "failed", "running"}
                            /\ nodes' = [nodes EXCEPT ![n] = new] /\ tick' = TriggerPass(nodes', n + 1, f)
    <3>1. ASSUME NEW st \in {"guard", "failed"}, Settle(tick.at, st)
          PROVE  \E new \in Node : /\ new.st \in {"guard", "failed", "running"}
                                   /\ nodes' = [nodes EXCEPT ![n] = new]
                                   /\ tick' = TriggerPass(nodes', n + 1, f)
      <4>1. PICK new : new = [nodes[n] EXCEPT !.st = st]
        OBVIOUS
      <4>2. new \in Node /\ new.st = st
        BY <1>1, <4>1 DEF Views, Node, NodeStatus, Skips
      <4>3. nodes' = [nodes EXCEPT ![n] = new] /\ tick' = TriggerPass(nodes', n + 1, f)
        BY <2>1, <2>2, <3>1, <4>1 DEF Settle
      <4>4. QED BY <4>2, <4>3
    <3>2. CASE RecordRun
      <4>1. PICK new : new = [st |-> "running", run |-> Len(signals[n])]
        OBVIOUS
      <4>2. new \in Node /\ new.st = "running"
        BY <1>1, <4>1 DEF TypeOK, Node, NodeStatus, Unresolved
      <4>3. nodes' = [nodes EXCEPT ![n] = new] /\ tick' = TriggerPass(nodes', n + 1, f)
        BY <2>1, <2>2, <3>2, <4>1 DEF RecordRun
      <4>4. QED BY <4>2, <4>3
    <3>3. QED BY <1>8, <3>1, <3>2 DEF GuardDeclines, NodeThrows
  <2>5. nodes' \in Views /\ n + 1 \in 1..(N + 1)
    BY <1>1, <1>2, <2>4 DEF Views
  <2>6. PICK p : p = TriggerPass(nodes', n + 1, f)
    OBVIOUS
  <2>7. p = tick'
    BY <2>4, <2>6
  <2>8. Passed(p, nodes') /\ (p.pc = "skip" => policy # "fail-fast")
    BY <2>5, <2>6, PassPcs
  <2>9. tick.pc # "create" /\ new.st \notin {"missing", "cancelled", "upstream"}
    BY <2>1, <2>4
  <2>10. QED BY <1>1, <1>2, <2>1, <2>3, <2>4, <2>7, <2>8, <2>9, WriteResumes
<1>9. QED BY <1>5, <1>6, <1>7, <1>8

LEMMA CreateResumes ==
  ASSUME BroadcastInv, Untroubled, LoopResumes, CreateNode
  PROVE  LoopResumes'
<1>1. /\ LoopAlone /\ TypeOK /\ StartCoherent /\ nodes \in Views /\ tick \in Where
      /\ tick.view \in Views /\ Sound(tick)
  BY Coherent DEF Untroubled
<1>2. N \in Nat /\ Nodes = 1..N /\ 1 \in 1..(N + 1)
  BY BroadcastAssumption DEF Nodes
<1>3. tick.pc = "create" /\ nodes = tick.view /\ UNCHANGED <<definition, policy, broadcast, known>>
  BY <1>1 DEF CreateNode, LoopAlone, Passing, definition
<1>4. PICK n \in Nodes, f \in BOOLEAN : n = tick.at /\ f = TRUE
  BY <1>1, <1>3 DEF Sound
<1>5. PICK new \in Node : new = [st |-> "pending", run |-> 0]
  BY DEF Node, NodeStatus, Unresolved
<1>6. nodes' = [nodes EXCEPT ![n] = new]
  BY <1>3, <1>4, <1>5 DEF CreateNode
<1>7. /\ nodes' \in Views /\ nodes'[n] = new /\ \A m \in Nodes \ {n} : nodes'[m] = nodes[m]
  BY <1>1, <1>6 DEF Views
<1>8. \A m \in Nodes : nodes[m].st = IF m < n THEN "pending" ELSE "missing"
  BY <1>1, <1>3, <1>4 DEF StartCoherent, Missing
<1>9. \A m \in Nodes : nodes'[m].st \in {"pending", "missing"}
  BY <1>5, <1>7, <1>8
<1>10. PICK p : p = tick'
  OBVIOUS
<1>11. p = IF n < N THEN Place("create", nodes', n + 1, f) ELSE TriggerPass(nodes', 1, f)
  BY <1>3, <1>4, <1>5, <1>6, <1>10 DEF CreateNode
<1>12. CASE n < N
  <2>1. p.pc = "create"
    BY <1>11, <1>12 DEF Place
  <2>2. QED BY <1>9, <1>10, <2>1 DEF LoopResumes, Sweeping
<1>13. CASE ~(n < N)
  <2>1. \A m \in Nodes : nodes'[m].st # "missing"
    BY <1>2, <1>5, <1>7, <1>8, <1>13
  <2>2. Passed(p, nodes') /\ (p.pc = "skip" => policy # "fail-fast")
    BY <1>2, <1>7, <1>11, <1>13, PassPcs
  <2>3. p.pc \notin Sweeping /\ p.pc \in {"idle", "collect", "skip", "trigger", "finish"}
    BY <1>9, <2>2, IdleFields DEF Passed, Sweeping
  <2>4. QED BY <1>3, <1>9, <1>10, <2>1, <2>2, <2>3 DEF LoopResumes, Sweeping
<1>14. QED BY <1>12, <1>13

(* A sweep moves on: it cancels nodes, and none that failed or was skipped  *)
(* below a failure.                                                        *)
LEMMA SweepResumes ==
  ASSUME BroadcastInv, Untroubled, LoopResumes, SweepTick
  PROVE  LoopResumes'
<1>1. /\ LoopAlone /\ TypeOK /\ nodes \in Views /\ tick \in Where /\ tick.view \in Views /\ Sound(tick)
  BY Coherent DEF Untroubled
<1>2. N \in Nat /\ Nodes = 1..N
  BY BroadcastAssumption DEF Nodes
<1>3. /\ tick.pc \in {"stop", "skipNode"} /\ tick.pc \in Sweeping
      /\ UNCHANGED <<definition, policy, broadcast, known>>
  BY DEF SweepTick, StopSwept, SkipSwept, Sweeping, definition
<1>4. /\ broadcast.status = "running" /\ \A n \in Nodes : nodes[n].st # "missing"
      /\ broadcast.late \/ (policy = "fail-fast" /\ NodeFailed)
  BY <1>1, <1>3 DEF LoopAlone, LoopResumes, Sweeping
<1>5. PICK n \in Nodes : n = tick.at
  BY <1>1, <1>3 DEF Sound
<1>6. ASSUME NEW p, p = tick', p.pc \in Sweeping, nodes' \in Views,
             \A m \in Nodes : \/ nodes'[m].st = nodes[m].st
                              \/ nodes'[m].st = "cancelled" /\ nodes[m].st \in Unresolved
      PROVE  LoopResumes'
  <2>1. NodeFailed => NodeFailed'
    BY <1>6 DEF NodeFailed, Unresolved
  <2>2. \A m \in Nodes : nodes'[m].st # "missing" /\ (nodes'[m].st = "upstream" => NodeFailed')
    BY <1>4, <1>6, <2>1 DEF LoopResumes
  <2>3. broadcast'.late \/ (policy' = "fail-fast" /\ NodeFailed')
    BY <1>3, <1>4, <2>1
  <2>4. p.pc \notin {"unresolved", "expire", "skip", "create", "advance"} \cup Passing
    BY <1>6 DEF Sweeping, Passing
  <2>5. QED BY <1>6, <2>2, <2>3, <2>4 DEF LoopResumes
<1>7. CASE StopSwept(tick) /\ tick' = Stopped(tick)
  <2>1. PICK p : p = tick'
    OBVIOUS
  <2>2. p.pc = "skipNode"
    BY <1>1, <1>7, <2>1 DEF Stopped, Where
  <2>3. UNCHANGED nodes /\ nodes' \in Views /\ p.pc \in Sweeping
    BY <1>1, <1>7, <2>2 DEF StopSwept, Sweeping
  <2>4. p = tick' /\ \A m \in Nodes : nodes'[m].st = nodes[m].st
    BY <2>1, <2>3
  <2>5. QED BY <1>6, <2>3, <2>4
<1>8. CASE SkipSwept(tick) /\ tick' = Skipped(tick)
  <2>1. /\ nodes' = [nodes EXCEPT ![n].st = "cancelled"] /\ tick.view[n].st \in Unresolved
        /\ nodes[n] = tick.view[n]
    <3>1. nodes' = [nodes EXCEPT ![n].st = "cancelled"] /\ tick.view[n].st \in Unresolved
      BY <1>1, <1>5, <1>8 DEF SkipSwept, Sound
    <3>2. ~(n < tick.at)
      BY <1>2, <1>5
    <3>3. nodes[n] = tick.view[n]
      BY <1>1, <1>3, <3>2 DEF LoopAlone
    <3>4. QED BY <3>1, <3>3
  <2>2. nodes' \in Views /\ nodes'[n].st = "cancelled" /\ \A m \in Nodes \ {n} : nodes'[m] = nodes[m]
    BY <1>1, <2>1 DEF Views, Node, NodeStatus, Skips
  <2>3. PICK p : p = Sweep(tick.view, n + 1)
    OBVIOUS
  <2>4. p = tick' /\ n + 1 \in 1..(N + 1)
    BY <1>2, <1>5, <1>8, <2>3 DEF Skipped
  <2>5. p.pc \in Sweeping
    BY <1>1, <2>3, <2>4, SweepPlace
  <2>6. QED BY <1>6, <2>1, <2>2, <2>4, <2>5
<1>9. QED BY <1>7, <1>8 DEF SweepTick

(* The steps that write no node run. *)
LEMMA LookupResumes ==
  ASSUME BroadcastInv, Untroubled, LoopResumes, UNCHANGED <<definition, nodes>>,
         \/ FindRunning \/ FindDue \/ Unresolvable \/ Start \/ Expire
         \/ TriggerSignal \/ SetOutcome \/ SweptFails
  PROVE  LoopResumes'
<1>1. /\ LoopAlone /\ TypeOK /\ StartCoherent /\ nodes \in Views /\ tick \in Where
      /\ broadcast \in [status : {"pending", "running"} \cup Settled, late : BOOLEAN]
  BY Coherent DEF Untroubled, TypeOK
<1>2. UNCHANGED policy /\ NodeFailed' = NodeFailed
  BY DEF definition, NodeFailed
<1>3. PICK p : p = tick'
  OBVIOUS
<1>4. CASE FindRunning
  <2>1. PICK pc \in PlacePcs : pc = IF ~known THEN "unresolved" ELSE IF broadcast.late THEN "expire" ELSE "advance"
    BY DEF PlacePcs
  <2>2. p.pc = pc
    BY <1>3, <1>4, <2>1, IdleFields DEF FindRunning
  <2>3. /\ p.pc = "unresolved" => ~known
        /\ p.pc = "expire" => broadcast.late
        /\ p.pc \in {"unresolved", "expire"} \/ (p.pc = "advance" /\ ~broadcast.late)
    BY <2>1, <2>2
  <2>4. UNCHANGED <<broadcast, known>> /\ tick.pc = "idle"
    BY <1>4 DEF FindRunning
  <2>5. QED BY <1>2, <1>3, <2>3, <2>4 DEF LoopResumes, Sweeping, Passing
<1>5. CASE FindDue
  <2>1. PICK pc \in PlacePcs : pc = IF known THEN "start" ELSE "unresolved"
    BY DEF PlacePcs
  <2>2. p.pc = pc
    BY <1>3, <1>5, <2>1, IdleFields DEF FindDue
  <2>3. (p.pc = "unresolved" => ~known) /\ p.pc \in {"unresolved", "start"}
    BY <2>1, <2>2
  <2>4. UNCHANGED <<broadcast, known>> /\ tick.pc = "idle" /\ broadcast.status = "pending"
    BY <1>5 DEF FindDue
  <2>5. QED BY <1>2, <1>3, <2>3, <2>4 DEF LoopResumes, Sweeping, Passing
<1>6. CASE Unresolvable \/ SetOutcome \/ SweptFails
  <2>1. /\ p.pc = "idle" /\ UNCHANGED known
        /\ \E s \in Settled : broadcast' = [broadcast EXCEPT !.status = s]
    BY <1>3, <1>6, IdleFields DEF Unresolvable, SetOutcome, SweptFails, SetStatus, Outcome, Settled
  <2>2. broadcast'.late = broadcast.late /\ broadcast'.status \in Settled
    BY <1>1, <2>1
  <2>3. broadcast'.status # "running"
    BY <2>2 DEF Settled
  <2>4. QED BY <1>2, <1>3, <2>1, <2>2, <2>3 DEF LoopResumes, Sweeping, Passing
<1>7. CASE Start
  <2>1. tick.pc = "start" /\ nodes = None /\ UNCHANGED known
    BY <1>1, <1>7 DEF Start, StartCoherent
  <2>2. p.pc = "create"
    BY <1>3, <1>7 DEF Start, Place
  <2>3. \A n \in Nodes : nodes'[n].st = "missing"
    BY <2>1, NoNodeRuns
  <2>4. QED BY <1>2, <1>3, <2>2, <2>3 DEF LoopResumes, Sweeping
<1>8. CASE Expire
  <2>1. tick.pc = "expire" /\ broadcast.late /\ UNCHANGED <<broadcast, known>> /\ p = Sweep(nodes, 1)
    BY <1>3, <1>8 DEF Expire, LoopResumes
  <2>2. p.pc \in Sweeping
    BY <1>1, <2>1, SweepBegins DEF Sweeps
  <2>3. QED BY <1>2, <1>3, <2>1, <2>2 DEF LoopResumes, Sweeping, Passing
<1>9. CASE TriggerSignal
  <2>1. tick.pc = "trigger" /\ p = [tick EXCEPT !.pc = "record"] /\ UNCHANGED <<broadcast, known>>
    BY <1>3, <1>9 DEF TriggerSignal
  <2>2. p.pc = "record"
    BY <1>1, <2>1 DEF Where
  <2>3. QED BY <1>2, <1>3, <2>1, <2>2 DEF LoopResumes, Sweeping, Passing
<1>10. QED BY <1>4, <1>5, <1>6, <1>7, <1>8, <1>9

LEMMA ResumesKeep ==
  ASSUME BroadcastInv, Untroubled, LoopResumes, [Next]_vars, Untroubled'
  PROVE  LoopResumes'
<1>1. /\ LoopAlone /\ TypeOK /\ tick \in Where
      /\ broadcast \in [status : {"pending", "running"} \cup Settled, late : BOOLEAN]
      /\ history \in [asked : BOOLEAN, guarded : SUBSET Nodes, crashes : 0..MaxCrashes, torn : BOOLEAN]
  BY Coherent DEF Untroubled, TypeOK
<1>2. CASE \/ FindRunning \/ FindDue \/ Unresolvable \/ Start \/ Expire
           \/ TriggerSignal \/ SetOutcome \/ SweptFails
  <2>1. UNCHANGED <<definition, nodes>>
    BY <1>2 DEF FindRunning, FindDue, Unresolvable, Start, Expire, TriggerSignal, SetOutcome, SweptFails
  <2>2. QED BY <1>2, <2>1, LookupResumes
<1>3. CASE TickStep
  BY <1>2, <1>3, CreateResumes, PassingResumes, SweepResumes DEF TickStep
<1>4. CASE CancelStart \/ CancelStep
  <2>1. ~CancelStep
    BY <1>1 DEF CancelStep, CancelNodes, CancelSweep, CancelEnd, StopSwept, SkipSwept, LoopAlone
  <2>2. CASE CancelStart
    <3>1. history'.asked = TRUE
      BY <1>1, <2>2 DEF CancelStart
    <3>2. QED BY <3>1 DEF Untroubled
  <2>3. QED BY <1>4, <2>1, <2>2
<1>5. CASE SomeSignalEnds \/ UNCHANGED vars
  <2>1. UNCHANGED <<dependsOn, policy, broadcast, nodes, known, tick>>
    BY <1>5 DEF SomeSignalEnds, SignalEnds, vars, definition
  <2>2. QED BY <2>1 DEF LoopResumes, NodeFailed
<1>6. CASE Overdue
  <2>1. /\ UNCHANGED <<dependsOn, policy, nodes, known, tick>> /\ broadcast.late = FALSE
        /\ broadcast'.late = TRUE /\ broadcast'.status = broadcast.status
    BY <1>1, <1>6 DEF Overdue, definition
  <2>2. QED BY <2>1 DEF LoopResumes, NodeFailed
<1>7. CASE CrashRestart
  <2>1. UNCHANGED <<dependsOn, policy, broadcast, nodes>> /\ tick' = Idle
    BY <1>7 DEF CrashRestart, definition
  <2>2. tick.pc # "create"
    <3>1. PICK torn \in BOOLEAN : torn = (history.torn \/ tick.pc = "create" \/ cancel.pc # "idle")
      OBVIOUS
    <3>2. history' = [history EXCEPT !.crashes = history.crashes + 1, !.torn = torn]
      BY <1>7, <3>1 DEF CrashRestart
    <3>3. history'.torn = torn
      BY <1>1, <3>2
    <3>4. QED BY <3>1, <3>3 DEF Untroubled
  <2>3. PICK p : p = tick'
    OBVIOUS
  <2>4. p.pc = "idle"
    BY <2>1, <2>3, IdleFields
  <2>5. QED BY <2>1, <2>2, <2>3, <2>4 DEF LoopResumes, NodeFailed, Sweeping, Passing
<1>8. QED BY <1>3, <1>4, <1>5, <1>6, <1>7 DEF Next

LEMMA UntroubledBefore ==
  ASSUME TypeOK, [Next]_vars, Untroubled'
  PROVE  Untroubled
<1>1. history \in [asked : BOOLEAN, guarded : SUBSET Nodes, crashes : 0..MaxCrashes, torn : BOOLEAN]
  BY DEF TypeOK
<1>2. history = history' \/ GuardDeclines \/ CancelStart \/ CrashRestart
  BY DEF Next, TickStep, FindRunning, FindDue, Unresolvable, Start, CreateNode, Expire, Advance, Collect,
         SkipDownstream, NodeThrows, TriggerSignal, RecordRun, SetOutcome, SweepTick, SweptFails,
         StopSwept, SkipSwept, CancelStep, CancelNodes, CancelSweep, CancelEnd, SomeSignalEnds,
         SignalEnds, Overdue, vars
<1>3. CASE GuardDeclines
  BY <1>1, <1>3 DEF GuardDeclines, Untroubled
<1>4. CASE CancelStart
  BY <1>1, <1>4 DEF CancelStart, Untroubled
<1>5. CASE CrashRestart
  <2>1. PICK torn \in BOOLEAN : torn = (history.torn \/ tick.pc = "create" \/ cancel.pc # "idle")
    OBVIOUS
  <2>2. history' = [history EXCEPT !.crashes = history.crashes + 1, !.torn = torn]
    BY <1>5, <2>1 DEF CrashRestart
  <2>3. history'.torn = torn /\ history'.asked = history.asked
    BY <1>1, <2>2
  <2>4. QED BY <2>1, <2>3 DEF Untroubled
<1>6. QED BY <1>2, <1>3, <1>4, <1>5 DEF Untroubled

-----------------------------------------------------------------------------
(* What the abstract broadcast promises it keeps: the promise as a relation *)
(* between what has become of the nodes and the status.                    *)
Kept(look, status) ==
  /\ status = "pending" => \A n \in Nodes : look[n] = "waiting"
  /\ \A n \in Nodes : look[n] \in {"completed", "guard", "executing"} =>
       \A d \in dependsOn[n] : look[d] \in {"completed", "guard"}
  /\ \A n \in Nodes : look[n] = "upstream" => \E d \in dependsOn[n] : look[d] \in {"failed", "upstream"}
  /\ status = "completed" =>
       \A n \in Nodes : \/ look[n] \in {"completed", "guard"}
                        \/ policy = "continue" /\ look[n] \in {"failed", "upstream"}

LEMMA PromiseIsKept == Dag!Promise <=> Kept(Look, broadcast.status)
<1>1. Look = [m \in Nodes |-> Seen(nodes[m].st)]
  BY DEF Look
<1>2. QED BY <1>1 DEF Dag!Promise, Dag!Served, Dag!Broken, Kept

LEMMA MoveKeeps ==
  ASSUME NEW look, look = [n \in Nodes |-> look[n]], NEW status,
         dependsOn \in [Nodes -> SUBSET Nodes],
         Kept(look, status), status = "running", NEW n \in Nodes, NEW st,
         \/ /\ look[n] = "waiting" /\ st \in {"executing", "guard", "failed"}
            /\ \A d \in dependsOn[n] : look[d] \in {"completed", "guard"}
         \/ look[n] = "executing" /\ st \in {"completed", "failed"}
         \/ /\ look[n] = "waiting" /\ st = "upstream"
            /\ \E d \in dependsOn[n] : look[d] \in {"failed", "upstream"}
         \/ look[n] \in {"waiting", "executing"} /\ st = "cancelled"
  PROVE  Kept([look EXCEPT ![n] = st], status)
<1>1. PICK after : after = [look EXCEPT ![n] = st]
  OBVIOUS
<1>2. after[n] = st /\ \A m \in Nodes \ {n} : after[m] = look[m]
  BY <1>1
<1>3. \A d \in Nodes : look[d] \in {"completed", "guard", "failed", "upstream"} => after[d] = look[d]
  BY <1>2
<1>4. ASSUME NEW m \in Nodes, after[m] \in {"completed", "guard", "executing"}
      PROVE  \A d \in dependsOn[m] : after[d] \in {"completed", "guard"}
  <2>1. \A d \in dependsOn[m] : d \in Nodes /\ look[d] \in {"completed", "guard"}
    BY <1>2, <1>4 DEF Kept
  <2>2. QED BY <1>3, <2>1
<1>5. ASSUME NEW m \in Nodes, after[m] = "upstream"
      PROVE  \E d \in dependsOn[m] : after[d] \in {"failed", "upstream"}
  <2>1. \E d \in dependsOn[m] : d \in Nodes /\ look[d] \in {"failed", "upstream"}
    BY <1>2, <1>5 DEF Kept
  <2>2. QED BY <1>3, <2>1
<1>6. QED BY <1>1, <1>4, <1>5 DEF Kept

LEMMA PromiseKept ==
  ASSUME TypeOK, Dag!Promise, DagStep
  PROVE  Dag!Promise'
<1>1. dependsOn \in [Nodes -> SUBSET Nodes]
  BY BroadcastAssumption DEF TypeOK
<1>2. Kept(Look, broadcast.status)
  BY PromiseIsKept
<1>3. /\ Look = [m \in Nodes |-> Seen(nodes[m].st)]
      /\ Look' = [m \in Nodes |-> Seen(nodes'[m].st)]
      /\ Look = [m \in Nodes |-> Look[m]]
  BY DEF Look
<1>4. UNCHANGED <<dependsOn, policy>>
  BY DEF DagStep, Dag!Next, Dag!vars, Dag!definition, Dag!Serve, Dag!Report, Dag!Skip, Dag!Stop, Dag!Move,
         Dag!Begin, Dag!Complete, Dag!Fail, Dag!End, Dag!GiveUp, Dag!Overdue, Dag!Replaced
<1>5. ASSUME Kept(Look', broadcast'.status) PROVE Dag!Promise'
  <2>1. Kept(Look, broadcast.status)'
    BY <1>4, <1>5 DEF Kept
  <2>2. QED BY <2>1, PromiseIsKept, PTL
<1>6. ASSUME NEW n \in Nodes, Dag!Serve(n) \/ Dag!Report(n) \/ Dag!Skip(n) \/ Dag!Stop(n)
      PROVE  Dag!Promise'
  <2>1. /\ broadcast.status = "running" /\ broadcast'.status = broadcast.status
        /\ \E st : /\ Look' = [Look EXCEPT ![n] = st]
                   /\ \/ /\ Look[n] = "waiting" /\ st \in {"executing", "guard", "failed"}
                         /\ \A d \in dependsOn[n] : Look[d] \in {"completed", "guard"}
                      \/ Look[n] = "executing" /\ st \in {"completed", "failed"}
                      \/ /\ Look[n] = "waiting" /\ st = "upstream"
                         /\ \E d \in dependsOn[n] : Look[d] \in {"failed", "upstream"}
                      \/ Look[n] \in {"waiting", "executing"} /\ st = "cancelled"
    BY <1>3, <1>6 DEF Dag!Serve, Dag!Report, Dag!Skip, Dag!Stop, Dag!Move, Dag!Served, Dag!Broken, Dag!Open
  <2>2. PICK look : look = Look
    OBVIOUS
  <2>3. PICK st : /\ Look' = [look EXCEPT ![n] = st]
                  /\ \/ /\ look[n] = "waiting" /\ st \in {"executing", "guard", "failed"}
                        /\ \A d \in dependsOn[n] : look[d] \in {"completed", "guard"}
                     \/ look[n] = "executing" /\ st \in {"completed", "failed"}
                     \/ /\ look[n] = "waiting" /\ st = "upstream"
                        /\ \E d \in dependsOn[n] : look[d] \in {"failed", "upstream"}
                     \/ look[n] \in {"waiting", "executing"} /\ st = "cancelled"
    BY <2>1, <2>2
  <2>4. PICK status : status = broadcast.status
    OBVIOUS
  <2>5. Kept(look, status) /\ status = "running" /\ look = [m \in Nodes |-> look[m]]
    BY <1>2, <1>3, <2>1, <2>2, <2>4
  <2>6. Kept([look EXCEPT ![n] = st], status)
    BY <1>1, <2>3, <2>5, MoveKeeps
  <2>7. QED BY <1>5, <2>1, <2>3, <2>4, <2>6
<1>7. ASSUME Look' = Look, broadcast'.status = broadcast.status
             \/ broadcast'.status \in {"running", "failed"}
             \/ (broadcast'.status = "completed" /\ Dag!Complete)
      PROVE  Dag!Promise'
  <2>1. \A n \in Nodes : Dag!Complete => \/ Look[n] \in {"completed", "guard"}
                                         \/ policy = "continue" /\ Look[n] \in {"failed", "upstream"}
    BY <1>3 DEF Dag!Complete, Dag!Served, Dag!Broken
  <2>2. Kept(Look, broadcast'.status)
    BY <1>2, <1>7, <2>1 DEF Kept
  <2>3. QED BY <1>5, <1>7, <2>2
<1>8. CASE Dag!Begin \/ Dag!Complete \/ Dag!Fail \/ Dag!GiveUp
  BY <1>3, <1>7, <1>8 DEF Dag!Begin, Dag!Complete, Dag!Fail, Dag!GiveUp, Dag!End
<1>9. CASE Dag!Overdue \/ Dag!Replaced \/ UNCHANGED Dag!vars
  BY <1>3, <1>7, <1>9 DEF Dag!Overdue, Dag!Replaced, Dag!vars
<1>10. QED BY <1>6, <1>8, <1>9 DEF DagStep, Dag!Next

-----------------------------------------------------------------------------
(* A definition without cycles does not stall: of the pending nodes the     *)
(* one at the lowest level has only dependencies that have ended.          *)
LEMMA SomeReady ==
  ASSUME nodes \in Views, dependsOn \in [Nodes -> SUBSET Nodes], Acyclic,
         \A n \in Nodes : nodes[n].st \notin {"missing", "running"},
         \A n \in Nodes : nodes[n].st = "pending" =>
           \A d \in dependsOn[n] : nodes[d].st \notin {"failed", "upstream", "cancelled"}
  PROVE  Ended(nodes) \/ Ready(nodes) # {}
<1> SUFFICES ASSUME ~Ended(nodes) PROVE Ready(nodes) # {}
  OBVIOUS
<1>1. PICK level \in [Nodes -> Nodes] : \A n \in Nodes : \A d \in dependsOn[n] : level[d] < level[n]
  BY DEF Acyclic
<1>2. Nodes \subseteq Nat
  BY BroadcastAssumption DEF Nodes
<1> DEFINE levels == {level[n] : n \in {m \in Nodes : nodes[m].st = "pending"}}
<1>3. levels # {}
  <2>1. PICK m \in Nodes : nodes[m].st \in {"pending", "running"}
    BY DEF Ended, Recorded, Unresolved
  <2>2. nodes[m].st = "pending"
    BY <2>1
  <2>3. QED BY <2>2
<1>4. levels \in SUBSET Nat
  BY <1>1, <1>2
<1>5. PICK least \in levels : \A l \in levels : least <= l
  BY <1>3, <1>4, LeastMember
<1>6. PICK n \in Nodes : nodes[n].st = "pending" /\ level[n] = least
  BY <1>5
<1>7. ASSUME NEW d \in dependsOn[n] PROVE nodes[d].st \in {"completed", "guard"}
  <2>1. d \in Nodes /\ level[d] \in Nat /\ level[n] \in Nat /\ level[d] < level[n]
    BY <1>1, <1>2
  <2>2. nodes[d].st # "pending"
    <3>1. ASSUME nodes[d].st = "pending" PROVE FALSE
      <4>1. level[d] \in levels
        BY <2>1, <3>1
      <4>2. least <= level[d]
        BY <1>5, <4>1
      <4>3. QED BY <1>6, <2>1, <4>2
    <3>2. QED BY <3>1
  <2>3. nodes[d].st \in NodeStatus
    BY <2>1 DEF Views, Node
  <2>4. QED BY <1>6, <2>1, <2>2, <2>3 DEF NodeStatus, Unresolved, Skips
<1>8. n \in Ready(nodes)
  BY <1>6, <1>7 DEF Ready
<1>9. QED BY <1>8

LEMMA StallsNever == BroadcastInv /\ Untroubled /\ LoopResumes => NeverStalls
<1> SUFFICES ASSUME BroadcastInv, Untroubled, LoopResumes,
                    tick.pc = "advance", \A n \in Nodes : nodes[n].st # "running", Acyclic
             PROVE  CollectPass(nodes, 1).pc # "idle"
  BY DEF NeverStalls
<1>1. /\ nodes \in Views /\ dependsOn \in [Nodes -> SUBSET Nodes] /\ broadcast.status = "running"
      /\ N \in Nat /\ Nodes = 1..N /\ 1 \in 1..(N + 1)
  BY Coherent, BroadcastAssumption DEF Untroubled, TypeOK, LoopAlone, Nodes
<1>2. \A n \in Nodes : nodes[n].st \notin {"missing", "running"}
  BY <1>1 DEF LoopResumes
<1>3. \A n \in Nodes : nodes[n].st = "cancelled" => policy = "fail-fast" /\ NodeFailed
  BY DEF LoopResumes
<1>4. CollectPass(nodes, 1) = HandleFailure(nodes)
  <2>1. PICK S : S = {m \in Nodes : nodes[m].st = "running" /\ nodes[m].run # 0}
    OBVIOUS
  <2>2. S = {}
    BY <1>2, <2>1
  <2>3. From(S, 1) = N + 1
    BY <2>2 DEF From
  <2>4. From(S, 1) > N
    BY <1>1, <2>3
  <2>5. QED BY <2>1, <2>4 DEF CollectPass
<1>5. ASSUME \A n \in Nodes : nodes[n].st = "pending" =>
               \A d \in dependsOn[n] : nodes[d].st \notin {"failed", "upstream", "cancelled"}
      PROVE  TriggerPass(nodes, 1, FALSE).pc # "idle"
  <2>1. Ended(nodes) \/ Ready(nodes) # {}
    BY <1>1, <1>2, <1>5, SomeReady
  <2>2. PICK S \in SUBSET Nodes : S = Ready(nodes)
    BY DEF Ready
  <2>3. CASE S # {}
    <3>1. PICK m \in S : m >= 1 /\ m <= N
      BY <1>1, <2>2, <2>3
    <3>2. From(S, 1) \in 1..(N + 1) /\ From(S, 1) <= m
      BY <1>1, <3>1, FromLeast
    <3>3. ~(From(S, 1) > N)
      BY <1>1, <3>1, <3>2
    <3>4. QED BY <2>2, <3>3 DEF TriggerPass, Place
  <2>4. CASE S = {}
    <3>1. Finish(nodes, FALSE).pc = "finish"
      BY <2>1, <2>2, <2>4 DEF Finish, Place
    <3>2. QED BY <2>2, <3>1 DEF TriggerPass, Place
  <2>5. QED BY <2>3, <2>4
<1>6. CASE NodeFailed /\ ToSweep(nodes) # {} /\ policy = "fail-fast"
  <2>1. PICK p : p = Sweep(nodes, 1)
    OBVIOUS
  <2>2. p.pc \in Sweeping
    BY <1>1, <2>1, SweepPlace
  <2>3. QED BY <1>4, <1>6, <2>1, <2>2 DEF HandleFailure, NodeFailed, Sweeping
<1>7. CASE NodeFailed /\ ToSweep(nodes) # {} /\ policy # "fail-fast"
  <2>1. HandleFailure(nodes) = SkipPass(nodes)
    BY <1>7 DEF HandleFailure, NodeFailed
  <2>2. CASE Doomed(nodes) = {}
    <3>1. TriggerPass(nodes, 1, FALSE).pc # "idle"
      BY <1>1, <1>3, <1>5, <1>7, <2>2 DEF Doomed
    <3>2. QED BY <1>4, <2>1, <2>2, <3>1 DEF SkipPass
  <2>3. CASE Doomed(nodes) # {}
    <3>1. SkipPass(nodes).pc = "skip"
      BY <2>3 DEF SkipPass, Place
    <3>2. QED BY <1>4, <2>1, <3>1
  <2>4. QED BY <2>2, <2>3
<1>8. CASE ~NodeFailed
  <2>1. \A n \in Nodes : nodes[n].st \notin {"failed", "upstream", "cancelled"}
    BY <1>3, <1>8 DEF LoopResumes, NodeFailed
  <2>2. TriggerPass(nodes, 1, FALSE).pc # "idle"
    BY <1>1, <1>5, <2>1
  <2>3. QED BY <1>4, <1>8, <2>2 DEF HandleFailure, NodeFailed
<1>9. CASE ToSweep(nodes) = {}
  <2>1. TriggerPass(nodes, 1, FALSE).pc # "idle"
    BY <1>5, <1>9 DEF ToSweep, Unresolved
  <2>2. QED BY <1>4, <1>9, <2>1 DEF HandleFailure
<1>10. QED BY <1>6, <1>7, <1>8, <1>9

LEMMA DagBegins ==
  ASSUME Init
  PROVE  Dag!Init /\ LoopResumes /\ Dag!Promise /\ NeverStalls
<1>1. /\ dependsOn \in Graphs /\ policy \in Policies /\ known = TRUE /\ nodes = None
      /\ broadcast.status = "pending" /\ broadcast.late = FALSE
  BY DEF Init
<1>2. \A n \in Nodes : nodes[n].st = "missing" /\ Seen(nodes[n].st) = "waiting"
  BY <1>1, NoNodeRuns DEF Seen
<1>3. Dag!Init
  BY <1>1, <1>2 DEF Dag!Init
<1>4. tick.pc = "idle"
  BY IdleFields DEF Init
<1>5. LoopResumes
  BY <1>1, <1>2, <1>4 DEF LoopResumes, Sweeping
<1>6. Dag!Promise
  BY <1>1, <1>2 DEF Dag!Promise, Dag!Served, Dag!Broken
<1>7. NeverStalls
  BY <1>4 DEF NeverStalls
<1>8. QED BY <1>3, <1>5, <1>6, <1>7

LEMMA DagInvStep ==
  ASSUME DagInv, [Next]_vars
  PROVE  DagInv' /\ (Untroubled' => DagStep)
<1>1. BroadcastInv /\ TypeOK
  BY Coherent DEF DagInv
<1>2. BroadcastInv'
  BY <1>1, NextKeeps
<1>3. ASSUME Untroubled' PROVE DagStep /\ LoopResumes' /\ Dag!Promise' /\ NeverStalls'
  <2>1. Untroubled /\ LoopResumes /\ Dag!Promise
    BY <1>1, <1>3, UntroubledBefore DEF DagInv
  <2>2. ~history'.asked
    BY <1>3 DEF Untroubled
  <2>3. DagStep
    BY <1>1, <2>1, <2>2, DagStepping
  <2>4. LoopResumes'
    BY <1>1, <1>3, <2>1, ResumesKeep
  <2>5. Dag!Promise'
    BY <1>1, <2>1, <2>3, PromiseKept
  <2>6. NeverStalls'
    BY <1>2, <1>3, <2>4, StallsNever, PTL
  <2>7. QED BY <2>3, <2>4, <2>5, <2>6
<1>4. QED BY <1>2, <1>3 DEF DagInv

(* Whatever the policy and however often the process is replaced, a loop    *)
(* that takes a broadcast up again finds a node run for every node and, for *)
(* what an interrupted sweep has cancelled, a reason that is still there;   *)
(* and the nodes stand on what they depend on.                             *)
THEOREM DagInvariant == Spec => []DagInv
<1>1. Init => DagInv
  BY InitKeeps, DagBegins DEF DagInv
<1>2. DagInv /\ [Next]_vars => DagInv'
  BY DagInvStep
<1>3. QED BY <1>1, <1>2, PTL DEF Spec

(* tick(), initBroadcast, advanceBroadcast and what they call, one database *)
(* call at a time and with crashes between any two of them, execute the     *)
(* abstract broadcast: each call is one of its steps or none, until         *)
(* cancel() is called or a crash leaves node runs uncreated.               *)
THEOREM ImplementsTheDag == Spec => ImplementsDag
<1>1. Init => Dag!Init
  BY DagBegins
<1>2. DagInv /\ [Next]_vars => [Untroubled' => DagStep]_vars
  BY DagInvStep
<1>3. QED BY <1>1, <1>2, DagInvariant, PTL DEF Spec, ImplementsDag

(* Crashes do not make an outcome wrong: a broadcast marked completed has   *)
(* served each of its nodes, or, if its policy is to continue, has broken   *)
(* or skipped the others because of a failure.                              *)
THEOREM CompletionsSurviveCrashes ==
  Spec => [](Untroubled /\ broadcast.status = "completed" => CompletedJustly)
<1>1. ASSUME DagInv, Untroubled, broadcast.status = "completed"
      PROVE  CompletedJustly
  <2>1. nodes \in Views /\ dependsOn \in [Nodes -> SUBSET Nodes] /\ Kept(Look, broadcast.status)
    BY <1>1, Coherent, BroadcastAssumption, PromiseIsKept DEF DagInv, TypeOK
  <2>2. \A n \in Nodes : \/ nodes[n].st \in {"completed", "guard"}
                         \/ policy = "continue" /\ nodes[n].st \in {"failed", "upstream"}
    BY <1>1, <2>1, Looks DEF Kept
  <2>3. ASSUME NEW n \in Nodes, nodes[n].st = "upstream"
        PROVE  \E d \in dependsOn[n] : nodes[d].st \in {"failed", "upstream"}
    <3>1. Look[n] = "upstream"
      BY <2>1, <2>3, Looks
    <3>2. \E d \in dependsOn[n] : d \in Nodes /\ Look[d] \in {"failed", "upstream"}
      BY <2>1, <3>1 DEF Kept
    <3>3. QED BY <2>1, <3>2, Looks
  <2>4. QED BY <2>2, <2>3 DEF CompletedJustly, Good
<1>2. DagInv => (Untroubled /\ broadcast.status = "completed" => CompletedJustly)
  BY <1>1
<1>3. QED BY <1>2, DagInvariant, PTL
=============================================================================
