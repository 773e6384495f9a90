-------------------------- MODULE BroadcastRunner --------------------------
(***************************************************************************)
(* One broadcast run: a DAG of nodes, each executed as a signal run.  The  *)
(* control plane's single poll loop initialises and advances it; cancel()  *)
(* is called by HTTP handlers of the same process and interleaves with the *)
(* loop at every await; the process may crash at any of them and start     *)
(* again.  Every action is one database call with the synchronous code up  *)
(* to the next; "view" is the local copy of the node runs both work on.    *)
(*                                                                         *)
(* Other broadcast runs only delay the loop and are left out.  A signal    *)
(* run is its status: how it gets there is RunQueue and SignalRunner.      *)
(* Records are copies, as those of the SQL adapters are.                   *)
(***************************************************************************)
EXTENDS Naturals, Sequences, FiniteSets

CONSTANTS N,            \* the number of nodes, in the order of definition.nodes
          Graphs,       \* the dependsOn functions considered
          Policies,     \* the failure policies considered
          HasTimeout,   \* whether the broadcast declares a timeout
          Cancellable,  \* whether cancel() may be called (once)
          MaxCrashes    \* bound on crashes

Nodes == 1..N

ASSUME BroadcastAssumption ==
  /\ N \in Nat \ {0} /\ MaxCrashes \in Nat
  /\ Graphs \subseteq [Nodes -> SUBSET Nodes]
  /\ Policies \subseteq {"fail-fast", "skip-downstream", "continue"}
  /\ HasTimeout \in BOOLEAN /\ Cancellable \in BOOLEAN

VARIABLES
  dependsOn, policy,  \* the definition; they never change
  broadcast,  \* the broadcast run: its status, and whether startedAt + timeout has passed
  nodes,      \* the node runs in the database
  signals,    \* node -> the signal runs triggered for it, oldest first, by status
  known,      \* whether this process can resolve the definition
  tick,       \* where the poll loop stands
  cancel,     \* where a call of cancel() stands
  history     \* asked: cancel() was called; guarded: nodes a guard declined;
              \* crashes; torn: a crash cut initBroadcast or cancel short

definition == <<dependsOn, policy>>
vars == <<definition, broadcast, nodes, signals, known, tick, cancel, history>>

-----------------------------------------------------------------------------
(* A node's status; a skipped node is written as the reason of its skip:    *)
(* "guard", "upstream" (upstream-failed) or "cancelled".                    *)
Unresolved == {"pending", "running"}
Skips      == {"guard", "upstream", "cancelled"}
NodeStatus == {"missing", "completed", "failed"} \cup Unresolved \cup Skips
Settled    == {"completed", "failed", "cancelled"}

(* Where the loop works on the node runs, and where a sweep does.          *)
Passing  == {"create", "collect", "skip", "trigger", "record", "finish"}
Sweeping == {"stop", "skipNode", "swept"}

Node    == [st : NodeStatus, run : Nat]   \* run: which signal run, 0 for none
Missing == [st |-> "missing", run |-> 0]
None    == [n \in Nodes |-> Missing]      \* no node runs
Idle    == [pc |-> "idle", view |-> None, at |-> 0, first |-> FALSE]

Recorded(view) == {n \in Nodes : view[n].st # "missing"}

Init ==
  /\ dependsOn \in Graphs /\ policy \in Policies
  /\ broadcast = [status |-> "pending", late |-> FALSE]
  /\ nodes = None
  /\ signals = [n \in Nodes |-> <<>>]
  /\ known = TRUE
  /\ tick = Idle /\ cancel = Idle
  /\ history = [asked |-> FALSE, guarded |-> {}, crashes |-> 0, torn |-> FALSE]

(* The least element of a set of positions from position i on, or N + 1.   *)
From(S, i) == IF \E n \in S : n >= i
              THEN CHOOSE n \in S : n >= i /\ \A m \in S : m >= i => n <= m
              ELSE N + 1

SetStatus(s) == broadcast' = [broadcast EXCEPT !.status = s]
Place(pc, view, at, first) == [pc |-> pc, view |-> view, at |-> at, first |-> first]

-----------------------------------------------------------------------------
(* Where a pass over a view stands next: the synchronous code between two   *)
(* database calls.  Positions are nodes in the order of the definition.     *)

(* Sweep: cancel the signal run of every running node of the view and skip  *)
(* every node of it that was not settled; then settle the broadcast.  Done  *)
(* by cancel(), by the timeout and by fail-fast.                            *)
ToSweepAll(view) == {n \in Nodes : view[n].st # "missing"}   \* deviation: settled ones too
ToSweep(view) == {n \in Nodes : view[n].st \in Unresolved}
Sweep(view, i) ==
  LET n == From(ToSweep(view), i)
  IN  Place(IF n > N THEN "swept"
            ELSE IF view[n].st = "running" /\ view[n].run # 0 THEN "stop" ELSE "skipNode",
            view, n, FALSE)

(* The completion check, which only advanceBroadcast makes. *)
EndedWell(view) ==          \* deviation: a failed node has not ended
  \A n \in Recorded(view) : view[n].st \notin Unresolved \cup {"failed"}
Ended(view) == \A n \in Recorded(view) : view[n].st \notin Unresolved
Finish(view, first) == IF ~first /\ Ended(view) THEN Place("finish", view, 0, FALSE) ELSE Idle

ReadyWhenSettled(view) ==   \* deviation: a dependency need only have ended
  {n \in Nodes : view[n].st = "pending" /\ \A d \in dependsOn[n] : view[d].st \notin Unresolved}

(* triggerReadyNodes: a node is ready when each dependency completed or was *)
(* declined by its guard.                                                   *)
Ready(view) ==
  {n \in Nodes : view[n].st = "pending" /\ \A d \in dependsOn[n] : view[d].st \in {"completed", "guard"}}
TriggerPass(view, i, first) ==
  LET n == From(Ready(view), i)
  IN  IF n > N THEN Finish(view, first) ELSE Place("trigger", view, n, first)

(* skipDownstream: a pending node one of whose dependencies failed or was   *)
(* skipped for that reason, in an order that visits dependencies first.     *)
Doomed(view) ==
  {n \in Nodes : view[n].st = "pending" /\ \E d \in dependsOn[n] : view[d].st \in {"failed", "upstream"}}
SkipPass(view) ==
  IF Doomed(view) = {} THEN TriggerPass(view, 1, FALSE) ELSE Place("skip", view, 0, FALSE)

(* handleFailure: the policy, applied while some node is still unresolved.  *)
HandleFailure(view) ==
  IF (\E n \in Nodes : view[n].st = "failed") /\ ToSweep(view) # {}
  THEN IF policy = "fail-fast" THEN Sweep(view, 1) ELSE SkipPass(view)
  ELSE TriggerPass(view, 1, FALSE)

(* The results of the running nodes. *)
CollectPass(view, i) ==
  LET n == From({m \in Nodes : view[m].st = "running" /\ view[m].run # 0}, i)
  IN  IF n > N THEN HandleFailure(view) ELSE Place("collect", view, n, FALSE)

-----------------------------------------------------------------------------
(* tick(): the running broadcasts, then the due ones.  Neither the elapsed  *)
(* time nor the definition is looked up again later.                        *)
FindRunning ==
  /\ tick.pc = "idle" /\ broadcast.status = "running"
  /\ tick' = [Idle EXCEPT !.pc = IF ~known THEN "unresolved"
                                 ELSE IF broadcast.late THEN "expire" ELSE "advance"]
  /\ UNCHANGED <<definition, broadcast, nodes, signals, known, cancel, history>>

(* initBroadcast reads the status once more before it goes on. *)
FindDue ==
  /\ tick.pc = "idle" /\ broadcast.status = "pending"
  /\ tick' = [Idle EXCEPT !.pc = IF known THEN "start" ELSE "unresolved"]
  /\ UNCHANGED <<definition, broadcast, nodes, signals, known, cancel, history>>

(* No definition: the broadcast fails, and nothing else is done.           *)
Unresolvable ==
  /\ tick.pc = "unresolved"
  /\ SetStatus("failed") /\ tick' = Idle
  /\ UNCHANGED <<definition, nodes, signals, known, cancel, history>>

(* initBroadcast: mark it running, create the node runs one by one, then    *)
(* trigger the roots.                                                       *)
Start ==
  /\ tick.pc = "start"
  /\ broadcast' = [status |-> "running", late |-> FALSE]
  /\ tick' = Place("create", None, 1, TRUE)
  /\ UNCHANGED <<definition, nodes, signals, known, cancel, history>>

CreateNode ==
  /\ tick.pc = "create"
  /\ LET new == [st |-> "pending", run |-> 0]
         view == [tick.view EXCEPT ![tick.at] = new]
     IN  /\ nodes' = [nodes EXCEPT ![tick.at] = new]
         /\ tick' = IF tick.at < N THEN Place("create", view, tick.at + 1, TRUE)
                                   ELSE TriggerPass(view, 1, TRUE)
  /\ UNCHANGED <<definition, broadcast, signals, known, cancel, history>>

(* advanceBroadcast: past its timeout the broadcast is swept and fails;     *)
(* otherwise the results of its running nodes are collected.                *)
Expire ==
  /\ tick.pc = "expire"
  /\ tick' = Sweep(nodes, 1)
  /\ UNCHANGED <<definition, broadcast, nodes, signals, known, cancel, history>>
Advance ==
  /\ tick.pc = "advance"
  /\ tick' = CollectPass(nodes, 1)
  /\ UNCHANGED <<definition, broadcast, nodes, signals, known, cancel, history>>

(* A signal run's status is final once it is not live, so reading it and    *)
(* updating the node are one step.                                          *)
ResultVerbatim(s)   == s             \* deviation: taken over as it is
Result(s) == CASE s = "completed" -> "completed"
               [] s = "live" -> "running"
               [] OTHER -> "failed"

Collect ==
  /\ tick.pc = "collect"
  /\ LET n == tick.at
         r == Result(signals[n][tick.view[n].run])
     IN  /\ nodes' = IF r = "running" THEN nodes ELSE [nodes EXCEPT ![n].st = r]
         /\ tick' = CollectPass([tick.view EXCEPT ![n].st = r], n + 1)
  /\ UNCHANGED <<definition, broadcast, signals, known, cancel, history>>

SkipDownstream ==
  /\ tick.pc = "skip"
  /\ \E n \in Doomed(tick.view) :
       /\ nodes' = [nodes EXCEPT ![n].st = "upstream"]
       /\ tick' = SkipPass([tick.view EXCEPT ![n].st = "upstream"])
  /\ UNCHANGED <<definition, broadcast, signals, known, cancel, history>>

(* A node is triggered, or declined by its guard, or it fails: a guard, a   *)
(* mapping or the validation of the signal's input threw.                   *)
Settle(n, st) ==
  /\ nodes' = [nodes EXCEPT ![n].st = st]
  /\ tick' = TriggerPass([tick.view EXCEPT ![n].st = st], n + 1, tick.first)

GuardDeclines ==
  /\ tick.pc = "trigger"
  /\ Settle(tick.at, "guard")
  /\ history' = [history EXCEPT !.guarded = @ \cup {tick.at}]
  /\ UNCHANGED <<definition, broadcast, signals, known, cancel>>
NodeThrows ==
  /\ tick.pc = "trigger"
  /\ Settle(tick.at, "failed")
  /\ UNCHANGED <<definition, broadcast, signals, known, cancel, history>>
TriggerSignal ==
  /\ tick.pc = "trigger"
  /\ signals' = [signals EXCEPT ![tick.at] = Append(@, "live")]
  /\ tick' = [tick EXCEPT !.pc = "record"]
  /\ UNCHANGED <<definition, broadcast, nodes, known, cancel, history>>
RecordUnmarked ==           \* deviation: the id is stored, the status is not
  /\ tick.pc = "record"
  /\ LET n == tick.at
         new == [st |-> "running", run |-> Len(signals[n])]
     IN  /\ nodes' = [nodes EXCEPT ![n].run = new.run]
         /\ tick' = TriggerPass([tick.view EXCEPT ![n] = new], n + 1, tick.first)
  /\ UNCHANGED <<definition, broadcast, signals, known, cancel, history>>
RecordRun ==
  /\ tick.pc = "record"
  /\ LET n == tick.at
         new == [st |-> "running", run |-> Len(signals[n])]
     IN  /\ nodes' = [nodes EXCEPT ![n] = new]
         /\ tick' = TriggerPass([tick.view EXCEPT ![n] = new], n + 1, tick.first)
  /\ UNCHANGED <<definition, broadcast, signals, known, cancel, history>>

(* All node runs there are have ended: failed if one failed, unless the     *)
(* policy is to continue.                                                   *)
OutcomeIgnoringPolicy(view) ==   \* deviation: "continue" is not asked
  IF \E n \in Nodes : view[n].st = "failed" THEN "failed" ELSE "completed"
Outcome(view) == IF (\E n \in Nodes : view[n].st = "failed") /\ policy # "continue"
                 THEN "failed" ELSE "completed"
SetOutcome ==
  /\ tick.pc = "finish"
  /\ SetStatus(Outcome(tick.view)) /\ tick' = Idle
  /\ UNCHANGED <<definition, nodes, signals, known, cancel, history>>

-----------------------------------------------------------------------------
(* The steps of a sweep, for whoever makes it (p).  signalRunner.cancel     *)
(* leaves a settled signal run as it is.                                    *)
StopSwept(p) ==
  /\ p.pc = "stop"
  /\ signals' = [signals EXCEPT ![p.at][p.view[p.at].run] = IF @ = "live" THEN "cancelled" ELSE @]
  /\ UNCHANGED <<definition, broadcast, nodes, known, history>>
SkipSwept(p) ==
  /\ p.pc = "skipNode"
  /\ nodes' = [nodes EXCEPT ![p.at].st = "cancelled"]
  /\ UNCHANGED <<definition, broadcast, signals, known, history>>
Stopped(p) == [p EXCEPT !.pc = "skipNode"]
Skipped(p) == Sweep(p.view, p.at + 1)

SweepLeavingSignals ==      \* deviation: signal runs are not cancelled
  /\ \/ tick.pc = "stop" /\ tick' = Stopped(tick)
        /\ UNCHANGED <<definition, broadcast, nodes, signals, known, history>>
     \/ SkipSwept(tick) /\ tick' = Skipped(tick)
  /\ UNCHANGED cancel
SweepTick ==
  /\ \/ StopSwept(tick) /\ tick' = Stopped(tick)
     \/ SkipSwept(tick) /\ tick' = Skipped(tick)
  /\ UNCHANGED cancel
SweptFails ==
  /\ tick.pc = "swept"
  /\ SetStatus("failed") /\ tick' = Idle
  /\ UNCHANGED <<definition, nodes, signals, known, cancel, history>>

(* cancel(): the status, the node runs, the sweep, the status again.        *)
CancelStart ==
  /\ Cancellable /\ ~history.asked /\ broadcast.status \in {"pending", "running"}
  /\ cancel' = [Idle EXCEPT !.pc = "nodes"]
  /\ history' = [history EXCEPT !.asked = TRUE]
  /\ UNCHANGED <<definition, broadcast, nodes, signals, known, tick>>
CancelNodes ==
  /\ cancel.pc = "nodes"
  /\ cancel' = Sweep(nodes, 1)
  /\ UNCHANGED <<definition, broadcast, nodes, signals, known, tick, history>>
CancelSweep ==
  /\ \/ StopSwept(cancel) /\ cancel' = Stopped(cancel)
     \/ SkipSwept(cancel) /\ cancel' = Skipped(cancel)
  /\ UNCHANGED tick
CancelEnd ==
  /\ cancel.pc = "swept"
  /\ SetStatus("cancelled") /\ cancel' = Idle
  /\ UNCHANGED <<definition, nodes, signals, known, tick, history>>

-----------------------------------------------------------------------------
(* The environment: a signal run ends, time passes the timeout, the process *)
(* crashes and starts again, perhaps without the definition.                *)
SignalEnds(n, k) ==
  /\ signals[n][k] = "live"
  /\ \E s \in {"completed", "failed"} : signals' = [signals EXCEPT ![n][k] = s]
  /\ UNCHANGED <<definition, broadcast, nodes, known, tick, cancel, history>>

Overdue ==
  /\ HasTimeout /\ broadcast.status = "running" /\ ~broadcast.late
  /\ broadcast' = [broadcast EXCEPT !.late = TRUE]
  /\ UNCHANGED <<definition, nodes, signals, known, tick, cancel, history>>

CrashRestart ==
  /\ history.crashes < MaxCrashes
  /\ history' = [history EXCEPT !.crashes = @ + 1,
                   !.torn = @ \/ tick.pc = "create" \/ cancel.pc # "idle"]
  /\ tick' = Idle /\ cancel' = Idle
  /\ known' \in BOOLEAN
  /\ UNCHANGED <<definition, broadcast, nodes, signals>>

-----------------------------------------------------------------------------
TickStep ==
  \/ FindRunning \/ FindDue \/ Unresolvable \/ Start \/ CreateNode
  \/ Expire \/ Advance \/ Collect \/ SkipDownstream
  \/ GuardDeclines \/ NodeThrows \/ TriggerSignal \/ RecordRun \/ SetOutcome
  \/ SweepTick \/ SweptFails
CancelStep == CancelNodes \/ CancelSweep \/ CancelEnd
SomeSignalEnds == \E n \in Nodes : \E k \in DOMAIN signals[n] : SignalEnds(n, k)

Next == TickStep \/ CancelStart \/ CancelStep \/ SomeSignalEnds \/ Overdue \/ CrashRestart

Spec == Init /\ [][Next]_vars

(* The poll loop and a call of cancel() go on; signal runs end, as the      *)
(* signal runner sees to.                                                   *)
FairSpec == Spec /\ WF_vars(TickStep) /\ WF_vars(CancelStep) /\ WF_vars(SomeSignalEnds)

-----------------------------------------------------------------------------
(* Node runs refer to signal runs that exist; positions are nodes.          *)
Where == [pc : {"idle", "unresolved", "start", "create", "expire", "advance", "collect", "skip",
                 "trigger", "record", "finish", "stop", "skipNode", "swept", "nodes"},
           view : [Nodes -> Node], at : 0..(N + 1), first : BOOLEAN]
TypeOK ==
  /\ dependsOn \in Graphs /\ policy \in Policies
  /\ broadcast \in [status : {"pending", "running"} \cup Settled, late : BOOLEAN]
  /\ nodes \in [Nodes -> Node]
  /\ signals \in [Nodes -> Seq({"live"} \cup Settled)]
  /\ known \in BOOLEAN /\ tick \in Where /\ cancel \in Where
  /\ history \in [asked : BOOLEAN, guarded : SUBSET Nodes, crashes : 0..MaxCrashes, torn : BOOLEAN]
  /\ \A n \in Nodes : nodes[n].run <= Len(signals[n])

Undisturbed == ~history.asked /\ history.crashes = 0

(* A node's signal is triggered only when every dependency had a signal run *)
(* that completed, or was declined by its guard; this survives crashes and  *)
(* cancellation.                                                            *)
Satisfied(d) == d \in history.guarded \/ \E k \in DOMAIN signals[d] : signals[d][k] = "completed"
DependenciesFirst ==
  [][\A n \in Nodes : Len(signals'[n]) > Len(signals[n]) => \A d \in dependsOn[n] : Satisfied(d)]_vars

(* A node's signal is triggered once, and at most once more for each crash  *)
(* (between the trigger and the record of it).                              *)
TriggeredOnce == \A n \in Nodes : Len(signals[n]) <= 1 + history.crashes

(* The outcome is the one the nodes justify under the policy.               *)
Good(n) == nodes[n].st \in {"completed", "guard"}
CompletedJustly ==
  \A n \in Nodes : \/ Good(n)
                   \/ /\ policy = "continue" /\ nodes[n].st \in {"failed", "upstream"}
                      /\ nodes[n].st = "upstream" =>
                           \E d \in dependsOn[n] : nodes[d].st \in {"failed", "upstream"}
FailedJustly ==
  broadcast.late \/ (policy # "continue" /\ \E n \in Nodes : nodes[n].st = "failed")
OutcomeJustified ==
  Undisturbed => /\ broadcast.status = "completed" => CompletedJustly
                 /\ broadcast.status = "failed" => FailedJustly

(* When a broadcast has ended nothing of it is still executing.             *)
NothingLeftRunning ==
  Undisturbed /\ broadcast.status \in Settled =>
    \A n \in Nodes : nodes[n].st \notin Unresolved /\ \A k \in DOMAIN signals[n] : signals[n][k] # "live"

-----------------------------------------------------------------------------
(* The inductive invariant.  At a place that works on one node, that node   *)
(* is one the pass over the view is about.                                 *)
PlaceCoherent(p) ==
  /\ \A n \in Nodes : p.view[n].run <= Len(signals[n])
  /\ p.pc \in {"create", "collect", "trigger", "record", "stop", "skipNode"} => p.at \in Nodes
  /\ p.pc \in {"collect", "stop"} => p.view[p.at].st = "running" /\ p.view[p.at].run # 0
  /\ p.pc = "skipNode" => p.view[p.at].st \in Unresolved
  /\ p.pc \in {"trigger", "record"} => p.at \in Ready(p.view)
  /\ p.pc = "swept" => p.at = N + 1
  /\ p.pc = "finish" => Ended(p.view)
PlacesCoherent ==
  /\ PlaceCoherent(tick) /\ PlaceCoherent(cancel)
  /\ tick.pc # "nodes" /\ cancel.pc \in {"idle", "nodes"} \cup Sweeping
  /\ \A n \in Nodes : cancel.view[n].st # "missing" => nodes[n].st # "missing"

(* Nothing is there before the broadcast is started, and the node runs are  *)
(* created in order before a signal is triggered.                          *)
StartCoherent ==
  /\ broadcast.status = "pending" => tick.pc \in {"idle", "unresolved", "start"}
  /\ broadcast.status = "pending" \/ tick.pc = "start" => nodes = None
  /\ broadcast.status = "pending" \/ tick.pc \in {"start", "create"} =>
       \A n \in Nodes : signals[n] = <<>>
  /\ tick.pc = "create" =>
       \A n \in Nodes :
         IF n < tick.at THEN nodes[n].st # "missing" /\ tick.view[n].st = "pending"
                        ELSE nodes[n] = Missing /\ tick.view[n] = Missing

(* A node that may still be triggered was triggered once for each crash at  *)
(* the most.                                                               *)
TriggersCounted ==
  \A n \in Nodes :
    (nodes[n].st = "pending" \/ tick.view[n].st = "pending")
      /\ ~(tick.pc = "record" /\ tick.at = n) => Len(signals[n]) <= history.crashes

(* What the poll loop takes for settled is settled. *)
Evidence(view) ==
  \A n \in Nodes : view[n].st \in {"completed", "guard"} => Satisfied(n)

(* Without a call of cancel(), nobody but the loop writes: its view is the  *)
(* node runs, and a sweep has skipped those before its position.           *)
LoopAlone ==
  /\ cancel.pc = "idle"
  /\ tick.pc = "start" => broadcast.status = "pending"
  /\ tick.pc = "unresolved" => broadcast.status \in {"pending", "running"}
  /\ tick.pc \in {"expire", "advance"} \cup Passing \cup Sweeping => broadcast.status = "running"
  /\ tick.pc \in Passing => nodes = tick.view
  /\ tick.pc \in Sweeping =>
       \A n \in Nodes :
         nodes[n] = IF n < tick.at /\ tick.view[n].st \in Unresolved
                    THEN [tick.view[n] EXCEPT !.st = "cancelled"] ELSE tick.view[n]

(* Without a crash besides, every node run is there, a node is cancelled    *)
(* only by a sweep, for a reason, and every live signal run is recorded.   *)
NodeFailed == \E n \in Nodes : nodes[n].st = "failed"
Creating   == broadcast.status = "pending" \/ tick.pc = "create"
LoopUntorn ==
  /\ known /\ tick.pc # "unresolved"
  /\ ~Creating => \A n \in Nodes : nodes[n].st # "missing"
  /\ \A n \in Nodes : nodes[n].st = "cancelled" => tick.pc \in Sweeping \/ broadcast.status = "failed"
  /\ \A n \in Nodes : nodes[n].st = "upstream" =>
       NodeFailed /\ \E d \in dependsOn[n] : nodes[d].st \in {"failed", "upstream"}
  /\ tick.pc = "expire" => broadcast.late
  /\ tick.pc \in Sweeping => broadcast.late \/ (policy = "fail-fast" /\ NodeFailed)
  /\ \A n \in Nodes : (\E k \in DOMAIN signals[n] : signals[n][k] = "live") =>
       \/ nodes[n].st = "running" /\ nodes[n].run = 1
       \/ tick.pc = "record" /\ tick.at = n
  /\ tick.pc = "skipNode" => \A k \in DOMAIN signals[tick.at] : signals[tick.at][k] # "live"

BroadcastInv ==
  /\ TypeOK /\ PlacesCoherent /\ StartCoherent /\ TriggersCounted /\ TriggeredOnce
  /\ Evidence(nodes) /\ Evidence(tick.view)
  /\ ~history.asked => LoopAlone
  /\ Undisturbed => LoopUntorn
  /\ OutcomeJustified /\ NothingLeftRunning

(* Until cancel() is called, or a crash cuts the creation of the node runs  *)
(* short, the broadcast is an execution of its DAG as promised: of the      *)
(* loop, the crashes and the definitions lost and found, its user sees      *)
(* nothing.                                                                 *)
Untroubled == ~history.asked /\ ~history.torn
Seen(st) == CASE st \in {"missing", "pending"} -> "waiting"
              [] st = "running" -> "executing"
              [] OTHER -> st
Dag == INSTANCE DagExecution
         WITH status <- broadcast.status, late <- broadcast.late,
              node <- [n \in Nodes |-> Seen(nodes[n].st)], lost <- ~known
DagStep == [Dag!Next]_(Dag!vars)
ImplementsDag == Dag!Init /\ [][Untroubled' => DagStep]_vars

(* What a loop that takes up a broadcast again relies on: there is a node   *)
(* run for every node, and what an interrupted sweep has cancelled it has   *)
(* cancelled for a reason that is still there.                              *)
LoopResumes ==
  /\ tick.pc = "unresolved" => ~known
  /\ tick.pc = "expire" => broadcast.late
  /\ tick.pc \in Sweeping => broadcast.late \/ (policy = "fail-fast" /\ NodeFailed)
  /\ tick.pc = "skip" => policy # "fail-fast"
  /\ broadcast.status = "running" /\ tick.pc # "create" => \A n \in Nodes : nodes[n].st # "missing"
  /\ \A n \in Nodes : nodes[n].st = "upstream" => NodeFailed
  /\ \A n \in Nodes : nodes[n].st = "cancelled" =>
       \/ policy = "fail-fast" /\ NodeFailed
       \/ broadcast.late /\ tick.pc \notin {"advance"} \cup Passing

(* Definitions with a cycle are refused when they are built.  In any other, *)
(* an advance that finds no node executing has something to do: a node to   *)
(* trigger, to skip or to stop, or the outcome to set.  Nodes that wait for *)
(* one another without end there are none.                                 *)
Acyclic == \E level \in [Nodes -> Nodes] : \A n \in Nodes : \A d \in dependsOn[n] : level[d] < level[n]
NeverStalls ==
  tick.pc = "advance" /\ (\A n \in Nodes : nodes[n].st # "running") /\ Acyclic
    => CollectPass(nodes, 1).pc # "idle"
DagInv == BroadcastInv /\ (Untroubled => LoopResumes /\ Dag!Promise /\ NeverStalls)

(* Unless it is cancelled, neither a broadcast nor a node that has ended    *)
(* changes again, over crashes too.                                         *)
EndsOnce ==
  [][~history.asked =>
       /\ broadcast.status \in Settled => broadcast'.status = broadcast.status
       /\ \A n \in Nodes : nodes[n].st \notin Unresolved \cup {"missing"} => nodes'[n] = nodes[n]]_vars

(* Every broadcast ends, wherever a crash hits it, except while its node    *)
(* runs are being created or in the middle of a cancellation.               *)
EveryBroadcastEnds == broadcast.status = "pending" ~> (broadcast.status \in Settled \/ history.torn)

(* A broadcast marked completed has a node run, in a terminal state, for    *)
(* every node of its definition.                                            *)
CompletedMeansAllNodes ==
  broadcast.status = "completed" => \A n \in Nodes : nodes[n].st \notin Unresolved \cup {"missing"}

(* Once a broadcast is cancelled and the process at rest, none of its       *)
(* signal runs is left to execute.                                          *)
CancelStopsEverything ==
  broadcast.status = "cancelled" /\ tick.pc = "idle" /\ cancel.pc = "idle" =>
    \A n \in Nodes : \A k \in DOMAIN signals[n] : signals[n][k] # "live"
=============================================================================
