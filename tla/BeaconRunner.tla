---------------------------- MODULE BeaconRunner ----------------------------
(***************************************************************************)
(* The supervision of one beacon instance, a long-lived child process, by  *)
(* one standalone supervisor or by the supervisors of a network of         *)
(* stations that share its record and a controller lease: the poll tick,   *)
(* the launch, the messages and the exit of the child, the requests of     *)
(* operators, and the stop, crash and restart of a supervisor.  A handler  *)
(* is cut where it awaits the adapter, the lease store or a process.       *)
(*                                                                         *)
(* patch() assigns the local copy and then writes the same fields to the   *)
(* adapter's row; the two are one step.  updatedAt is reduced to what it   *)
(* is compared for: fresher[s] says that row.updatedAt > the copy's.       *)
(* Time is abstracted to steps of their own: a back-off ends, a lease      *)
(* expires, a heartbeat or start-up deadline has passed when a tick looks. *)
(***************************************************************************)
EXTENDS Naturals

CONSTANTS
  Stations,     \* ids of the stations
  None,         \* no station
  Solo,         \* the only station of a standalone deployment
  Settings,     \* the deployments considered
  SlowWrites    \* whether a poll may look at the instance, and a request to
                \* run it may arrive, before the writes that record an exit or
                \* a restart request are over (polls are a second apart)

(* A deployment: with a network coordinator or without; the restart policy *)
(* of the beacon; the record it starts from; the bounds on requests and on *)
(* faults, and what faults it meets: a supervisor stopped or crashed; a    *)
(* variable, or the store of variables, missing; a hung child; a child     *)
(* with a fatal error; a lease that expires although its holder renews it. *)
FaultKinds == {"outage", "env", "hang", "fatal", "lapse"}
Setting == [networked : BOOLEAN, policy : {"always", "on-failure", "never"},
            from : {"created", "stopped"}, commands : Nat, faults : Nat,
            kinds : SUBSET FaultKinds]

ASSUME BeaconAssumption ==
  /\ Solo \in Stations /\ None \notin Stations
  /\ Settings \subseteq Setting /\ SlowWrites \in BOOLEAN

VARIABLES
  setting,  \* the deployment
  row,      \* the adapter's record of the instance
  inst,     \* station -> instances.get(id): its private copy
  fresher,  \* station -> row.updatedAt > its copy's updatedAt
  sup,      \* station -> supervised.get(id)
  proc,     \* station -> the child: "boot", "up", or the exit code whose
            \* event is not handled yet
  tick,     \* station -> where its tick() stands
  exit,     \* station -> where its handleExit() stands, and its local variables
  op,       \* station -> where an operator's request to its runner stands
  lease,    \* the instance's controller lease
  mine,     \* station -> networkLeaseByInstance has an entry for the instance
  up,       \* station -> "up", "stopping" (in stop()), "down", "unused"
  budget    \* requests and faults left

world  == <<row, inst, fresher, sup>>
leases == <<lease, mine>>
vars == <<setting, world, proc, tick, exit, op, leases, up, budget>>

Coordinated == setting.networked

Instance == [there : BOOLEAN, desired : {"running", "stopped"},
             status : {"backoff", "starting", "running", "stopping", "stopped", "errored"},
             due : {"no", "later", "now"}]   \* nextRestartAt
NoInstance == [there |-> FALSE, desired |-> "stopped", status |-> "stopped", due |-> "no"]
Created    == [there |-> TRUE, desired |-> "running", status |-> "backoff", due |-> "now"]
Stopped    == [there |-> TRUE, desired |-> "stopped", status |-> "stopped", due |-> "no"]

(* Supervised: whether it has a child; the flags of this incarnation.      *)
Flags == {"child", "stopRequested", "stalled", "forceRestart", "leaseLost", "removing", "fatal"}
Supervised == [Flags -> BOOLEAN]
freshSupervised == [flag \in Flags |-> FALSE]

Codes == {"clean", "failure", "fatal"}
Live(s) == proc[s] \in {"boot", "up"}
Told(s) == sup[s].stopRequested \/ sup[s].leaseLost   \* asked to stop, or SIGTERMed

NoExit  == [pc |-> "none", code |-> "clean", reason |-> "clean"]
NoLease == [at |-> None, live |-> FALSE]
Owns(s) == ~Coordinated \/ (mine[s] /\ lease.at = s /\ lease.live)

Quiet(s) == SlowWrites \/ (exit[s].pc = "none" /\ op[s] # "restarting")

Init ==
  /\ setting \in Settings
  /\ row = IF setting.from = "created" THEN Created ELSE Stopped
  /\ inst = [s \in Stations |-> IF Coordinated \/ s = Solo THEN row ELSE NoInstance]
  /\ fresher = [s \in Stations |-> FALSE]
  /\ sup  = [s \in Stations |-> freshSupervised]
  /\ proc = [s \in Stations |-> "none"]
  /\ tick = [s \in Stations |-> "idle"]
  /\ exit = [s \in Stations |-> NoExit]
  /\ op   = [s \in Stations |-> "idle"]
  /\ lease = NoLease
  /\ mine = [s \in Stations |-> FALSE]
  /\ up   = [s \in Stations |-> IF Coordinated \/ s = Solo THEN "up" ELSE "unused"]
  /\ budget = [commands |-> setting.commands, faults |-> setting.faults]

-----------------------------------------------------------------------------
(* What handlers read and write: the row, the copies of it, and the        *)
(* supervised entries.  A synchronous stretch of code takes a world to     *)
(* the next one; Become makes the last one the state.                      *)
World == [row |-> row, inst |-> inst, fresher |-> fresher, sup |-> sup]
Become(w) == /\ row' = w.row /\ inst' = w.inst
             /\ fresher' = w.fresher /\ sup' = w.sup

(* A record with some of its fields overwritten. *)
With(r, fields) == [f \in DOMAIN r |-> IF f \in DOMAIN fields THEN fields[f] ELSE r[f]]

(* patch(): Object.assign on the copy, updateInstance on the row.          *)
PatchedUpserting(w, s, fields) ==     \* deviation: the row is written though it is gone
  IF ~w.inst[s].there THEN w
  ELSE [w EXCEPT !.inst[s] = With(@, fields), !.row = [With(@, fields) EXCEPT !.there = TRUE],
                 !.fresher = [t \in Stations |-> t # s /\ w.inst[t].there]]
Patched(w, s, fields) ==
  IF ~w.inst[s].there THEN w
  ELSE IF ~w.row.there THEN [w EXCEPT !.inst[s] = With(@, fields)]
  ELSE [w EXCEPT !.inst[s] = With(@, fields), !.row = With(@, fields),
                 !.fresher = [t \in Stations |-> t # s /\ w.inst[t].there]]
Touch == <<>>   \* a patch of fields that carry no control: only updatedAt moves

(* patchLocal(), and the copying of fields from the row in a sync.         *)
Copied(w, s, fields) == [w EXCEPT !.inst[s] = With(@, fields)]

Flagged(w, s, flag) == [w EXCEPT !.sup[s][flag] = TRUE]
Reset(w, s) == [w EXCEPT !.sup[s] = freshSupervised]

(* initiateStop: asks the child to stop, once, and marks the record.       *)
StopInitiated(w, s) ==
  IF w.sup[s].child /\ ~w.sup[s].stopRequested
  THEN Patched(Flagged(w, s, "stopRequested"), s, [status |-> "stopping"])
  ELSE w

-----------------------------------------------------------------------------
(* tick(): the lease is renewed, the shared records are read, and the      *)
(* instance is reconciled.  A renewal commutes with what others do before  *)
(* the records arrive, and from there on to its first own write the tick   *)
(* does not wait: the three are one step.                                  *)
RenewedBlindly(w, s) == w        \* deviation: a refused renewal is not acted on
Renewed(w, s) ==
  IF mine[s] /\ ~Owns(s) THEN Flagged(w, s, "leaseLost") ELSE w

(* syncNetworkInstances.  Lifecycle fields are taken only when the row     *)
(* asks for a start, or when the desired state turns to running.           *)
Adopted(w, s) ==
  Reset([w EXCEPT !.inst[s] = IF w.row.desired = "running"
                              THEN With(w.row, [status |-> "backoff", due |-> "now"]) ELSE w.row,
                  !.fresher[s] = FALSE], s)
Forgotten(w, s) == Reset([w EXCEPT !.inst[s] = NoInstance], s)
Consumed(w, s) ==
  LET asked == w.row.desired = "running" /\ w.row.status = "backoff" /\ w.row.due # "no"
      turned == w.inst[s].desired = "stopped" /\ w.row.desired = "running"
      seen == Copied([w EXCEPT !.fresher[s] = FALSE], s, [desired |-> w.row.desired])
  IN CASE asked /\ w.sup[s].child -> StopInitiated(Flagged(seen, s, "forceRestart"), s)
       [] asked /\ ~w.sup[s].child -> Copied(seen, s, [status |-> "backoff", due |-> w.row.due])
       [] ~asked /\ turned /\ ~w.sup[s].child ->
            Copied(seen, s, [status |-> "backoff", due |-> "now"])
       [] OTHER -> seen
Synced(w, s) ==
  CASE ~Coordinated -> w
    [] Coordinated /\ w.row.there /\ ~w.inst[s].there -> Adopted(w, s)
    [] Coordinated /\ w.row.there /\ w.inst[s].there /\ w.fresher[s] -> Consumed(w, s)
    [] Coordinated /\ ~w.row.there /\ w.inst[s].there /\ ~w.sup[s].child -> Forgotten(w, s)
    [] OTHER -> w

(* reconcile().  It ignores an instance being deleted, and everything once *)
(* stop() was called.                                                      *)
Concerned(w, s) == up[s] = "up" /\ w.inst[s].there /\ ~w.sup[s].removing
Kept(w, s) ==                    \* deviation: no safety net for a late spawn
  FALSE
Unwanted(w, s) == /\ Concerned(w, s) /\ w.inst[s].desired = "stopped"
                  /\ w.sup[s].child /\ ~w.sup[s].stopRequested
Watched(w, s) == /\ Concerned(w, s) /\ w.inst[s].desired = "running"
                 /\ w.sup[s].child /\ ~w.sup[s].stopRequested
                 /\ w.inst[s].status \in {"starting", "running"}
Due(w, s) == /\ Concerned(w, s) /\ w.inst[s].desired = "running" /\ ~w.sup[s].child
             /\ w.inst[s].status = "backoff" /\ w.inst[s].due = "now"

At(s, pc) == tick' = [tick EXCEPT ![s] = pc]
Fault(kind) == /\ budget.faults > 0 /\ kind \in setting.kinds
               /\ budget' = [budget EXCEPT !.faults = @ - 1]
Polled(s) == Synced(Renewed(World, s), s)
Poll(s) == /\ up[s] = "up" /\ tick[s] = "idle" /\ Quiet(s)
           /\ UNCHANGED <<setting, proc, exit, op, leases, up>>

PollStops(s) ==
  /\ Poll(s) /\ Unwanted(Polled(s), s)
  /\ Become(StopInitiated(Polled(s), s))
  /\ UNCHANGED <<tick, budget>>
PollFindsHung(s) ==
  /\ Poll(s) /\ Fault("hang") /\ Watched(Polled(s), s)
  /\ Become(Patched(Flagged(Polled(s), s, "stalled"), s, Touch))
  /\ At(s, "hung")
StopHung(s) ==
  /\ tick[s] = "hung"
  /\ Become(StopInitiated(World, s))
  /\ At(s, "idle")
  /\ UNCHANGED <<setting, proc, exit, op, leases, up, budget>>
PollLaunches(s) ==
  /\ Poll(s) /\ Due(Polled(s), s)
  /\ Become(Polled(s))
  /\ At(s, "launch")
  /\ UNCHANGED budget
PollRests(s) ==
  /\ Poll(s) /\ ~Unwanted(Polled(s), s) /\ ~Due(Polled(s), s)
  /\ Become(Polled(s))
  /\ UNCHANGED <<tick, budget>>

-----------------------------------------------------------------------------
(* spawnBeacon(): required variables, placement and canClaim, the lease,   *)
(* the "starting" record, and the process.                                 *)
LaunchLacksEnv(s) ==
  /\ tick[s] = "launch"
  /\ \/ Become(Patched(World, s, [status |-> "errored", due |-> "no"]))
     \/ Become(Patched(World, s, [status |-> "backoff", due |-> "later"]))   \* no store
  /\ At(s, "idle") /\ Fault("env")
  /\ UNCHANGED <<setting, proc, exit, op, leases, up>>
LaunchRefused(s) ==
  /\ tick[s] = "launch"           \* canClaim() is false, or the lease is taken
  /\ At(s, "idle")
  /\ UNCHANGED <<setting, world, proc, exit, op, leases, up, budget>>
AcquiredByForce(s) ==            \* deviation: an unexpired lease is overwritten
  lease' = [at |-> s, live |-> TRUE] /\ mine' = [mine EXCEPT ![s] = TRUE]
AcquiredIfVacant(s) ==           \* deviation: an expired lease still blocks
  IF ~Coordinated THEN UNCHANGED leases
  ELSE /\ lease.at = None
       /\ lease' = [at |-> s, live |-> TRUE]
       /\ mine' = [mine EXCEPT ![s] = TRUE]
Acquired(s) ==
  IF ~Coordinated THEN UNCHANGED leases
  ELSE /\ ~lease.live
       /\ lease' = [at |-> s, live |-> TRUE]
       /\ mine' = [mine EXCEPT ![s] = TRUE]
LaunchStarts(s) ==
  /\ tick[s] = "launch" /\ Acquired(s)
  /\ Become(Patched(World, s, [status |-> "starting", due |-> "no"]))
  /\ At(s, "spawn")
  /\ UNCHANGED <<setting, proc, exit, op, up, budget>>
ReleaseHalf(s) ==                \* deviation: the holder goes, the expiry time stays
  mine' = [mine EXCEPT ![s] = FALSE] /\ lease' = [lease EXCEPT !.at = None]
Release(s) ==
  /\ mine' = [mine EXCEPT ![s] = FALSE]
  /\ lease' = IF mine[s] /\ lease.at = s THEN NoLease ELSE lease

Spawned(s) ==                    \* a new entry with a child, and the pid in the record
  /\ Become(Patched([World EXCEPT !.sup[s] = [freshSupervised EXCEPT !.child = TRUE]], s, Touch))
  /\ proc' = [proc EXCEPT ![s] = "boot"]
  /\ UNCHANGED leases
SpawnUnchecked(s) ==             \* deviation: a deletion meanwhile goes unnoticed
  /\ tick[s] = "spawn" /\ Spawned(s) /\ At(s, "idle")
  /\ UNCHANGED <<setting, exit, op, up, budget>>
Spawn(s) ==
  /\ tick[s] = "spawn"
  /\ IF up[s] = "stopping" \/ ~inst[s].there \/ sup[s].removing
     THEN Release(s) /\ UNCHANGED <<world, proc>> ELSE Spawned(s)
  /\ At(s, "idle")
  /\ UNCHANGED <<setting, exit, op, up, budget>>

-----------------------------------------------------------------------------
(* Messages of the child.  A station that finds it does not own the lease  *)
(* ignores the message and SIGTERMs the child.                             *)
Heard(s, w) ==
  /\ Live(s) /\ ~sup[s].leaseLost
  /\ Become(IF Owns(s) THEN w ELSE Flagged(World, s, "leaseLost"))
  /\ UNCHANGED <<setting, tick, exit, op, leases, up>>
ChildStarted(s) ==
  /\ proc[s] = "boot"
  /\ proc' = [proc EXCEPT ![s] = "up"]
  /\ Heard(s, IF sup[s].stopRequested THEN World
              ELSE Patched(World, s, [status |-> "running"]))
  /\ UNCHANGED budget
Heartbeat(s) ==                  \* also ready, exposed and a non-fatal error
  /\ proc[s] = "up" /\ Coordinated
  /\ Heard(s, Patched(World, s, Touch))
  /\ UNCHANGED <<proc, budget>>
FatalMessage(s) ==
  /\ proc[s] = "boot" /\ ~sup[s].fatal /\ Fault("fatal")
  /\ Heard(s, Patched([World EXCEPT !.sup[s].forceRestart = FALSE,
                                    !.sup[s].fatal = TRUE], s, Touch))
  /\ UNCHANGED proc

(* The process ends: by itself, or because it was told to; with its error  *)
(* message lost, possibly.                                                 *)
ChildExits(s, code) ==
  /\ Live(s)
  /\ code = "clean" => (proc[s] = "up" \/ Told(s)) /\ ~sup[s].fatal
  /\ IF code = "fatal" /\ ~sup[s].fatal THEN proc[s] = "boot" /\ Fault("fatal")
                                        ELSE UNCHANGED budget
  /\ proc' = [proc EXCEPT ![s] = code]
  /\ UNCHANGED <<setting, world, tick, exit, op, leases, up>>

-----------------------------------------------------------------------------
(* handleExit().  In a network it waits for the lease store before it      *)
(* looks at the reason for the exit.                                       *)
Reason(s, code) == CASE sup[s].stalled -> "stalled"
                     [] ~sup[s].stalled /\ (sup[s].stopRequested \/ up[s] = "stopping") -> "stopped"
                     [] OTHER -> IF code = "clean" THEN "clean" ELSE "failure"
ShouldRestart(reason, desired) ==
  /\ desired = "running" /\ reason # "stopped"
  /\ \/ setting.policy = "always"
     \/ setting.policy = "on-failure" /\ reason \in {"failure", "stalled"}

Exiting(s, pc) == exit' = [exit EXCEPT ![s].pc = pc]
ExitDone(s)    == exit' = [exit EXCEPT ![s] = NoExit]
Recording(w, s, code) ==   \* nothing is recorded of an instance being deleted
  IF sup[s].removing \/ ~inst[s].there THEN ExitDone(s) /\ Become(w)
  ELSE /\ exit' = [exit EXCEPT ![s] = [pc |-> "decide", code |-> code,
                                       reason |-> Reason(s, code)]]
       /\ Become(Patched(w, s, Touch))

ExitEvent(s) ==
  /\ proc[s] \in Codes
  /\ proc' = [proc EXCEPT ![s] = "none"]
  /\ LET childless == [World EXCEPT !.sup[s].child = FALSE]
     IN IF Coordinated
        THEN /\ exit' = [exit EXCEPT ![s] = [NoExit EXCEPT !.pc = "release", !.code = proc[s]]]
             /\ Become(childless)
        ELSE Recording(childless, s, proc[s])
  /\ UNCHANGED <<setting, tick, op, leases, up, budget>>
ExitReleases(s) ==
  /\ exit[s].pc = "release"
  /\ IF Owns(s) THEN Exiting(s, "record") ELSE ExitDone(s)
  /\ Release(s)
  /\ UNCHANGED <<setting, world, proc, tick, op, up, budget>>
ExitRecords(s) ==
  /\ exit[s].pc = "record"
  /\ IF sup[s].leaseLost THEN ExitDone(s) /\ UNCHANGED world
     ELSE Recording(World, s, exit[s].code)
  /\ UNCHANGED <<setting, proc, tick, op, leases, up, budget>>

(* Forced restart first, then a fatal error, then the policy.              *)
Forced(s)   == sup[s].forceRestart /\ up[s] # "stopping"
Hopeless(s) == sup[s].fatal \/ exit[s].code = "fatal"
Retried(s)  == up[s] # "stopping" /\ ShouldRestart(exit[s].reason, inst[s].desired)
Final(s) == CASE Hopeless(s) \/ exit[s].reason \in {"failure", "stalled"} ->
                   [status |-> "errored"]
              [] ~Hopeless(s) /\ exit[s].reason = "clean" ->
                   [status |-> "stopped", desired |-> "stopped"]
              [] OTHER -> [status |-> "stopped"]
ExitDecides(s) ==
  /\ exit[s].pc = "decide"
  /\ \/ /\ Forced(s)
        /\ Become(Patched(World, s, [status |-> "backoff", due |-> "now"]))
        /\ Exiting(s, "reset")
     \/ /\ ~Forced(s) /\ ~Hopeless(s) /\ Retried(s)
        /\ Become(Patched(World, s, [status |-> "backoff", due |-> "later"]))
        /\ Exiting(s, "reset")
     \/ /\ ~Forced(s) /\ (Hopeless(s) \/ ~Retried(s))
        /\ Become(Patched(World, s, Final(s)))
        /\ ExitDone(s)
  /\ UNCHANGED <<setting, proc, tick, op, leases, up, budget>>
ExitResets(s) ==                 \* scheduleRestart, once the back-off is written
  /\ exit[s].pc = "reset"
  /\ Become(Reset(World, s))
  /\ ExitDone(s)
  /\ UNCHANGED <<setting, proc, tick, op, leases, up, budget>>
BackoffEnds(s) ==
  /\ inst[s].due = "later"
  /\ Become(Copied(World, s, [due |-> "now"]))
  /\ UNCHANGED <<setting, proc, tick, exit, op, leases, up, budget>>

-----------------------------------------------------------------------------
(* Requests to a standalone runner, one at a time.                         *)
Command == /\ budget.commands > 0
           /\ budget' = [budget EXCEPT !.commands = @ - 1]
Asked(s, pc) == /\ Command /\ up[s] = "up" /\ op[s] = "idle" /\ ~Coordinated
                /\ op' = [op EXCEPT ![s] = pc]
                /\ UNCHANGED <<setting, proc, tick, exit, leases, up>>
Answered(s, pc, next) == /\ op[s] = pc
                         /\ op' = [op EXCEPT ![s] = next]
                         /\ UNCHANGED <<setting, tick, exit, leases, up, budget>>
Launchable == [desired |-> "running", status |-> "backoff", due |-> "now"]
Desire(w, s, state) == Patched(w, s, [desired |-> state])

StartUnforced(s) ==              \* deviation: a child being stopped counts as started
  /\ Asked(s, "idle") /\ inst[s].there /\ Quiet(s)
  /\ Become(IF sup[s].child THEN Desire(World, s, "running") ELSE Patched(World, s, Launchable))
Start(s) ==
  /\ Asked(s, "idle") /\ inst[s].there /\ Quiet(s)
  /\ Become(CASE ~sup[s].child -> Patched(World, s, Launchable)
              [] sup[s].child /\ sup[s].stopRequested ->
                   Desire(Flagged(World, s, "forceRestart"), s, "running")
              [] OTHER -> Desire(World, s, "running"))
StopAsked(s) ==
  /\ Asked(s, "stopping") /\ inst[s].there
  /\ Become(Desire(World, s, "stopped"))
StopActs(s) ==
  /\ Answered(s, "stopping", "idle")
  /\ Become(IF (sup[s].child /\ ~sup[s].stopRequested) \/ inst[s].status # "backoff"
            THEN StopInitiated(World, s)
            ELSE Patched(World, s, [status |-> "stopped", due |-> "no"]))
  /\ UNCHANGED proc
RestartAsked(s) ==               \* with no child it is a start
  /\ Asked(s, "restarting") /\ sup[s].child /\ Quiet(s)
  /\ Become(Desire(Flagged(World, s, "forceRestart"), s, "running"))
RestartActs(s) ==
  /\ Answered(s, "restarting", "idle")
  /\ Become(StopInitiated(World, s))
  /\ UNCHANGED proc
Create(s) ==
  /\ Asked(s, "idle") /\ ~inst[s].there /\ ~row.there /\ Quiet(s)
  /\ Become(Reset([World EXCEPT !.inst[s] = Created, !.row = Created], s))

(* deleteInstance: the child is stopped and waited for, then killed.       *)
DeleteAsked(s) ==
  /\ Asked(s, "deleting") /\ inst[s].there
  /\ Become(Desire(Flagged(World, s, "removing"), s, "stopped"))
DeleteStops(s) ==
  /\ Answered(s, "deleting", "waiting")
  /\ Become(StopInitiated(World, s))
  /\ UNCHANGED proc
DeleteForgets(s) ==              \* the child is gone, or is SIGKILLed by now
  /\ Answered(s, "waiting", "removing")
  /\ Become(Forgotten(World, s))
  /\ proc' = [proc EXCEPT ![s] = "none"]
DeleteRemoves(s) ==
  /\ Answered(s, "removing", "idle")
  /\ Become([World EXCEPT !.row = NoInstance])
  /\ UNCHANGED proc

-----------------------------------------------------------------------------
(* Headquarters of a network writes the row and nothing else.              *)
Headquarters(new) ==
  /\ Command /\ Coordinated
  /\ Become([World EXCEPT !.row = new, !.fresher = [t \in Stations |-> inst[t].there]])
  /\ UNCHANGED <<setting, proc, tick, exit, op, leases, up>>
HQStart  == row.there /\ Headquarters(With(row, Launchable))   \* and restart
HQStop   == row.there /\ Headquarters(With(row, [desired |-> "stopped"]))
HQDelete == /\ row.there /\ row.status \in {"stopped", "errored"}
            /\ Headquarters(NoInstance)
HQCreate == ~row.there /\ Headquarters(Created)

-----------------------------------------------------------------------------
(* The supervisor itself.                                                  *)
SupervisorStop(s) ==
  /\ up[s] = "up" /\ Fault("outage")
  /\ up' = [up EXCEPT ![s] = "stopping"]
  /\ UNCHANGED <<setting, world, proc, tick, exit, op, leases>>
Sweep(s) ==                      \* stop({graceful}) once the tick is over
  /\ up[s] = "stopping" /\ tick[s] = "idle"
  /\ sup[s].child /\ ~sup[s].stopRequested
  /\ Become(StopInitiated(World, s))
  /\ UNCHANGED <<setting, proc, tick, exit, op, leases, up, budget>>
Gone(s) ==   \* children are killed, or unwind on "disconnect"; memory is lost
  /\ up' = [up EXCEPT ![s] = "down"]
  /\ Become([Forgotten(World, s) EXCEPT !.fresher[s] = FALSE])
  /\ proc' = [proc EXCEPT ![s] = "none"]
  /\ tick' = [tick EXCEPT ![s] = "idle"]
  /\ op'   = [op EXCEPT ![s] = "idle"]
  /\ mine' = [mine EXCEPT ![s] = FALSE]
  /\ ExitDone(s)
  /\ UNCHANGED <<setting, lease>>
SupervisorEnds(s) == up[s] = "stopping" /\ tick[s] = "idle" /\ Gone(s) /\ UNCHANGED budget
Crash(s) == up[s] = "up" /\ Fault("outage") /\ Gone(s)

Hydrated(r) == CASE r.desired = "running" -> [status |-> "backoff", due |-> "now"]
                 [] r.desired = "stopped" /\ ~Coordinated
                    /\ r.status \in {"running", "starting", "stopping"} -> [status |-> "stopped"]
                 [] OTHER -> Touch
SupervisorStart(s) ==            \* the copy is patched; standalone, the row too
  /\ up[s] = "down"
  /\ up' = [up EXCEPT ![s] = "up"]
  /\ Become(IF ~row.there THEN World
            ELSE LET loaded == [World EXCEPT !.inst[s] = row]
                 IN IF Coordinated THEN Copied(loaded, s, Hydrated(row))
                                   ELSE Patched(loaded, s, Hydrated(row)))
  /\ UNCHANGED <<setting, proc, tick, exit, op, leases, budget>>

(* A lease nobody renews expires; one that is renewed only in a jitter.    *)
Abandoned == up[lease.at] = "down" \/ ~mine[lease.at]
LeaseLapses ==
  /\ lease.live
  /\ IF Abandoned THEN UNCHANGED budget ELSE Fault("lapse")
  /\ lease' = [lease EXCEPT !.live = FALSE]
  /\ UNCHANGED <<setting, world, proc, tick, exit, op, mine, up>>

-----------------------------------------------------------------------------
Tick(s) == \/ PollStops(s) \/ PollFindsHung(s) \/ PollLaunches(s) \/ PollRests(s)
           \/ StopHung(s)
           \/ LaunchLacksEnv(s) \/ LaunchRefused(s) \/ LaunchStarts(s) \/ Spawn(s)
Child(s) == \/ ChildStarted(s) \/ Heartbeat(s) \/ FatalMessage(s)
            \/ \E code \in Codes : ChildExits(s, code)
HandleExit(s) == \/ ExitEvent(s) \/ ExitReleases(s) \/ ExitRecords(s)
                 \/ ExitDecides(s) \/ ExitResets(s)
Request(s) == Start(s) \/ StopAsked(s) \/ RestartAsked(s) \/ Create(s) \/ DeleteAsked(s)
Answer(s) == \/ StopActs(s) \/ RestartActs(s)
             \/ DeleteStops(s) \/ DeleteForgets(s) \/ DeleteRemoves(s)
HQ == HQStart \/ HQStop \/ HQDelete \/ HQCreate
Ends(s) == Sweep(s) \/ SupervisorEnds(s) \/ SupervisorStart(s)

Next == \/ \E s \in Stations : \/ Tick(s) \/ Child(s) \/ HandleExit(s) \/ BackoffEnds(s)
                               \/ Request(s) \/ Answer(s)
                               \/ SupervisorStop(s) \/ Crash(s) \/ Ends(s)
        \/ HQ \/ LeaseLapses

Spec == Init /\ [][Next]_vars

(* Ticks recur and handlers run on; a child that was told to stop exits    *)
(* (it exits by itself after stopTimeoutMs, and is SIGKILLed); timers      *)
(* expire; a supervisor that went down is started again.  A launch that is *)
(* possible over and over is not for ever denied its variables, its gate   *)
(* or the lease.  Nothing makes a healthy child exit, a lease of a running *)
(* holder expire, or anyone send a request.                                *)
AbandonedLapses == lease.live /\ Abandoned /\ LeaseLapses
ToldExits(s) == Told(s) /\ \E code \in Codes : ChildExits(s, code)
Fairness ==
  /\ \A s \in Stations :
       /\ WF_vars(Tick(s))       /\ SF_vars(LaunchStarts(s))
       /\ WF_vars(HandleExit(s)) /\ WF_vars(ToldExits(s))
       /\ WF_vars(Answer(s))     /\ WF_vars(Ends(s))
       /\ WF_vars(BackoffEnds(s))
  /\ WF_vars(AbandonedLapses)
FairSpec == Spec /\ Fairness

-----------------------------------------------------------------------------
\* The shape of every variable.
TypeOK ==
  /\ setting \in Settings /\ row \in Instance /\ inst \in [Stations -> Instance]
  /\ fresher \in [Stations -> BOOLEAN] /\ sup \in [Stations -> Supervised]
  /\ proc \in [Stations -> {"none", "boot", "up"} \cup Codes]
  /\ tick \in [Stations -> {"idle", "hung", "launch", "spawn"}]
  /\ exit \in [Stations -> [pc : {"none", "release", "record", "decide", "reset"},
                            code : Codes, reason : {"clean", "failure", "stalled", "stopped"}]]
  /\ op \in [Stations -> {"idle", "stopping", "restarting", "deleting", "waiting", "removing"}]
  /\ lease \in [at : Stations \cup {None}, live : BOOLEAN] /\ (lease.live => lease.at # None)
  /\ mine \in [Stations -> BOOLEAN] /\ up \in [Stations -> {"up", "stopping", "down", "unused"}]
  /\ budget \in [commands : 0..setting.commands, faults : 0..setting.faults]

\* No unmanaged child: a process whose exit is not handled yet is the child of
\* the instance its supervisor tracks, and handleExit runs for no process that
\* has been replaced.  Stop, delete, restart and shutdown all act on the
\* tracked child only.
Tracked(s) == /\ proc[s] # "none" => sup[s].child /\ inst[s].there
              /\ sup[s].child => proc[s] # "none" /\ exit[s].pc = "none"
NoStrayChild == \A s \in Stations : Tracked(s)

\* The controller lease does its work: while leases outlive only stations that
\* are down, no two stations of the network supervise a live child.
OneOwner == Coordinated /\ "lapse" \notin setting.kinds => \A s, t \in Stations : Live(s) /\ Live(t) => s = t

\* A start asked for while the child was being stopped, launched or restarted
\* is not lost: when everything has come to rest a beacon that should run
\* runs, waits for its restart, or is errored; never "stopped" with desired
\* state "running".
AtRest(s) == /\ up[s] = "up" /\ tick[s] = "idle" /\ exit[s].pc = "none" /\ op[s] = "idle"
             /\ proc[s] \notin Codes
NeverStranded ==
  ~Coordinated => \A s \in Stations :
    AtRest(s) /\ inst[s].there /\ inst[s].desired = "running" /\ ~sup[s].child
      => \/ inst[s].status = "errored"
         \/ inst[s].status = "backoff" /\ inst[s].due # "no"

-----------------------------------------------------------------------------
(* The inductive invariant, station by station.  A supervisor that is down *)
(* remembers nothing, has no child and does nothing.                       *)
DownIdle(s) ==
  up[s] \in {"down", "unused"} =>
    /\ inst[s] = NoInstance /\ proc[s] = "none" /\ ~mine[s]
    /\ tick[s] = "idle" /\ exit[s].pc = "none" /\ op[s] = "idle"

(* In a network: who has a child, or is about to spawn one, holds the      *)
(* lease; and it is about to give the lease up only when it does neither.  *)
Holding(s) ==
  Coordinated /\ "lapse" \notin setting.kinds =>
    /\ proc[s] # "none" \/ tick[s] = "spawn" \/ exit[s].pc = "release" =>
         mine[s] /\ lease.at = s /\ lease.live
    /\ tick[s] = "spawn" => proc[s] = "none" /\ exit[s].pc # "release"
    /\ exit[s].pc = "release" => proc[s] = "none"

(* A launch finds no child, and no exit that is still being handled. *)
Launching(s) ==
  tick[s] \in {"launch", "spawn"} => ~sup[s].child /\ exit[s].pc = "none" /\ op[s] # "restarting"

(* Standalone: what a request under way has asked for; a child that is told *)
(* to stop although it should run is to be restarted, or has failed; and    *)
(* without a child there is a restart to come, or none will.               *)
Intended(s) ==
  /\ op[s] \in {"stopping", "deleting", "waiting"} => inst[s].desired = "stopped"
  /\ op[s] = "removing" => ~inst[s].there
  /\ sup[s].removing => op[s] \in {"deleting", "waiting"}
  /\ tick[s] = "hung" /\ sup[s].child => sup[s].stalled
  /\ exit[s].pc \notin {"release", "record"}
ShouldRun(s) == up[s] = "up" /\ inst[s].there /\ inst[s].desired = "running"
ToRestart(s) == inst[s].status = "backoff" /\ inst[s].due # "no"
RunsAgain(s) ==
  ShouldRun(s) =>
    /\ sup[s].child /\ (sup[s].stopRequested \/ op[s] = "restarting") =>
         sup[s].forceRestart \/ sup[s].fatal \/ sup[s].stalled
    /\ exit[s].pc = "decide" /\ exit[s].reason = "stopped" => sup[s].forceRestart \/ sup[s].fatal
    /\ exit[s].pc = "reset" => ToRestart(s)
    /\ ~sup[s].child /\ exit[s].pc = "none" /\ tick[s] # "spawn" =>
         inst[s].status = "errored" \/ ToRestart(s)

StationInv(s) ==
  /\ DownIdle(s) /\ Holding(s)
  /\ ~SlowWrites => /\ Tracked(s) /\ Launching(s)
                    /\ ~Coordinated => Intended(s) /\ RunsAgain(s)
BeaconInv == TypeOK /\ \A s \in Stations : StationInv(s)

\* A deleted record stays deleted: the exit handler, a launch in progress and
\* the messages of the dying child may still write, and none brings it back.
DeletedStaysGone ==
  [][row'.there /\ ~row.there => HQCreate \/ \E s \in Stations : Create(s)]_vars

\* A stop sticks: a standalone beacon whose desired state remains "stopped"
\* ends up without a child for good, whatever launch, exit or restart was
\* under way when the stop was asked for.
StopsForGood ==
  <>[](~Coordinated /\ inst[Solo].desired = "stopped") => <>[](proc[Solo] = "none")

\* A beacon that some station stands ready to run does not stay down: a
\* restart that is due happens, and when the holder of the lease crashed or
\* was stopped another station, or the same one restarted, takes over.
Ready(s) == up[s] = "up" /\ inst[s].there /\ inst[s].desired = "running"
            /\ inst[s].status = "backoff" /\ ~sup[s].removing
FailsOver == []<>((\A s \in Stations : ~Ready(s)) \/ \E t \in Stations : Live(t))

\* Two stations do not go on running the beacon: a child whose station no
\* longer owns the lease is ended.
LostLeaseEnds == []<>(\A s \in Stations : Live(s) => Owns(s))

\* What the comment on syncNetworkInstances says of Headquarters' stop: polling
\* the adapter makes stop requests converge on every eligible station.
OperatorStopConverges ==
  <>[](Coordinated /\ row.there /\ row.desired = "stopped")
    => <>[](\A s \in Stations : ~Live(s))
=============================================================================
