------------------------- MODULE DynamicDefinitions -------------------------
(***************************************************************************)
(* The versions of one dynamic broadcast definition, as the API saves and  *)
(* deletes them, the registry that the broadcast runner of the same process *)
(* keeps of them, and the runs that carry a snapshot of one.  Calls of     *)
(* reconcileDynamicDefinitions overlap: what one read before an await may  *)
(* be applied after what another read later.                               *)
(*                                                                         *)
(* A definition is known by the save that wrote it: what tells two of them *)
(* apart is which signals they need.  The cache of materialized snapshots  *)
(* is left out: a snapshot never changes, and known signals stay known.    *)
(***************************************************************************)
EXTENDS Naturals, Sequences, FiniteSets

CONSTANTS Signals,      \* signals that a definition may need
          MaxSaves,     \* bound on calls of saveDefinition
          MaxFaults,    \* bound on crashes and failing calls
          MaxCalls,     \* bound on calls of reconcileDynamicDefinitions at a time
          Broadcasts    \* broadcast runs

ASSUME DefinitionsAssumption ==
  MaxSaves \in Nat /\ MaxFaults \in Nat /\ MaxCalls \in Nat \ {0} /\ IsFiniteSet(Signals)

Saves == 1..MaxSaves

(* Who calls reconcileDynamicDefinitions: the tick, or start(); the routes. *)
TickCall   == 0
DeleteCall == MaxSaves + 1
Calls      == {TickCall, DeleteCall} \cup Saves

VARIABLES rows,      \* version -> its row of the definitions table
          save,      \* save -> the caller of saveDefinition
          deletion,  \* the caller of deleteDefinition
          registered, \* the signals registered with the signal runner
          runner,    \* the broadcast runner's fields, and whether it is up
          call,      \* call of reconcileDynamicDefinitions -> where it stands
          triggered, \* broadcast run -> the run
          faults     \* faults so far

defVars == <<rows, save, deletion, registered, runner, call, triggered, faults>>

Nothing == [by |-> 0, shown |-> 0]   \* no definition
Unsaved == [pc |-> "new", version |-> 0, needs |-> {}]
Undeleted == [pc |-> "new", version |-> 0]
NoCall  == [pc |-> "idle", listed |-> Nothing]
NoRun   == [status |-> "none", by |-> 0, promised |-> FALSE]

(* known: signalRegistry; size: lastSignalRegistrySize. *)
Down == [up |-> "down", entry |-> Nothing, failed |-> Nothing, known |-> {}, size |-> 0]

DefinitionsInit ==
  /\ rows = <<>> /\ save = [i \in Saves |-> Unsaved] /\ deletion = Undeleted
  /\ registered = {} /\ runner = Down /\ call = [c \in Calls |-> NoCall]
  /\ triggered = [b \in Broadcasts |-> NoRun] /\ faults = 0

-----------------------------------------------------------------------------
(* What listDefinitions returns: the latest version, unless it is deleted. *)
Latest ==
  IF rows = <<>> \/ rows[Len(rows)].deleted THEN Nothing
  ELSE [by |-> rows[Len(rows)].by, shown |-> rows[Len(rows)].shown]

Fits(i, S) == save[i].needs \subseteq S   \* materializeDynamic does not throw
Quiet == Cardinality({c \in Calls : call[c].pc # "idle"}) < MaxCalls
Listing(c) == [call EXCEPT ![c] = [pc |-> "listing", listed |-> Nothing]]

(* saveDefinition numbers and inserts the row in one statement; the spec in *)
(* it has a placeholder for a version, ...                                 *)
SaveInserts(i, needs) ==
  /\ runner.up # "down" /\ save[i].pc = "new" /\ \A j \in 1..(i - 1) : save[j].pc # "new"
  /\ rows' = Append(rows, [by |-> i, shown |-> 0, deleted |-> FALSE])
  /\ save' = [save EXCEPT ![i] = [pc |-> "inserted", version |-> Len(rows) + 1,
                                  needs |-> needs]]
  /\ UNCHANGED <<deletion, registered, runner, call, triggered, faults>>

(* ... which a second statement replaces.  The route then reconciles.      *)
Rewritten(v, i) == [rows EXCEPT ![v].by = i, ![v].shown = v]
NumberedLate(i) == Len(rows)   \* deviation: the highest version by now, as with MySQL
Numbered(i) == save[i].version
SaveAnswers(i) ==
  /\ save[i].pc = "inserted" /\ Quiet
  /\ rows' = Rewritten(Numbered(i), i)
  /\ save' = [save EXCEPT ![i].pc = "answered", ![i].version = Numbered(i)]
  /\ call' = Listing(i)
  /\ UNCHANGED <<deletion, registered, runner, triggered, faults>>
SaveFails(i) ==
  /\ save[i].pc = "inserted" /\ faults < MaxFaults
  /\ save' = [save EXCEPT ![i].pc = "failed"] /\ faults' = faults + 1
  /\ UNCHANGED <<rows, deletion, registered, runner, call, triggered>>

(* deleteDefinition reads the latest version that is not deleted, and      *)
(* writes it back as deleted.  The route then reconciles.                  *)
DeleteReads ==
  /\ runner.up # "down" /\ deletion.pc = "new"
  /\ \E v \in 1..Len(rows) :
       /\ ~rows[v].deleted /\ \A w \in (v + 1)..Len(rows) : rows[w].deleted
       /\ deletion' = [pc |-> "read", version |-> v]
  /\ UNCHANGED <<rows, save, registered, runner, call, triggered, faults>>
DeleteWrites ==
  /\ deletion.pc = "read" /\ Quiet
  /\ rows' = [rows EXCEPT ![deletion.version].deleted = TRUE]
  /\ deletion' = [Undeleted EXCEPT !.pc = "done"]
  /\ call' = Listing(DeleteCall)
  /\ UNCHANGED <<save, registered, runner, triggered, faults>>

-----------------------------------------------------------------------------
(* reconcileDynamicDefinitions: the list is read, and applied later.       *)
TickReconciles ==
  /\ runner.up = "up" /\ call[TickCall].pc = "idle" /\ Quiet
  /\ call' = [call EXCEPT ![TickCall] = [pc |-> "listed", listed |-> Latest]]
  /\ UNCHANGED <<rows, save, deletion, registered, runner, triggered, faults>>
Lists(c) ==
  /\ call[c].pc = "listing"
  /\ call' = [call EXCEPT ![c] = [pc |-> "listed", listed |-> Latest]]
  /\ UNCHANGED <<rows, save, deletion, registered, runner, triggered, faults>>
Promised(S) ==   \* history: the runs that resolve with the signals S, and must not be lost
  [b \in Broadcasts |-> [triggered[b] EXCEPT
     !.promised = IF triggered[b].status = "live" THEN Fits(triggered[b].by, S) ELSE @]]
Started(c, r) == IF c = TickCall THEN [r EXCEPT !.up = "up"] ELSE r   \* the ticks begin
ListFails(c) ==
  /\ call[c].pc = "listing" /\ faults < MaxFaults /\ faults' = faults + 1
  /\ call' = [call EXCEPT ![c] = NoCall]
  /\ runner' = Started(c, runner)
  /\ triggered' = IF c = TickCall THEN Promised({}) ELSE triggered
  /\ UNCHANGED <<rows, save, deletion, registered>>

(* A version that is registered is kept, and one that failed is not tried  *)
(* again, until the number of known signals has changed.                   *)
NeverRetried(spec, changed) ==   \* deviation: a version that failed is never tried again
  \/ runner.entry # Nothing /\ runner.entry.shown = spec.shown /\ runner.failed = Nothing
  \/ runner.failed # Nothing /\ runner.failed.shown = spec.shown
Unchanged(spec, changed) ==
  \/ runner.entry # Nothing /\ runner.entry.shown = spec.shown /\ runner.failed = Nothing
  \/ runner.failed # Nothing /\ runner.failed.shown = spec.shown /\ ~changed

(* The runner after applying a list. *)
Reconciled(spec) ==
  LET size  == Cardinality(runner.known \cup registered)
      fresh == [runner EXCEPT !.known = @ \cup registered, !.size = size]
  IN  IF spec = Nothing THEN [fresh EXCEPT !.entry = Nothing, !.failed = Nothing]
      ELSE IF Unchanged(spec, size # runner.size) THEN fresh
      ELSE IF Fits(spec.by, fresh.known)
           THEN [fresh EXCEPT !.entry = spec, !.failed = Nothing]
           ELSE [fresh EXCEPT !.failed = spec]

Applies(c) ==
  /\ call[c].pc = "listed"
  /\ runner' = Started(c, Reconciled(call[c].listed))
  /\ call' = [call EXCEPT ![c] = NoCall]
  /\ UNCHANGED <<rows, save, deletion, registered, triggered, faults>>

-----------------------------------------------------------------------------
(* triggerDynamic: the run carries the registered definition. *)
TriggerDynamic(b) ==
  /\ runner.up # "down" /\ runner.entry # Nothing /\ triggered[b].status = "none"
  /\ triggered' = [triggered EXCEPT ![b] = [status |-> "live", by |-> runner.entry.by, promised |-> TRUE]]
  /\ UNCHANGED <<rows, save, deletion, registered, runner, call, faults>>

(* A tick initialises or advances the run, for which it materializes its   *)
(* snapshot, or fails it.  The ticks begin after the first reconciliation. *)
FailsRun(b) ==
  /\ runner.up = "up" /\ call[TickCall].pc = "idle" /\ triggered[b].status = "live"
  /\ ~Fits(triggered[b].by, runner.known)
  /\ triggered' = [triggered EXCEPT ![b].status = "failed", ![b].by = 0]
  /\ UNCHANGED <<rows, save, deletion, registered, runner, call, faults>>

(* A signal is registered while the process runs. *)
RegisterSignal(x) ==
  /\ runner.up # "down" /\ x \notin registered
  /\ registered' = registered \cup {x}
  /\ UNCHANGED <<rows, save, deletion, runner, call, triggered, faults>>

(* The process ends with all its calls, and starts as another deployment:  *)
(* it discovers its signals, and start() awaits a first reconciliation.    *)
Torn(pc) == IF pc = "inserted" THEN "failed" ELSE pc
RunnerCrashes ==
  /\ runner.up # "down" /\ faults < MaxFaults /\ faults' = faults + 1
  /\ runner' = Down /\ call' = [c \in Calls |-> NoCall]
  /\ save' = [i \in Saves |-> [save[i] EXCEPT !.pc = Torn(@)]]
  /\ deletion' = IF deletion.pc = "read" THEN [Undeleted EXCEPT !.pc = "done"] ELSE deletion
  /\ UNCHANGED <<rows, registered, triggered>>
RunnerStartsHasty(S) ==   \* deviation: the ticks do not wait for the first reconciliation
  /\ runner.up = "down" /\ registered' = S
  /\ runner' = [Down EXCEPT !.up = "up"] /\ triggered' = Promised(S)
  /\ UNCHANGED <<rows, save, deletion, call, faults>>
RunnerStarts(S) ==
  /\ runner.up = "down" /\ registered' = S
  /\ runner' = [Down EXCEPT !.up = "starting"] /\ triggered' = Promised(S)
  /\ call' = Listing(TickCall)
  /\ UNCHANGED <<rows, save, deletion, faults>>

DefinitionsNext ==
  \/ \E i \in Saves, needs \in SUBSET Signals : SaveInserts(i, needs)
  \/ \E i \in Saves : SaveAnswers(i) \/ SaveFails(i)
  \/ DeleteReads \/ DeleteWrites \/ TickReconciles
  \/ \E c \in Calls : Lists(c) \/ Applies(c) \/ ListFails(c)
  \/ \E b \in Broadcasts : TriggerDynamic(b) \/ FailsRun(b)
  \/ \E x \in Signals : RegisterSignal(x)
  \/ RunnerCrashes \/ \E S \in SUBSET Signals : RunnerStarts(S)

(* Database calls are answered, and the ticks go on.  Calls of the routes   *)
(* are bounded, so that one condition does for all of them.                *)
Answered == (\E i \in Saves : SaveAnswers(i) \/ SaveFails(i)) \/ DeleteWrites
Goes(c)  == Lists(c) \/ Applies(c) \/ ListFails(c)
DefinitionsFairness ==
  /\ SF_defVars(Answered)
  /\ WF_defVars(\E c \in Calls \ {TickCall} : Goes(c))
  /\ WF_defVars(TickReconciles \/ Goes(TickCall))

DefinitionsSpec == DefinitionsInit /\ [][DefinitionsNext]_defVars /\ DefinitionsFairness

-----------------------------------------------------------------------------
(* "Monotonically incremented on each save": a save that was answered with *)
(* a version is the one that is stored under it, whatever was saved or     *)
(* deleted at the same time.                                               *)
SavesAreKept ==
  \A i \in Saves : save[i].pc = "answered" => rows[save[i].version].by = i

(* A run whose signals were there when the process started, and which      *)
(* carries its definition, is never failed for want of one: neither edits, *)
(* deletions nor restarts take it away.                                    *)
RunsResolve == \A b \in Broadcasts : ~(triggered[b].status = "failed" /\ triggered[b].promised)

(* The inductive invariant.  Every definition that a row, the registry, a   *)
(* call or a run refers to has been written by a save that was made.       *)
Written    == {i \in Saves : save[i].pc # "new"}
Definition == {Nothing} \cup [by : Written, shown : Nat]
Version    == [by : Written, shown : Nat, deleted : BOOLEAN]
SaveCall   == [pc : {"new", "inserted", "answered", "failed"}, version : Nat, needs : SUBSET Signals]
DeleteCalls == [pc : {"new", "read", "done"}, version : Nat]
Runner == [up : {"down", "starting", "up"}, entry : Definition, failed : Definition,
           known : SUBSET Signals, size : Nat]
Reconciliation == [pc : {"idle", "listing", "listed"}, listed : Definition]
Run == [status : {"none", "live", "failed"}, by : {0} \cup Written, promised : BOOLEAN]

DefinitionsTyped ==
  /\ rows \in Seq(Version) /\ save \in [Saves -> SaveCall] /\ deletion \in DeleteCalls
  /\ registered \subseteq Signals /\ runner \in Runner /\ call \in [Calls -> Reconciliation]
  /\ triggered \in [Broadcasts -> Run] /\ faults \in Nat

(* The row a save has inserted stays its own. *)
SavesCoherent ==
  \A i \in Saves : save[i].pc \in {"inserted", "answered"} =>
    save[i].version \in 1..Len(rows) /\ rows[save[i].version].by = i
DeletionCoherent == deletion.pc = "read" => deletion.version \in 1..Len(rows)

(* The registry holds what it can materialize. *)
EntryFits == runner.entry # Nothing => Fits(runner.entry.by, runner.known)

(* A process that is down has no calls under way. *)
DownIdle ==
  runner.up = "down" => /\ deletion.pc # "read" /\ \A c \in Calls : call[c].pc = "idle"
                        /\ \A i \in Saves : save[i].pc # "inserted"

RunsCarryDefinitions == \A b \in Broadcasts : triggered[b].status = "live" => triggered[b].by # 0

(* A promised run resolves with the signals registered by now, and once the *)
(* ticks have begun with those the registry knows of.                      *)
PromisesKept ==
  \A b \in Broadcasts : triggered[b].promised =>
    /\ triggered[b].status = "live"
    /\ runner.up # "down" => Fits(triggered[b].by, runner.known \cup registered)
    /\ runner.up = "up" => Fits(triggered[b].by, runner.known)

DefinitionsInv ==
  /\ DefinitionsTyped /\ SavesCoherent /\ DeletionCoherent /\ EntryFits
  /\ DownIdle /\ RunsCarryDefinitions /\ PromisesKept

(* A version number that was shown leads back to the save that stored the   *)
(* definition; and a version stands as failed only with the signals with   *)
(* which it failed, so that no list is skipped that would change anything. *)
Identified(d) == d.shown # 0 => d.shown \in 1..Len(rows) /\ rows[d.shown].by = d.by
RegistryInv ==
  /\ \A v \in 1..Len(rows) : rows[v].shown \in {0, v}
  /\ Identified(runner.entry) /\ Identified(runner.failed)
  /\ \A c \in Calls : Identified(call[c].listed)
  /\ runner.size = Cardinality(runner.known)
  /\ runner.failed # Nothing => ~Fits(runner.failed.by, runner.known)

DefinitionsHold == SavesAreKept /\ RunsResolve /\ DefinitionsInv /\ RegistryInv

(* The registry has the latest version, as soon as its signals are known,  *)
(* and none if it is deleted.  A version whose save was cut short, and is  *)
(* left with the placeholder, may be taken for another one.                *)
RegistryCurrent ==
  runner.up = "up" =>
    \/ runner.entry.by = Latest.by
    \/ Latest # Nothing /\ (~Fits(Latest.by, registered) \/ Latest.shown = 0)

(* A call that applies a list that is still the latest leaves the registry  *)
(* current, whatever overlapping calls have made of it before.             *)
CallTakesEffect ==
  [][\A c \in Calls : Applies(c) /\ call[c].listed = Latest => RegistryCurrent']_defVars

(* However calls of reconcileDynamicDefinitions overlap, and though a      *)
(* signal was missing for a while, the registry ends up with the latest    *)
(* version once edits, deployments and faults are over.                    *)
DefinitionsConverge == <>[]RegistryCurrent
=============================================================================
