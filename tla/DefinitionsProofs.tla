-------------------------- MODULE DefinitionsProofs --------------------------
(***************************************************************************)
(* Proofs about the versions of a dynamic broadcast definition, for any    *)
(* number of saves, calls, signals, broadcast runs and faults.             *)
(***************************************************************************)
EXTENDS DynamicDefinitions, FiniteSetTheorems, TLAPS

-----------------------------------------------------------------------------
(* What saves have written stays written, and what they need stays.        *)
LEMMA WrittenStays ==
  ASSUME Written \subseteq Written'
  PROVE  Definition \subseteq Definition' /\ Version \subseteq Version' /\ Run \subseteq Run'
BY DEF Definition, Version, Run

LEMMA LatestTyped ==
  ASSUME DefinitionsTyped
  PROVE  Latest \in Definition
<1>1. CASE rows = <<>> \/ rows[Len(rows)].deleted
  BY <1>1 DEF Latest, Definition
<1>2. CASE ~(rows = <<>> \/ rows[Len(rows)].deleted)
  <2>1. rows \in Seq(Version) /\ Len(rows) \in 1..Len(rows)
    BY <1>2 DEF DefinitionsTyped
  <2>2. rows[Len(rows)] \in Version
    BY <2>1
  <2>3. QED BY <1>2, <2>2 DEF Latest, Definition, Version
<1>3. QED BY <1>1, <1>2

(* What applying a list does to the runner's fields.                       *)
LEMMA ReconciledFields ==
  ASSUME DefinitionsTyped, EntryFits, NEW spec \in Definition,
         Cardinality(runner.known \cup registered) \in Nat
  PROVE  /\ Reconciled(spec) \in Runner
         /\ Reconciled(spec).up = runner.up
         /\ Reconciled(spec).known = runner.known \cup registered
         /\ Reconciled(spec).entry # Nothing =>
              Fits(Reconciled(spec).entry.by, runner.known \cup registered)
<1> DEFINE size == Cardinality(runner.known \cup registered)
           fresh == [runner EXCEPT !.known = @ \cup registered, !.size = size]
<1>1. /\ fresh \in Runner /\ fresh.up = runner.up /\ fresh.entry = runner.entry
      /\ fresh.known = runner.known \cup registered
  BY DEF DefinitionsTyped, Runner
<1>2. fresh.entry # Nothing => Fits(fresh.entry.by, runner.known \cup registered)
  BY <1>1 DEF EntryFits, Fits
<1>3. Nothing \in Definition
  BY DEF Definition
<1>4. CASE spec = Nothing
  <2>1. Reconciled(spec) = [fresh EXCEPT !.entry = Nothing, !.failed = Nothing]
    BY <1>4 DEF Reconciled
  <2>2. QED BY <1>1, <1>3, <2>1 DEF Runner
<1>5. CASE spec # Nothing /\ Unchanged(spec, size # runner.size)
  <2>1. Reconciled(spec) = fresh
    BY <1>5 DEF Reconciled
  <2>2. QED BY <1>1, <1>2, <2>1
<1>6. CASE spec # Nothing /\ ~Unchanged(spec, size # runner.size) /\ Fits(spec.by, fresh.known)
  <2>1. Reconciled(spec) = [fresh EXCEPT !.entry = spec, !.failed = Nothing]
    BY <1>6 DEF Reconciled
  <2>2. QED BY <1>1, <1>3, <1>6, <2>1 DEF Runner
<1>7. CASE spec # Nothing /\ ~Unchanged(spec, size # runner.size) /\ ~Fits(spec.by, fresh.known)
  <2>1. Reconciled(spec) = [fresh EXCEPT !.failed = spec]
    BY <1>7 DEF Reconciled
  <2>2. QED BY <1>1, <1>2, <2>1 DEF Runner
<1>8. QED BY <1>4, <1>5, <1>6, <1>7

LEMMA KnownFinite ==
  ASSUME DefinitionsTyped
  PROVE  Cardinality(runner.known \cup registered) \in Nat
<1>1. runner.known \cup registered \subseteq Signals
  BY DEF DefinitionsTyped, Runner
<1>2. IsFiniteSet(runner.known \cup registered)
  BY <1>1, DefinitionsAssumption, FS_Subset
<1>3. QED BY <1>2, FS_CardinalityType

-----------------------------------------------------------------------------
(* The inductive invariant.                                                *)
LEMMA DefinitionsInitially == DefinitionsInit => DefinitionsInv
<1> SUFFICES ASSUME DefinitionsInit PROVE DefinitionsInv
  OBVIOUS
<1>1. Nothing \in Definition /\ Written = {}
  BY DEF Definition, DefinitionsInit, Written, Unsaved
<1>2. DefinitionsTyped
  <2>1. rows \in Seq(Version) /\ save \in [Saves -> SaveCall] /\ deletion \in DeleteCalls
    BY DEF DefinitionsInit, SaveCall, DeleteCalls, Unsaved, Undeleted
  <2>2. registered \subseteq Signals /\ runner \in Runner /\ call \in [Calls -> Reconciliation]
    BY <1>1 DEF DefinitionsInit, Runner, Reconciliation, Down, NoCall
  <2>3. triggered \in [Broadcasts -> Run] /\ faults \in Nat
    BY DEF DefinitionsInit, Run, NoRun
  <2>4. QED BY <2>1, <2>2, <2>3 DEF DefinitionsTyped
<1>3. SavesCoherent /\ DeletionCoherent
  BY DEF DefinitionsInit, SavesCoherent, DeletionCoherent, Unsaved, Undeleted
<1>4. EntryFits /\ RunsCarryDefinitions /\ PromisesKept
  BY DEF DefinitionsInit, EntryFits, RunsCarryDefinitions, PromisesKept, NoRun, Down
<1>5. DownIdle
  BY DEF DefinitionsInit, DownIdle, Unsaved, Undeleted, NoCall
<1>6. QED BY <1>2, <1>3, <1>4, <1>5 DEF DefinitionsInv

(* Saving. *)
LEMMA SaveInsertsKeeps ==
  ASSUME DefinitionsInv, NEW i \in Saves, NEW needs \in SUBSET Signals, SaveInserts(i, needs)
  PROVE  DefinitionsInv'
<1> DEFINE row == [by |-> i, shown |-> 0, deleted |-> FALSE]
<1>1. /\ DefinitionsTyped /\ SavesCoherent /\ DeletionCoherent /\ EntryFits /\ DownIdle /\ RunsCarryDefinitions /\ PromisesKept
      /\ save[i].pc = "new" /\ rows' = Append(rows, row)
      /\ save' = [save EXCEPT ![i] = [pc |-> "inserted", version |-> Len(rows) + 1, needs |-> needs]]
      /\ UNCHANGED <<deletion, registered, runner, call, triggered, faults>>
  BY DEF DefinitionsInv, SaveInserts
<1>2. save \in [Saves -> SaveCall] /\ rows \in Seq(Version) /\ Len(rows) \in Nat
  BY <1>1 DEF DefinitionsTyped
<1>3. /\ save' \in [Saves -> SaveCall] /\ save'[i].pc = "inserted" /\ save'[i].version = Len(rows) + 1
      /\ \A j \in Saves \ {i} : save'[j] = save[j]
  BY <1>1, <1>2 DEF SaveCall
<1>4. Written \subseteq Written' /\ i \in Written'
  BY <1>3 DEF Written
<1>5. Definition \subseteq Definition' /\ Version \subseteq Version' /\ Run \subseteq Run'
  BY <1>4, WrittenStays
<1>6. row \in Version'
  BY <1>4 DEF Version
<1>7. rows \in Seq(Version')
  BY <1>2, <1>5
<1>8. /\ rows' \in Seq(Version') /\ Len(rows') = Len(rows) + 1 /\ rows'[Len(rows) + 1] = row
      /\ \A v \in 1..Len(rows) : rows'[v] = rows[v]
  BY <1>1, <1>6, <1>7
<1>9. \A j \in Written : \A S : Fits(j, S)' <=> Fits(j, S)
  BY <1>1, <1>3 DEF Fits, Written
<1>10. DefinitionsTyped'
  <2>1. runner \in Runner /\ Runner \subseteq Runner'
    BY <1>1, <1>5 DEF DefinitionsTyped, Runner
  <2>2. call \in [Calls -> Reconciliation] /\ Reconciliation \subseteq Reconciliation'
    BY <1>1, <1>5 DEF DefinitionsTyped, Reconciliation
  <2>3. triggered \in [Broadcasts -> Run']
    BY <1>1, <1>5 DEF DefinitionsTyped
  <2>4. /\ deletion' \in DeleteCalls /\ registered' \subseteq Signals /\ faults' \in Nat
        /\ runner' \in Runner' /\ call' \in [Calls -> Reconciliation'] /\ triggered' \in [Broadcasts -> Run']
    BY <1>1, <2>1, <2>2, <2>3 DEF DefinitionsTyped
  <2>5. QED BY <1>3, <1>8, <2>4 DEF DefinitionsTyped
<1>11. SavesCoherent'
  BY <1>1, <1>2, <1>3, <1>8 DEF SavesCoherent
<1>12. DeletionCoherent'
  BY <1>1, <1>2, <1>8 DEF DeletionCoherent
<1>13. EntryFits'
  <2>1. runner.entry # Nothing => runner.entry.by \in Written
    BY <1>1 DEF DefinitionsTyped, Runner, Definition
  <2>2. QED BY <1>1, <1>9, <2>1 DEF EntryFits
<1>14. RunsCarryDefinitions' /\ PromisesKept'
  <2>1. \A b \in Broadcasts : triggered[b].by # 0 => triggered[b].by \in Written
    BY <1>1 DEF DefinitionsTyped, Run
  <2>2. QED BY <1>1, <1>9, <2>1 DEF PromisesKept, RunsCarryDefinitions
<1>15. DownIdle'
  BY DEF DownIdle, SaveInserts
<1>16. QED BY <1>10, <1>11, <1>12, <1>13, <1>14, <1>15 DEF DefinitionsInv

(* A call that leaves the callers of saveDefinition where they are. *)
LEMMA SavesUnchanged ==
  ASSUME UNCHANGED save
  PROVE  /\ Written' = Written /\ Definition' = Definition /\ Version' = Version /\ Run' = Run
         /\ Runner' = Runner /\ Reconciliation' = Reconciliation
         /\ \A j, S : Fits(j, S)' = Fits(j, S)
BY DEF Written, Definition, Version, Run, Runner, Reconciliation, Fits

LEMMA SaveAnswersKeeps ==
  ASSUME DefinitionsInv, NEW i \in Saves, SaveAnswers(i)
  PROVE  DefinitionsInv'
<1> DEFINE v == save[i].version
<1>1. /\ DefinitionsTyped /\ SavesCoherent /\ DeletionCoherent /\ EntryFits /\ DownIdle /\ RunsCarryDefinitions /\ PromisesKept
      /\ save[i].pc = "inserted"
      /\ rows' = [rows EXCEPT ![v].by = i, ![v].shown = v]
      /\ save' = [save EXCEPT ![i].pc = "answered", ![i].version = v]
      /\ call' = Listing(i)
      /\ UNCHANGED <<deletion, registered, runner, triggered, faults>>
  BY DEF DefinitionsInv, SaveAnswers, Numbered, Rewritten
<1>2. /\ save \in [Saves -> SaveCall] /\ rows \in Seq(Version) /\ Len(rows) \in Nat
      /\ v \in 1..Len(rows) /\ rows[v].by = i /\ rows[v] \in Version
  BY <1>1 DEF DefinitionsTyped, SavesCoherent
<1>3. /\ save' \in [Saves -> SaveCall] /\ save'[i].version = v
      /\ \A j \in Saves \ {i} : save'[j] = save[j]
      /\ \A j \in Saves : save'[j].needs = save[j].needs
      /\ save'[i].pc = "answered"
  BY <1>1, <1>2 DEF SaveCall
<1>4. Written' = Written
  BY <1>1, <1>3 DEF Written
<1>5. Definition' = Definition /\ Version' = Version /\ Run' = Run
  BY <1>4 DEF Definition, Version, Run
<1>6. Runner' = Runner /\ Reconciliation' = Reconciliation
  BY <1>5 DEF Runner, Reconciliation
<1>7. rows' \in Seq(Version) /\ Len(rows') = Len(rows)
      /\ \A w \in 1..Len(rows) : rows'[w].by = rows[w].by
  <2>1. [[rows[v] EXCEPT !.by = i] EXCEPT !.shown = v] \in Version
    <3>1. i \in Written /\ v \in Nat
      BY <1>2 DEF Version
    <3>2. \A r \in Version : [[r EXCEPT !.by = i] EXCEPT !.shown = v] \in Version
      BY <3>1 DEF Version
    <3>3. QED BY <1>2, <3>2
  <2>2. rows' = [rows EXCEPT ![v] = [[rows[v] EXCEPT !.by = i] EXCEPT !.shown = v]]
    BY <1>1, <1>2
  <2>3. [[rows[v] EXCEPT !.by = i] EXCEPT !.shown = v].by = rows[v].by
    BY <1>2 DEF Version
  <2>4. rows' \in Seq(Version) /\ Len(rows') = Len(rows)
    BY <1>2, <2>1, <2>2
  <2>5. \A w \in 1..Len(rows) : rows'[w].by = rows[w].by
    BY <1>2, <2>2, <2>3
  <2>6. QED BY <2>4, <2>5
<1>8. \A j \in Written, S \in SUBSET Signals : Fits(j, S)' <=> Fits(j, S)
  BY <1>3 DEF Fits, Written
<1>9. DefinitionsTyped'
  <2>1. call' \in [Calls -> Reconciliation]
    BY <1>1 DEF DefinitionsTyped, Listing, Reconciliation, Definition
  <2>2. /\ deletion' \in DeleteCalls /\ registered' \subseteq Signals /\ faults' \in Nat
        /\ runner' \in Runner /\ triggered' \in [Broadcasts -> Run]
    BY <1>1 DEF DefinitionsTyped
  <2>3. QED BY <1>3, <1>5, <1>6, <1>7, <2>1, <2>2 DEF DefinitionsTyped
<1>10. SavesCoherent'
  BY <1>1, <1>2, <1>3, <1>7 DEF SavesCoherent
<1>11. DeletionCoherent'
  BY <1>1, <1>2, <1>7 DEF DeletionCoherent
<1>12. EntryFits'
  <2>1. runner.entry # Nothing => runner.entry.by \in Written
    BY <1>1 DEF DefinitionsTyped, Runner, Definition
  <2>2. runner.known \in SUBSET Signals
    BY <1>1 DEF DefinitionsTyped, Runner
  <2>3. QED BY <1>1, <1>8, <2>1, <2>2 DEF EntryFits
<1>13. RunsCarryDefinitions' /\ PromisesKept'
  <2>1. \A b \in Broadcasts : triggered[b].by # 0 => triggered[b].by \in Written
    BY <1>1 DEF DefinitionsTyped, Run
  <2>2. runner.known \in SUBSET Signals /\ runner.known \cup registered \in SUBSET Signals
    BY <1>1 DEF DefinitionsTyped, Runner
  <2>3. QED BY <1>1, <1>8, <2>1, <2>2 DEF PromisesKept, RunsCarryDefinitions
<1>14. DownIdle'
  BY <1>1 DEF DownIdle
<1>15. QED BY <1>9, <1>10, <1>11, <1>12, <1>13, <1>14 DEF DefinitionsInv

(* Steps that take some saves from "inserted" to "failed", and change        *)
(* nothing else that the saves' rows depend on.                            *)
LEMMA SavesTorn ==
  ASSUME DefinitionsInv, save' \in [Saves -> SaveCall], UNCHANGED rows,
         \A j \in Saves : /\ save'[j].needs = save[j].needs
                          /\ save'[j].version = save[j].version
                          /\ save'[j].pc = save[j].pc
                             \/ (save[j].pc = "inserted" /\ save'[j].pc = "failed")
  PROVE  /\ Definition' = Definition /\ Version' = Version /\ Run' = Run
         /\ Runner' = Runner /\ Reconciliation' = Reconciliation
         /\ SavesCoherent'
         /\ \A j \in Saves, S \in SUBSET Signals : Fits(j, S)' <=> Fits(j, S)
<1>1. Written' = Written
  BY DEF Written
<1>2. Definition' = Definition /\ Version' = Version /\ Run' = Run
  BY <1>1 DEF Definition, Version, Run
<1>3. Runner' = Runner /\ Reconciliation' = Reconciliation
  BY <1>2 DEF Runner, Reconciliation
<1>4. SavesCoherent'
  BY DEF SavesCoherent, DefinitionsInv
<1>5. \A j \in Saves, S \in SUBSET Signals : Fits(j, S)' <=> Fits(j, S)
  BY DEF Fits
<1>6. QED BY <1>2, <1>3, <1>4, <1>5

LEMMA SaveFailsKeeps ==
  ASSUME DefinitionsInv, NEW i \in Saves, SaveFails(i)
  PROVE  DefinitionsInv'
<1>1. /\ DefinitionsTyped /\ SavesCoherent /\ DeletionCoherent /\ EntryFits /\ DownIdle /\ RunsCarryDefinitions /\ PromisesKept
      /\ save[i].pc = "inserted" /\ save' = [save EXCEPT ![i].pc = "failed"] /\ faults' = faults + 1
      /\ UNCHANGED <<rows, deletion, registered, runner, call, triggered>>
  BY DEF DefinitionsInv, SaveFails
<1>2. /\ save' \in [Saves -> SaveCall]
      /\ \A j \in Saves : /\ save'[j].needs = save[j].needs
                          /\ save'[j].version = save[j].version
                          /\ save'[j].pc = save[j].pc
                             \/ (save[j].pc = "inserted" /\ save'[j].pc = "failed")
  BY <1>1 DEF DefinitionsTyped, SaveCall
<1>3. /\ Definition' = Definition /\ Version' = Version /\ Run' = Run
      /\ Runner' = Runner /\ Reconciliation' = Reconciliation
      /\ SavesCoherent'
      /\ \A j \in Saves, S \in SUBSET Signals : Fits(j, S)' <=> Fits(j, S)
  BY <1>1, <1>2, SavesTorn
<1>4. DefinitionsTyped' /\ DeletionCoherent'
  BY <1>1, <1>2, <1>3 DEF DefinitionsTyped, DeletionCoherent
<1>5. runner.known \in SUBSET Signals /\ runner.known \cup registered \in SUBSET Signals
  BY <1>1 DEF DefinitionsTyped, Runner
<1>6. EntryFits'
  <2>1. runner.entry # Nothing => runner.entry.by \in Saves
    BY <1>1 DEF DefinitionsTyped, Runner, Definition, Written
  <2>2. QED BY <1>1, <1>3, <1>5, <2>1 DEF EntryFits
<1>7. RunsCarryDefinitions' /\ PromisesKept'
  <2>1. \A b \in Broadcasts : triggered[b].by # 0 => triggered[b].by \in Saves
    BY <1>1 DEF DefinitionsTyped, Run, Written
  <2>2. QED BY <1>1, <1>3, <1>5, <2>1 DEF PromisesKept, RunsCarryDefinitions
<1>8. DownIdle'
  BY <1>1, <1>2 DEF DownIdle
<1>9. QED BY <1>3, <1>4, <1>6, <1>7, <1>8 DEF DefinitionsInv

-----------------------------------------------------------------------------
(* Deleting. *)
LEMMA DeleteReadsKeeps ==
  ASSUME DefinitionsInv, DeleteReads
  PROVE  DefinitionsInv'
<1>1. /\ DefinitionsTyped /\ SavesCoherent /\ DeletionCoherent /\ EntryFits /\ DownIdle /\ RunsCarryDefinitions /\ PromisesKept
      /\ UNCHANGED <<rows, save, registered, runner, call, triggered, faults>>
  BY DEF DefinitionsInv, DeleteReads
<1>2. PICK v \in 1..Len(rows) : deletion' = [pc |-> "read", version |-> v]
  BY DEF DeleteReads
<1>3. deletion' \in DeleteCalls /\ deletion'.version \in 1..Len(rows)
  <2>1. v \in Nat
    BY <1>1 DEF DefinitionsTyped
  <2>2. QED BY <1>2, <2>1 DEF DeleteCalls
<1>4. DefinitionsTyped' /\ DeletionCoherent' /\ SavesCoherent'
  BY <1>1, <1>3, SavesUnchanged DEF DefinitionsTyped, DeletionCoherent, SavesCoherent
<1>5. EntryFits' /\ RunsCarryDefinitions' /\ PromisesKept'
  BY <1>1 DEF EntryFits, RunsCarryDefinitions, PromisesKept, Fits
<1>6. DownIdle'
  BY <1>1 DEF DownIdle, DeleteReads
<1>7. QED BY <1>4, <1>5, <1>6 DEF DefinitionsInv

LEMMA DeleteWritesKeeps ==
  ASSUME DefinitionsInv, DeleteWrites
  PROVE  DefinitionsInv'
<1> DEFINE v == deletion.version
<1>1. /\ DefinitionsTyped /\ SavesCoherent /\ DeletionCoherent /\ EntryFits /\ DownIdle /\ RunsCarryDefinitions /\ PromisesKept
      /\ deletion.pc = "read" /\ rows' = [rows EXCEPT ![v].deleted = TRUE]
      /\ deletion' = [Undeleted EXCEPT !.pc = "done"] /\ call' = Listing(DeleteCall)
      /\ UNCHANGED <<save, registered, runner, triggered, faults>>
  BY DEF DefinitionsInv, DeleteWrites
<1>2. rows \in Seq(Version) /\ Len(rows) \in Nat /\ v \in 1..Len(rows) /\ rows[v] \in Version
  BY <1>1 DEF DefinitionsTyped, DeletionCoherent
<1>3. rows' \in Seq(Version) /\ Len(rows') = Len(rows)
      /\ \A w \in 1..Len(rows) : rows'[w].by = rows[w].by
  <2>1. \A r \in Version : [r EXCEPT !.deleted = TRUE] \in Version
    BY DEF Version
  <2>2. rows' = [rows EXCEPT ![v] = [rows[v] EXCEPT !.deleted = TRUE]]
    BY <1>1, <1>2
  <2>3. [rows[v] EXCEPT !.deleted = TRUE].by = rows[v].by
    BY <1>2 DEF Version
  <2>4. rows' \in Seq(Version) /\ Len(rows') = Len(rows)
    BY <1>2, <2>1, <2>2
  <2>5. \A w \in 1..Len(rows) : rows'[w].by = rows[w].by
    BY <1>2, <2>2, <2>3
  <2>6. QED BY <2>4, <2>5
<1>4. DefinitionsTyped' /\ DeletionCoherent'
  <2>1. call' \in [Calls -> Reconciliation]
    BY <1>1 DEF DefinitionsTyped, Listing, Reconciliation, Definition
  <2>2. deletion' \in DeleteCalls /\ deletion'.pc = "done"
    BY <1>1 DEF DeleteCalls, Undeleted
  <2>3. DeletionCoherent'
    BY <2>2 DEF DeletionCoherent
  <2>4. QED BY <1>1, <1>3, <2>1, <2>2, <2>3, SavesUnchanged DEF DefinitionsTyped
<1>5. SavesCoherent'
  BY <1>1, <1>3 DEF SavesCoherent
<1>6. EntryFits' /\ RunsCarryDefinitions' /\ PromisesKept'
  BY <1>1 DEF EntryFits, RunsCarryDefinitions, PromisesKept, Fits
<1>7. DownIdle'
  BY <1>1 DEF DownIdle
<1>8. QED BY <1>4, <1>5, <1>6, <1>7 DEF DefinitionsInv

-----------------------------------------------------------------------------
(* Reconciling.  A list is read ... *)
LEMMA ListedKeeps ==
  ASSUME DefinitionsInv, NEW c \in Calls, runner.up # "down",
         call' = [call EXCEPT ![c] = [pc |-> "listed", listed |-> Latest]],
         UNCHANGED <<rows, save, deletion, registered, runner, triggered, faults>>
  PROVE  DefinitionsInv'
<1>1. /\ DefinitionsTyped /\ SavesCoherent /\ DeletionCoherent /\ EntryFits /\ DownIdle /\ RunsCarryDefinitions /\ PromisesKept
  BY DEF DefinitionsInv
<1>2. call' \in [Calls -> Reconciliation]
  BY <1>1, LatestTyped DEF DefinitionsTyped, Reconciliation
<1>3. DefinitionsTyped' /\ DeletionCoherent' /\ SavesCoherent'
  BY <1>1, <1>2, SavesUnchanged DEF DefinitionsTyped, DeletionCoherent, SavesCoherent
<1>4. EntryFits' /\ RunsCarryDefinitions' /\ PromisesKept'
  BY <1>1 DEF EntryFits, RunsCarryDefinitions, PromisesKept, Fits
<1>5. DownIdle'
  BY <1>1 DEF DownIdle
<1>6. QED BY <1>1, <1>3, <1>4, <1>5 DEF DefinitionsInv

LEMMA ListsKeeps ==
  ASSUME DefinitionsInv, TickReconciles \/ \E c \in Calls : Lists(c)
  PROVE  DefinitionsInv'
<1>1. TickCall \in Calls
  BY DEF Calls
<1>2. CASE TickReconciles
  BY <1>1, <1>2, ListedKeeps DEF TickReconciles
<1>3. ASSUME NEW c \in Calls, Lists(c) PROVE DefinitionsInv'
  <2>1. runner.up # "down"
    BY <1>3 DEF Lists, DefinitionsInv, DownIdle
  <2>2. QED BY <1>3, <2>1, ListedKeeps DEF Lists
<1>4. QED BY <1>2, <1>3

(* ... or cannot be read, ... *)
LEMMA PromisedFields ==
  ASSUME NEW S, triggered \in [Broadcasts -> Run]
  PROVE  /\ Promised(S) \in [Broadcasts -> Run]
         /\ \A b \in Broadcasts :
              /\ Promised(S)[b].status = triggered[b].status /\ Promised(S)[b].by = triggered[b].by
              /\ Promised(S)[b].promised =>
                   IF triggered[b].status = "live" THEN Fits(triggered[b].by, S)
                                                   ELSE triggered[b].promised
<1>1. ASSUME NEW a \in Broadcasts
      PROVE  /\ Promised(S)[a] \in Run
             /\ Promised(S)[a].status = triggered[a].status /\ Promised(S)[a].by = triggered[a].by
             /\ Promised(S)[a].promised =>
                  IF triggered[a].status = "live" THEN Fits(triggered[a].by, S) ELSE triggered[a].promised
  <2>1. triggered[a] \in Run
    OBVIOUS
  <2>2. CASE triggered[a].status = "live"
    <3>1. Promised(S)[a] = [triggered[a] EXCEPT !.promised = Fits(triggered[a].by, S)]
      BY <2>2 DEF Promised
    <3>2. Fits(triggered[a].by, S) \in BOOLEAN
      BY DEF Fits
    <3>3. \A p \in BOOLEAN : /\ [triggered[a] EXCEPT !.promised = p] \in Run
                             /\ [triggered[a] EXCEPT !.promised = p].status = triggered[a].status
                             /\ [triggered[a] EXCEPT !.promised = p].by = triggered[a].by
                             /\ [triggered[a] EXCEPT !.promised = p].promised = p
      BY <2>1 DEF Run
    <3>4. QED BY <2>2, <3>1, <3>2, <3>3
  <2>3. CASE triggered[a].status # "live"
    <3>1. Promised(S)[a] = [triggered[a] EXCEPT !.promised = triggered[a].promised]
      BY <2>3 DEF Promised
    <3>2. Promised(S)[a] = triggered[a]
      BY <2>1, <3>1 DEF Run
    <3>3. QED BY <2>1, <2>3, <3>2
  <2>4. QED BY <2>2, <2>3
<1>2. Promised(S) \in [Broadcasts -> Run]
  BY <1>1 DEF Promised
<1>3. QED BY <1>1, <1>2

LEMMA ListFailsKeeps ==
  ASSUME DefinitionsInv, NEW c \in Calls, ListFails(c)
  PROVE  DefinitionsInv'
<1>1. /\ DefinitionsTyped /\ SavesCoherent /\ DeletionCoherent /\ EntryFits /\ DownIdle /\ RunsCarryDefinitions /\ PromisesKept
      /\ faults' = faults + 1 /\ call' = [call EXCEPT ![c] = NoCall]
      /\ runner' = Started(c, runner)
      /\ triggered' = IF c = TickCall THEN Promised({}) ELSE triggered
      /\ UNCHANGED <<rows, save, deletion, registered>>
  BY DEF DefinitionsInv, ListFails
<1>2. runner \in Runner /\ triggered \in [Broadcasts -> Run] /\ call \in [Calls -> Reconciliation]
  BY <1>1 DEF DefinitionsTyped
<1>3. /\ runner' \in Runner /\ runner'.entry = runner.entry /\ runner'.known = runner.known
      /\ c # TickCall => runner' = runner
  BY <1>1, <1>2 DEF Started, Runner
<1>4. call' \in [Calls -> Reconciliation]
  BY <1>1, <1>2 DEF NoCall, Reconciliation, Definition
<1>5. triggered' \in [Broadcasts -> Run]
  BY <1>1, <1>2, PromisedFields
<1>6. DefinitionsTyped' /\ DeletionCoherent' /\ SavesCoherent'
  BY <1>1, <1>3, <1>4, <1>5, SavesUnchanged DEF DefinitionsTyped, DeletionCoherent, SavesCoherent
<1>7. EntryFits'
  BY <1>1, <1>3 DEF EntryFits, Fits
<1>8. RunsCarryDefinitions'
  BY <1>1, <1>2, PromisedFields DEF RunsCarryDefinitions
<1>9. PromisesKept'
  <2>1. CASE c # TickCall
    BY <1>1, <1>3, <2>1 DEF PromisesKept, Fits
  <2>2. CASE c = TickCall
    <3>1. ASSUME NEW b \in Broadcasts, triggered'[b].promised
          PROVE  /\ triggered'[b].status = "live"
                 /\ save'[triggered'[b].by].needs \subseteq {}
      <4>1. /\ triggered'[b].status = triggered[b].status /\ triggered'[b].by = triggered[b].by
            /\ IF triggered[b].status = "live" THEN Fits(triggered[b].by, {}) ELSE triggered[b].promised
        BY <1>1, <1>2, <2>2, <3>1, PromisedFields
      <4>2. triggered[b].status = "live"
        BY <1>1, <4>1 DEF PromisesKept
      <4>3. QED BY <1>1, <4>1, <4>2 DEF Fits
    <3>2. QED BY <3>1 DEF PromisesKept, Fits
  <2>3. QED BY <2>1, <2>2
<1>10. DownIdle'
  <2>1. runner.up # "down"
    BY <1>1 DEF DownIdle, ListFails
  <2>2. runner'.up # "down"
    BY <1>1, <1>2, <2>1 DEF Started, Runner
  <2>3. QED BY <2>2 DEF DownIdle
<1>11. QED BY <1>6, <1>7, <1>8, <1>9, <1>10 DEF DefinitionsInv

(* ... and what was read is applied. *)
LEMMA AppliesKeeps ==
  ASSUME DefinitionsInv, NEW c \in Calls, Applies(c)
  PROVE  DefinitionsInv'
<1>1. /\ DefinitionsTyped /\ SavesCoherent /\ DeletionCoherent /\ EntryFits /\ DownIdle /\ RunsCarryDefinitions /\ PromisesKept
      /\ call' = [call EXCEPT ![c] = NoCall]
      /\ runner' = Started(c, Reconciled(call[c].listed))
      /\ UNCHANGED <<rows, save, deletion, registered, triggered, faults>>
  BY DEF DefinitionsInv, Applies
<1>2. PICK spec \in Definition : spec = call[c].listed
  BY <1>1 DEF DefinitionsTyped, Reconciliation
<1>3. PICK r \in Runner : r = Reconciled(spec)
  BY <1>1, <1>2, KnownFinite, ReconciledFields
<1>4. /\ r.up = runner.up /\ r.known = runner.known \cup registered
      /\ r.entry # Nothing => Fits(r.entry.by, runner.known \cup registered)
  BY <1>1, <1>2, <1>3, KnownFinite, ReconciledFields
<1>5. runner' = Started(c, r)
  BY <1>1, <1>2, <1>3
<1>6. /\ runner' \in Runner /\ runner'.entry = r.entry /\ runner'.known = runner.known \cup registered
  BY <1>3, <1>4, <1>5 DEF Started, Runner
<1>7. call' \in [Calls -> Reconciliation]
  BY <1>1 DEF DefinitionsTyped, NoCall, Reconciliation, Definition
<1>8. DefinitionsTyped' /\ DeletionCoherent' /\ SavesCoherent' /\ RunsCarryDefinitions'
  BY <1>1, <1>6, <1>7, SavesUnchanged
  DEF DefinitionsTyped, DeletionCoherent, SavesCoherent, RunsCarryDefinitions
<1>9. EntryFits'
  BY <1>1, <1>4, <1>6 DEF EntryFits, Fits
<1>10. PromisesKept'
  <2>1. runner'.up # "down" => runner.up # "down" \/ c = TickCall
    BY <1>4, <1>5 DEF Started
  <2>2. CASE runner.up # "down"
    BY <1>1, <1>6, <2>2 DEF PromisesKept, Fits
  <2>3. CASE runner.up = "down"
    <3>1. call[c].pc = "listed"
      BY DEF Applies
    <3>2. QED BY <1>1, <2>3, <3>1 DEF DownIdle
  <2>4. QED BY <2>2, <2>3
<1>11. DownIdle'
  <2>1. r.up # "down"
    BY <1>1, <1>4 DEF DownIdle, Applies
  <2>2. runner'.up # "down"
    BY <1>3, <1>5, <2>1 DEF Started, Runner
  <2>3. QED BY <2>2 DEF DownIdle
<1>12. QED BY <1>8, <1>9, <1>10, <1>11 DEF DefinitionsInv

-----------------------------------------------------------------------------
(* Runs, signals and the process. *)
LEMMA TriggerDynamicKeeps ==
  ASSUME DefinitionsInv, NEW b \in Broadcasts, TriggerDynamic(b)
  PROVE  DefinitionsInv'
<1> DEFINE run == [status |-> "live", by |-> runner.entry.by, promised |-> TRUE]
<1>1. /\ DefinitionsTyped /\ SavesCoherent /\ DeletionCoherent /\ EntryFits
      /\ DownIdle /\ RunsCarryDefinitions /\ PromisesKept
      /\ runner.entry # Nothing /\ triggered' = [triggered EXCEPT ![b] = run]
      /\ UNCHANGED <<rows, save, deletion, registered, runner, call, faults>>
  BY DEF DefinitionsInv, TriggerDynamic
<1>2. runner.entry.by \in Written /\ runner.entry.by # 0 /\ Fits(runner.entry.by, runner.known)
  BY <1>1 DEF DefinitionsTyped, Runner, Definition, Written, Saves, EntryFits
<1>3. run \in Run
  BY <1>2 DEF Run
<1>4. /\ triggered' \in [Broadcasts -> Run] /\ triggered'[b] = run
      /\ \A a \in Broadcasts \ {b} : triggered'[a] = triggered[a]
  BY <1>1, <1>3 DEF DefinitionsTyped
<1>5. DefinitionsTyped' /\ SavesCoherent' /\ DeletionCoherent' /\ EntryFits' /\ DownIdle'
  BY <1>1, <1>4, SavesUnchanged
  DEF DefinitionsTyped, SavesCoherent, DeletionCoherent, EntryFits, DownIdle
<1>6. RunsCarryDefinitions'
  BY <1>1, <1>2, <1>4 DEF RunsCarryDefinitions
<1>7. PromisesKept'
  <2>1. Fits(runner.entry.by, runner.known \cup registered)
    BY <1>2 DEF Fits
  <2>2. QED BY <1>1, <1>2, <1>4, <2>1 DEF PromisesKept, Fits
<1>8. QED BY <1>5, <1>6, <1>7 DEF DefinitionsInv

LEMMA FailsRunKeeps ==
  ASSUME DefinitionsInv, NEW b \in Broadcasts, FailsRun(b)
  PROVE  DefinitionsInv'
<1>1. /\ DefinitionsTyped /\ SavesCoherent /\ DeletionCoherent /\ EntryFits
      /\ DownIdle /\ RunsCarryDefinitions /\ PromisesKept
      /\ runner.up = "up" /\ ~Fits(triggered[b].by, runner.known)
      /\ triggered' = [triggered EXCEPT ![b].status = "failed", ![b].by = 0]
      /\ UNCHANGED <<rows, save, deletion, registered, runner, call, faults>>
  BY DEF DefinitionsInv, FailsRun
<1>2. ~triggered[b].promised
  BY <1>1 DEF PromisesKept
<1>3. /\ triggered' \in [Broadcasts -> Run] /\ triggered'[b].status = "failed"
      /\ triggered'[b].promised = triggered[b].promised
      /\ \A a \in Broadcasts \ {b} : triggered'[a] = triggered[a]
  BY <1>1 DEF DefinitionsTyped, Run
<1>4. DefinitionsTyped' /\ SavesCoherent' /\ DeletionCoherent' /\ EntryFits' /\ DownIdle'
  BY <1>1, <1>3, SavesUnchanged
  DEF DefinitionsTyped, SavesCoherent, DeletionCoherent, EntryFits, DownIdle
<1>5. RunsCarryDefinitions'
  BY <1>1, <1>3 DEF RunsCarryDefinitions
<1>6. PromisesKept'
  BY <1>1, <1>2, <1>3 DEF PromisesKept, Fits
<1>7. QED BY <1>4, <1>5, <1>6 DEF DefinitionsInv

LEMMA RegisterSignalKeeps ==
  ASSUME DefinitionsInv, NEW x \in Signals, RegisterSignal(x)
  PROVE  DefinitionsInv'
<1>1. /\ DefinitionsTyped /\ SavesCoherent /\ DeletionCoherent /\ EntryFits
      /\ DownIdle /\ RunsCarryDefinitions /\ PromisesKept
      /\ registered' = registered \cup {x}
      /\ UNCHANGED <<rows, save, deletion, runner, call, triggered, faults>>
  BY DEF DefinitionsInv, RegisterSignal
<1>2. DefinitionsTyped' /\ SavesCoherent' /\ DeletionCoherent' /\ DownIdle' /\ RunsCarryDefinitions'
  BY <1>1, SavesUnchanged
  DEF DefinitionsTyped, SavesCoherent, DeletionCoherent, DownIdle, RunsCarryDefinitions
<1>3. EntryFits' /\ PromisesKept'
  BY <1>1 DEF EntryFits, PromisesKept, Fits
<1>4. QED BY <1>2, <1>3 DEF DefinitionsInv

LEMMA RunnerCrashesKeeps ==
  ASSUME DefinitionsInv, RunnerCrashes
  PROVE  DefinitionsInv'
<1>1. /\ DefinitionsTyped /\ SavesCoherent /\ DeletionCoherent /\ EntryFits
      /\ DownIdle /\ RunsCarryDefinitions /\ PromisesKept
      /\ faults' = faults + 1 /\ runner' = Down /\ call' = [c \in Calls |-> NoCall]
      /\ save' = [i \in Saves |-> [save[i] EXCEPT !.pc = Torn(save[i].pc)]]
      /\ deletion' = IF deletion.pc = "read" THEN [Undeleted EXCEPT !.pc = "done"] ELSE deletion
      /\ UNCHANGED <<rows, registered, triggered>>
  BY DEF DefinitionsInv, RunnerCrashes
<1>2. /\ save' \in [Saves -> SaveCall]
      /\ \A j \in Saves : /\ save'[j].needs = save[j].needs
                          /\ save'[j].version = save[j].version
                          /\ save'[j].pc = save[j].pc
                             \/ (save[j].pc = "inserted" /\ save'[j].pc = "failed")
      /\ \A j \in Saves : save'[j].pc # "inserted"
  BY <1>1 DEF DefinitionsTyped, SaveCall, Torn
<1>3. /\ Definition' = Definition /\ Version' = Version /\ Run' = Run
      /\ Runner' = Runner /\ Reconciliation' = Reconciliation
      /\ SavesCoherent'
  BY <1>1, <1>2, SavesTorn
<1>4. Nothing \in Definition
  BY DEF Definition
<1>5. runner' \in Runner /\ call' \in [Calls -> Reconciliation]
  BY <1>1, <1>4 DEF Runner, Reconciliation, Down, NoCall
<1>6. deletion' \in DeleteCalls /\ deletion'.pc # "read"
  BY <1>1 DEF DefinitionsTyped, DeleteCalls, Undeleted
<1>7. DefinitionsTyped' /\ DeletionCoherent' /\ RunsCarryDefinitions'
  BY <1>1, <1>2, <1>3, <1>5, <1>6 DEF DefinitionsTyped, DeletionCoherent, RunsCarryDefinitions
<1>8. DownIdle'
  BY <1>1, <1>2, <1>6 DEF DownIdle, NoCall
<1>9. EntryFits' /\ PromisesKept'
  BY <1>1 DEF EntryFits, PromisesKept, Down
<1>10. QED BY <1>3, <1>7, <1>8, <1>9 DEF DefinitionsInv

LEMMA RunnerStartsKeeps ==
  ASSUME DefinitionsInv, NEW S \in SUBSET Signals, RunnerStarts(S)
  PROVE  DefinitionsInv'
<1>1. /\ DefinitionsTyped /\ SavesCoherent /\ DeletionCoherent /\ EntryFits
      /\ DownIdle /\ RunsCarryDefinitions /\ PromisesKept
      /\ registered' = S /\ runner' = [Down EXCEPT !.up = "starting"]
      /\ triggered' = Promised(S) /\ call' = Listing(TickCall)
      /\ UNCHANGED <<rows, save, deletion, faults>>
  BY DEF DefinitionsInv, RunnerStarts
<1>2. Nothing \in Definition
  BY DEF Definition
<1>3. runner' \in Runner /\ runner'.up = "starting" /\ runner'.entry = Nothing /\ runner'.known = {}
  BY <1>1, <1>2 DEF Runner, Down
<1>4. call' \in [Calls -> Reconciliation]
  BY <1>1, <1>2 DEF DefinitionsTyped, Listing, Reconciliation
<1>5. /\ triggered' \in [Broadcasts -> Run]
      /\ \A b \in Broadcasts :
           /\ triggered'[b].status = triggered[b].status /\ triggered'[b].by = triggered[b].by
           /\ triggered'[b].promised =>
                IF triggered[b].status = "live" THEN Fits(triggered[b].by, S)
                                                ELSE triggered[b].promised
  BY <1>1, PromisedFields DEF DefinitionsTyped
<1>6. DefinitionsTyped' /\ SavesCoherent' /\ DeletionCoherent' /\ RunsCarryDefinitions'
  BY <1>1, <1>3, <1>4, <1>5, SavesUnchanged
  DEF DefinitionsTyped, SavesCoherent, DeletionCoherent, RunsCarryDefinitions
<1>7. EntryFits' /\ DownIdle'
  BY <1>3 DEF EntryFits, DownIdle
<1>8. PromisesKept'
  <2>1. ASSUME NEW b \in Broadcasts, triggered'[b].promised
        PROVE  triggered'[b].status = "live" /\ save'[triggered'[b].by].needs \subseteq S
    <3>1. triggered[b].status = "live"
      BY <1>1, <1>5, <2>1 DEF PromisesKept
    <3>2. QED BY <1>1, <1>5, <2>1, <3>1 DEF Fits
  <2>2. runner'.known \cup registered' = S
    BY <1>1, <1>3
  <2>3. QED BY <1>3, <2>1, <2>2 DEF PromisesKept, Fits
<1>9. QED BY <1>6, <1>7, <1>8 DEF DefinitionsInv

-----------------------------------------------------------------------------
LEMMA DefinitionsStep ==
  ASSUME DefinitionsInv, [DefinitionsNext]_defVars
  PROVE  DefinitionsInv'
<1>1. CASE \E i \in Saves, needs \in SUBSET Signals : SaveInserts(i, needs)
  BY <1>1, SaveInsertsKeeps
<1>2. CASE \E i \in Saves : SaveAnswers(i) \/ SaveFails(i)
  BY <1>2, SaveAnswersKeeps, SaveFailsKeeps
<1>3. CASE DeleteReads \/ DeleteWrites \/ TickReconciles
  BY <1>3, DeleteReadsKeeps, DeleteWritesKeeps, ListsKeeps
<1>4. CASE \E c \in Calls : Lists(c) \/ Applies(c) \/ ListFails(c)
  BY <1>4, ListsKeeps, AppliesKeeps, ListFailsKeeps
<1>5. CASE \E b \in Broadcasts : TriggerDynamic(b) \/ FailsRun(b)
  BY <1>5, TriggerDynamicKeeps, FailsRunKeeps
<1>6. CASE (\E x \in Signals : RegisterSignal(x)) \/ RunnerCrashes
           \/ \E S \in SUBSET Signals : RunnerStarts(S)
  BY <1>6, RegisterSignalKeeps, RunnerCrashesKeeps, RunnerStartsKeeps
<1>7. CASE UNCHANGED defVars
  <2>1. UNCHANGED <<rows, save, deletion, registered, runner, call, triggered, faults>>
    BY <1>7 DEF defVars
  <2>2. /\ DefinitionsTyped' = DefinitionsTyped /\ SavesCoherent' = SavesCoherent
        /\ DeletionCoherent' = DeletionCoherent /\ EntryFits' = EntryFits /\ DownIdle' = DownIdle
        /\ RunsCarryDefinitions' = RunsCarryDefinitions /\ PromisesKept' = PromisesKept
    BY <2>1 DEF DefinitionsTyped, SavesCoherent, DeletionCoherent, EntryFits, DownIdle,
                RunsCarryDefinitions, PromisesKept, Fits, Written, Definition, Version, Run, Runner,
                Reconciliation
  <2>3. QED BY <2>2 DEF DefinitionsInv
<1>8. QED BY <1>1, <1>2, <1>3, <1>4, <1>5, <1>6, <1>7 DEF DefinitionsNext

-----------------------------------------------------------------------------
(* The registry and what is listed for it.                                 *)
LEMMA LatestIdentified ==
  ASSUME DefinitionsTyped, RegistryInv
  PROVE  Identified(Latest)
<1>1. CASE rows = <<>> \/ rows[Len(rows)].deleted
  BY <1>1 DEF Latest, Nothing, Identified
<1>2. CASE ~(rows = <<>> \/ rows[Len(rows)].deleted)
  <2>1. Len(rows) \in 1..Len(rows)
    BY <1>2 DEF DefinitionsTyped
  <2>2. rows[Len(rows)].shown \in {0, Len(rows)}
    BY <2>1 DEF RegistryInv
  <2>3. /\ Latest.by = rows[Len(rows)].by /\ Latest.shown = rows[Len(rows)].shown
    BY <1>2 DEF Latest
  <2>4. QED BY <2>1, <2>2, <2>3 DEF Identified
<1>3. QED BY <1>1, <1>2

LEMMA RegistryStays ==
  ASSUME DefinitionsInv, RegistryInv,
         Len(rows) \in Nat, Len(rows') \in Nat, Len(rows) <= Len(rows'),
         \A v \in 1..Len(rows) : rows'[v].by = rows[v].by,
         \A v \in 1..Len(rows') : rows'[v].shown \in {0, v},
         \A i \in Written : save'[i].needs = save[i].needs,
         \A c \in Calls : call'[c].listed \in {Nothing, Latest, call[c].listed},
         \/ /\ runner'.entry = runner.entry /\ runner'.failed = runner.failed
            /\ runner'.known = runner.known /\ runner'.size = runner.size
         \/ /\ runner'.entry = Nothing /\ runner'.failed = Nothing
            /\ runner'.known = {} /\ runner'.size = 0
  PROVE  RegistryInv'
<1>1. DefinitionsTyped
  BY DEF DefinitionsInv
<1>2. \A d : Identified(d) => (d.shown # 0 => d.shown \in 1..Len(rows') /\ rows'[d.shown].by = d.by)
  BY DEF Identified
<1>3. Identified(Nothing) /\ Identified(Latest)
  BY <1>1, LatestIdentified DEF Nothing, Identified
<1>4. \A c \in Calls : Identified(call'[c].listed)
  BY <1>3 DEF RegistryInv
<1>5. Identified(runner'.entry) /\ Identified(runner'.failed)
  BY <1>3 DEF RegistryInv
<1>6. Cardinality({}) = 0
  BY FS_EmptySet
<1>7. runner'.size = Cardinality(runner'.known)
  BY <1>6 DEF RegistryInv
<1>8. ASSUME runner'.failed # Nothing PROVE ~(save'[runner'.failed.by].needs \subseteq runner'.known)
  <2>1. /\ runner'.failed = runner.failed /\ runner'.known = runner.known
        /\ runner.failed \in Definition
    BY <1>1, <1>8 DEF DefinitionsTyped, Runner
  <2>2. runner.failed.by \in Written
    BY <1>8, <2>1 DEF Definition
  <2>3. QED BY <1>8, <2>1, <2>2 DEF RegistryInv, Fits
<1>9. QED BY <1>2, <1>4, <1>5, <1>7, <1>8 DEF RegistryInv, Identified, Fits

(* Where the registry stands once a list has been applied to it. *)
LEMMA ReconciledRegistry ==
  ASSUME DefinitionsInv, RegistryInv, NEW spec \in Definition, Identified(spec),
         NEW r, r = Reconciled(spec), NEW known, known = runner.known \cup registered
  PROVE  /\ r.size = Cardinality(known) /\ r.known = known
         /\ Identified(r.entry) /\ Identified(r.failed)
         /\ r.failed # Nothing => ~Fits(r.failed.by, known)
         /\ spec.shown # 0 \/ spec = Nothing => r.entry.by = spec.by \/ ~Fits(spec.by, known)
<1> DEFINE size == Cardinality(known)
           fresh == [runner EXCEPT !.known = known, !.size = size]
<1>1. /\ DefinitionsTyped /\ size \in Nat /\ runner \in Runner
      /\ IsFiniteSet(known) /\ runner.known \subseteq known
  <2>1. DefinitionsTyped /\ runner \in Runner
    BY DEF DefinitionsInv, DefinitionsTyped
  <2>2. known \subseteq Signals
    BY <2>1 DEF DefinitionsTyped, Runner
  <2>3. IsFiniteSet(known)
    BY <2>2, DefinitionsAssumption, FS_Subset
  <2>4. size \in Nat
    BY <2>3, FS_CardinalityType
  <2>5. QED BY <2>1, <2>3, <2>4
<1>2. size = runner.size => known = runner.known
  BY <1>1, FS_Subset DEF RegistryInv
<1> HIDE DEF size
<1>3. /\ fresh.entry = runner.entry /\ fresh.failed = runner.failed
      /\ fresh.known = known /\ fresh.size = size
  BY <1>1 DEF Runner
<1>4. Identified(Nothing)
  BY DEF Nothing, Identified
<1>5. CASE spec = Nothing
  <2>1. r = [fresh EXCEPT !.entry = Nothing, !.failed = Nothing]
    BY <1>5 DEF Reconciled, size
  <2>2. r.entry = Nothing /\ r.failed = Nothing /\ r.known = known /\ r.size = size
    BY <1>1, <2>1 DEF Runner
  <2>3. QED BY <1>4, <1>5, <2>2 DEF size
<1>6. CASE spec # Nothing /\ Unchanged(spec, size # runner.size)
  <2>1. r = fresh
    BY <1>6 DEF Reconciled, size
  <2>2. r.failed # Nothing => known = runner.known /\ runner.failed.shown = spec.shown
    BY <1>2, <1>3, <1>6, <2>1 DEF Unchanged
  <2>3. r.failed # Nothing => ~Fits(r.failed.by, known)
    BY <1>3, <2>1, <2>2 DEF RegistryInv
  <2>4. ASSUME spec.shown # 0 PROVE r.entry.by = spec.by \/ ~Fits(spec.by, known)
    <3>1. \A d : Identified(d) /\ d.shown = spec.shown => d.by = spec.by
      BY <2>4 DEF Identified
    <3>2. CASE r.failed # Nothing
      BY <1>3, <2>1, <2>2, <2>3, <3>1, <3>2 DEF RegistryInv
    <3>3. CASE r.failed = Nothing
      BY <1>3, <1>6, <2>1, <3>1, <3>3 DEF RegistryInv, Unchanged
    <3>4. QED BY <3>2, <3>3
  <2>5. QED BY <1>3, <1>6, <2>1, <2>3, <2>4 DEF RegistryInv, size
<1>7. CASE spec # Nothing /\ ~Unchanged(spec, size # runner.size) /\ Fits(spec.by, known)
  <2>1. r = [fresh EXCEPT !.entry = spec, !.failed = Nothing]
    BY <1>3, <1>7 DEF Reconciled, size
  <2>2. r.entry = spec /\ r.failed = Nothing /\ r.known = known /\ r.size = size
    BY <1>1, <2>1 DEF Runner
  <2>3. QED BY <1>4, <2>2 DEF size
<1>8. CASE spec # Nothing /\ ~Unchanged(spec, size # runner.size) /\ ~Fits(spec.by, known)
  <2>1. r = [fresh EXCEPT !.failed = spec]
    BY <1>3, <1>8 DEF Reconciled, size
  <2>2. r.entry = runner.entry /\ r.failed = spec /\ r.known = known /\ r.size = size
    BY <1>1, <2>1 DEF Runner
  <2>3. QED BY <1>8, <2>2 DEF RegistryInv, size
<1>9. QED BY <1>5, <1>6, <1>7, <1>8

LEMMA AppliesRegistry ==
  ASSUME DefinitionsInv, RegistryInv, NEW c \in Calls, Applies(c)
  PROVE  RegistryInv' /\ (call[c].listed = Latest => RegistryCurrent')
<1>1. /\ DefinitionsTyped /\ runner \in Runner /\ call \in [Calls -> Reconciliation]
      /\ call' = [call EXCEPT ![c] = NoCall] /\ UNCHANGED <<rows, save, registered>>
  BY DEF DefinitionsInv, DefinitionsTyped, Applies
<1>2. PICK spec \in Definition : spec = call[c].listed
  BY <1>1 DEF Reconciliation
<1>3. Identified(spec)
  BY <1>2 DEF RegistryInv
<1>4. PICK r \in Runner : r = Reconciled(spec)
  BY <1>1, KnownFinite, ReconciledFields DEF DefinitionsInv
<1>5. PICK known : known = runner.known \cup registered
  OBVIOUS
<1>6. /\ r.size = Cardinality(known) /\ r.known = known
      /\ Identified(r.entry) /\ Identified(r.failed)
      /\ r.failed # Nothing => ~Fits(r.failed.by, known)
      /\ spec.shown # 0 \/ spec = Nothing => r.entry.by = spec.by \/ ~Fits(spec.by, known)
  BY <1>3, <1>4, <1>5, ReconciledRegistry
<1>7. /\ runner'.entry = r.entry /\ runner'.failed = r.failed
      /\ runner'.known = r.known /\ runner'.size = r.size
  <2>1. runner' = Started(c, r)
    BY <1>2, <1>4 DEF Applies
  <2>2. QED BY <1>4, <2>1 DEF Started, Runner
<1>8. \A b \in Calls : Identified(call'[b].listed)
  BY <1>1 DEF RegistryInv, NoCall, Nothing, Identified
<1>9. RegistryInv'
  BY <1>1, <1>6, <1>7, <1>8 DEF RegistryInv, Identified, Fits
<1>10. ASSUME call[c].listed = Latest PROVE RegistryCurrent'
  <2>1. Latest' = Latest /\ spec = Latest
    BY <1>1, <1>2, <1>10 DEF Latest
  <2>2. CASE spec.shown = 0 /\ spec # Nothing
    BY <2>1, <2>2 DEF RegistryCurrent
  <2>3. CASE r.entry.by = spec.by
    BY <1>7, <2>1, <2>3 DEF RegistryCurrent
  <2>4. CASE ~Fits(spec.by, known) /\ spec # Nothing
    <3>1. registered' \subseteq known
      BY <1>1, <1>5
    <3>2. ~(save'[spec.by].needs \subseteq registered')
      BY <1>1, <2>4, <3>1 DEF Fits
    <3>3. QED BY <2>1, <2>4, <3>2 DEF RegistryCurrent, Fits
  <2>5. CASE ~Fits(spec.by, known) /\ spec = Nothing
    <3>1. r.entry = Nothing
      BY <1>1, <1>4, <2>5 DEF Reconciled, Runner
    <3>2. QED BY <2>3, <2>5, <3>1
  <2>6. QED BY <1>6, <2>2, <2>3, <2>4, <2>5
<1>11. QED BY <1>9, <1>10

LEMMA RowsRegistry ==
  ASSUME DefinitionsInv, RegistryInv,
         \/ \E i \in Saves, needs \in SUBSET Signals : SaveInserts(i, needs)
         \/ \E i \in Saves : SaveAnswers(i)
         \/ DeleteWrites
  PROVE  RegistryInv'
<1>1. /\ DefinitionsTyped /\ SavesCoherent /\ DeletionCoherent /\ rows \in Seq(Version)
      /\ save \in [Saves -> SaveCall] /\ call \in [Calls -> Reconciliation]
      /\ \A v \in 1..Len(rows) : rows[v].shown \in {0, v} /\ rows[v] \in Version
  BY DEF DefinitionsInv, DefinitionsTyped, RegistryInv
<1>2. PICK len \in Nat : len = Len(rows)
  BY <1>1
<1>3. ASSUME NEW i \in Saves, NEW needs \in SUBSET Signals, SaveInserts(i, needs) PROVE RegistryInv'
  <2>1. PICK row : row = [by |-> i, shown |-> 0, deleted |-> FALSE]
    OBVIOUS
  <2>2. rows' = Append(rows, row) /\ row.shown = 0 /\ UNCHANGED <<runner, call>>
    BY <1>3, <2>1 DEF SaveInserts
  <2>3. Len(rows') = len + 1 /\ rows'[len + 1] = row /\ \A v \in 1..len : rows'[v] = rows[v]
    BY <1>1, <1>2, <2>2
  <2>4. \A v \in 1..Len(rows') : rows'[v].shown \in {0, v}
    BY <1>1, <1>2, <2>2, <2>3
  <2>5. \A j \in Written : save'[j].needs = save[j].needs
    BY <1>1, <1>3 DEF SaveInserts, Written
  <2>6. Len(rows) <= Len(rows') /\ Len(rows') \in Nat
    BY <1>2, <2>3
  <2>7. QED BY <1>2, <2>2, <2>3, <2>4, <2>5, <2>6, RegistryStays
<1>4. ASSUME NEW i \in Saves, SaveAnswers(i) PROVE RegistryInv'
  <2>1. PICK v \in 1..len : v = save[i].version /\ rows[v].by = i
    BY <1>1, <1>2, <1>4 DEF SaveAnswers, SavesCoherent
  <2>2. rows' = [rows EXCEPT ![v].by = i, ![v].shown = v]
    BY <1>4, <2>1 DEF SaveAnswers, Rewritten, Numbered
  <2>3. /\ Len(rows') = len /\ rows'[v].by = i /\ rows'[v].shown = v
        /\ \A w \in 1..len : w # v => rows'[w] = rows[w]
    BY <1>1, <1>2, <2>2 DEF Version
  <2>4. /\ \A w \in 1..len : rows'[w].by = rows[w].by
        /\ \A w \in 1..Len(rows') : rows'[w].shown \in {0, w}
    BY <1>1, <1>2, <2>1, <2>3
  <2>5. \A j \in Written : save'[j].needs = save[j].needs
    BY <1>1, <1>4 DEF SaveAnswers, Written, SaveCall
  <2>6. \A c \in Calls : call'[c].listed \in {Nothing, call[c].listed}
    BY <1>1, <1>4 DEF SaveAnswers, Listing
  <2>7. UNCHANGED runner
    BY <1>4 DEF SaveAnswers
  <2>8. Len(rows) <= Len(rows') /\ Len(rows') \in Nat
    BY <1>2, <2>3
  <2>9. QED BY <1>2, <2>4, <2>5, <2>6, <2>7, <2>8, RegistryStays
<1>5. CASE DeleteWrites
  <2>1. PICK v \in 1..len : v = deletion.version
    BY <1>1, <1>2, <1>5 DEF DeleteWrites, DeletionCoherent
  <2>2. rows' = [rows EXCEPT ![v].deleted = TRUE]
    BY <1>5, <2>1 DEF DeleteWrites
  <2>3. /\ Len(rows') = len
        /\ \A w \in 1..len : rows'[w].by = rows[w].by /\ rows'[w].shown = rows[w].shown
    BY <1>1, <1>2, <2>2 DEF Version
  <2>4. \A w \in 1..Len(rows') : rows'[w].shown \in {0, w}
    BY <1>1, <1>2, <2>3
  <2>5. \A c \in Calls : call'[c].listed \in {Nothing, call[c].listed}
    BY <1>1, <1>5 DEF DeleteWrites, Listing
  <2>6. UNCHANGED <<runner, save>>
    BY <1>5 DEF DeleteWrites
  <2>7. Len(rows) <= Len(rows') /\ Len(rows') \in Nat
    BY <1>2, <2>3
  <2>8. QED BY <1>2, <2>3, <2>4, <2>5, <2>6, <2>7, RegistryStays
<1>6. QED BY <1>3, <1>4, <1>5

LEMMA RegistryStep ==
  ASSUME DefinitionsInv, RegistryInv, [DefinitionsNext]_defVars
  PROVE  RegistryInv'
<1>1. /\ DefinitionsTyped /\ rows \in Seq(Version) /\ Len(rows) \in Nat /\ runner \in Runner
      /\ save \in [Saves -> SaveCall] /\ call \in [Calls -> Reconciliation]
      /\ \A v \in 1..Len(rows) : rows[v].shown \in {0, v}
  BY DEF DefinitionsInv, DefinitionsTyped, RegistryInv
<1>2. ASSUME UNCHANGED rows, \A i \in Saves : save'[i].needs = save[i].needs,
             \A c \in Calls : call'[c].listed \in {Nothing, Latest, call[c].listed},
             \/ /\ runner'.entry = runner.entry /\ runner'.failed = runner.failed
                /\ runner'.known = runner.known /\ runner'.size = runner.size
             \/ /\ runner'.entry = Nothing /\ runner'.failed = Nothing
                /\ runner'.known = {} /\ runner'.size = 0
      PROVE  RegistryInv'
  <2>1. \A i \in Written : save'[i].needs = save[i].needs
    BY <1>2 DEF Written
  <2>2. Len(rows) <= Len(rows') /\ Len(rows') \in Nat
    BY <1>1, <1>2
  <2>3. QED BY <1>1, <1>2, <2>1, <2>2, RegistryStays
<1>3. CASE \/ \E i \in Saves, needs \in SUBSET Signals : SaveInserts(i, needs)
           \/ \E i \in Saves : SaveAnswers(i)
           \/ DeleteWrites
  BY <1>3, RowsRegistry
<1>4. CASE \/ \E i \in Saves : SaveFails(i)
           \/ DeleteReads \/ (\E b \in Broadcasts : TriggerDynamic(b) \/ FailsRun(b))
           \/ (\E x \in Signals : RegisterSignal(x)) \/ UNCHANGED defVars
  <2>1. UNCHANGED <<rows, runner, call>>
    BY <1>4 DEF SaveFails, DeleteReads, TriggerDynamic, FailsRun, RegisterSignal, defVars
  <2>2. \A i \in Saves : save'[i].needs = save[i].needs
    <3>1. CASE \E i \in Saves : SaveFails(i)
      <4>1. \E i \in Saves : save' = [save EXCEPT ![i].pc = "failed"]
        BY <3>1 DEF SaveFails
      <4>2. QED BY <1>1, <4>1 DEF SaveCall
    <3>2. CASE UNCHANGED save
      BY <3>2
    <3>3. QED BY <1>4, <3>1, <3>2 DEF DeleteReads, TriggerDynamic, FailsRun, RegisterSignal, defVars
  <2>3. QED BY <1>2, <2>1, <2>2
<1>5. CASE TickReconciles \/ \E c \in Calls : Lists(c)
  <2>1. UNCHANGED <<rows, runner, save>>
    BY <1>5 DEF TickReconciles, Lists
  <2>2. \A c \in Calls : call'[c].listed \in {Latest, call[c].listed}
    BY <1>1, <1>5 DEF TickReconciles, Lists
  <2>3. QED BY <1>2, <2>1, <2>2
<1>6. ASSUME NEW c \in Calls, ListFails(c) PROVE RegistryInv'
  <2>1. /\ runner'.entry = runner.entry /\ runner'.failed = runner.failed
        /\ runner'.known = runner.known /\ runner'.size = runner.size
    BY <1>1, <1>6 DEF ListFails, Started, Runner
  <2>2. UNCHANGED <<rows, save>>
    BY <1>6 DEF ListFails
  <2>3. \A b \in Calls : call'[b].listed \in {Nothing, call[b].listed}
    BY <1>1, <1>6 DEF ListFails, NoCall
  <2>4. QED BY <1>2, <2>1, <2>2, <2>3
<1>7. CASE RunnerCrashes \/ \E S \in SUBSET Signals : RunnerStarts(S)
  <2>1. /\ runner'.entry = Nothing /\ runner'.failed = Nothing
        /\ runner'.known = {} /\ runner'.size = 0 /\ UNCHANGED rows
    BY <1>7 DEF RunnerCrashes, RunnerStarts, Down
  <2>2. \A i \in Saves : save'[i].needs = save[i].needs
    BY <1>1, <1>7 DEF RunnerCrashes, RunnerStarts, SaveCall
  <2>3. \A c \in Calls : call'[c].listed \in {Nothing, call[c].listed}
    BY <1>1, <1>7 DEF RunnerCrashes, RunnerStarts, NoCall, Listing
  <2>4. QED BY <1>2, <2>1, <2>2, <2>3
<1>8. ASSUME NEW c \in Calls, Applies(c) PROVE RegistryInv'
  BY <1>8, AppliesRegistry
<1>9. QED BY <1>3, <1>4, <1>5, <1>6, <1>7, <1>8 DEF DefinitionsNext

LEMMA RegistryInitially == DefinitionsInit => RegistryInv
<1>1. ASSUME DefinitionsInit PROVE RegistryInv
  <2>1. /\ rows = <<>> /\ runner = Down /\ \A c \in Calls : call[c] = NoCall
    BY <1>1 DEF DefinitionsInit
  <2>2. Len(rows) = 0 /\ 1..0 = {}
    BY <2>1
  <2>3. QED BY <2>1, <2>2, FS_EmptySet DEF RegistryInv, Down, NoCall, Nothing, Identified
<1>2. QED BY <1>1

(* However saves, deletions, overlapping reconciliations, failing calls,   *)
(* crashes and deployments interleave: a save that was answered with a     *)
(* version is stored under that version, the registry holds a definition   *)
(* it can materialize, and a broadcast run whose signals are there is never *)
(* failed for want of its definition.                                      *)
THEOREM DefinitionsKept == DefinitionsSpec => []DefinitionsHold
<1>1. DefinitionsInv /\ RegistryInv /\ [DefinitionsNext]_defVars => (DefinitionsInv /\ RegistryInv)'
  BY DefinitionsStep, RegistryStep
<1>2. DefinitionsInv /\ RegistryInv => DefinitionsHold
  <2>1. DefinitionsInv => SavesAreKept
    BY DEF DefinitionsInv, SavesCoherent, SavesAreKept
  <2>2. DefinitionsInv => RunsResolve
    BY DEF DefinitionsInv, PromisesKept, RunsResolve
  <2>3. QED BY <2>1, <2>2 DEF DefinitionsHold
<1>3. QED BY <1>1, <1>2, DefinitionsInitially, RegistryInitially, PTL DEF DefinitionsSpec

(* reconcileDynamicDefinitions skips a version it has registered, and one   *)
(* that failed until the number of known signals has changed.  Nothing is   *)
(* lost by that, nor by the calls that overlap it: a call whose list is     *)
(* still the latest leaves the latest version registered, or none if it is  *)
(* deleted, unless a signal it needs is missing.                            *)
THEOREM CallsTakeEffect == DefinitionsSpec => CallTakesEffect
<1>1. ASSUME DefinitionsHold, NEW c \in Calls, Applies(c), call[c].listed = Latest
      PROVE  RegistryCurrent'
  BY <1>1, AppliesRegistry DEF DefinitionsHold
<1>2. DefinitionsHold /\ [DefinitionsNext]_defVars
        => [\A c \in Calls : Applies(c) /\ call[c].listed = Latest => RegistryCurrent']_defVars
  BY <1>1
<1>3. QED BY <1>2, DefinitionsKept, PTL DEF DefinitionsSpec, CallTakesEffect
=============================================================================
