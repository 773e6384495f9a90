--------------------------- MODULE StepExecution ---------------------------
(***************************************************************************)
(* The child processes of the attempts of one step-based run, and the step *)
(* records they share through a serializable adapter.  An attempt resumes  *)
(* from the records of earlier ones.  A child may die at any moment, and   *)
(* the next attempt may begin although an earlier child still executes:    *)
(* its station lost the lease, or the reaper has not got to it yet.        *)
(***************************************************************************)
EXTENDS Naturals, FiniteSets

CONSTANTS StepAttempts,   \* bound on the attempts of the run
          StepCount       \* signal.steps.length

ASSUME StepAssumption == StepAttempts \in Nat \ {0} /\ StepCount \in Nat \ {0}

Attempts == 1..StepAttempts
Steps    == 1..StepCount

VARIABLES records,   \* attempt -> step -> the record it added
          child,     \* attempt -> where executeSteps stands, and its variables
          overlap    \* history: an attempt began while an earlier one could write

stepVars == <<records, child, overlap>>

(* A record keeps its status, whether an output was stored in it, and whose *)
(* output of the step before was its input (0: the input of the run).      *)
NoRecord == [status |-> "none", output |-> FALSE, from |-> 0]
Waiting  == [pc |-> "waiting", stale |-> {}, found |-> [i \in Steps |-> 0],
             at |-> 1, prev |-> 0]

Ended(pc) == [Waiting EXCEPT !.pc = pc]   \* the variables end with the process

Over == {"waiting", "done", "gone"}   \* a child that writes nothing (any more)

StepsInit ==
  /\ records = [k \in Attempts |-> [i \in Steps |-> NoRecord]]
  /\ child = [k \in Attempts |-> Waiting] /\ overlap = FALSE

-----------------------------------------------------------------------------
(* A station dispatches the next attempt. *)
Begin(k) ==
  /\ child[k].pc = "waiting" /\ \A j \in 1..(k - 1) : child[j].pc # "waiting"
  /\ child' = [child EXCEPT ![k].pc = "load"]
  /\ overlap' = (overlap \/ \E j \in 1..(k - 1) : child[j].pc \notin Over)
  /\ UNCHANGED records

(* The records a resuming attempt takes outputs from: of several completed *)
(* ones of a step, the last in the table.                                  *)
FoundNothing(i) == 0     \* deviation: every attempt starts over
Found(i) ==
  LET ends == {j \in Attempts : records[j][i].status = "completed"}
  IN  IF ends = {} THEN 0 ELSE CHOOSE j \in ends : \A l \in ends : l <= j

(* The loop from step i, with output p at hand: steps with a stored output  *)
(* are passed over, and the last of these outputs is the one at hand.       *)
Resumed(c, i, p) ==
  LET next == CHOOSE n \in i..(StepCount + 1) :
                /\ n = StepCount + 1 \/ c.found[n] = 0
                /\ \A m \in i..(n - 1) : c.found[m] # 0
  IN  [c EXCEPT !.pc = "steps", !.at = next, !.prev = IF next = i THEN p ELSE c.found[next - 1]]

Load(k) ==
  /\ child[k].pc = "load"
  /\ LET read == [child[k] EXCEPT
                    !.found = [i \in Steps |-> Found(i)],
                    !.stale = {x \in Attempts \X Steps :
                                 records[x[1]][x[2]].status = "running"}]
     IN  child' = [child EXCEPT ![k] = Resumed(read, 1, 0)]
  /\ UNCHANGED <<records, overlap>>

(* Records left running are marked failed, one by one, whatever they have  *)
(* become since they were read.                                            *)
MarkStale(k) ==
  /\ child[k].pc = "steps"
  /\ \E x \in child[k].stale :
       /\ records' = [records EXCEPT ![x[1]][x[2]].status = "failed"]
       /\ child' = [child EXCEPT ![k].stale = @ \ {x}]
  /\ UNCHANGED overlap

AtStep(k) == child[k].pc = "steps" /\ child[k].stale = {} /\ child[k].at <= StepCount

AddStep(k) ==
  /\ AtStep(k)
  /\ records' = [records EXCEPT ![k][child[k].at] =
                   [status |-> "running", output |-> FALSE, from |-> child[k].prev]]
  /\ child' = [child EXCEPT ![k].pc = "executing"]
  /\ UNCHANGED overlap

(* The step's function returns, and its output is stored; or it throws,    *)
(* and the attempt fails.                                                  *)
StepCompleted(k) ==
  /\ child[k].pc = "executing"
  /\ records' = [records EXCEPT ![k][child[k].at].status = "completed",
                                ![k][child[k].at].output = TRUE]
  /\ child' = [child EXCEPT ![k] = Resumed(@, child[k].at + 1, k)]
  /\ UNCHANGED overlap
StepFailed(k) ==
  /\ child[k].pc = "executing"
  /\ records' = [records EXCEPT ![k][child[k].at].status = "failed"]
  /\ child' = [child EXCEPT ![k] = Ended("gone")]
  /\ UNCHANGED overlap

(* executeSteps returns the last output, which the child reports. *)
Return(k) ==
  /\ child[k].pc = "steps" /\ child[k].stale = {} /\ child[k].at > StepCount
  /\ child' = [child EXCEPT ![k] = Ended("done")]
  /\ UNCHANGED <<records, overlap>>

ChildDies(k) ==
  /\ child[k].pc \notin Over
  /\ child' = [child EXCEPT ![k] = Ended("gone")]
  /\ UNCHANGED <<records, overlap>>

StepsNext ==
  \E k \in Attempts :
    \/ Begin(k) \/ Load(k) \/ MarkStale(k) \/ AddStep(k)
    \/ StepCompleted(k) \/ StepFailed(k) \/ Return(k) \/ ChildDies(k)

StepsSpec == StepsInit /\ [][StepsNext]_stepVars

-----------------------------------------------------------------------------
(* What a record and a child may hold.                                     *)
StepRecord == [status : {"none", "running", "completed", "failed"}, output : BOOLEAN,
               from : 0..StepAttempts]
StepChild  == [pc : {"waiting", "load", "steps", "executing", "done", "gone"},
               stale : SUBSET (Attempts \X Steps), found : [Steps -> 0..StepAttempts],
               at : 1..(StepCount + 1), prev : 0..StepAttempts]
StepsTypeOK ==
  /\ records \in [Attempts -> [Steps -> StepRecord]]
  /\ child \in [Attempts -> StepChild] /\ overlap \in BOOLEAN

Ends(i) == {k \in Attempts : records[k][i].output}

(* "Resumes from the last completed step": unless attempts overlapped, each *)
(* step completes once, from the output of the step before it, is never     *)
(* marked as crashed after that, and what crashed attempts left running is  *)
(* marked before the run goes on.                                          *)
ResumesWhereItStopped ==
  ~overlap =>
    /\ \A i \in Steps : Cardinality(Ends(i)) <= 1
    /\ \A i \in Steps : \A k \in Ends(i) :
         /\ records[k][i].status = "completed"
         /\ i > 1 => records[k][i].from \in Ends(i - 1)
    /\ \A k \in Attempts : AtStep(k) =>
         \A j \in Attempts, i \in Steps : records[j][i].status # "running"

(* However attempts overlap, one that reports success has an output of     *)
(* every step to build on.                                                 *)
ReturnsAfterAllSteps ==
  \A k \in Attempts : child[k].pc = "done" => \A i \in Steps : Ends(i) # {}

(* The inductive invariant behind both: what a child remembers of the       *)
(* table, and a step's input, stay true of it however attempts overlap;     *)
(* without overlap, one child at a time writes, and it knows every record   *)
(* that was left running.                                                  *)
Ahead(k) == CASE child[k].pc \in {"waiting", "load"} -> Steps
              [] child[k].pc = "steps"              -> {i \in Steps : i >= child[k].at}
              [] child[k].pc = "executing"          -> {i \in Steps : i > child[k].at}
              [] OTHER                              -> {}
RecordsCoherent ==
  \A k \in Attempts, i \in Steps :
    /\ i \in Ahead(k) => records[k][i].status = "none"
    /\ records[k][i].status = "none" => ~records[k][i].output
    /\ records[k][i].status = "completed" => records[k][i].output
    /\ records[k][i].status # "none" /\ i > 1 => records[k][i].from \in Ends(i - 1)
ChildrenCoherent ==
  \A k \in Attempts :
    LET c == child[k] IN
    /\ c.pc = "executing" => c.stale = {} /\ c.at <= StepCount /\ records[k][c.at].status # "none"
    /\ c.pc \in {"steps", "executing"} =>
         /\ \A i \in Steps : (i < c.at => Ends(i) # {}) /\ (c.found[i] # 0 => c.found[i] \in Ends(i))
         /\ c.at > 1 => c.prev \in Ends(c.at - 1)
         /\ c.at <= StepCount => c.found[c.at] = 0
    /\ \A x \in c.stale : records[x[1]][x[2]].status # "none"
OneAtATime ==
  /\ \A k \in Attempts : child[k].pc # "waiting" =>
       \A j \in 1..(k - 1) : child[j].pc \in {"done", "gone"}
  /\ \A k \in Attempts, i \in Steps :
       /\ records[k][i].output => records[k][i].status = "completed"
       /\ \A j \in Attempts : k \in Ends(i) /\ j \in Ends(i) => j = k
  /\ \A k \in Attempts :
       LET c == child[k] IN
       /\ c.pc \in {"steps", "executing"} =>
            \A i \in Steps : i >= c.at /\ c.found[i] = 0 => Ends(i) = {}
       /\ c.pc = "steps" => c.stale = {x \in Attempts \X Steps : records[x[1]][x[2]].status = "running"}
       /\ c.pc = "executing" =>
            \A x \in Attempts \X Steps : records[x[1]][x[2]].status = "running" <=> x = <<k, c.at>>
StepsInv ==
  /\ StepsTypeOK
  /\ RecordsCoherent
  /\ ChildrenCoherent
  /\ ReturnsAfterAllSteps
  /\ ~overlap => OneAtATime

StepsResume == ResumesWhereItStopped /\ ReturnsAfterAllSteps
=============================================================================
