----------------------------- MODULE StepProofs -----------------------------
(***************************************************************************)
(* Proofs about the children of a step-based run, for any number of        *)
(* attempts and steps.                                                     *)
(***************************************************************************)
EXTENDS StepExecution, FiniteSetTheorems, TLAPS

-----------------------------------------------------------------------------
(* Least and greatest members.                                             *)
LEMMA LeastMember ==
  ASSUME NEW S \in SUBSET Nat, S # {}
  PROVE  \E m \in S : \A n \in S : m <= n
<1>1. PICK m \in S : \A n \in S : <<n, m>> \notin OpToRel(<, Nat)
  BY WFMin, NatLessThanWellFounded, Zenon
<1>2. \A n \in S : ~(n < m)
  BY <1>1 DEF OpToRel
<1>3. QED BY <1>2

LEMMA GreatestAttempt ==
  ASSUME NEW S \in SUBSET Attempts, S # {}
  PROVE  \E m \in S : \A n \in S : n <= m
<1>1. StepAttempts \in Nat /\ S \subseteq Nat /\ \A n \in S : n <= StepAttempts
  BY StepAssumption DEF Attempts
<1> DEFINE T == {StepAttempts - n : n \in S}
<1>2. T \in SUBSET Nat /\ T # {}
  <2>1. \A n \in S : StepAttempts - n \in Nat
    BY <1>1
  <2>2. QED BY <2>1
<1>3. PICK t \in T : \A u \in T : t <= u
  BY <1>2, LeastMember
<1>4. PICK m \in S : t = StepAttempts - m
  BY <1>3
<1>5. ASSUME NEW n \in S PROVE n <= m
  <2>1. StepAttempts - m <= StepAttempts - n
    BY <1>3, <1>4
  <2>2. QED BY <1>1, <2>1
<1>6. QED BY <1>5

-----------------------------------------------------------------------------
(* What a resuming attempt takes from the table, and where it goes on.     *)
LEMMA FoundLast ==
  ASSUME StepsTypeOK, NEW i \in Steps
  PROVE  /\ Found(i) \in 0..StepAttempts
         /\ Found(i) # 0 => Found(i) \in Attempts /\ records[Found(i)][i].status = "completed"
         /\ Found(i) = 0 => \A k \in Attempts : records[k][i].status # "completed"
<1> DEFINE ends == {j \in Attempts : records[j][i].status = "completed"}
<1>1. CASE ends = {}
  BY <1>1, StepAssumption DEF Found
<1>2. CASE ends # {}
  <2>1. \E j \in ends : \A l \in ends : l <= j
    BY <1>2, GreatestAttempt
  <2>2. Found(i) \in ends
    BY <1>2, <2>1 DEF Found
  <2>3. Found(i) \in Attempts /\ Found(i) # 0 /\ Found(i) \in 0..StepAttempts
    BY <2>2, StepAssumption DEF Attempts
  <2>4. QED BY <2>2, <2>3
<1>3. QED BY <1>1, <1>2

LEMMA ResumedChild ==
  ASSUME NEW c \in StepChild, NEW i \in 1..(StepCount + 1), NEW p \in 0..StepAttempts
  PROVE  LET d == Resumed(c, i, p)
         IN  /\ d \in StepChild /\ d.pc = "steps" /\ d.stale = c.stale /\ d.found = c.found
             /\ d.at >= i /\ d.at \in 1..(StepCount + 1)
             /\ \A m \in Steps : i <= m /\ m < d.at => c.found[m] # 0
             /\ d.at <= StepCount => c.found[d.at] = 0
             /\ d.at = i => d.prev = p
             /\ d.at # i => d.prev = c.found[d.at - 1] /\ d.at - 1 \in Steps
<1>1. StepCount \in Nat /\ i \in Nat /\ i >= 1 /\ i <= StepCount + 1
  BY StepAssumption
<1> DEFINE Fits(n) == (n = StepCount + 1 \/ c.found[n] = 0) /\ \A m \in i..(n - 1) : c.found[m] # 0
           S == {n \in i..(StepCount + 1) : n = StepCount + 1 \/ c.found[n] = 0}
<1>2. \E n \in i..(StepCount + 1) : Fits(n)
  <2>1. S \in SUBSET Nat /\ StepCount + 1 \in S
    BY <1>1
  <2>2. PICK n \in S : \A m \in S : n <= m
    BY <2>1, LeastMember
  <2>3. \A m \in i..(n - 1) : m \notin S /\ m \in i..(StepCount + 1) /\ m # StepCount + 1
    BY <1>1, <2>1, <2>2
  <2>4. Fits(n)
    BY <2>2, <2>3
  <2>5. QED BY <2>2, <2>4
<1> DEFINE next == CHOOSE n \in i..(StepCount + 1) : Fits(n)
<1>3. next \in i..(StepCount + 1) /\ Fits(next)
  BY <1>2
<1>4. Resumed(c, i, p) = [c EXCEPT !.pc = "steps", !.at = next,
                                   !.prev = IF next = i THEN p ELSE c.found[next - 1]]
  BY DEF Resumed
<1> HIDE DEF next
<1>5. next \in 1..(StepCount + 1) /\ next >= i /\ (next # i => next - 1 \in i..(next - 1) /\ next - 1 \in Steps)
  BY <1>1, <1>3 DEF Steps
<1> DEFINE q == IF next = i THEN p ELSE c.found[next - 1]
<1>6. q \in 0..StepAttempts
  BY <1>5 DEF StepChild
<1> HIDE DEF q
<1>7. Resumed(c, i, p) = [c EXCEPT !.pc = "steps", !.at = next, !.prev = q]
  BY <1>4 DEF q
<1>8. LET d == Resumed(c, i, p)
      IN  /\ d \in StepChild /\ d.pc = "steps" /\ d.stale = c.stale /\ d.found = c.found
          /\ d.at = next /\ d.prev = q
  BY <1>5, <1>6, <1>7 DEF StepChild
<1>9. \A m \in Steps : i <= m /\ m < next => c.found[m] # 0
  BY <1>1, <1>3, <1>5 DEF Steps
<1>10. next <= StepCount => c.found[next] = 0
  BY <1>1, <1>3, <1>5
<1> DEFINE d == Resumed(c, i, p)
<1>11. d.at = next /\ d.prev = q /\ d \in StepChild /\ d.pc = "steps" /\ d.stale = c.stale /\ d.found = c.found
  BY <1>8
<1> HIDE DEF d
<1>12. QED BY <1>5, <1>9, <1>10, <1>11 DEF q, d

-----------------------------------------------------------------------------
(* The inductive invariant, child by child and record by record.           *)
Coherent == StepsTypeOK /\ RecordsCoherent /\ ChildrenCoherent /\ ReturnsAfterAllSteps

RecordFits(k, i) ==
  /\ i \in Ahead(k) => records[k][i].status = "none"
  /\ records[k][i].status = "none" => ~records[k][i].output
  /\ records[k][i].status = "completed" => records[k][i].output
  /\ records[k][i].status # "none" /\ i > 1 => records[k][i].from \in Ends(i - 1)
Writes(c) == c.pc \in {"steps", "executing"}
BuildsOn(k) ==
  LET c == child[k] IN
  /\ \A i \in Steps : (i < c.at => Ends(i) # {}) /\ (c.found[i] # 0 => c.found[i] \in Ends(i))
  /\ c.at > 1 => c.prev \in Ends(c.at - 1)
  /\ c.at <= StepCount => c.found[c.at] = 0
ChildFits(k) ==
  LET c == child[k] IN
  /\ c.pc = "executing" => c.stale = {} /\ c.at <= StepCount /\ records[k][c.at].status # "none"
  /\ Writes(c) => BuildsOn(k)
  /\ \A x \in c.stale : records[x[1]][x[2]].status # "none"
  /\ c.pc = "done" => \A i \in Steps : Ends(i) # {}

LEMMA CoherentParts ==
  Coherent <=> /\ StepsTypeOK
               /\ \A k \in Attempts : ChildFits(k) /\ \A i \in Steps : RecordFits(k, i)
  BY Zenon DEF Coherent, RecordsCoherent, ChildrenCoherent, ReturnsAfterAllSteps, RecordFits, ChildFits,
         Writes, BuildsOn

(* Outputs, and the fact that a step was begun, are never taken back.      *)
Grows ==
  \A k \in Attempts, i \in Steps :
    /\ records[k][i].output => records'[k][i].output
    /\ records[k][i].status # "none" => records'[k][i].status # "none"

LEMMA EndsGrow == Grows => \A i \in Steps : Ends(i) \subseteq Ends(i)'
  BY DEF Grows, Ends

LEMMA ChildStays ==
  ASSUME StepsTypeOK, Grows, NEW k \in Attempts, ChildFits(k), child'[k] = child[k]
  PROVE  ChildFits(k)'
<1>1. child[k] \in StepChild /\ StepCount \in Nat
  BY StepAssumption DEF StepsTypeOK
<1>2. \A i \in Steps : Ends(i) \subseteq Ends(i)'
  BY EndsGrow
<1>3. Writes(child[k]) => BuildsOn(k)'
  <2> SUFFICES ASSUME Writes(child[k]) PROVE BuildsOn(k)'
    OBVIOUS
  <2>1. BuildsOn(k)
    BY DEF ChildFits
  <2>2. child[k].at > 1 => child[k].at - 1 \in Steps
    BY <1>1 DEF StepChild, Steps
  <2>3. QED BY <1>2, <2>1, <2>2 DEF BuildsOn
<1>4. \A x \in child[k].stale : records'[x[1]][x[2]].status # "none"
  BY <1>1 DEF ChildFits, Grows, StepChild
<1>5. child[k].pc = "executing" =>
        child[k].stale = {} /\ child[k].at <= StepCount /\ records'[k][child[k].at].status # "none"
  BY <1>1 DEF ChildFits, Grows, StepChild, Steps
<1>6. child[k].pc = "done" => \A i \in Steps : Ends(i)' # {}
  BY <1>2 DEF ChildFits
<1>7. QED BY <1>3, <1>4, <1>5, <1>6 DEF ChildFits, Writes

LEMMA RecordStays ==
  ASSUME StepsTypeOK, Grows, NEW k \in Attempts, NEW i \in Steps, RecordFits(k, i),
         Ahead(k)' \subseteq Ahead(k),
         \/ records'[k][i] = records[k][i]
         \/ /\ i \notin Ahead(k)'
            /\ records[k][i].status # "none" /\ records'[k][i].from = records[k][i].from
            /\ records'[k][i].status = "completed" => records'[k][i].output
  PROVE  RecordFits(k, i)'
<1>1. i > 1 => i - 1 \in Steps
  BY StepAssumption DEF Steps
<1>2. i > 1 => Ends(i - 1) \subseteq Ends(i - 1)'
  BY <1>1, EndsGrow
<1>3. CASE records'[k][i] = records[k][i]
  BY <1>2, <1>3 DEF RecordFits
<1>4. CASE /\ i \notin Ahead(k)'
           /\ records[k][i].status # "none" /\ records'[k][i].from = records[k][i].from
           /\ records'[k][i].status = "completed" => records'[k][i].output
  BY <1>2, <1>4 DEF RecordFits, Grows
<1>5. QED BY <1>3, <1>4

(* A step of one child, of which the records of others are at most marked.  *)
LEMMA OneChild ==
  ASSUME Coherent, NEW k \in Attempts, NEW c \in StepChild, child' = [child EXCEPT ![k] = c],
         records' \in [Attempts -> [Steps -> StepRecord]], overlap' \in BOOLEAN, Grows,
         ChildFits(k)', \A i \in Steps : RecordFits(k, i)',
         \A j \in Attempts, i \in Steps :
           \/ j = k \/ records'[j][i] = records[j][i]
           \/ /\ records[j][i].status # "none" /\ records'[j][i].from = records[j][i].from
              /\ records'[j][i].status = "failed"
  PROVE  Coherent'
<1>1. child' \in [Attempts -> StepChild] /\ \A j \in Attempts : j # k => child'[j] = child[j]
  BY DEF Coherent, StepsTypeOK
<1>2. StepsTypeOK' /\ StepsTypeOK
  BY <1>1 DEF StepsTypeOK, Coherent
<1>3. ASSUME NEW j \in Attempts, j # k, NEW i \in Steps PROVE RecordFits(j, i)'
  <2>1. RecordFits(j, i)
    BY CoherentParts
  <2>2. Ahead(j)' = Ahead(j)
    BY <1>1, <1>3 DEF Ahead
  <2>3. CASE records'[j][i] = records[j][i]
    BY <1>2, <2>1, <2>2, <2>3, RecordStays
  <2>4. CASE /\ records[j][i].status # "none" /\ records'[j][i].from = records[j][i].from
             /\ records'[j][i].status = "failed"
    <3>1. i \notin Ahead(j)
      BY <2>1, <2>4 DEF RecordFits
    <3>2. QED BY <1>2, <2>1, <2>2, <2>4, <3>1, RecordStays
  <2>5. QED BY <1>3, <2>3, <2>4
<1>4. ASSUME NEW j \in Attempts, j # k PROVE ChildFits(j)'
  BY <1>1, <1>2, <1>4, CoherentParts, ChildStays
<1>5. QED
  <2>1. \A j \in Attempts : ChildFits(j)' /\ \A i \in Steps : RecordFits(j, i)'
    BY <1>3, <1>4
  <2>2. QED
    BY <1>2, <2>1, Zenon DEF Coherent, RecordsCoherent, ChildrenCoherent, ReturnsAfterAllSteps,
       RecordFits, ChildFits, Writes, BuildsOn

-----------------------------------------------------------------------------
(* One step preserves it, however attempts overlap.                        *)
LEMMA Values ==
  /\ StepCount \in Nat /\ StepAttempts \in Nat /\ NoRecord \in StepRecord
  /\ Waiting \in StepChild /\ Waiting.stale = {}
  /\ \A pc \in {"done", "gone"} :
       Ended(pc) \in StepChild /\ Ended(pc).pc = pc /\ Ended(pc).stale = {}
<1>1. StepCount \in Nat /\ StepAssumption
  BY StepAssumption
<1>2. 1 \in 1..(StepCount + 1) /\ 0 \in 0..StepAttempts
  BY StepAssumption
<1>3. QED BY <1>1, <1>2, StepAssumption DEF NoRecord, StepRecord, Waiting, Ended, StepChild

LEMMA InitCoherent == StepsInit => Coherent
<1> SUFFICES ASSUME StepsInit PROVE Coherent
  OBVIOUS
<1>1. StepsTypeOK
  BY Values DEF StepsInit, StepsTypeOK
<1>2. \A k \in Attempts, i \in Steps : records[k][i] = NoRecord /\ child[k] = Waiting
  BY DEF StepsInit
<1>3. \A k \in Attempts : ChildFits(k)
  BY <1>2, Values DEF ChildFits, Writes, StepsInit, Waiting
<1>4. \A k \in Attempts, i \in Steps : RecordFits(k, i)
  BY <1>2 DEF RecordFits, NoRecord
<1>5. QED BY <1>1, <1>3, <1>4, CoherentParts

LEMMA ChildAlone ==
  ASSUME Coherent, NEW k \in Attempts, NEW c \in StepChild, child' = [child EXCEPT ![k] = c],
         UNCHANGED records, overlap' \in BOOLEAN,
         ChildFits(k)', Ahead(k)' \subseteq Ahead(k)
  PROVE  Coherent'
<1>1. Grows /\ StepsTypeOK
  BY DEF Grows, Coherent
<1>2. \A i \in Steps : RecordFits(k, i)'
  BY <1>1, CoherentParts, RecordStays
<1>3. QED BY <1>1, <1>2, OneChild DEF StepsTypeOK

LEMMA ChildOver ==
  ASSUME Coherent, NEW k \in Attempts, NEW pc \in {"done", "gone"},
         child' = [child EXCEPT ![k] = Ended(pc)]
  PROVE  /\ child'[k].pc = pc /\ child'[k].stale = {}
         /\ (pc = "done" => \A i \in Steps : Ends(i)' # {}) => ChildFits(k)'
         /\ Ahead(k)' = {}
<1>1. child'[k] = Ended(pc)
  BY DEF Coherent, StepsTypeOK
<1>2. child'[k].pc = pc /\ child'[k].stale = {}
  BY <1>1, Values
<1>3. QED BY <1>2 DEF ChildFits, Writes, Ahead

LEMMA Begun ==
  ASSUME NEW c \in StepChild, NEW pc \in {"load", "executing"}
  PROVE  LET d == [c EXCEPT !.pc = pc]
         IN  d \in StepChild /\ d.pc = pc /\ d.stale = c.stale /\ d.found = c.found
             /\ d.at = c.at /\ d.prev = c.prev
  BY DEF StepChild

LEMMA BeginCoherent ==
  ASSUME Coherent, overlap' \in BOOLEAN, NEW k \in Attempts, Begin(k)
  PROVE  Coherent'
<1>1. child[k] \in StepChild /\ ChildFits(k)
  BY CoherentParts DEF StepsTypeOK
<1> DEFINE c == [child[k] EXCEPT !.pc = "load"]
<1>2. c \in StepChild /\ c.pc = "load" /\ c.stale = child[k].stale
  BY <1>1, Begun
<1>3. child' = [child EXCEPT ![k] = c] /\ child[k].pc = "waiting" /\ UNCHANGED records
  BY DEF Begin
<1> HIDE DEF c
<1>4. child'[k] = c
  BY <1>3 DEF Coherent, StepsTypeOK
<1>5. ChildFits(k)'
  BY <1>1, <1>2, <1>3, <1>4 DEF ChildFits, Writes
<1>6. Ahead(k)' = Steps /\ Ahead(k) = Steps
  BY <1>2, <1>3, <1>4 DEF Ahead
<1>7. \E d \in StepChild : d = c
  BY <1>2
<1>8. QED BY <1>3, <1>5, <1>6, <1>7, ChildAlone

LEMMA LoadCoherent ==
  ASSUME Coherent, NEW k \in Attempts, Load(k)
  PROVE  Coherent'
<1> DEFINE foundNow == [i \in Steps |-> Found(i)]
           staleNow == {x \in Attempts \X Steps : records[x[1]][x[2]].status = "running"}
           read == [child[k] EXCEPT !.found = foundNow, !.stale = staleNow]
<1>1. child[k] \in StepChild /\ StepsTypeOK
  BY DEF Coherent, StepsTypeOK
<1>2. foundNow \in [Steps -> 0..StepAttempts] /\ staleNow \in SUBSET (Attempts \X Steps)
  BY <1>1, FoundLast
<1>3. read \in StepChild /\ read.found = foundNow /\ read.stale = staleNow
  <2> HIDE DEF foundNow, staleNow
  <2>1. QED BY <1>1, <1>2 DEF StepChild
<1>4. /\ child' = [child EXCEPT ![k] = Resumed(read, 1, 0)] /\ child[k].pc = "load"
      /\ UNCHANGED <<records, overlap>>
  BY DEF Load
<1>5. \A i \in Steps : foundNow[i] # 0 => foundNow[i] \in Ends(i)
  BY <1>1, FoundLast, CoherentParts DEF RecordFits, Ends
<1>6. \A x \in staleNow : records[x[1]][x[2]].status # "none"
  OBVIOUS
<1> HIDE DEF foundNow, staleNow, read
<1>7. 1 \in 1..(StepCount + 1) /\ 0 \in 0..StepAttempts
  BY StepAssumption
<1> DEFINE c == Resumed(read, 1, 0)
<1>8. /\ c \in StepChild /\ c.pc = "steps" /\ c.stale = staleNow /\ c.found = foundNow
      /\ c.at >= 1 /\ c.at \in 1..(StepCount + 1)
      /\ \A m \in Steps : 1 <= m /\ m < c.at => foundNow[m] # 0
      /\ c.at <= StepCount => foundNow[c.at] = 0
      /\ c.at # 1 => c.prev = foundNow[c.at - 1] /\ c.at - 1 \in Steps
  BY <1>3, <1>7, ResumedChild
<1>9. child' = [child EXCEPT ![k] = c]
  BY <1>4
<1> HIDE DEF c
<1>10. child'[k] = c
  BY <1>1, <1>9 DEF StepsTypeOK
<1>11. BuildsOn(k)'
  <2>1. \A i \in Steps : Ends(i)' = Ends(i) /\ i >= 1
    BY <1>4, StepAssumption DEF Ends, Steps
  <2>2. c.at - 1 \in Steps /\ c.at # 1 => c.at - 1 >= 1 /\ c.at - 1 < c.at
    BY <1>8 DEF Steps
  <2>3. c.at > 1 => c.prev \in Ends(c.at - 1)
    BY <1>5, <1>8, <2>1, <2>2
  <2>4. \A i \in Steps : (i < c.at => Ends(i) # {}) /\ (c.found[i] # 0 => c.found[i] \in Ends(i))
    BY <1>5, <1>8, <2>1
  <2>5. QED BY <1>4, <1>8, <1>10, <2>3, <2>4 DEF BuildsOn, Ends
<1>12. ChildFits(k)'
  BY <1>4, <1>6, <1>8, <1>10, <1>11 DEF ChildFits
<1>13. Ahead(k)' \subseteq Ahead(k)
  BY <1>4, <1>8, <1>10 DEF Ahead
<1>14. \E d \in StepChild : d = c
  BY <1>8
<1>15. QED
  <2>1. overlap' \in BOOLEAN
    BY <1>1, <1>4 DEF StepsTypeOK
  <2>2. QED BY <1>4, <1>9, <1>12, <1>13, <1>14, <2>1, ChildAlone

LEMMA FailedRecord ==
  ASSUME NEW r \in StepRecord
  PROVE  LET n == [r EXCEPT !.status = "failed"]
         IN  n \in StepRecord /\ n.status = "failed" /\ n.output = r.output /\ n.from = r.from
  BY DEF StepRecord

(* Marking one record failed. *)
LEMMA Marked ==
  ASSUME StepsTypeOK, NEW j \in Attempts, NEW i \in Steps,
         records' = [records EXCEPT ![j][i].status = "failed"]
  PROVE  /\ records' \in [Attempts -> [Steps -> StepRecord]]
         /\ records'[j][i].status = "failed" /\ records'[j][i].output = records[j][i].output
         /\ records'[j][i].from = records[j][i].from
         /\ \A l \in Attempts, m \in Steps : (l = j /\ m = i) \/ records'[l][m] = records[l][m]
         /\ Grows
<1>1. records \in [Attempts -> [Steps -> StepRecord]] /\ records[j][i] \in StepRecord
  BY DEF StepsTypeOK
<1> DEFINE new == [records[j][i] EXCEPT !.status = "failed"]
<1>2. new \in StepRecord /\ new.status = "failed" /\ new.output = records[j][i].output
      /\ new.from = records[j][i].from
  BY <1>1, FailedRecord
<1>3. records' = [records EXCEPT ![j][i] = new]
  BY Zenon
<1> HIDE DEF new
<1>4. /\ records' \in [Attempts -> [Steps -> StepRecord]] /\ records'[j][i] = new
      /\ \A l \in Attempts, m \in Steps : (l = j /\ m = i) \/ records'[l][m] = records[l][m]
  <2>1. new \in StepRecord
    BY <1>2
  <2>2. QED BY <1>1, <1>3, <2>1
<1>5. Grows
  BY <1>2, <1>4 DEF Grows
<1>6. QED BY <1>2, <1>4, <1>5

LEMMA MarkCoherent ==
  ASSUME Coherent, NEW k \in Attempts, MarkStale(k)
  PROVE  Coherent'
<1>1. child[k] \in StepChild /\ StepsTypeOK /\ ChildFits(k) /\ child[k].pc = "steps"
  BY CoherentParts DEF StepsTypeOK, MarkStale
<1>2. PICK x \in child[k].stale :
        /\ records' = [records EXCEPT ![x[1]][x[2]].status = "failed"]
        /\ child' = [child EXCEPT ![k].stale = @ \ {x}]
  BY DEF MarkStale
<1>3. PICK j \in Attempts, i \in Steps : x = <<j, i>>
  BY <1>1 DEF StepChild
<1>4. records[j][i].status # "none"
  BY <1>1, <1>3 DEF ChildFits
<1>5. records' = [records EXCEPT ![j][i].status = "failed"]
  BY <1>2, <1>3
<1>6. /\ records' \in [Attempts -> [Steps -> StepRecord]]
      /\ records'[j][i].status = "failed" /\ records'[j][i].output = records[j][i].output
      /\ records'[j][i].from = records[j][i].from
      /\ \A l \in Attempts, m \in Steps : (l = j /\ m = i) \/ records'[l][m] = records[l][m]
      /\ Grows
  BY <1>1, <1>5, Marked
<1> DEFINE c == [child[k] EXCEPT !.stale = child[k].stale \ {x}]
<1>7. /\ c \in StepChild /\ c.pc = "steps" /\ c.stale = child[k].stale \ {x}
      /\ c.at = child[k].at /\ c.found = child[k].found /\ c.prev = child[k].prev
  BY <1>1 DEF StepChild
<1>8. child' = [child EXCEPT ![k] = c]
  BY <1>2
<1> HIDE DEF c
<1>9. child'[k] = c
  BY <1>1, <1>8 DEF StepsTypeOK
<1>10. Ahead(k)' = Ahead(k)
  BY <1>1, <1>7, <1>9 DEF Ahead
<1>11. \A m \in Steps : RecordFits(k, m)'
  <2> SUFFICES ASSUME NEW m \in Steps PROVE RecordFits(k, m)'
    OBVIOUS
  <2>1. RecordFits(k, m)
    BY CoherentParts
  <2>2. CASE records'[k][m] = records[k][m]
    BY <1>1, <1>6, <1>10, <2>1, <2>2, RecordStays
  <2>3. CASE k = j /\ m = i
    <3>1. m \notin Ahead(k)'
      BY <1>4, <1>10, <2>1, <2>3 DEF RecordFits
    <3>2. QED BY <1>1, <1>4, <1>6, <1>10, <2>1, <2>3, <3>1, RecordStays
  <2>4. QED BY <1>6, <2>2, <2>3
<1>12. \A l \in Steps : Ends(l) \subseteq Ends(l)'
  BY <1>6, EndsGrow
<1>13. BuildsOn(k)'
  <2>1. BuildsOn(k)
    BY <1>1 DEF ChildFits, Writes
  <2>2. child[k].at > 1 => child[k].at - 1 \in Steps
    BY <1>1, StepAssumption DEF StepChild, Steps
  <2>3. QED BY <1>7, <1>9, <1>12, <2>1, <2>2 DEF BuildsOn
<1>14. \A y \in c.stale : records'[y[1]][y[2]].status # "none"
  BY <1>1, <1>6, <1>7 DEF ChildFits, Grows, StepChild
<1>15. ChildFits(k)'
  BY <1>7, <1>9, <1>13, <1>14 DEF ChildFits
<1>16. PICK d \in StepChild : d = c
  BY <1>7
<1>17. overlap' \in BOOLEAN
  BY <1>1 DEF MarkStale, StepsTypeOK
<1>18. child' = [child EXCEPT ![k] = d]
  BY <1>8, <1>16
<1>19. \A l \in Attempts, m \in Steps :
         \/ l = k \/ records'[l][m] = records[l][m]
         \/ /\ records[l][m].status # "none" /\ records'[l][m].from = records[l][m].from
            /\ records'[l][m].status = "failed"
  BY <1>4, <1>6
<1>20. QED BY <1>6, <1>11, <1>15, <1>17, <1>18, <1>19, OneChild

LEMMA AddCoherent ==
  ASSUME Coherent, NEW k \in Attempts, AddStep(k)
  PROVE  Coherent'
<1>1. /\ child[k] \in StepChild /\ StepsTypeOK /\ ChildFits(k)
      /\ child[k].pc = "steps" /\ child[k].stale = {} /\ child[k].at <= StepCount
  BY CoherentParts DEF StepsTypeOK, AddStep, AtStep
<1>2. PICK i \in Steps : i = child[k].at
  BY <1>1, StepAssumption DEF StepChild, Steps
<1>3. RecordFits(k, i) /\ i \in Ahead(k)
  BY <1>1, <1>2, CoherentParts DEF Ahead, Steps
<1>4. records[k][i].status = "none" /\ ~records[k][i].output
  BY <1>3 DEF RecordFits
<1> DEFINE new == [status |-> "running", output |-> FALSE, from |-> child[k].prev]
<1>5. new \in StepRecord /\ new.status = "running" /\ new.output = FALSE /\ new.from = child[k].prev
  BY <1>1 DEF StepRecord, StepChild
<1>6. records' = [records EXCEPT ![k][i] = new]
  BY <1>2 DEF AddStep
<1> HIDE DEF new
<1>7. /\ records' \in [Attempts -> [Steps -> StepRecord]] /\ records'[k][i] = new
      /\ \A l \in Attempts, m \in Steps : (l = k /\ m = i) \/ records'[l][m] = records[l][m]
  BY <1>1, <1>5, <1>6 DEF StepsTypeOK
<1>8. Grows
  BY <1>4, <1>5, <1>7 DEF Grows
<1>9. \A l \in Steps : Ends(l) \subseteq Ends(l)'
  BY <1>8, EndsGrow
<1> DEFINE c == [child[k] EXCEPT !.pc = "executing"]
<1>10. /\ c \in StepChild /\ c.pc = "executing" /\ c.stale = child[k].stale
       /\ c.at = child[k].at /\ c.found = child[k].found /\ c.prev = child[k].prev
  BY <1>1, Begun
<1>11. child' = [child EXCEPT ![k] = c]
  BY DEF AddStep
<1> HIDE DEF c
<1>12. child'[k] = c
  BY <1>1, <1>11 DEF StepsTypeOK
<1>13. Ahead(k)' = {m \in Steps : m > i} /\ Ahead(k) = {m \in Steps : m >= i}
  BY <1>1, <1>2, <1>10, <1>12 DEF Ahead
<1>14. Ahead(k)' \subseteq Ahead(k) /\ i \notin Ahead(k)'
  <2>1. \A m \in Steps : m \in Nat
    BY DEF Steps
  <2>2. i \in Nat /\ ~(i > i) /\ \A m \in Steps : m > i => m >= i
    BY <1>1, <2>1
  <2>3. QED BY <1>13, <2>2
<1>15. BuildsOn(k)
  BY <1>1 DEF ChildFits, Writes
<1>16. i > 1 => i - 1 \in Steps
  BY StepAssumption DEF Steps
<1>17. \A m \in Steps : RecordFits(k, m)'
  <2> SUFFICES ASSUME NEW m \in Steps PROVE RecordFits(k, m)'
    OBVIOUS
  <2>1. RecordFits(k, m)
    BY CoherentParts
  <2>2. CASE m # i
    BY <1>1, <1>7, <1>8, <1>14, <2>1, <2>2, RecordStays
  <2>3. CASE m = i
    <3>1. i > 1 => child[k].prev \in Ends(i - 1)'
      BY <1>2, <1>9, <1>15, <1>16 DEF BuildsOn
    <3>2. QED BY <1>5, <1>7, <1>14, <2>3, <3>1 DEF RecordFits
  <2>4. QED BY <2>2, <2>3
<1>18. BuildsOn(k)'
  BY <1>2, <1>9, <1>10, <1>12, <1>15, <1>16 DEF BuildsOn
<1>19. ChildFits(k)'
  BY <1>1, <1>2, <1>5, <1>7, <1>10, <1>12, <1>18 DEF ChildFits
<1>20. PICK d \in StepChild : d = c
  BY <1>10
<1>21. overlap' \in BOOLEAN
  BY <1>1 DEF AddStep, StepsTypeOK
<1>22. child' = [child EXCEPT ![k] = d]
  BY <1>11, <1>20
<1>23. QED BY <1>7, <1>8, <1>17, <1>19, <1>21, <1>22, OneChild

LEMMA CompletedCoherent ==
  ASSUME Coherent, NEW k \in Attempts, StepCompleted(k)
  PROVE  Coherent'
<1>1. /\ child[k] \in StepChild /\ StepsTypeOK /\ ChildFits(k) /\ BuildsOn(k)
      /\ child[k].pc = "executing" /\ child[k].stale = {} /\ child[k].at <= StepCount
  <2>1. child[k] \in StepChild /\ StepsTypeOK /\ ChildFits(k) /\ child[k].pc = "executing"
    BY CoherentParts DEF StepsTypeOK, StepCompleted
  <2>2. QED BY <2>1 DEF ChildFits, Writes
<1>2. PICK i \in Steps : i = child[k].at
  BY <1>1, StepAssumption DEF StepChild, Steps
<1>3. records[k][i].status # "none" /\ RecordFits(k, i)
  BY <1>1, <1>2, CoherentParts DEF ChildFits
<1> DEFINE new == [records[k][i] EXCEPT !.status = "completed", !.output = TRUE]
<1>4. new \in StepRecord /\ new.status = "completed" /\ new.output = TRUE /\ new.from = records[k][i].from
  <2>1. records[k][i] \in StepRecord
    BY <1>1 DEF StepsTypeOK
  <2>2. QED BY <2>1 DEF StepRecord
<1>5. records' = [records EXCEPT ![k][i] = new]
  <2>1. records' = [records EXCEPT ![k][i].status = "completed", ![k][i].output = TRUE]
    BY <1>2 DEF StepCompleted
  <2>2. QED BY <1>1, <2>1 DEF StepsTypeOK
<1> HIDE DEF new
<1>6. /\ records' \in [Attempts -> [Steps -> StepRecord]] /\ records'[k][i] = new
      /\ \A l \in Attempts, m \in Steps : (l = k /\ m = i) \/ records'[l][m] = records[l][m]
  BY <1>1, <1>4, <1>5 DEF StepsTypeOK
<1>7. Grows
  BY <1>4, <1>6 DEF Grows
<1>8. \A l \in Steps : Ends(l) \subseteq Ends(l)'
  BY <1>7, EndsGrow
<1>9. k \in Ends(i)'
  BY <1>4, <1>6 DEF Ends
<1>10. i + 1 \in 1..(StepCount + 1) /\ k \in 0..StepAttempts /\ i \in Nat
  BY StepAssumption DEF Steps, Attempts
<1> PICK c : c = Resumed(child[k], i + 1, k)
  OBVIOUS
<1>11. /\ c \in StepChild /\ c.pc = "steps" /\ c.stale = child[k].stale /\ c.found = child[k].found
       /\ c.at >= i + 1 /\ c.at \in 1..(StepCount + 1)
       /\ \A m \in Steps : i + 1 <= m /\ m < c.at => child[k].found[m] # 0
       /\ c.at <= StepCount => child[k].found[c.at] = 0
       /\ c.at = i + 1 => c.prev = k
       /\ c.at # i + 1 => c.prev = child[k].found[c.at - 1] /\ c.at - 1 \in Steps
  <2>1. i + 1 \in 1..(StepCount + 1) /\ k \in 0..StepAttempts /\ child[k] \in StepChild
    BY <1>1, <1>10
  <2>2. PICK from \in StepChild, at \in 1..(StepCount + 1), p \in 0..StepAttempts :
          from = child[k] /\ at = i + 1 /\ p = k
    BY <2>1
  <2>3. c = Resumed(from, at, p)
    BY <2>2
  <2>4. QED BY <2>2, <2>3, ResumedChild
<1>12. child' = [child EXCEPT ![k] = c]
  BY <1>2 DEF StepCompleted
<1>13. child'[k] = c
  BY <1>1, <1>12 DEF StepsTypeOK
<1>14. Ahead(k)' \subseteq Ahead(k) /\ i \notin Ahead(k)'
  <2>1. Ahead(k) = {m \in Steps : m > i} /\ Ahead(k)' = {m \in Steps : m >= c.at}
    BY <1>1, <1>2, <1>11, <1>13 DEF Ahead
  <2>2. i \in Nat /\ c.at \in Nat /\ c.at >= i + 1
    BY <1>10, <1>11, StepAssumption
  <2>3. PICK next \in Nat : next = c.at
    BY <2>2
  <2>4. \A m \in Steps : m \in Nat
    BY DEF Steps
  <2>5. i < next /\ \A m \in Steps : m >= next => m > i
    BY <2>2, <2>3, <2>4
  <2>6. Ahead(k)' = {m \in Steps : m >= next}
    BY <2>1, <2>3
  <2>7. ~(i >= next)
    BY <2>2, <2>3, <2>5
  <2>8. Ahead(k)' \subseteq Ahead(k)
    BY <2>1, <2>5, <2>6
  <2>9. i \notin Ahead(k)'
    BY <2>6, <2>7
  <2>10. QED BY <2>8, <2>9
<1>15. \A m \in Steps : RecordFits(k, m)'
  <2> SUFFICES ASSUME NEW m \in Steps PROVE RecordFits(k, m)'
    OBVIOUS
  <2>1. RecordFits(k, m)
    BY CoherentParts
  <2>2. CASE m # i
    BY <1>1, <1>6, <1>7, <1>14, <2>1, <2>2, RecordStays
  <2>3. CASE m = i
    BY <1>1, <1>3, <1>4, <1>6, <1>7, <1>14, <2>3, RecordStays
  <2>4. QED BY <2>2, <2>3
<1>16. BuildsOn(k)'
  <2>1. \A m \in Steps : c.found[m] # 0 => c.found[m] \in Ends(m)'
    BY <1>1, <1>8, <1>11 DEF BuildsOn
  <2>2. ASSUME NEW m \in Steps, m < c.at PROVE Ends(m)' # {}
    <3>1. CASE m < i
      BY <1>1, <1>2, <1>8, <3>1 DEF BuildsOn
    <3>2. CASE m = i
      BY <1>9, <3>2
    <3>3. CASE m > i
      <4>1. i + 1 <= m
        BY <1>10, <3>3 DEF Steps
      <4>2. c.found[m] # 0
        BY <1>11, <2>2, <4>1
      <4>3. QED BY <2>1, <4>2
    <3>4. QED BY <1>10, <3>1, <3>2, <3>3 DEF Steps
  <2>3. c.prev \in Ends(c.at - 1)'
    <3>1. CASE c.at = i + 1
      <4>1. c.at - 1 = i
        BY <1>10, <3>1
      <4>2. QED BY <1>9, <1>11, <3>1, <4>1
    <3>2. CASE c.at # i + 1
      <4>1. c.at - 1 \in Steps /\ i + 1 <= c.at - 1 /\ c.at - 1 < c.at
        BY <1>10, <1>11, <3>2
      <4>2. c.prev = c.found[c.at - 1] /\ c.found[c.at - 1] # 0
        BY <1>11, <3>2, <4>1
      <4>3. QED BY <2>1, <4>1, <4>2
    <3>3. QED BY <3>1, <3>2
  <2>4. QED BY <1>11, <1>13, <2>1, <2>2, <2>3 DEF BuildsOn
<1>17. ChildFits(k)'
  BY <1>1, <1>11, <1>13, <1>16 DEF ChildFits
<1>18. overlap' \in BOOLEAN
  BY <1>1 DEF StepCompleted, StepsTypeOK
<1>19. c \in StepChild
  BY <1>11
<1>20. QED BY <1>6, <1>7, <1>12, <1>15, <1>17, <1>18, <1>19, OneChild

LEMMA OverCoherent ==
  ASSUME Coherent, NEW k \in Attempts, StepFailed(k) \/ Return(k) \/ ChildDies(k)
  PROVE  Coherent'
<1>1. child[k] \in StepChild /\ StepsTypeOK /\ ChildFits(k)
  BY CoherentParts DEF StepsTypeOK
<1>2. overlap' \in BOOLEAN
  BY <1>1 DEF StepFailed, Return, ChildDies, StepsTypeOK
<1>3. CASE StepFailed(k)
  <2>1. child[k].pc = "executing" /\ child[k].at <= StepCount
    BY <1>1, <1>3 DEF StepFailed, ChildFits
  <2>2. PICK i \in Steps : i = child[k].at
    BY <1>1, <2>1, StepAssumption DEF StepChild, Steps
  <2>3. records[k][i].status # "none"
    BY <1>1, <2>1, <2>2 DEF ChildFits
  <2>4. records' = [records EXCEPT ![k][i].status = "failed"] /\ child' = [child EXCEPT ![k] = Ended("gone")]
    BY <1>3, <2>2 DEF StepFailed
  <2>5. /\ records' \in [Attempts -> [Steps -> StepRecord]]
        /\ records'[k][i].status = "failed" /\ records'[k][i].output = records[k][i].output
        /\ records'[k][i].from = records[k][i].from
        /\ \A l \in Attempts, m \in Steps : (l = k /\ m = i) \/ records'[l][m] = records[l][m]
        /\ Grows
    BY <1>1, <2>4, Marked
  <2>6. ChildFits(k)' /\ Ahead(k)' = {}
    BY <2>4, ChildOver
  <2>7. \A m \in Steps : RecordFits(k, m)'
    <3> SUFFICES ASSUME NEW m \in Steps PROVE RecordFits(k, m)'
      OBVIOUS
    <3>1. RecordFits(k, m)
      BY CoherentParts
    <3>2. CASE m # i
      BY <1>1, <2>5, <2>6, <3>1, <3>2, RecordStays
    <3>3. CASE m = i
      BY <1>1, <2>3, <2>5, <2>6, <3>1, <3>3, RecordStays
    <3>4. QED BY <3>2, <3>3
  <2>8. PICK d \in StepChild : d = Ended("gone")
    BY Values
  <2>9. child' = [child EXCEPT ![k] = d]
    BY <2>4, <2>8
  <2>10. QED BY <1>2, <2>5, <2>6, <2>7, <2>9, OneChild
<1>4. CASE Return(k)
  <2>1. child' = [child EXCEPT ![k] = Ended("done")] /\ UNCHANGED records
    BY <1>4 DEF Return
  <2>2. \A i \in Steps : Ends(i)' # {}
    <3>1. child[k].pc = "steps" /\ child[k].at > StepCount
      BY <1>4 DEF Return
    <3>2. BuildsOn(k)
      BY <1>1, <3>1 DEF ChildFits, Writes
    <3>3. \A i \in Steps : i < child[k].at
      BY <1>1, <3>1, StepAssumption DEF Steps, StepChild
    <3>4. QED BY <2>1, <3>2, <3>3 DEF BuildsOn, Ends
  <2>3. ChildFits(k)' /\ Ahead(k)' = {}
    BY <2>1, <2>2, ChildOver
  <2>4. PICK d \in StepChild : d = Ended("done")
    BY Values
  <2>5. QED BY <1>2, <2>1, <2>3, <2>4, ChildAlone
<1>5. CASE ChildDies(k)
  <2>1. child' = [child EXCEPT ![k] = Ended("gone")] /\ UNCHANGED records
    BY <1>5 DEF ChildDies
  <2>2. ChildFits(k)' /\ Ahead(k)' = {}
    BY <2>1, ChildOver
  <2>3. PICK d \in StepChild : d = Ended("gone")
    BY Values
  <2>4. QED BY <1>2, <2>1, <2>2, <2>3, ChildAlone
<1>6. QED BY <1>3, <1>4, <1>5

LEMMA NextCoherent == Coherent /\ [StepsNext]_stepVars => Coherent'
<1> SUFFICES ASSUME Coherent, [StepsNext]_stepVars PROVE Coherent'
  OBVIOUS
<1>1. ASSUME NEW k \in Attempts, Begin(k) PROVE Coherent'
  <2>1. overlap' \in BOOLEAN
    BY <1>1 DEF Begin, Coherent, StepsTypeOK
  <2>2. QED BY <1>1, <2>1, BeginCoherent
<1>2. CASE UNCHANGED stepVars
  <2>1. UNCHANGED <<records, child, overlap>>
    BY <1>2 DEF stepVars
  <2>2. Grows /\ StepsTypeOK /\ StepsTypeOK'
    BY <2>1 DEF Grows, Coherent, StepsTypeOK
  <2>3. ASSUME NEW k \in Attempts PROVE ChildFits(k)' /\ \A i \in Steps : RecordFits(k, i)'
    <3>1. Ahead(k)' = Ahead(k)
      BY <2>1 DEF Ahead
    <3>2. QED BY <2>1, <2>2, <3>1, CoherentParts, ChildStays, RecordStays
  <2>4. QED
    BY <2>2, <2>3, Zenon DEF Coherent, RecordsCoherent, ChildrenCoherent, ReturnsAfterAllSteps,
       RecordFits, ChildFits, Writes, BuildsOn
<1>3. ASSUME NEW k \in Attempts,
             \/ Load(k) \/ MarkStale(k) \/ AddStep(k)
             \/ StepCompleted(k) \/ StepFailed(k) \/ Return(k) \/ ChildDies(k)
      PROVE  Coherent'
  BY <1>3, LoadCoherent, MarkCoherent, AddCoherent, CompletedCoherent, OverCoherent
<1>4. QED BY <1>1, <1>2, <1>3 DEF StepsNext

-----------------------------------------------------------------------------
(* Without overlap, one child writes, and it knows what is left running.   *)
Turn == \A k \in Attempts : child[k].pc # "waiting" =>
          \A j \in 1..(k - 1) : child[j].pc \in {"done", "gone"}
Running(j, i) == records[j][i].status = "running"
Unique ==
  \A k \in Attempts, i \in Steps :
    /\ records[k][i].output => records[k][i].status = "completed"
    /\ \A j \in Attempts : k \in Ends(i) /\ j \in Ends(i) => j = k
Knows(k) ==
  LET c == child[k] IN
  /\ Writes(c) => \A i \in Steps : i >= c.at /\ c.found[i] = 0 => Ends(i) = {}
  /\ c.pc = "steps" => \A j \in Attempts, i \in Steps : <<j, i>> \in c.stale <=> Running(j, i)
  /\ c.pc = "executing" => \A j \in Attempts, i \in Steps : Running(j, i) <=> j = k /\ i = c.at

LEMMA OneAtATimeParts ==
  StepsTypeOK => (OneAtATime <=> Turn /\ Unique /\ \A k \in Attempts : Knows(k))
<1> SUFFICES ASSUME StepsTypeOK PROVE OneAtATime <=> Turn /\ Unique /\ \A k \in Attempts : Knows(k)
  OBVIOUS
<1>1. \A k \in Attempts : child[k].stale \subseteq Attempts \X Steps
  BY DEF StepsTypeOK, StepChild
<1>2. ASSUME NEW k \in Attempts
      PROVE  child[k].stale = {x \in Attempts \X Steps : records[x[1]][x[2]].status = "running"}
               <=> \A j \in Attempts, i \in Steps : <<j, i>> \in child[k].stale <=> Running(j, i)
  <2> DEFINE left == {x \in Attempts \X Steps : records[x[1]][x[2]].status = "running"}
  <2>1. \A j \in Attempts, i \in Steps : <<j, i>> \in left <=> Running(j, i)
    BY DEF Running
  <2>2. left \subseteq Attempts \X Steps /\ child[k].stale \subseteq Attempts \X Steps
    BY <1>1
  <2> HIDE DEF left
  <2>3. ASSUME \A j \in Attempts, i \in Steps : <<j, i>> \in child[k].stale <=> Running(j, i)
        PROVE  child[k].stale = left
    <3>1. \A x \in Attempts \X Steps : x \in child[k].stale <=> x \in left
      BY <2>1, <2>3
    <3>2. QED BY <2>2, <3>1
  <2>4. child[k].stale = left <=>
          \A j \in Attempts, i \in Steps : <<j, i>> \in child[k].stale <=> Running(j, i)
    BY <2>1, <2>3
  <2>5. QED BY <2>4 DEF left
<1>3. ASSUME NEW k \in Attempts
      PROVE  (\A x \in Attempts \X Steps : records[x[1]][x[2]].status = "running" <=> x = <<k, child[k].at>>)
               <=> \A j \in Attempts, i \in Steps : Running(j, i) <=> j = k /\ i = child[k].at
  <2>1. ASSUME NEW x \in Attempts \X Steps,
               \A j \in Attempts, i \in Steps : Running(j, i) <=> j = k /\ i = child[k].at
        PROVE  records[x[1]][x[2]].status = "running" <=> x = <<k, child[k].at>>
    <3>1. PICK j \in Attempts, i \in Steps : x = <<j, i>>
      OBVIOUS
    <3>2. QED BY <2>1, <3>1 DEF Running
  <2>2. ASSUME \A x \in Attempts \X Steps : records[x[1]][x[2]].status = "running" <=> x = <<k, child[k].at>>,
               NEW j \in Attempts, NEW i \in Steps
        PROVE  Running(j, i) <=> j = k /\ i = child[k].at
    <3>1. PICK x \in Attempts \X Steps : x = <<j, i>>
      OBVIOUS
    <3>2. QED BY <2>2, <3>1 DEF Running
  <2>3. QED BY <2>1, <2>2
<1>4. QED BY <1>2, <1>3 DEF OneAtATime, Turn, Unique, Knows, Writes

(* Whoever is not over is alone. *)
LEMMA OthersOver ==
  ASSUME StepsTypeOK, Turn, NEW k \in Attempts, child[k].pc \notin {"done", "gone"},
         NEW j \in Attempts, j # k, child[k].pc # "waiting" \/ j > k
  PROVE  ~Writes(child[j])
<1>1. j \in Nat /\ k \in Nat /\ j >= 1 /\ k >= 1
  BY StepAssumption DEF Attempts
<1>2. CASE j < k
  <2>1. j \in 1..(k - 1)
    BY <1>1, <1>2
  <2>2. child[j].pc \in {"done", "gone"}
    BY <1>1, <1>2, <2>1 DEF Turn
  <2>3. QED BY <2>2 DEF Writes
<1>3. CASE j > k
  <2>1. k \in 1..(j - 1)
    BY <1>1, <1>3
  <2>2. child[j].pc = "waiting"
    BY <2>1 DEF Turn
  <2>3. QED BY <2>2 DEF Writes
<1>4. QED BY <1>1, <1>2, <1>3

LEMMA TurnKept ==
  ASSUME StepsTypeOK, Turn, NEW k \in Attempts, NEW c \in StepChild, child' = [child EXCEPT ![k] = c],
         child[k].pc \notin {"waiting", "done", "gone"}, c.pc # "waiting"
  PROVE  Turn'
<1>1. child'[k] = c /\ \A j \in Attempts : j # k => child'[j] = child[j]
  BY DEF StepsTypeOK
<1> SUFFICES ASSUME NEW l \in Attempts, child'[l].pc # "waiting", NEW j \in 1..(l - 1)
             PROVE  child'[j].pc \in {"done", "gone"}
  BY DEF Turn
<1>2. j \in Attempts /\ j # l
  BY StepAssumption DEF Attempts
<1>3. child[l].pc # "waiting"
  BY <1>1
<1>4. child[j].pc \in {"done", "gone"}
  BY <1>3 DEF Turn
<1>5. QED BY <1>1, <1>2, <1>4

(* Neither does a step that changes no output forget any. *)
LEMMA UniqueKept ==
  ASSUME Unique,
         \A j \in Attempts, i \in Steps : /\ records'[j][i].output => records[j][i].output
                                          /\ records[j][i].status = "completed" => records'[j][i] = records[j][i]
  PROVE  Unique' /\ \A i \in Steps : Ends(i)' \subseteq Ends(i)
  BY DEF Unique, Ends

LEMMA AloneKnows ==
  ASSUME StepsTypeOK, Turn, NEW k \in Attempts, child[k].pc \notin {"waiting", "done", "gone"},
         NEW c \in StepChild, child' = [child EXCEPT ![k] = c], Knows(k)'
  PROVE  \A j \in Attempts : Knows(j)'
<1> SUFFICES ASSUME NEW j \in Attempts, j # k PROVE Knows(j)'
  OBVIOUS
<1>1. child'[j] = child[j]
  BY DEF StepsTypeOK
<1>2. ~Writes(child[j])
  BY OthersOver
<1>3. QED BY <1>1, <1>2 DEF Knows, Writes

LEMMA NextAlone ==
  ASSUME Coherent, ~overlap', ~overlap => OneAtATime, [StepsNext]_stepVars
  PROVE  OneAtATime'
<1>1. ~overlap
  BY DEF StepsNext, Begin, Load, MarkStale, AddStep, StepCompleted, StepFailed, Return, ChildDies, stepVars,
     Coherent, StepsTypeOK
<1>2. StepsTypeOK /\ Turn /\ Unique /\ \A k \in Attempts : Knows(k)
  BY <1>1, OneAtATimeParts DEF Coherent
<1>3. Coherent'
  BY NextCoherent
<1>4. SUFFICES Turn' /\ Unique' /\ \A k \in Attempts : Knows(k)'
  <2>1. StepsTypeOK'
    BY <1>3 DEF Coherent
  <2>2. (StepsTypeOK => (OneAtATime <=> Turn /\ Unique /\ \A k \in Attempts : Knows(k)))'
    BY OneAtATimeParts, PTL
  <2>3. QED BY <2>1, <2>2
<1>5. \A k \in Attempts : child[k] \in StepChild /\ child'[k] \in StepChild /\ ChildFits(k)
  BY <1>2, <1>3, CoherentParts DEF Coherent, StepsTypeOK
<1>6. ASSUME NEW k \in Attempts, Begin(k) PROVE Turn' /\ Unique' /\ \A j \in Attempts : Knows(j)'
  <2>1. /\ child[k].pc = "waiting" /\ \A j \in 1..(k - 1) : child[j].pc \in {"done", "gone"}
        /\ child' = [child EXCEPT ![k].pc = "load"] /\ UNCHANGED records
    <3>1. /\ child[k].pc = "waiting" /\ child' = [child EXCEPT ![k].pc = "load"] /\ UNCHANGED records
          /\ \A j \in 1..(k - 1) : child[j].pc # "waiting" /\ child[j].pc \in Over
      BY <1>6 DEF Begin, Coherent, StepsTypeOK
    <3>2. QED BY <3>1 DEF Over
  <2>2. /\ child'[k].pc = "load" /\ \A j \in Attempts : j # k => child'[j] = child[j]
    BY <1>2, <1>5, <2>1 DEF StepsTypeOK, StepChild
  <2>3. ASSUME NEW l \in Attempts, child'[l].pc # "waiting", NEW j \in 1..(l - 1)
        PROVE  child'[j].pc \in {"done", "gone"}
    <3>1. j \in Attempts
      BY StepAssumption DEF Attempts
    <3>2. child[j].pc \in {"done", "gone"}
      BY <1>2, <2>1, <2>2, <2>3 DEF Turn
    <3>3. QED BY <2>1, <2>2, <3>1, <3>2
  <2>4. Unique'
    BY <1>2, <2>1 DEF Unique, Ends
  <2>5. \A j \in Attempts : Knows(j)'
    BY <1>2, <2>1, <2>2 DEF Knows, Writes, Ends, Running
  <2>6. QED BY <2>3, <2>4, <2>5 DEF Turn
<1>7. ASSUME NEW k \in Attempts, child[k].pc \notin {"waiting", "done", "gone"},
             NEW c \in StepChild, child' = [child EXCEPT ![k] = c], c.pc # "waiting", Unique', Knows(k)'
      PROVE  Turn' /\ Unique' /\ \A j \in Attempts : Knows(j)'
  BY <1>2, <1>7, TurnKept, AloneKnows
<1>8. ASSUME NEW k \in Attempts, NEW c, child' = [child EXCEPT ![k] = c]
      PROVE  c \in StepChild /\ child'[k] = c
  BY <1>2, <1>5, <1>8 DEF StepsTypeOK
<1>9. ASSUME NEW k \in Attempts, Load(k) PROVE Turn' /\ Unique' /\ \A j \in Attempts : Knows(j)'
  <2> DEFINE foundNow == [i \in Steps |-> Found(i)]
             staleNow == {x \in Attempts \X Steps : records[x[1]][x[2]].status = "running"}
             read == [child[k] EXCEPT !.found = foundNow, !.stale = staleNow]
  <2>1. foundNow \in [Steps -> 0..StepAttempts] /\ staleNow \in SUBSET (Attempts \X Steps)
    BY <1>2, FoundLast
  <2>2. \A j \in Attempts, i \in Steps : <<j, i>> \in staleNow <=> Running(j, i)
    BY DEF Running
  <2>3. child[k].pc = "load" /\ UNCHANGED records
    BY <1>9 DEF Load
  <2>4. \A i \in Steps : foundNow[i] = 0 => Ends(i) = {}
    BY <1>2, FoundLast DEF Unique, Ends
  <2>5. PICK c : c = Resumed(read, 1, 0)
    OBVIOUS
  <2>6. child' = [child EXCEPT ![k] = c]
    BY <1>9, <2>5 DEF Load
  <2>7. c \in StepChild /\ child'[k] = c
    BY <1>8, <2>6
  <2>8. c.pc = "steps" /\ c.stale = staleNow /\ c.found = foundNow
    <3>1. read \in StepChild /\ read.found = foundNow /\ read.stale = staleNow
      <4> HIDE DEF foundNow, staleNow
      <4>1. QED BY <1>5, <2>1 DEF StepChild
    <3> HIDE DEF read, foundNow, staleNow
    <3>2. PICK from \in StepChild : from = read
      BY <3>1
    <3>3. 1 \in 1..(StepCount + 1) /\ 0 \in 0..StepAttempts /\ c = Resumed(from, 1, 0)
      BY <2>5, <3>2, StepAssumption
    <3>4. QED BY <3>1, <3>2, <3>3, ResumedChild
  <2> HIDE DEF foundNow, staleNow
  <2>9. Unique'
    BY <1>2, <2>3 DEF Unique, Ends
  <2>10. Knows(k)'
    BY <2>2, <2>3, <2>4, <2>7, <2>8 DEF Knows, Running, Ends
  <2>11. QED BY <1>7, <2>3, <2>6, <2>7, <2>8, <2>9, <2>10
<1>10. ASSUME NEW k \in Attempts, MarkStale(k) PROVE Turn' /\ Unique' /\ \A j \in Attempts : Knows(j)'
  <2>1. child[k].pc = "steps"
    BY <1>10 DEF MarkStale
  <2>2. PICK x \in child[k].stale : /\ records' = [records EXCEPT ![x[1]][x[2]].status = "failed"]
                                    /\ child' = [child EXCEPT ![k].stale = child[k].stale \ {x}]
    BY <1>10 DEF MarkStale
  <2>3. PICK j \in Attempts, i \in Steps : x = <<j, i>>
    BY <1>5 DEF StepChild
  <2>4. Running(j, i)
    BY <1>2, <2>1, <2>3 DEF Knows
  <2>5. ~records[j][i].output
    BY <1>2, <2>4 DEF Running, Unique
  <2>6. /\ records'[j][i].status = "failed" /\ records'[j][i].output = records[j][i].output
        /\ \A l \in Attempts, m \in Steps : (l = j /\ m = i) \/ records'[l][m] = records[l][m]
    <3>1. records' = [records EXCEPT ![j][i].status = "failed"]
      BY <2>2, <2>3
    <3>2. QED BY ZenonT(60), <1>2, <3>1, Marked
  <2>7. Unique' /\ \A m \in Steps : Ends(m)' \subseteq Ends(m)
    BY <1>2, <2>4, <2>5, <2>6, UniqueKept DEF Running
  <2>8. PICK c : c = [child[k] EXCEPT !.stale = child[k].stale \ {x}]
    OBVIOUS
  <2>9. /\ c \in StepChild /\ c.pc = "steps" /\ c.stale = child[k].stale \ {x}
        /\ c.at = child[k].at /\ c.found = child[k].found
    BY <1>5, <2>1, <2>8 DEF StepChild
  <2>10. child' = [child EXCEPT ![k] = c]
    BY <2>2, <2>8
  <2>11. child'[k] = c
    BY <1>8, <2>10
  <2>12. \A l \in Attempts, m \in Steps : Running(l, m)' <=> Running(l, m) /\ <<l, m>> # x
    BY <2>3, <2>6 DEF Running
  <2>13. Knows(k)'
    BY <1>2, <2>1, <2>7, <2>9, <2>11, <2>12 DEF Knows, Writes
  <2>14. QED BY <1>7, <2>1, <2>7, <2>9, <2>10, <2>13
<1>11. ASSUME NEW k \in Attempts, AddStep(k) PROVE Turn' /\ Unique' /\ \A j \in Attempts : Knows(j)'
  <2>1. child[k].pc = "steps" /\ child[k].stale = {} /\ child[k].at <= StepCount
    BY <1>11 DEF AddStep, AtStep
  <2>2. PICK i \in Steps : i = child[k].at
    BY <1>5, <2>1, StepAssumption DEF StepChild, Steps
  <2>3. records[k][i].status = "none" /\ ~records[k][i].output
    <3>1. i \in Ahead(k) /\ RecordFits(k, i)
      BY <2>1, <2>2, CoherentParts DEF Ahead, Steps
    <3>2. QED BY <3>1 DEF RecordFits
  <2>4. \A j \in Attempts, m \in Steps : ~Running(j, m)
    BY <1>2, <2>1 DEF Knows
  <2>5. PICK new : new = [status |-> "running", output |-> FALSE, from |-> child[k].prev]
    OBVIOUS
  <2>6. new.status = "running" /\ new.output = FALSE
    BY <2>5
  <2>7. records' = [records EXCEPT ![k][i] = new]
    BY <1>11, <2>2, <2>5 DEF AddStep
  <2>8. /\ records'[k][i] = new
        /\ \A l \in Attempts, m \in Steps : (l = k /\ m = i) \/ records'[l][m] = records[l][m]
    BY <1>2, <2>7 DEF StepsTypeOK
  <2>9. Unique' /\ \A m \in Steps : Ends(m)' \subseteq Ends(m)
    BY <1>2, <2>3, <2>6, <2>8, UniqueKept
  <2>10. PICK c : c = [child[k] EXCEPT !.pc = "executing"]
    OBVIOUS
  <2>11. c \in StepChild /\ c.pc = "executing" /\ c.at = i /\ c.found = child[k].found
    BY <1>5, <2>2, <2>10, Begun
  <2>12. child' = [child EXCEPT ![k] = c]
    BY <1>11, <2>10 DEF AddStep
  <2>13. child'[k] = c
    BY <1>8, <2>12
  <2>14. Knows(k)'
    BY <1>2, <2>1, <2>2, <2>4, <2>6, <2>8, <2>9, <2>11, <2>13 DEF Knows, Writes, Running
  <2>15. QED BY <1>7, <2>1, <2>9, <2>11, <2>12, <2>14
<1>12. ASSUME NEW k \in Attempts, StepCompleted(k) PROVE Turn' /\ Unique' /\ \A j \in Attempts : Knows(j)'
  <2>1. child[k].pc = "executing" /\ child[k].stale = {} /\ child[k].at <= StepCount /\ BuildsOn(k)
    BY <1>5, <1>12 DEF StepCompleted, ChildFits, Writes
  <2>2. PICK i \in Steps : i = child[k].at
    BY <1>5, <2>1, StepAssumption DEF StepChild, Steps
  <2>3. Ends(i) = {}
    BY <1>2, <2>1, <2>2 DEF Knows, Writes, BuildsOn, Steps
  <2>4. /\ records'[k][i].status = "completed" /\ records'[k][i].output = TRUE
        /\ \A l \in Attempts, m \in Steps : (l = k /\ m = i) \/ records'[l][m] = records[l][m]
    <3>1. records' = [records EXCEPT ![k][i].status = "completed", ![k][i].output = TRUE]
      BY <1>12, <2>2 DEF StepCompleted
    <3>2. records \in [Attempts -> [Steps -> StepRecord]] /\ records[k][i] \in StepRecord
      BY <1>2 DEF StepsTypeOK
    <3>3. PICK new : new = [records[k][i] EXCEPT !.status = "completed", !.output = TRUE]
      OBVIOUS
    <3>4. new.status = "completed" /\ new.output = TRUE
      BY <3>2, <3>3 DEF StepRecord
    <3>5. records' = [records EXCEPT ![k][i] = new]
      BY <3>1, <3>2, <3>3
    <3>6. QED BY <3>2, <3>4, <3>5
  <2>5. \A m \in Steps : Ends(m)' = IF m = i THEN {k} ELSE Ends(m)
    BY <2>3, <2>4 DEF Ends
  <2>6. Unique'
    <3>1. \A j \in Attempts, m \in Steps : records'[j][m].output => records'[j][m].status = "completed"
      BY <1>2, <2>4 DEF Unique
    <3>2. \A l \in Attempts, m \in Steps, j \in Attempts : l \in Ends(m)' /\ j \in Ends(m)' => j = l
      BY <1>2, <2>5 DEF Unique
    <3>3. QED BY <3>1, <3>2 DEF Unique
  <2>7. \A j \in Attempts, m \in Steps : ~Running(j, m)'
    BY <1>2, <2>1, <2>2, <2>4 DEF Knows, Running
  <2>8. PICK c : c = Resumed(child[k], i + 1, k)
    OBVIOUS
  <2>9. child' = [child EXCEPT ![k] = c]
    BY <1>12, <2>2, <2>8 DEF StepCompleted
  <2>10. c \in StepChild /\ child'[k] = c
    BY <1>8, <2>9
  <2>11. c.pc = "steps" /\ c.stale = {} /\ c.found = child[k].found /\ c.at >= i + 1 /\ i \in Nat /\ c.at \in Nat
    <3>1. PICK from \in StepChild, at \in 1..(StepCount + 1), p \in 0..StepAttempts :
            from = child[k] /\ at = i + 1 /\ p = k
      BY <1>5, StepAssumption DEF Steps, Attempts
    <3>2. c = Resumed(from, at, p)
      BY <2>8, <3>1
    <3>3. QED BY <2>1, <3>1, <3>2, ResumedChild DEF Steps
  <2>12. ASSUME NEW m \in Steps, m >= c.at, c.found[m] = 0 PROVE Ends(m)' = {}
    <3>1. m # i /\ m >= i
      BY <2>11, <2>12 DEF Steps
    <3>2. Ends(m) = {}
      BY <1>2, <2>1, <2>2, <2>11, <2>12, <3>1 DEF Knows, Writes
    <3>3. QED BY <2>5, <3>1, <3>2
  <2>13. Knows(k)'
    BY <2>7, <2>10, <2>11, <2>12 DEF Knows, Running
  <2>14. QED BY <1>7, <2>1, <2>6, <2>9, <2>10, <2>11, <2>13
<1>13. ASSUME NEW k \in Attempts, StepFailed(k) \/ Return(k) \/ ChildDies(k)
       PROVE  Turn' /\ Unique' /\ \A j \in Attempts : Knows(j)'
  <2>1. child[k].pc \notin {"waiting", "done", "gone"}
    BY <1>13 DEF StepFailed, Return, ChildDies, Over
  <2>2. PICK pc \in {"done", "gone"} : child' = [child EXCEPT ![k] = Ended(pc)]
    BY <1>13 DEF StepFailed, Return, ChildDies
  <2>3. PICK c : c = Ended(pc)
    OBVIOUS
  <2>4. c \in StepChild /\ child'[k] = c /\ c.pc = pc
    BY <1>8, <2>2, <2>3, Values
  <2>5. Knows(k)'
    BY <2>4 DEF Knows, Writes
  <2>6. Unique'
    <3>1. CASE StepFailed(k)
      <4>1. child[k].pc = "executing" /\ child[k].at <= StepCount
        BY <1>5, <3>1 DEF StepFailed, ChildFits
      <4>2. PICK i \in Steps : i = child[k].at
        BY <1>5, <4>1, StepAssumption DEF StepChild, Steps
      <4>3. Running(k, i)
        BY <1>2, <4>1, <4>2 DEF Knows
      <4>4. /\ records'[k][i].output = records[k][i].output
            /\ \A l \in Attempts, m \in Steps : (l = k /\ m = i) \/ records'[l][m] = records[l][m]
        <5>1. records' = [records EXCEPT ![k][i].status = "failed"]
          BY <3>1, <4>2 DEF StepFailed
        <5>2. QED BY <1>2, <5>1, Marked
      <4>5. QED BY <1>2, <4>3, <4>4, UniqueKept DEF Running
    <3>2. CASE UNCHANGED records
      BY <1>2, <3>2 DEF Unique, Ends
    <3>3. QED BY <1>13, <3>1, <3>2 DEF Return, ChildDies
  <2>7. child' = [child EXCEPT ![k] = c]
    BY <2>2, <2>3
  <2>8. QED BY <1>7, <2>1, <2>4, <2>5, <2>6, <2>7
<1>14. CASE UNCHANGED stepVars
  <2>1. UNCHANGED <<records, child>>
    BY <1>14 DEF stepVars
  <2>2. QED BY <1>2, <2>1 DEF Turn, Unique, Knows, Writes, Ends, Running
<1>15. QED BY <1>6, <1>9, <1>10, <1>11, <1>12, <1>13, <1>14 DEF StepsNext

-----------------------------------------------------------------------------
LEMMA StepsInitInv == StepsInit => StepsInv
<1> SUFFICES ASSUME StepsInit PROVE StepsInv
  OBVIOUS
<1>1. Coherent
  BY InitCoherent
<1>2. \A k \in Attempts : child[k] = Waiting /\ \A i \in Steps : records[k][i] = NoRecord
  BY DEF StepsInit
<1>3. Turn /\ Unique /\ \A k \in Attempts : Knows(k)
  <2>1. Turn
    BY <1>2 DEF Turn, Waiting
  <2>2. \A k \in Attempts : Knows(k)
    BY <1>2 DEF Knows, Writes, Waiting
  <2>3. QED BY <1>2, <2>1, <2>2 DEF Unique, Ends, NoRecord
<1>4. OneAtATime
  BY <1>1, <1>3, OneAtATimeParts DEF Coherent
<1>5. QED BY <1>1, <1>4 DEF StepsInv, Coherent

LEMMA StepsStepInv == StepsInv /\ [StepsNext]_stepVars => StepsInv'
<1> SUFFICES ASSUME StepsInv, [StepsNext]_stepVars PROVE StepsInv'
  OBVIOUS
<1>1. Coherent /\ (~overlap => OneAtATime)
  BY DEF StepsInv, Coherent
<1>2. Coherent'
  BY <1>1, NextCoherent
<1>3. ~overlap' => OneAtATime'
  BY <1>1, NextAlone
<1>4. QED BY <1>2, <1>3 DEF StepsInv, Coherent

(* The inductive invariant: what a child remembers of the step table stays *)
(* true of it, however many attempts execute at once; and without overlap  *)
(* one child at a time writes, and knows what was left running.            *)
THEOREM StepsInvariant == StepsSpec => []StepsInv
  BY StepsInitInv, StepsStepInv, PTL DEF StepsSpec

(* A run resumes where it stopped: each step completes once, with the      *)
(* output of the step before it as its input, unless two attempts of the   *)
(* run overlapped; and, overlap or not, an attempt reports success only    *)
(* when every step has an output.                                          *)
THEOREM StepsAreResumed == StepsSpec => []StepsResume
<1>1. StepsInv => StepsResume
  <2> SUFFICES ASSUME StepsInv PROVE StepsResume
    OBVIOUS
  <2>1. Coherent
    BY DEF StepsInv, Coherent
  <2>2. ASSUME ~overlap PROVE ResumesWhereItStopped
    <3>1. Turn /\ Unique /\ \A k \in Attempts : Knows(k)
      BY <2>1, <2>2, OneAtATimeParts DEF StepsInv, Coherent
    <3>2. ASSUME NEW i \in Steps PROVE Cardinality(Ends(i)) <= 1
      <4>1. Ends(i) \subseteq Attempts
        BY DEF Ends
      <4>2. CASE Ends(i) = {}
        BY <4>2, FS_EmptySet
      <4>3. ASSUME NEW k \in Ends(i) PROVE Cardinality(Ends(i)) = 1
        <5>1. Ends(i) = {k}
          BY <3>1, <4>1 DEF Unique
        <5>2. QED BY <5>1, FS_Singleton
      <4>4. QED BY <4>2, <4>3
    <3>3. ASSUME NEW i \in Steps, NEW k \in Ends(i)
          PROVE  records[k][i].status = "completed" /\ (i > 1 => records[k][i].from \in Ends(i - 1))
      BY <2>1, <3>1, <3>3, CoherentParts DEF Unique, RecordFits, Ends
    <3>4. ASSUME NEW k \in Attempts, AtStep(k), NEW j \in Attempts, NEW i \in Steps
          PROVE  records[j][i].status # "running"
      BY <3>1, <3>4 DEF Knows, AtStep, Running
    <3>5. QED BY <3>2, <3>3, <3>4 DEF ResumesWhereItStopped
  <2>3. QED BY <2>1, <2>2 DEF StepsResume, Coherent, ResumesWhereItStopped
<1>2. QED BY <1>1, StepsInvariant, PTL
=============================================================================
