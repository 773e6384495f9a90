--------------------------- MODULE ServicesProofs ---------------------------
(***************************************************************************)
(* Proofs about the table of stations, for any members and any number of   *)
(* starts, orders and delays; and about the services put side by side: the *)
(* inductive invariants of their tables hold whichever of them is in use.  *)
(***************************************************************************)
EXTENDS MCServices, RunQueueProofs, StepProofs

-----------------------------------------------------------------------------
(* What is spent of a budget is less of it, and stays spent. *)
LEMMA Budgets ==
  ASSUME MembersTypeOK
  PROVE  /\ left.orders \in Nat /\ left.delays \in Nat /\ MaxOrders \in Nat /\ MaxDelays \in Nat
         /\ left.orders <= MaxOrders /\ left.delays <= MaxDelays
  BY MembershipAssumption DEF MembersTypeOK

LEMMA SpendIsLess ==
  ASSUME MembersTypeOK, NEW what \in {"starts", "orders", "delays"}, Spend(what)
  PROVE  /\ left' \in [starts : 0..MaxStarts, orders : 0..MaxOrders, delays : 0..MaxDelays]
         /\ left'.orders <= left.orders /\ left'.delays <= left.delays
         /\ left'.orders \in Nat /\ left'.delays \in Nat
         /\ what = "orders" => left'.orders < MaxOrders
         /\ what = "delays" => left'.delays < MaxDelays
  BY MembershipAssumption DEF Spend, MembersTypeOK

LEMMA NothingSpent ==
  ASSUME MembersTypeOK, left' = left
  PROVE  /\ left' \in [starts : 0..MaxStarts, orders : 0..MaxOrders, delays : 0..MaxDelays]
         /\ left'.orders <= left.orders /\ left'.delays <= left.delays
         /\ left'.orders \in Nat /\ left'.delays \in Nat
  BY MembershipAssumption DEF MembersTypeOK

LEMMA MembersInitInv == MembersInit => MembersInv
  BY MembershipAssumption DEF MembersInit, MembersInv, MembersTypeOK, WrittenOffForCause,
                              OnlyOrdersDrain, Entry, Statuses, NoOrder

(* A row of a station that is written while no order was ever given. *)
LEMMA AnnouncedRow ==
  ASSUME MembersTypeOK, NEW s \in Members, NEW status \in Statuses, Announced(s, status)
  PROVE  /\ roster' \in [Members -> Entry]
         /\ roster'[s] = [status |-> status, fresh |-> TRUE]
         /\ \A q \in Members \ {s} : roster'[q] = roster[q]
  BY DEF Announced, MembersTypeOK, Entry

(* Each conjunct of MembersInv over a step, from what the step does to one  *)
(* row and to the budgets.                                                  *)
LEMMA MembersStepInv == MembersInv /\ [MembersNext]_membersVars => MembersInv'
<1> SUFFICES ASSUME MembersInv, [MembersNext]_membersVars PROVE MembersInv'
  OBVIOUS
<1>1. MembersTypeOK /\ WrittenOffForCause /\ OnlyOrdersDrain
  BY DEF MembersInv
<1> USE <1>1
<1>2. ASSUME NEW s \in Members, Start(s) PROVE MembersInv'
  <2>1. /\ left' \in [starts : 0..MaxStarts, orders : 0..MaxOrders, delays : 0..MaxDelays]
        /\ left'.orders = left.orders /\ left'.delays = left.delays
    BY <1>2, SpendIsLess DEF Start, Spend, MembersTypeOK
  <2>2. Announced(s, "online") /\ process' = [process EXCEPT ![s] = "up"] /\ UNCHANGED <<beat, order>>
    BY <1>2 DEF Start
  <2>3. QED BY <2>1, <2>2, AnnouncedRow
         DEF MembersInv, MembersTypeOK, WrittenOffForCause, OnlyOrdersDrain, Statuses
<1>3. ASSUME NEW s \in Members, HeartbeatReads(s) PROVE MembersInv'
  BY <1>3 DEF HeartbeatReads, Beat, MembersInv, MembersTypeOK, WrittenOffForCause, OnlyOrdersDrain
<1>4. ASSUME NEW s \in Members, HeartbeatWrites(s) PROVE MembersInv'
  <2>1. PICK status \in {"online", "draining"} : status = beat[s] /\ Announced(s, status)
    BY <1>4 DEF HeartbeatWrites, Beat
  <2>2. beat' = [beat EXCEPT ![s] = "mark"] /\ UNCHANGED <<process, order, left>>
    BY <1>4 DEF HeartbeatWrites, Beat
  <2>3. QED BY <2>1, <2>2, AnnouncedRow
         DEF MembersInv, MembersTypeOK, WrittenOffForCause, OnlyOrdersDrain, Statuses
<1>5. ASSUME NEW s \in Members, HeartbeatMarks(s) PROVE MembersInv'
  <2>1. ASSUME NEW q \in Members
        PROVE  /\ roster'[q] \in Entry /\ roster'[q].fresh = roster[q].fresh
               /\ roster'[q].status \in {roster[q].status, "offline"}
               /\ roster[q].fresh => roster'[q] = roster[q]
               /\ roster[q].status = "none" <=> roster'[q].status = "none"
    BY <1>5 DEF HeartbeatMarks, MarkedOffline, MembersTypeOK, Entry, Statuses
  <2>2. roster' \in [Members -> Entry]
    BY <1>5, <2>1 DEF HeartbeatMarks, MarkedOffline
  <2>3. beat' = [beat EXCEPT ![s] = "idle"] /\ UNCHANGED <<process, order, left>>
    BY <1>5 DEF HeartbeatMarks, Beat
  <2>4. QED BY <2>1, <2>2, <2>3
         DEF MembersInv, MembersTypeOK, WrittenOffForCause, OnlyOrdersDrain
<1>6. ASSUME NEW s \in Members, Stop(s) PROVE MembersInv'
  <2>1. /\ Announced(s, "offline") /\ process' = [process EXCEPT ![s] = "stopping"]
        /\ UNCHANGED <<beat, order, left>>
    BY <1>6 DEF Stop
  <2>2. QED BY <2>1, AnnouncedRow
         DEF MembersInv, MembersTypeOK, WrittenOffForCause, OnlyOrdersDrain, Statuses
<1>7. ASSUME NEW s \in Members, Dies(s) PROVE MembersInv'
  BY <1>7 DEF Dies, MembersInv, MembersTypeOK, WrittenOffForCause, OnlyOrdersDrain
<1>8. ASSUME NEW s \in Members, Expires(s) PROVE MembersInv'
  <2>1. /\ roster' = [roster EXCEPT ![s].fresh = FALSE]
        /\ UNCHANGED <<process, beat, order>>
    BY <1>8 DEF Expires
  <2>2. /\ left' \in [starts : 0..MaxStarts, orders : 0..MaxOrders, delays : 0..MaxDelays]
        /\ left'.orders = left.orders /\ left'.delays <= left.delays
        /\ left'.orders \in Nat /\ left'.delays \in Nat
        /\ process[s] = "up" => left'.delays < MaxDelays
    <3>1. CASE process[s] = "up"
      BY <1>8, <3>1, SpendIsLess DEF Expires, Spend, MembersTypeOK
    <3>2. CASE process[s] # "up"
      BY <1>8, <3>2, NothingSpent DEF Expires
    <3>3. QED BY <3>1, <3>2
  <2>3. /\ roster' \in [Members -> Entry]
        /\ roster'[s].status = roster[s].status /\ ~roster'[s].fresh
        /\ \A q \in Members \ {s} : roster'[q] = roster[q]
    BY <2>1 DEF MembersTypeOK, Entry
  <2>4. QED BY <2>1, <2>2, <2>3, Budgets
         DEF MembersInv, MembersTypeOK, WrittenOffForCause, OnlyOrdersDrain
<1>9. ASSUME NEW s \in Members, NEW to \in {"online", "draining"}, OrderReads(s, to)
      PROVE  MembersInv'
  <2>1. /\ left' \in [starts : 0..MaxStarts, orders : 0..MaxOrders, delays : 0..MaxDelays]
        /\ left'.orders < MaxOrders /\ left'.delays <= left.delays
    BY <1>9, SpendIsLess DEF OrderReads
  <2>2. /\ order' = [of |-> {s}, read |-> roster[s], to |-> to]
        /\ UNCHANGED <<roster, process, beat>>
    BY <1>9 DEF OrderReads
  <2>3. QED BY <2>1, <2>2 DEF MembersInv, MembersTypeOK, WrittenOffForCause, OnlyOrdersDrain
<1>10. ASSUME OrderWrites PROVE MembersInv'
  <2>1. PICK s \in order.of, fresh \in {order.read.fresh, FALSE} :
          roster' = [roster EXCEPT ![s] = [status |-> order.to, fresh |-> fresh]]
    BY <1>10 DEF OrderWrites
  <2>2. order' = NoOrder /\ UNCHANGED <<process, beat, left>> /\ order # NoOrder
    BY <1>10 DEF OrderWrites
  <2>3. left.orders < MaxOrders
    BY <2>2, Budgets DEF OnlyOrdersDrain
  <2>4. /\ s \in Members /\ roster' \in [Members -> Entry]
        /\ roster'[s].status \in {"online", "draining"}
        /\ \A q \in Members \ {s} : roster'[q] = roster[q]
    BY <2>1 DEF MembersTypeOK, Entry, Statuses
  <2>5. order'.of \subseteq Members /\ order'.read \in Entry /\ order'.to \in {"online", "draining"}
    BY <2>2 DEF NoOrder, Entry, Statuses
  <2>6. QED BY <2>2, <2>3, <2>4, <2>5
         DEF MembersInv, MembersTypeOK, WrittenOffForCause, OnlyOrdersDrain
<1>11. CASE UNCHANGED membersVars
  BY <1>11 DEF membersVars, MembersInv, MembersTypeOK, WrittenOffForCause, OnlyOrdersDrain
<1>12. QED
  BY <1>2, <1>3, <1>4, <1>5, <1>6, <1>7, <1>8, <1>9, <1>10, <1>11 DEF MembersNext, Heartbeat

(* A station that renews its lease in time is never written off by another *)
(* one's heartbeat, and heartbeats drain no station of their own accord.   *)
THEOREM MembersInvariant ==
  MembersInit /\ [][MembersNext]_membersVars => [](WrittenOffForCause /\ OnlyOrdersDrain)
<1>1. MembersInv => WrittenOffForCause /\ OnlyOrdersDrain
  BY DEF MembersInv
<1>2. QED BY <1>1, MembersInitInv, MembersStepInv, PTL

-----------------------------------------------------------------------------
(* A service that is not in use keeps its tables as they were set up. *)
LEMMA ServicesInitInv == ServicesInit => TablesCoherent
<1> SUFFICES ASSUME ServicesInit PROVE TablesCoherent
  OBVIOUS
<1>1. RedisInv /\ IInv
  BY RedisInitInv DEF ServicesInit, RedisInv
<1>2. StepsInv
  BY StepsInitInv DEF ServicesInit
<1>3. NoMember => MembersInv
  BY MembershipAssumption DEF NoMember, MembersInv, MembersTypeOK, WrittenOffForCause,
                              OnlyOrdersDrain, Entry, Statuses, NoOrder
<1>4. MembersInv
  BY <1>3, MembersInitInv DEF ServicesInit
<1>5. QED BY <1>1, <1>2, <1>4 DEF TablesCoherent

LEMMA ServicesStepInv ==
  TablesCoherent /\ [ServicesNext]_<<use, vars, keys, stepVars, schedule, members, defVars>>
    => TablesCoherent'
<1> SUFFICES ASSUME TablesCoherent,
                    [ServicesNext]_<<use, vars, keys, stepVars, schedule, members, defVars>>
             PROVE  TablesCoherent'
  OBVIOUS
<1>1. IInv /\ StepsInv /\ MembersInv /\ (use = "redis" => RedisInv)
  BY DEF TablesCoherent
<1>2. ASSUME UNCHANGED vars PROVE IInv'
  BY <1>1, <1>2, StepInv
<1>3. ASSUME UNCHANGED stepVars PROVE StepsInv'
  BY <1>1, <1>3, StepsStepInv
<1>4. ASSUME UNCHANGED members PROVE MembersInv'
  <2>1. UNCHANGED membersVars
    BY <1>4 DEF members, membersVars
  <2>2. QED BY <1>1, <2>1, MembersStepInv
<1>5. ASSUME UNCHANGED <<use, vars, keys>> PROVE use' = "redis" => RedisInv'
  <2>1. UNCHANGED redisVars /\ use' = use
    BY <1>5 DEF keys, redisVars
  <2>2. QED BY <1>1, <2>1, RedisStepInv
<1>6. CASE use = "queue" /\ Next /\ UNCHANGED <<use, keys, stepVars, schedule, members, defVars>>
  <2>1. IInv' /\ use' # "redis"
    BY <1>1, <1>6, StepInv
  <2>2. QED BY <1>3, <1>4, <1>6, <2>1 DEF TablesCoherent
<1>7. CASE use = "redis" /\ RedisNext /\ UNCHANGED <<use, stepVars, schedule, members, defVars>>
  <2>1. RedisInv'
    BY <1>1, <1>7, RedisStepInv
  <2>2. IInv'
    BY <2>1 DEF RedisInv
  <2>3. QED BY <1>3, <1>4, <1>7, <2>1, <2>2 DEF TablesCoherent
<1>8. CASE use = "steps" /\ StepsNext /\ UNCHANGED <<use, vars, keys, schedule, members, defVars>>
  <2>1. StepsInv'
    BY <1>1, <1>8, StepsStepInv
  <2>2. QED BY <1>2, <1>4, <1>5, <1>8, <2>1 DEF TablesCoherent
<1>9. CASE UNCHANGED <<use, vars, keys, stepVars, members>>
  BY <1>2, <1>3, <1>4, <1>5, <1>9 DEF TablesCoherent
<1>10. CASE MembersNext /\ UNCHANGED <<use, vars, keys, stepVars, schedule, defVars>>
  <2>1. MembersInv'
    BY <1>1, <1>10, MembersStepInv
  <2>2. QED BY <1>2, <1>3, <1>5, <1>10, <2>1 DEF TablesCoherent
<1>11. QED BY <1>6, <1>7, <1>8, <1>9, <1>10 DEF ServicesNext

(* Whichever service is in use, its tables and what its clients remember   *)
(* of them fit together at every moment.                                   *)
THEOREM ServicesCoherent == ServicesSpec => []TablesCoherent
  BY ServicesInitInv, ServicesStepInv, PTL DEF ServicesSpec
=============================================================================
