----------------------------- MODULE Membership -----------------------------
(***************************************************************************)
(* The table of stations of a network: every station announces itself,     *)
(* renews its row by heartbeats, marks rows whose lease has expired        *)
(* offline, and takes its own row offline when it stops.  Operators set a  *)
(* station to draining or back to online by rewriting the whole row they   *)
(* read.  The reads and writes of a heartbeat and of such an order are     *)
(* separate calls, and any of them may be overtaken.                       *)
(***************************************************************************)
EXTENDS Naturals

CONSTANTS Members,     \* ids of the stations
          MaxStarts,   \* bound on starts of a station process
          MaxOrders,   \* bound on orders of operators
          MaxDelays    \* bound on leases that expire under a live station

ASSUME MembershipAssumption ==
  MaxStarts \in Nat /\ MaxOrders \in Nat /\ MaxDelays \in Nat

VARIABLES
  roster,   \* station -> its row: status ("none": no row yet), and whether
            \* leaseExpiresAt is still ahead
  process,  \* station -> its process: "up", "stopping" or "down"
  beat,     \* station -> where sendHeartbeat() stands: "idle", the status it
            \* is about to write, or "mark"
  order,    \* the operator's request in progress: which row it read, and the
            \* status to write; of = {} when there is none
  left      \* starts, orders and delays left

membersVars == <<roster, process, beat, order, left>>

Statuses == {"none", "online", "draining", "offline"}
Entry == [status : Statuses, fresh : BOOLEAN]
NoOrder == [of |-> {}, read |-> [status |-> "none", fresh |-> FALSE], to |-> "online"]

MembersInit ==
  /\ roster = [s \in Members |-> [status |-> "none", fresh |-> FALSE]]
  /\ process = [s \in Members |-> "down"]
  /\ beat = [s \in Members |-> "idle"]
  /\ order = NoOrder
  /\ left = [starts |-> MaxStarts, orders |-> MaxOrders, delays |-> MaxDelays]

Spend(what) == left[what] > 0 /\ left' = [left EXCEPT ![what] = @ - 1]
Announced(s, status) == roster' = [roster EXCEPT ![s] = [status |-> status, fresh |-> TRUE]]
Beat(s, from, to) == from /\ beat' = [beat EXCEPT ![s] = to]

MarkedAll == [s \in Members |-> [roster[s] EXCEPT !.status = "offline"]]   \* deviation: live ones too
MarkedOffline ==                 \* markOfflineBefore(now)
  [s \in Members |-> IF roster[s].status # "none" /\ ~roster[s].fresh
                     THEN [roster[s] EXCEPT !.status = "offline"] ELSE roster[s]]

-----------------------------------------------------------------------------
(* The station.                                                            *)
Start(s) ==
  /\ process[s] = "down" /\ Spend("starts")
  /\ process' = [process EXCEPT ![s] = "up"]
  /\ Announced(s, "online")
  /\ UNCHANGED <<beat, order>>
HeartbeatReads(s) ==
  /\ process[s] = "up"
  /\ Beat(s, beat[s] = "idle", IF roster[s].status = "draining" THEN "draining" ELSE "online")
  /\ UNCHANGED <<roster, process, order, left>>
HeartbeatWrites(s) ==
  /\ Beat(s, beat[s] \in {"online", "draining"}, "mark")
  /\ Announced(s, beat[s])
  /\ UNCHANGED <<process, order, left>>
HeartbeatUnmarked(s) ==          \* deviation: nobody looks for expired rows
  /\ Beat(s, beat[s] = "mark", "idle")
  /\ UNCHANGED <<roster, process, order, left>>
HeartbeatMarks(s) ==
  /\ Beat(s, beat[s] = "mark", "idle")
  /\ roster' = MarkedOffline
  /\ UNCHANGED <<process, order, left>>
Stop(s) ==                       \* a heartbeat already under way goes on
  /\ process[s] = "up"
  /\ process' = [process EXCEPT ![s] = "stopping"]
  /\ Announced(s, "offline")
  /\ UNCHANGED <<beat, order, left>>
Dies(s) ==                       \* the end of stop(), or a crash
  /\ process[s] # "down"
  /\ process' = [process EXCEPT ![s] = "down"]
  /\ beat' = [beat EXCEPT ![s] = "idle"]
  /\ UNCHANGED <<roster, order, left>>

(* Operators: PATCH /stations/:id.  The row is written back as it was read *)
(* but for the status, so its lease may have run out since.                *)
OrderReads(s, to) ==
  /\ order = NoOrder /\ roster[s].status # "none" /\ Spend("orders")
  /\ order' = [of |-> {s}, read |-> roster[s], to |-> to]
  /\ UNCHANGED <<roster, process, beat>>
OrderWrites ==
  /\ order # NoOrder
  /\ \E s \in order.of, fresh \in {order.read.fresh, FALSE} :
       roster' = [roster EXCEPT ![s] = [status |-> order.to, fresh |-> fresh]]
  /\ order' = NoOrder
  /\ UNCHANGED <<process, beat, left>>

(* Leases.  A live station renews its own well before it expires, unless   *)
(* it is held up.                                                          *)
Expires(s) ==
  /\ roster[s].fresh
  /\ IF process[s] = "up" THEN Spend("delays") ELSE UNCHANGED left
  /\ roster' = [roster EXCEPT ![s].fresh = FALSE]
  /\ UNCHANGED <<process, beat, order>>

Heartbeat(s) == HeartbeatReads(s) \/ HeartbeatWrites(s) \/ HeartbeatMarks(s)
MembersNext == \/ \E s \in Members : \/ Start(s) \/ Heartbeat(s) \/ Stop(s) \/ Dies(s) \/ Expires(s)
                              \/ \E to \in {"online", "draining"} : OrderReads(s, to)
        \/ OrderWrites

(* Heartbeats recur; requests are answered; the lease of a station that is *)
(* no longer up runs out.  No station has to start, stop or die.           *)
MembersFairness ==
  /\ \A s \in Members : WF_membersVars(Heartbeat(s)) /\ WF_membersVars(process[s] # "up" /\ Expires(s))
  /\ WF_membersVars(OrderWrites)

-----------------------------------------------------------------------------
MembersTypeOK ==
  /\ roster \in [Members -> Entry]
  /\ process \in [Members -> {"up", "stopping", "down"}]
  /\ beat \in [Members -> {"idle", "online", "draining", "mark"}]
  /\ order.of \subseteq Members /\ order.read \in Entry /\ order.to \in {"online", "draining"}
  /\ left \in [starts : 0..MaxStarts, orders : 0..MaxOrders, delays : 0..MaxDelays]

(* A live station is written off only while its lease has run out, and that *)
(* it does only if the station was held up or an operator wrote an old copy *)
(* of its row back; and no station drains that no operator told to drain.   *)
WrittenOffForCause ==
  \A s \in Members : process[s] = "up" =>
    /\ roster[s].status # "none"
    /\ roster[s].status = "offline" => ~roster[s].fresh
    /\ ~roster[s].fresh => left.delays < MaxDelays \/ left.orders < MaxOrders
OnlyOrdersDrain ==
  left.orders = MaxOrders =>
    order = NoOrder /\ \A s \in Members : roster[s].status # "draining" /\ beat[s] # "draining"
MembersInv == MembersTypeOK /\ WrittenOffForCause /\ OnlyOrdersDrain

\* A station that died is found out: while another one lives, its row ends up
\* offline and stays so, though its own last heartbeat or an operator's order
\* was still under way.
DeadGoesOffline ==
  \A s \in Members :
    <>[](process[s] = "down" /\ \E t \in Members : process[t] = "up")
      => <>[](roster[s].status \in {"offline", "none"})

\* A station that lives is not written off: it ends up online or draining for
\* good, though it was held up, or a stale copy of its row was written back.
LiveStaysListed ==
  \A s \in Members :
    <>[](process[s] = "up") => <>[](roster[s].status \in {"online", "draining"})
=============================================================================
