----------------------------- MODULE RedisQueue -----------------------------
(***************************************************************************)
(* The signal queue of the Redis adapter: the rows of RunQueue, each in a  *)
(* hash of its own, and the index keys that the adapter's queries read.  A *)
(* Lua script is one step.  Recovery and purging are several: each reads   *)
(* rows, and later acts on what it read, one run at a time, while other    *)
(* stations go on.  Any number of callers may be recovering and purging at *)
(* once, and any of them may never come to act.                            *)
(***************************************************************************)
EXTENDS RunQueue, FiniteSets

CONSTANT MaxHeld     \* bound on what is read and not acted on yet

ASSUME RedisAssumption == MaxHeld \in Nat

VARIABLES index,     \* the index keys
          scans,     \* what callers of requeueExpiredRuns read and did not act on yet
          purges     \* what callers of purgeRuns read and did not remove yet

redisVars == <<vars, index, scans, purges>>

Indexed == Live \cup Terminal   \* the statuses of a hash that exists

(* The scheduling sorted sets, the completed-at and per-signal sorted sets, *)
(* and one set per status.                                                 *)
NoIndex == [pending |-> {}, running |-> {}, ended |-> {}, listed |-> {},
            byStatus |-> [s \in Indexed |-> {}]]

Scan == [run : Runs, token : Tokens, exhausted : BOOLEAN]

RedisInit == Init /\ index = NoIndex /\ scans = {} /\ purges = {}

-----------------------------------------------------------------------------
(* A run leaves the keys of its status for those of another.  A patch that *)
(* ends it sets completedAt, which enters it in the completed-at set.      *)
MovedKeepsStatusSet(r, from, to) ==   \* deviation: the old status set keeps the id
  [index EXCEPT
    !.byStatus[to] = @ \cup {r},
    !.pending = (IF from = "pending" THEN @ \ {r} ELSE @) \cup (IF to = "pending" THEN {r} ELSE {}),
    !.running = (IF from = "running" THEN @ \ {r} ELSE @) \cup (IF to = "running" THEN {r} ELSE {}),
    !.ended = IF to \in Terminal THEN @ \cup {r} ELSE @]
Moved(r, from, to) ==
  [index EXCEPT
    !.byStatus[from] = @ \ {r}, !.byStatus[to] = @ \cup {r},
    !.pending = (IF from = "pending" THEN @ \ {r} ELSE @) \cup (IF to = "pending" THEN {r} ELSE {}),
    !.running = (IF from = "running" THEN @ \ {r} ELSE @) \cup (IF to = "running" THEN {r} ELSE {}),
    !.ended = IF to \in Terminal THEN @ \cup {r} ELSE @]

(* ADD_RUN_LUA *)
RedisAdd(r) ==
  /\ AddRun(r)
  /\ index' = [index EXCEPT !.pending = @ \cup {r}, !.listed = @ \cup {r},
                            !.byStatus["pending"] = @ \cup {r}]
  /\ UNCHANGED <<scans, purges>>

(* CLAIM_RUN_LUA: the hash and the sorted set must both say pending. *)
RedisClaim(r, s, t) ==
  /\ r \in index.pending
  /\ ClaimRun(r, s, t)
  /\ index' = Moved(r, "pending", "running")
  /\ UNCHANGED <<scans, purges>>

(* CANCEL_RUN_LUA clears both scheduling sets, whichever the run is in. *)
RedisCancel(r) ==
  /\ CancelRun(r)
  /\ index' = [Moved(r, runs[r].status, "cancelled") EXCEPT !.pending = @ \ {r},
                                                           !.running = @ \ {r}]
  /\ UNCHANGED <<scans, purges>>

(* FENCED_UPDATE_LUA: a station reports on its attempt.  RENEW_LEASE_LUA   *)
(* touches no index key.                                                   *)
RedisUpdate(r, t) ==
  /\ UpdateClaimedRun(r, t)
  /\ index' = Moved(r, "running", runs'[r].status)
  /\ UNCHANGED <<scans, purges>>

(* requeueExpiredRuns reads the rows of the running set, and decides on    *)
(* each whose lease has expired by its clock whether an attempt is left.   *)
RequeueScan(E) ==
  /\ E # {} /\ E \subseteq index.running /\ \A r \in E : Lapsed(runs[r])
  /\ scans' = scans \cup
       {[run |-> r, token |-> runs[r].token,
         exhausted |-> runs[r].attempts >= MaxAttempts[r]] : r \in E}
  /\ Cardinality(scans') <= MaxHeld
  /\ UNCHANGED <<vars, index, purges>>

(* ... and updates them one by one, if the token read still owns the run.  *)
Requeued(x) == IF x.exhausted THEN Failed(runs[x.run]) ELSE Retried(runs[x.run])
StillRunning(x) == runs[x.run].status = "running"   \* deviation: whoever owns it
StillOwned(x) == Owns(runs[x.run], x.token)
Requeue(x) ==
  /\ scans' = scans \ {x}
  /\ IF StillOwned(x)
     THEN /\ runs' = [runs EXCEPT ![x.run] = Requeued(x)]
          /\ index' = Moved(x.run, "running", Requeued(x).status)
     ELSE UNCHANGED <<runs, index>>
  /\ UNCHANGED <<granted, credit, purges>>

(* purgeRuns takes the old ids of the completed-at set whose status is one *)
(* of those asked for, ...                                                 *)
PurgeScan(D) ==
  /\ D # {} /\ D \subseteq index.ended /\ \A r \in D : runs[r].status \in Terminal
  /\ purges' = purges \cup D /\ Cardinality(purges') <= MaxHeld
  /\ UNCHANGED <<vars, index, scans>>

(* ... and removeRun deletes them one by one with all their index entries. *)
RemoveRun(r) ==
  /\ purges' = purges \ {r}
  /\ IF runs[r].status \in Indexed
     THEN /\ runs' = [runs EXCEPT ![r].status = "purged"]
          /\ index' = [index EXCEPT
               !.pending = @ \ {r}, !.running = @ \ {r}, !.ended = @ \ {r},
               !.listed = @ \ {r}, !.byStatus[runs[r].status] = @ \ {r}]
     ELSE UNCHANGED <<runs, index>>
  /\ UNCHANGED <<granted, credit, scans>>

RedisNext ==
  \/ \E r \in Runs : RedisAdd(r) \/ RedisCancel(r)
  \/ \E r \in Runs, s \in Stations, t \in Tokens : RedisClaim(r, s, t)
  \/ \E r \in Runs, t \in Tokens : RedisUpdate(r, t)
  \/ \E E \in SUBSET Runs : RequeueScan(E) \/ PurgeScan(E)
  \/ \E x \in scans : Requeue(x)
  \/ \E r \in purges : RemoveRun(r)
  \/ /\ \E r \in Runs : LeaseLapses(r) \/ \E t \in Tokens : RenewRunLease(r, t)
     /\ UNCHANGED <<index, scans, purges>>

RedisSpec == RedisInit /\ [][RedisNext]_redisVars

-----------------------------------------------------------------------------
(* The keys and what callers hold are well formed.                         *)
RedisTypeOK ==
  /\ index \in [pending : SUBSET Runs, running : SUBSET Runs, ended : SUBSET Runs,
                listed : SUBSET Runs, byStatus : [Indexed -> SUBSET Runs]]
  /\ scans \subseteq Scan /\ purges \subseteq Runs

(* The index keys show exactly what the hashes say: no run is due, running, *)
(* counted or kept for purging that is not, and none that is, is missed.    *)
IndexesAgree ==
  /\ \A s \in Indexed : index.byStatus[s] = {r \in Runs : runs[r].status = s}
  /\ index.pending = {r \in Runs : runs[r].status = "pending"}
  /\ index.running = {r \in Runs : runs[r].status = "running"}
  /\ index.ended = {r \in Runs : runs[r].status \in Terminal}
  /\ index.listed = {r \in Runs : runs[r].status \in Indexed}

(* A recovery acts for the attempt whose lease it saw expired: what it read *)
(* is the grant of that attempt, and whether it was the last one allowed.   *)
ScansAreOfGrants ==
  \A x \in scans :
    /\ granted[x.token] # NoClaim /\ granted[x.token].run = x.run
    /\ x.exhausted <=> granted[x.token].attempt >= MaxAttempts[x.run]

(* What is about to be removed has ended. *)
PurgesHaveEnded == \A r \in purges : runs[r].status \in Terminal \cup {"purged"}

RedisInv == IInv /\ RedisTypeOK /\ IndexesAgree /\ ScansAreOfGrants /\ PurgesHaveEnded

(* Commands that are interleaved with those of other stations still add up  *)
(* to operations of the queue contract: a recovery that acts on what it     *)
(* read a while ago settles or frees the attempt it read, or nothing.       *)
KeepsContract == Spec
=============================================================================
