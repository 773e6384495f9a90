---------------------------- MODULE BeaconProofs ----------------------------
(***************************************************************************)
(* Proofs about the supervisors of a beacon: any number of stations, any   *)
(* deployment, any number of requests and faults.                          *)
(***************************************************************************)
EXTENDS BeaconRunner, TLAPS

Desires  == {"running", "stopped"}
Statuses == {"backoff", "starting", "running", "stopping", "stopped", "errored"}
Dues     == {"no", "later", "now"}

-----------------------------------------------------------------------------
(* What a patch does to a record.                                          *)
LEMMA Constants ==
  NoInstance \in Instance /\ Created \in Instance /\ Stopped \in Instance
BY DEF NoInstance, Created, Stopped, Instance

LEMMA StatusPatch ==
  ASSUME NEW r \in Instance, NEW st \in Statuses
  PROVE  LET new == With(r, [status |-> st])
         IN  /\ new \in Instance /\ new.there = r.there /\ new.desired = r.desired
             /\ new.status = st /\ new.due = r.due
BY DEF With, Instance, Statuses

LEMMA RestartPatch ==
  ASSUME NEW r \in Instance, NEW st \in Statuses, NEW d \in Dues
  PROVE  LET new == With(r, [status |-> st, due |-> d])
         IN  /\ new \in Instance /\ new.there = r.there /\ new.desired = r.desired
             /\ new.status = st /\ new.due = d
BY DEF With, Instance, Statuses, Dues

LEMMA DesirePatch ==
  ASSUME NEW r \in Instance, NEW to \in Desires
  PROVE  LET new == With(r, [desired |-> to])
         IN  /\ new \in Instance /\ new.there = r.there /\ new.desired = to
             /\ new.status = r.status /\ new.due = r.due
BY DEF With, Instance, Desires

LEMMA CleanPatch ==
  ASSUME NEW r \in Instance, NEW st \in Statuses, NEW to \in Desires
  PROVE  LET new == With(r, [status |-> st, desired |-> to])
         IN  /\ new \in Instance /\ new.there = r.there /\ new.desired = to
             /\ new.status = st /\ new.due = r.due
BY DEF With, Instance, Statuses, Desires

LEMMA DuePatch ==
  ASSUME NEW r \in Instance, NEW d \in Dues
  PROVE  LET new == With(r, [due |-> d])
         IN  /\ new \in Instance /\ new.there = r.there /\ new.desired = r.desired
             /\ new.status = r.status /\ new.due = d
BY DEF With, Instance, Dues

LEMMA LaunchPatch ==
  ASSUME NEW r \in Instance
  PROVE  LET new == With(r, Launchable)
         IN  /\ new \in Instance /\ new.there = r.there /\ new.desired = "running"
             /\ new.status = "backoff" /\ new.due = "now"
BY DEF With, Instance, Launchable

LEMMA TouchPatch ==
  ASSUME NEW r \in Instance
  PROVE  LET new == With(r, Touch)
         IN  /\ new \in Instance /\ new.there = r.there /\ new.desired = r.desired
             /\ new.status = r.status /\ new.due = r.due
BY DEF With, Instance, Touch

-----------------------------------------------------------------------------
(* The worlds a station takes to each other: only its own copy and its own *)
(* entry change, besides the row.                                          *)
Worlds == [row : Instance, inst : [Stations -> Instance],
           fresher : [Stations -> BOOLEAN], sup : [Stations -> Supervised]]
Near(s, w) ==
  /\ w \in Worlds
  /\ \A t \in Stations : t # s => w.inst[t] = inst[t] /\ w.sup[t] = sup[t]
IsPatch(fields) ==
  \A r \in Instance : With(r, fields) \in Instance /\ With(r, fields).there = r.there

Put(w, s, i) == [w EXCEPT !.inst[s] = i]
Seen(w, s)   == [w EXCEPT !.fresher[s] = FALSE]

LEMMA WorldNear ==
  ASSUME TypeOK, NEW s \in Stations
  PROVE  /\ Near(s, World) /\ World.row = row /\ World.inst = inst /\ World.fresher = fresher
         /\ World.sup = sup
BY DEF TypeOK, Near, World, Worlds

LEMMA InWorld ==
  ASSUME NEW s \in Stations, NEW w, Near(s, w)
  PROVE  w.sup[s] \in Supervised /\ w.inst[s] \in Instance /\ w.row \in Instance
BY DEF Near, Worlds

LEMMA CopyNear ==
  ASSUME NEW s \in Stations, NEW w, Near(s, w), NEW i \in Instance,
         NEW x, x = Put(w, s, i)
  PROVE  /\ Near(s, x) /\ x.row = w.row /\ x.sup = w.sup /\ x.inst[s] = i
<1>1. w \in Worlds /\ w.inst \in [Stations -> Instance]
  BY DEF Near, Worlds
<1>2. x \in Worlds /\ x.row = w.row /\ x.sup = w.sup /\ x.inst = [w.inst EXCEPT ![s] = i]
  BY <1>1 DEF Worlds, Put
<1>3. x.inst[s] = i /\ \A t \in Stations : t # s => x.inst[t] = w.inst[t]
  BY <1>1, <1>2
<1>4. Near(s, x)
  BY <1>2, <1>3 DEF Near
<1>5. QED BY <1>2, <1>3, <1>4

LEMMA PatchedNear ==
  ASSUME NEW s \in Stations, NEW w, Near(s, w), NEW fields, IsPatch(fields),
         NEW x, x = Patched(w, s, fields)
  PROVE  /\ Near(s, x) /\ x.sup = w.sup /\ x.row.there = w.row.there
         /\ w.inst[s].there => x.inst[s] = With(w.inst[s], fields)
         /\ ~w.inst[s].there => x.inst[s] = w.inst[s]
<1> DEFINE new == With(w.inst[s], fields)
           newRow == With(w.row, fields)
           newer == [t \in Stations |-> t # s /\ w.inst[t].there]
<1>1. w \in Worlds /\ w.inst \in [Stations -> Instance] /\ w.row \in Instance
  BY DEF Near, Worlds
<1>2. new \in Instance /\ newRow \in Instance /\ newRow.there = w.row.there
  BY <1>1 DEF IsPatch
<1>3. newer \in [Stations -> BOOLEAN]
  BY <1>1 DEF Instance
<1>4. ~w.inst[s].there => Patched(w, s, fields) = w
  BY DEF Patched
<1>5. w.inst[s].there =>
        \/ Patched(w, s, fields) = [w EXCEPT !.inst[s] = new]
        \/ Patched(w, s, fields) = [w EXCEPT !.inst[s] = new, !.row = newRow, !.fresher = newer]
  BY DEF Patched
<1> HIDE DEF new, newRow, newer
<1>6. CASE x = [w EXCEPT !.inst[s] = new]
  BY <1>1, <1>2, <1>4, <1>6 DEF Near, Worlds, new
<1>7. CASE x = [w EXCEPT !.inst[s] = new, !.row = newRow, !.fresher = newer]
  <2>1. PICK copied :
          /\ copied = [w EXCEPT !.inst[s] = new] /\ copied \in Worlds /\ copied.sup = w.sup
          /\ copied.inst = [w.inst EXCEPT ![s] = new]
    <3>1. PICK copied : copied = [w EXCEPT !.inst[s] = new]
      OBVIOUS
    <3>2. copied \in Worlds /\ copied.sup = w.sup /\ copied.inst = [w.inst EXCEPT ![s] = new]
      BY <1>1, <1>2, <3>1 DEF Worlds
    <3>3. QED BY <3>1, <3>2
  <2>2. x = [copied EXCEPT !.row = newRow, !.fresher = newer]
    BY <1>7, <2>1
  <2>3. x \in Worlds /\ x.row = newRow /\ x.sup = w.sup /\ x.inst = [w.inst EXCEPT ![s] = new]
    BY <1>2, <1>3, <2>1, <2>2 DEF Worlds
  <2>4. x.inst[s] = new /\ \A t \in Stations : t # s => x.inst[t] = w.inst[t]
    BY <1>1, <2>3
  <2>5. Near(s, x)
    BY <2>3, <2>4 DEF Near
  <2>6. QED BY <1>1, <1>2, <1>4, <2>3, <2>4, <2>5 DEF new
<1>8. CASE ~w.inst[s].there
  BY <1>4, <1>8
<1>9. QED BY <1>5, <1>6, <1>7, <1>8

(* The same, patch by patch. *)
LEMMA TouchNear ==
  ASSUME NEW s \in Stations, NEW w, Near(s, w),
         NEW x, x = Patched(w, s, Touch)
  PROVE  /\ Near(s, x) /\ x.sup = w.sup /\ x.row.there = w.row.there
         /\ x.inst[s].there = w.inst[s].there
         /\ ~w.inst[s].there => x.inst[s] = w.inst[s]
         /\ x.inst[s].desired = w.inst[s].desired /\ x.inst[s].status = w.inst[s].status /\ x.inst[s].due = w.inst[s].due
<1>1. PICK fields : fields = Touch
  OBVIOUS
<1>2. \A r \in Instance :
        /\ With(r, fields) \in Instance /\ With(r, fields).there = r.there
        /\ With(r, fields).desired = r.desired
        /\ With(r, fields).status = r.status
        /\ With(r, fields).due = r.due
  BY <1>1, TouchPatch
<1>3. IsPatch(fields) /\ w.inst[s] \in Instance
  BY <1>2, InWorld DEF IsPatch
<1>4. x = Patched(w, s, fields)
  BY <1>1
<1>5. QED BY <1>2, <1>3, <1>4, PatchedNear

LEMMA StatusNear ==
  ASSUME NEW s \in Stations, NEW w, Near(s, w),
         NEW st \in Statuses,
         NEW x, x = Patched(w, s, [status |-> st])
  PROVE  /\ Near(s, x) /\ x.sup = w.sup /\ x.row.there = w.row.there
         /\ x.inst[s].there = w.inst[s].there
         /\ ~w.inst[s].there => x.inst[s] = w.inst[s]
         /\ x.inst[s].desired = w.inst[s].desired /\ x.inst[s].due = w.inst[s].due
         /\ w.inst[s].there => x.inst[s].status = st
<1>1. PICK fields : fields = [status |-> st]
  OBVIOUS
<1>2. \A r \in Instance :
        /\ With(r, fields) \in Instance /\ With(r, fields).there = r.there
        /\ With(r, fields).desired = r.desired
        /\ With(r, fields).status = st
        /\ With(r, fields).due = r.due
  BY <1>1, StatusPatch
<1>3. IsPatch(fields) /\ w.inst[s] \in Instance
  BY <1>2, InWorld DEF IsPatch
<1>4. x = Patched(w, s, fields)
  BY <1>1
<1>5. QED BY <1>2, <1>3, <1>4, PatchedNear

LEMMA RestartNear ==
  ASSUME NEW s \in Stations, NEW w, Near(s, w),
         NEW st \in Statuses, NEW d \in Dues,
         NEW x, x = Patched(w, s, [status |-> st, due |-> d])
  PROVE  /\ Near(s, x) /\ x.sup = w.sup /\ x.row.there = w.row.there
         /\ x.inst[s].there = w.inst[s].there
         /\ ~w.inst[s].there => x.inst[s] = w.inst[s]
         /\ x.inst[s].desired = w.inst[s].desired
         /\ w.inst[s].there => x.inst[s].status = st /\ x.inst[s].due = d
<1>1. PICK fields : fields = [status |-> st, due |-> d]
  OBVIOUS
<1>2. \A r \in Instance :
        /\ With(r, fields) \in Instance /\ With(r, fields).there = r.there
        /\ With(r, fields).desired = r.desired
        /\ With(r, fields).status = st
        /\ With(r, fields).due = d
  BY <1>1, RestartPatch
<1>3. IsPatch(fields) /\ w.inst[s] \in Instance
  BY <1>2, InWorld DEF IsPatch
<1>4. x = Patched(w, s, fields)
  BY <1>1
<1>5. QED BY <1>2, <1>3, <1>4, PatchedNear

LEMMA DesireNear ==
  ASSUME NEW s \in Stations, NEW w, Near(s, w),
         NEW to \in Desires,
         NEW x, x = Patched(w, s, [desired |-> to])
  PROVE  /\ Near(s, x) /\ x.sup = w.sup /\ x.row.there = w.row.there
         /\ x.inst[s].there = w.inst[s].there
         /\ ~w.inst[s].there => x.inst[s] = w.inst[s]
         /\ x.inst[s].status = w.inst[s].status /\ x.inst[s].due = w.inst[s].due
         /\ w.inst[s].there => x.inst[s].desired = to
<1>1. PICK fields : fields = [desired |-> to]
  OBVIOUS
<1>2. \A r \in Instance :
        /\ With(r, fields) \in Instance /\ With(r, fields).there = r.there
        /\ With(r, fields).desired = to
        /\ With(r, fields).status = r.status
        /\ With(r, fields).due = r.due
  BY <1>1, DesirePatch
<1>3. IsPatch(fields) /\ w.inst[s] \in Instance
  BY <1>2, InWorld DEF IsPatch
<1>4. x = Patched(w, s, fields)
  BY <1>1
<1>5. QED BY <1>2, <1>3, <1>4, PatchedNear

LEMMA CleanNear ==
  ASSUME NEW s \in Stations, NEW w, Near(s, w),
         NEW st \in Statuses, NEW to \in Desires,
         NEW x, x = Patched(w, s, [status |-> st, desired |-> to])
  PROVE  /\ Near(s, x) /\ x.sup = w.sup /\ x.row.there = w.row.there
         /\ x.inst[s].there = w.inst[s].there
         /\ ~w.inst[s].there => x.inst[s] = w.inst[s]
         /\ x.inst[s].due = w.inst[s].due
         /\ w.inst[s].there => x.inst[s].status = st /\ x.inst[s].desired = to
<1>1. PICK fields : fields = [status |-> st, desired |-> to]
  OBVIOUS
<1>2. \A r \in Instance :
        /\ With(r, fields) \in Instance /\ With(r, fields).there = r.there
        /\ With(r, fields).desired = to
        /\ With(r, fields).status = st
        /\ With(r, fields).due = r.due
  BY <1>1, CleanPatch
<1>3. IsPatch(fields) /\ w.inst[s] \in Instance
  BY <1>2, InWorld DEF IsPatch
<1>4. x = Patched(w, s, fields)
  BY <1>1
<1>5. QED BY <1>2, <1>3, <1>4, PatchedNear

LEMMA LaunchNear ==
  ASSUME NEW s \in Stations, NEW w, Near(s, w),
         NEW x, x = Patched(w, s, Launchable)
  PROVE  /\ Near(s, x) /\ x.sup = w.sup /\ x.row.there = w.row.there
         /\ x.inst[s].there = w.inst[s].there
         /\ ~w.inst[s].there => x.inst[s] = w.inst[s]
         /\ w.inst[s].there => x.inst[s].desired = "running" /\ x.inst[s].status = "backoff" /\ x.inst[s].due = "now"
<1>1. PICK fields : fields = Launchable
  OBVIOUS
<1>2. \A r \in Instance :
        /\ With(r, fields) \in Instance /\ With(r, fields).there = r.there
        /\ With(r, fields).desired = "running"
        /\ With(r, fields).status = "backoff"
        /\ With(r, fields).due = "now"
  BY <1>1, LaunchPatch
<1>3. IsPatch(fields) /\ w.inst[s] \in Instance
  BY <1>2, InWorld DEF IsPatch
<1>4. x = Patched(w, s, fields)
  BY <1>1
<1>5. QED BY <1>2, <1>3, <1>4, PatchedNear

LEMMA Fresh ==
  freshSupervised \in Supervised /\ \A f \in Flags : freshSupervised[f] = FALSE
BY DEF freshSupervised, Supervised

LEMMA FlaggedNear ==
  ASSUME NEW s \in Stations, NEW w, Near(s, w), NEW flag \in Flags,
         NEW x, x = Flagged(w, s, flag)
  PROVE  /\ Near(s, x) /\ x.row = w.row /\ x.inst = w.inst
         /\ x.sup[s][flag]
         /\ \A f \in Flags : f # flag => x.sup[s][f] = w.sup[s][f]
<1>1. w \in Worlds /\ w.sup \in [Stations -> Supervised]
  BY DEF Near, Worlds
<1> DEFINE entry == [w.sup[s] EXCEPT ![flag] = TRUE]
<1>2. entry \in Supervised /\ entry[flag] = TRUE
      /\ \A f \in Flags : f # flag => entry[f] = w.sup[s][f]
  BY <1>1 DEF Supervised
<1>3. Flagged(w, s, flag) = [w EXCEPT !.sup[s] = entry]
  BY DEF Flagged
<1> HIDE DEF entry
<1>4. x = [w EXCEPT !.sup[s] = entry]
  BY <1>3
<1>5. /\ x \in Worlds /\ x.row = w.row /\ x.inst = w.inst
      /\ x.sup = [w.sup EXCEPT ![s] = entry]
  BY <1>1, <1>2, <1>4 DEF Worlds
<1>6. x.sup[s] = entry /\ \A t \in Stations : t # s => x.sup[t] = w.sup[t]
  BY <1>1, <1>5
<1>7. Near(s, x)
  BY <1>5, <1>6 DEF Near
<1>8. QED BY <1>2, <1>3, <1>4, <1>5, <1>6, <1>7

LEMMA ResetNear ==
  ASSUME NEW s \in Stations, NEW w, Near(s, w),
         NEW x, x = Reset(w, s)
  PROVE  /\ Near(s, x) /\ x.row = w.row /\ x.inst = w.inst
         /\ \A f \in Flags : ~x.sup[s][f]
<1>1. w \in Worlds /\ w.sup \in [Stations -> Supervised] /\ freshSupervised \in Supervised
  BY Fresh DEF Near, Worlds
<1>2. x = [w EXCEPT !.sup[s] = freshSupervised]
  BY DEF Reset
<1>3. /\ x \in Worlds /\ x.row = w.row /\ x.inst = w.inst
      /\ x.sup = [w.sup EXCEPT ![s] = freshSupervised]
  BY <1>1, <1>2 DEF Worlds
<1>4. x.sup[s] = freshSupervised /\ \A t \in Stations : t # s => x.sup[t] = w.sup[t]
  BY <1>1, <1>3
<1>5. Near(s, x)
  BY <1>3, <1>4 DEF Near
<1>6. QED BY <1>2, <1>3, <1>4, <1>5, Fresh DEF Reset

LEMMA StaleNear ==
  ASSUME NEW s \in Stations, NEW w, Near(s, w), NEW x, x = Seen(w, s)
  PROVE  /\ Near(s, x) /\ x.row = w.row /\ x.sup = w.sup /\ x.inst = w.inst
<1>1. w \in Worlds /\ w.fresher \in [Stations -> BOOLEAN]
  BY DEF Near, Worlds
<1>2. x \in Worlds /\ x.row = w.row /\ x.sup = w.sup /\ x.inst = w.inst
  BY <1>1 DEF Worlds, Seen
<1>3. Near(s, x)
  BY <1>2 DEF Near
<1>4. QED BY <1>2, <1>3

(* What a stop asks of a child: nothing but stopRequested and the status.  *)
LEMMA StopNear ==
  ASSUME NEW s \in Stations, NEW w, Near(s, w),
         NEW x, x = StopInitiated(w, s)
  PROVE  /\ Near(s, x) /\ x.row.there = w.row.there
         /\ x.inst[s].there = w.inst[s].there /\ x.inst[s].desired = w.inst[s].desired
         /\ \A f \in Flags : f # "stopRequested" => x.sup[s][f] = w.sup[s][f]
         /\ ~w.sup[s].child => x = w
<1>1. CASE ~(w.sup[s].child /\ ~w.sup[s].stopRequested)
  <2>1. StopInitiated(w, s) = w
    BY <1>1 DEF StopInitiated
  <2>2. QED BY <2>1
<1>2. CASE w.sup[s].child /\ ~w.sup[s].stopRequested
  <2>1. PICK flagged : flagged = Flagged(w, s, "stopRequested")
    OBVIOUS
  <2>2. /\ Near(s, flagged) /\ flagged.row = w.row /\ flagged.inst = w.inst
        /\ \A f \in Flags : f # "stopRequested" => flagged.sup[s][f] = w.sup[s][f]
    <3>1. PICK flag \in Flags : flag = "stopRequested"
      BY DEF Flags
    <3>2. flagged = Flagged(w, s, flag)
      BY <2>1, <3>1
    <3>3. /\ Near(s, flagged) /\ flagged.row = w.row /\ flagged.inst = w.inst
          /\ \A f \in Flags : f # flag => flagged.sup[s][f] = w.sup[s][f]
      BY <3>1, <3>2, FlaggedNear
    <3>4. QED BY <3>1, <3>3
  <2>3. PICK fields : fields = [status |-> "stopping"]
    OBVIOUS
  <2>4. \A r \in Instance : /\ With(r, fields) \in Instance /\ With(r, fields).there = r.there
                            /\ With(r, fields).desired = r.desired
    BY <2>3, StatusPatch DEF Statuses
  <2>5. IsPatch(fields) /\ flagged.inst[s] \in Instance
    BY <2>2, <2>4 DEF IsPatch, Near, Worlds
  <2>6. StopInitiated(w, s) = Patched(flagged, s, fields)
    BY <1>2, <2>1, <2>3 DEF StopInitiated
  <2>7. QED BY <1>2, <2>2, <2>4, <2>5, <2>6, PatchedNear
<1>3. QED BY <1>1, <1>2

-----------------------------------------------------------------------------
(* What a poll finds.  Standalone there is nothing to find.                *)
LEMMA AdoptedNear ==
  ASSUME NEW s \in Stations, NEW w, Near(s, w), w.row.there, NEW x, x = Adopted(w, s)
  PROVE  Near(s, x) /\ x.row = w.row /\ ~x.sup[s].child
<1>1. w.row \in Instance
  BY InWorld
<1>2. PICK fields : fields = [status |-> "backoff", due |-> "now"]
  OBVIOUS
<1>3. With(w.row, fields) \in Instance
  BY <1>1, <1>2, RestartPatch DEF Statuses, Dues
<1>4. PICK copy \in Instance :
        copy = IF w.row.desired = "running" THEN With(w.row, fields) ELSE w.row
  BY <1>1, <1>3
<1>5. PICK y : y = Put(w, s, copy)
  OBVIOUS
<1>6. Near(s, y) /\ y.row = w.row
  BY <1>4, <1>5, CopyNear
<1>7. PICK z : z = Seen(y, s)
  OBVIOUS
<1>8. Near(s, z) /\ z.row = w.row
  BY <1>6, <1>7, StaleNear
<1>9. x = Reset(z, s)
  BY <1>2, <1>4, <1>5, <1>7 DEF Adopted, Put, Seen
<1>10. QED BY <1>8, <1>9, ResetNear DEF Flags

LEMMA ForgottenNear ==
  ASSUME NEW s \in Stations, NEW w, Near(s, w), NEW x, x = Forgotten(w, s)
  PROVE  /\ Near(s, x) /\ x.row = w.row /\ x.inst[s] = NoInstance
         /\ \A f \in Flags : ~x.sup[s][f]
<1>1. PICK none \in Instance : none = NoInstance
  BY Constants
<1>2. PICK y : y = Put(w, s, none)
  OBVIOUS
<1>3. Near(s, y) /\ y.row = w.row /\ y.inst[s] = none
  BY <1>1, <1>2, CopyNear
<1>4. x = Reset(y, s)
  BY <1>1, <1>2 DEF Forgotten, Put
<1>5. QED BY <1>1, <1>3, <1>4, ResetNear

(* Consumed, by its cases: the child and the presence of the copy stay.    *)
LEMMA ConsumedNear ==
  ASSUME NEW s \in Stations, NEW w, Near(s, w), NEW x, x = Consumed(w, s)
  PROVE  /\ Near(s, x) /\ x.row.there = w.row.there
         /\ x.inst[s].there = w.inst[s].there /\ x.sup[s].child = w.sup[s].child
<1>1. /\ w.row \in Instance /\ w.row.desired \in Desires /\ w.row.due \in Dues
      /\ w.inst[s] \in Instance
  BY InWorld DEF Instance, Desires, Dues
<1>2. PICK z : z = Seen(w, s)
  OBVIOUS
<1>3. Near(s, z) /\ z.row = w.row /\ z.inst = w.inst /\ z.sup = w.sup
  BY <1>2, StaleNear
<1>4. PICK seen : seen = Copied(z, s, [desired |-> w.row.desired])
  OBVIOUS
<1>5. PICK i \in Instance : i = With(w.inst[s], [desired |-> w.row.desired]) /\ i.there = w.inst[s].there
  BY <1>1, DesirePatch
<1>6. seen = Put(z, s, i)
  BY <1>3, <1>4, <1>5 DEF Copied, Put
<1>7. /\ Near(s, seen) /\ seen.row = w.row /\ seen.sup = w.sup /\ seen.inst[s] = i
  BY <1>3, <1>5, <1>6, CopyNear
<1>8. ASSUME NEW due \in Dues, x = Copied(seen, s, [status |-> "backoff", due |-> due])
      PROVE  /\ Near(s, x) /\ x.row = w.row /\ x.sup = w.sup /\ x.inst[s].there = w.inst[s].there
  <2>1. PICK j \in Instance : j = With(i, [status |-> "backoff", due |-> due]) /\ j.there = i.there
    BY <1>5, RestartPatch DEF Statuses
  <2>2. x = Put(seen, s, j)
    BY <1>7, <1>8, <2>1 DEF Copied, Put
  <2>3. QED BY <1>5, <1>7, <2>1, <2>2, CopyNear
<1>9. CASE x = StopInitiated(Flagged(seen, s, "forceRestart"), s)
  <2>1. PICK flag \in Flags : flag = "forceRestart"
    BY DEF Flags
  <2>2. PICK y : y = Flagged(seen, s, flag)
    OBVIOUS
  <2>3. Near(s, y) /\ y.row = w.row /\ y.inst = seen.inst
        /\ \A f \in Flags : f # flag => y.sup[s][f] = seen.sup[s][f]
    BY <1>7, <2>1, <2>2, FlaggedNear
  <2>4. y.sup[s].child = w.sup[s].child
    BY <1>7, <2>1, <2>3 DEF Flags
  <2>5. x = StopInitiated(y, s)
    BY <1>9, <2>1, <2>2
  <2>6. /\ Near(s, x) /\ x.row.there = y.row.there /\ x.inst[s].there = y.inst[s].there
        /\ x.sup[s].child = y.sup[s].child
    BY <2>3, <2>5, StopNear DEF Flags
  <2>7. QED BY <1>5, <1>7, <2>3, <2>4, <2>6
<1>10. CASE x = seen
  BY <1>5, <1>7, <1>10
<1>11. \/ x = StopInitiated(Flagged(seen, s, "forceRestart"), s) \/ x = seen
       \/ \E due \in Dues : x = Copied(seen, s, [status |-> "backoff", due |-> due])
  <2>1. "now" \in Dues
    BY DEF Dues
  <2>2. QED BY <1>1, <1>2, <1>4, <2>1 DEF Consumed, Seen
<1>12. QED BY <1>8, <1>9, <1>10, <1>11

LEMMA PolledNear ==
  ASSUME TypeOK, NEW s \in Stations, NEW x, x = Polled(s)
  PROVE  /\ Near(s, x) /\ x.row.there = row.there
         /\ ~Coordinated => x = World
         /\ Tracked(s) => x.sup[s].child = sup[s].child
         /\ Tracked(s) /\ sup[s].child => x.inst[s].there
<1>1. PICK w : w = World
  OBVIOUS
<1>2. Near(s, w) /\ w.row = row /\ w.inst = inst /\ w.sup = sup
  BY <1>1, WorldNear
<1>3. PICK y : y = Renewed(w, s)
  OBVIOUS
<1>4. /\ Near(s, y) /\ y.row = row /\ y.inst = inst /\ y.sup[s].child = sup[s].child
      /\ ~Coordinated => y = w
  <2>1. CASE y = Flagged(w, s, "leaseLost") /\ Coordinated
    <3>1. PICK flag \in Flags : flag = "leaseLost"
      BY DEF Flags
    <3>2. Near(s, y) /\ y.row = w.row /\ y.inst = w.inst
          /\ \A f \in Flags : f # flag => y.sup[s][f] = w.sup[s][f]
      BY <1>2, <2>1, <3>1, FlaggedNear
    <3>3. y.sup[s].child = w.sup[s].child
      BY <3>1, <3>2 DEF Flags
    <3>4. QED BY <1>2, <2>1, <3>2, <3>3
  <2>2. CASE y = w
    BY <1>2, <2>2
  <2>3. QED BY <1>3, <2>1, <2>2 DEF Renewed, Owns
<1>5. x = Synced(y, s)
  BY <1>1, <1>3 DEF Polled
<1>6. CASE x = y /\ ~(Coordinated /\ row.there /\ ~inst[s].there)
  BY <1>1, <1>2, <1>4, <1>6 DEF Tracked
<1>7. CASE Coordinated /\ row.there /\ ~inst[s].there
  <2>1. x = Adopted(y, s)
    BY <1>4, <1>5, <1>7 DEF Synced
  <2>2. Near(s, x) /\ x.row = row /\ ~x.sup[s].child
    BY <1>4, <1>7, <2>1, AdoptedNear
  <2>3. Tracked(s) => ~sup[s].child
    BY <1>7 DEF Tracked
  <2>4. x.sup[s].child \in BOOLEAN /\ sup[s].child \in BOOLEAN
    BY <1>2, <2>2, InWorld DEF Supervised, Flags
  <2>5. QED BY <1>7, <2>2, <2>3, <2>4
<1>8. CASE Coordinated /\ inst[s].there /\ x = Consumed(y, s)
  BY <1>4, <1>8, ConsumedNear
<1>9. CASE Coordinated /\ ~y.sup[s].child /\ x = Forgotten(y, s)
  <2>1. Near(s, x) /\ x.row = row /\ ~x.sup[s].child
    BY <1>4, <1>9, ForgottenNear DEF Flags
  <2>2. x.sup[s].child \in BOOLEAN /\ y.sup[s].child \in BOOLEAN
    BY <1>4, <2>1, InWorld DEF Supervised, Flags
  <2>3. QED BY <1>4, <1>9, <2>1, <2>2
<1>10. QED BY <1>4, <1>5, <1>6, <1>7, <1>8, <1>9 DEF Synced

-----------------------------------------------------------------------------
(* The parts of the type invariant, and what a step of one station leaves  *)
(* to the others.                                                          *)
WorldOK == /\ row \in Instance /\ inst \in [Stations -> Instance]
           /\ fresher \in [Stations -> BOOLEAN] /\ sup \in [Stations -> Supervised]
ProcOK   == proc \in [Stations -> {"none", "boot", "up"} \cup Codes]
TickOK   == tick \in [Stations -> {"idle", "hung", "launch", "spawn"}]
Exits    == [pc : {"none", "release", "record", "decide", "reset"},
             code : Codes, reason : {"clean", "failure", "stalled", "stopped"}]
ExitOK   == exit \in [Stations -> Exits]
OpOK     == op \in [Stations -> {"idle", "stopping", "restarting", "deleting", "waiting", "removing"}]
LeaseOK  == /\ lease \in [at : Stations \cup {None}, live : BOOLEAN] /\ (lease.live => lease.at # None)
            /\ mine \in [Stations -> BOOLEAN]
UpOK     == up \in [Stations -> {"up", "stopping", "down", "unused"}]
BudgetOK == budget \in [commands : 0..setting.commands, faults : 0..setting.faults]

LEMMA Parts ==
  TypeOK <=> /\ setting \in Settings /\ WorldOK /\ ProcOK /\ TickOK /\ ExitOK /\ OpOK
             /\ LeaseOK /\ UpOK /\ BudgetOK
BY DEF TypeOK, WorldOK, ProcOK, TickOK, Exits, ExitOK, OpOK, LeaseOK, UpOK, BudgetOK

LEMMA BecomeNear ==
  ASSUME NEW s \in Stations, NEW x, Near(s, x), Become(x)
  PROVE  /\ WorldOK' /\ row' = x.row /\ inst'[s] = x.inst[s] /\ sup'[s] = x.sup[s]
         /\ x.inst[s] \in Instance /\ x.sup[s] \in Supervised
         /\ \A t \in Stations : t # s => inst'[t] = inst[t] /\ sup'[t] = sup[t]
BY DEF Near, Worlds, Become, WorldOK

Frame(s) ==
  /\ setting' = setting
  /\ \A t \in Stations : t # s =>
       /\ inst'[t] = inst[t] /\ sup'[t] = sup[t] /\ proc'[t] = proc[t] /\ tick'[t] = tick[t]
       /\ exit'[t] = exit[t] /\ op'[t] = op[t] /\ mine'[t] = mine[t] /\ up'[t] = up[t]
       /\ (mine[t] /\ lease.at = t /\ lease.live => lease' = lease)

LEMMA StationKept ==
  ASSUME NEW t \in Stations, StationInv(t),
         inst'[t] = inst[t], sup'[t] = sup[t], proc'[t] = proc[t], tick'[t] = tick[t],
         exit'[t] = exit[t], op'[t] = op[t], mine'[t] = mine[t], up'[t] = up[t],
         mine[t] /\ lease.at = t /\ lease.live => lease' = lease, setting' = setting
  PROVE  StationInv(t)'
<1>1. DownIdle(t)'
  BY DEF StationInv, DownIdle
<1>2. Tracked(t) => Tracked(t)'
  BY DEF Tracked
<1>3. Launching(t) => Launching(t)'
  BY DEF Launching
<1>4. Holding(t) => Holding(t)'
  BY DEF Holding, Coordinated, Live
<1>5. Intended(t) => Intended(t)'
  BY DEF Intended
<1>6. RunsAgain(t) => RunsAgain(t)'
  BY DEF RunsAgain, ShouldRun, ToRestart
<1>7. Coordinated' = Coordinated
  BY DEF Coordinated
<1>8. QED BY <1>1, <1>2, <1>3, <1>4, <1>5, <1>6, <1>7 DEF StationInv

LEMMA OthersKept ==
  ASSUME NEW s \in Stations, Frame(s), NEW t \in Stations, t # s, StationInv(t)
  PROVE  StationInv(t)'
BY StationKept DEF Frame

LEMMA FaultType ==
  ASSUME TypeOK, NEW kind, Fault(kind), setting' = setting
  PROVE  BudgetOK' /\ kind \in setting.kinds
<1>1. /\ setting.faults \in Nat /\ budget \in [commands : 0..setting.commands, faults : 0..setting.faults]
      /\ setting'.faults = setting.faults /\ setting'.commands = setting.commands
  BY BeaconAssumption DEF TypeOK, Setting
<1>2. PICK n \in 0..setting.faults : n = budget.faults - 1
  BY <1>1 DEF Fault
<1>3. budget' = [budget EXCEPT !.faults = n]
  BY <1>2 DEF Fault
<1>4. QED BY <1>1, <1>2, <1>3 DEF BudgetOK, Fault

LEMMA CommandType ==
  ASSUME TypeOK, Command, setting' = setting
  PROVE  BudgetOK'
<1>1. /\ setting.commands \in Nat /\ budget \in [commands : 0..setting.commands, faults : 0..setting.faults]
      /\ setting'.faults = setting.faults /\ setting'.commands = setting.commands
  BY BeaconAssumption DEF TypeOK, Setting
<1>2. PICK n \in 0..setting.commands : n = budget.commands - 1
  BY <1>1 DEF Command
<1>3. budget' = [budget EXCEPT !.commands = n]
  BY <1>2 DEF Command
<1>4. QED BY <1>1, <1>2, <1>3 DEF BudgetOK

LEMMA BudgetKept ==
  ASSUME TypeOK, budget' = budget, setting' = setting
  PROVE  BudgetOK'
BY DEF TypeOK, BudgetOK

LEMMA WorldAct ==
  ASSUME TypeOK, NEW s \in Stations, NEW x, Near(s, x), Become(x),
         UNCHANGED <<setting, proc, exit, op, leases, up>>, BudgetOK',
         NEW pc \in {"idle", "hung", "launch", "spawn"}, tick' = tick \/ At(s, pc)
  PROVE  /\ TypeOK' /\ Frame(s) /\ (tick' = tick \/ tick'[s] = pc)
         /\ inst'[s] = x.inst[s] /\ sup'[s] = x.sup[s] /\ row' = x.row
<1>1. /\ proc' = proc /\ exit' = exit /\ op' = op /\ lease' = lease /\ mine' = mine /\ up' = up
      /\ setting' = setting
  BY DEF leases
<1>2. /\ WorldOK' /\ inst'[s] = x.inst[s] /\ sup'[s] = x.sup[s] /\ row' = x.row
      /\ \A t \in Stations : t # s => inst'[t] = inst[t] /\ sup'[t] = sup[t]
  BY BecomeNear
<1>3. TickOK' /\ (tick' = tick \/ tick'[s] = pc) /\ \A t \in Stations : t # s => tick'[t] = tick[t]
  BY DEF TypeOK, TickOK, At
<1>4. setting \in Settings /\ ProcOK /\ ExitOK /\ OpOK /\ LeaseOK /\ UpOK
  BY Parts
<1>5. setting' \in Settings /\ ProcOK' /\ ExitOK' /\ OpOK' /\ LeaseOK' /\ UpOK'
  BY <1>1, <1>4 DEF ProcOK, ExitOK, OpOK, LeaseOK, UpOK
<1>6. TypeOK'
  BY <1>2, <1>3, <1>5 DEF TypeOK, WorldOK, ProcOK, TickOK, Exits, ExitOK, OpOK, LeaseOK, UpOK, BudgetOK
<1>7. Frame(s)
  BY <1>1, <1>2, <1>3 DEF Frame
<1>8. QED BY <1>2, <1>3, <1>6, <1>7

(* What an invariant of one station takes from the state. *)
LEMMA StationParts ==
  ASSUME NEW s \in Stations, Frame(s), DownIdle(s)', Holding(s)',
         ~SlowWrites => Tracked(s)' /\ Launching(s)',
         ~SlowWrites /\ ~Coordinated => Intended(s)' /\ RunsAgain(s)'
  PROVE  StationInv(s)'
BY DEF Frame, StationInv, Coordinated

LEMMA PollStopsKeeps ==
  ASSUME TypeOK, NEW s \in Stations, StationInv(s), PollStops(s)
  PROVE  TypeOK' /\ Frame(s) /\ StationInv(s)'
<1>1. PICK x : x = Polled(s)
  OBVIOUS
<1>2. /\ Near(s, x) /\ x.row.there = row.there /\ (~Coordinated => x = World)
      /\ (Tracked(s) => x.sup[s].child = sup[s].child)
      /\ (Tracked(s) /\ sup[s].child => x.inst[s].there)
  BY <1>1, PolledNear
<1>3. PICK y : y = StopInitiated(x, s)
  OBVIOUS
<1>4. /\ Near(s, y) /\ y.inst[s].there = x.inst[s].there /\ y.inst[s].desired = x.inst[s].desired
      /\ \A f \in Flags : f # "stopRequested" => y.sup[s][f] = x.sup[s][f]
  BY <1>2, <1>3, StopNear
<1>5. /\ Become(y) /\ x.inst[s].desired = "stopped" /\ up[s] = "up"
      /\ UNCHANGED <<setting, proc, exit, op, leases, up>> /\ budget' = budget /\ tick' = tick
  BY <1>1, <1>3 DEF PollStops, Poll, Unwanted, Concerned
<1>6. TypeOK' /\ Frame(s) /\ inst'[s] = y.inst[s] /\ sup'[s] = y.sup[s]
  BY <1>4, <1>5, BudgetKept, WorldAct
<1>7. /\ sup'[s].child = x.sup[s].child /\ sup'[s].removing = x.sup[s].removing
      /\ sup'[s].stalled = x.sup[s].stalled
      /\ proc' = proc /\ exit' = exit /\ op' = op /\ mine' = mine /\ lease' = lease /\ up' = up
  BY <1>4, <1>5, <1>6 DEF Flags, leases
<1>8. DownIdle(s)'
  BY <1>5, <1>7 DEF DownIdle
<1>9. Tracked(s) => Tracked(s)'
  BY <1>2, <1>4, <1>6, <1>7 DEF Tracked
<1>10. Tracked(s) /\ Launching(s) => Launching(s)'
  BY <1>2, <1>5, <1>7 DEF Launching
<1>11. Holding(s) => Holding(s)'
  BY <1>5, <1>7 DEF Holding, Live, Coordinated
<1>12. ~Coordinated /\ Intended(s) => Intended(s)'
  <2>1. ~Coordinated => x.inst = inst /\ x.sup = sup
    BY <1>2, WorldNear
  <2>2. QED BY <1>4, <1>5, <1>6, <1>7, <2>1 DEF Intended
<1>13. RunsAgain(s)'
  BY <1>4, <1>5, <1>6 DEF RunsAgain, ShouldRun
<1>14. QED
  BY <1>6, <1>8, <1>9, <1>10, <1>11, <1>12, <1>13, StationParts DEF StationInv

LEMMA PollFindsHungKeeps ==
  ASSUME TypeOK, NEW s \in Stations, StationInv(s), PollFindsHung(s)
  PROVE  TypeOK' /\ Frame(s) /\ StationInv(s)'
<1>1. PICK x : x = Polled(s)
  OBVIOUS
<1>2. /\ Near(s, x) /\ (~Coordinated => x = World)
      /\ (Tracked(s) => x.sup[s].child = sup[s].child)
      /\ (Tracked(s) /\ sup[s].child => x.inst[s].there)
  BY <1>1, PolledNear
<1>3. PICK flag \in Flags : flag = "stalled"
  BY DEF Flags
<1>4. PICK y : y = Flagged(x, s, flag)
  OBVIOUS
<1>5. /\ Near(s, y) /\ y.inst = x.inst /\ y.sup[s].stalled
      /\ \A f \in Flags : f # "stalled" => y.sup[s][f] = x.sup[s][f]
  BY <1>2, <1>3, <1>4, FlaggedNear
<1>6. PICK z : z = Patched(y, s, Touch)
  OBVIOUS
<1>7. /\ Near(s, z) /\ z.sup = y.sup /\ z.inst[s].there = x.inst[s].there
      /\ z.inst[s].desired = x.inst[s].desired
  BY <1>5, <1>6, TouchNear
<1>8. /\ Become(z) /\ x.sup[s].child /\ up[s] = "up" /\ (~SlowWrites => exit[s].pc = "none")
      /\ UNCHANGED <<setting, proc, exit, op, leases, up>> /\ Fault("hang") /\ At(s, "hung")
  BY <1>1, <1>3, <1>4, <1>6 DEF PollFindsHung, Poll, Watched, Quiet
<1>9. TypeOK' /\ Frame(s) /\ inst'[s] = z.inst[s] /\ sup'[s] = z.sup[s] /\ tick'[s] = "hung"
  <2>1. BudgetOK'
    BY <1>8, FaultType
  <2>2. TypeOK' /\ Frame(s) /\ inst'[s] = z.inst[s] /\ sup'[s] = z.sup[s]
    BY <1>7, <1>8, <2>1, WorldAct
  <2>3. QED BY <1>8, <2>2 DEF At, TypeOK
<1>10. /\ sup'[s].child = x.sup[s].child /\ sup'[s].removing = x.sup[s].removing
       /\ sup'[s].stalled
       /\ proc' = proc /\ exit' = exit /\ op' = op /\ mine' = mine /\ lease' = lease /\ up' = up
  BY <1>5, <1>7, <1>8, <1>9 DEF Flags, leases
<1>11. DownIdle(s)'
  BY <1>8, <1>10 DEF DownIdle
<1>12. Tracked(s) => Tracked(s)'
  BY <1>2, <1>7, <1>9, <1>10 DEF Tracked
<1>13. Launching(s)'
  BY <1>9 DEF Launching
<1>14. Holding(s) => Holding(s)'
  BY <1>8, <1>9, <1>10 DEF Holding, Live, Coordinated
<1>15. ~Coordinated /\ Intended(s) => Intended(s)'
  <2>1. ~Coordinated => x.inst = inst /\ x.sup = sup
    BY <1>2, WorldNear
  <2>2. QED BY <1>7, <1>9, <1>10, <2>1 DEF Intended
<1>16. ~SlowWrites => RunsAgain(s)'
  BY <1>8, <1>10 DEF RunsAgain
<1>17. QED
  BY <1>9, <1>11, <1>12, <1>13, <1>14, <1>15, <1>16, StationParts DEF StationInv

LEMMA PollLaunchesKeeps ==
  ASSUME TypeOK, NEW s \in Stations, StationInv(s), PollLaunches(s)
  PROVE  TypeOK' /\ Frame(s) /\ StationInv(s)'
<1>1. PICK x : x = Polled(s)
  OBVIOUS
<1>2. /\ Near(s, x) /\ (~Coordinated => x = World)
      /\ (Tracked(s) => x.sup[s].child = sup[s].child)
      /\ (Tracked(s) /\ sup[s].child => x.inst[s].there)
  BY <1>1, PolledNear
<1>3. /\ Become(x) /\ ~x.sup[s].child /\ x.inst[s].status = "backoff" /\ x.inst[s].due = "now"
      /\ up[s] = "up" /\ (~SlowWrites => exit[s].pc = "none" /\ op[s] # "restarting")
      /\ UNCHANGED <<setting, proc, exit, op, leases, up>> /\ budget' = budget /\ At(s, "launch")
  BY <1>1 DEF PollLaunches, Poll, Due, Quiet
<1>4. TypeOK' /\ Frame(s) /\ inst'[s] = x.inst[s] /\ sup'[s] = x.sup[s] /\ tick'[s] = "launch"
  <2>1. TypeOK' /\ Frame(s) /\ inst'[s] = x.inst[s] /\ sup'[s] = x.sup[s]
    BY <1>2, <1>3, BudgetKept, WorldAct
  <2>2. QED BY <1>3, <2>1 DEF At, TypeOK
<1>5. proc' = proc /\ exit' = exit /\ op' = op /\ mine' = mine /\ lease' = lease /\ up' = up
  BY <1>3 DEF leases
<1>6. DownIdle(s)'
  BY <1>3, <1>5 DEF DownIdle
<1>7. Tracked(s) => Tracked(s)'
  BY <1>2, <1>4, <1>5 DEF Tracked
<1>8. ~SlowWrites => Launching(s)'
  BY <1>3, <1>4, <1>5 DEF Launching
<1>9. Holding(s) => Holding(s)'
  BY <1>3, <1>4, <1>5 DEF Holding, Live, Coordinated
<1>10. ~Coordinated /\ Intended(s) => Intended(s)'
  <2>1. ~Coordinated => x.inst = inst /\ x.sup = sup
    BY <1>2, WorldNear
  <2>2. QED BY <1>4, <1>5, <2>1 DEF Intended
<1>11. ~SlowWrites => RunsAgain(s)'
  BY <1>3, <1>4, <1>5 DEF RunsAgain, ToRestart
<1>12. QED
  BY <1>4, <1>6, <1>7, <1>8, <1>9, <1>10, <1>11, StationParts DEF StationInv

LEMMA PollRestsKeeps ==
  ASSUME TypeOK, NEW s \in Stations, StationInv(s), PollRests(s)
  PROVE  TypeOK' /\ Frame(s) /\ StationInv(s)'
<1>1. PICK x : x = Polled(s)
  OBVIOUS
<1>2. /\ Near(s, x) /\ (~Coordinated => x = World)
      /\ (Tracked(s) => x.sup[s].child = sup[s].child)
      /\ (Tracked(s) /\ sup[s].child => x.inst[s].there)
  BY <1>1, PolledNear
<1>3. /\ Become(x) /\ up[s] = "up" /\ tick[s] = "idle"
      /\ UNCHANGED <<setting, proc, exit, op, leases, up>> /\ budget' = budget /\ tick' = tick
  BY <1>1 DEF PollRests, Poll
<1>4. TypeOK' /\ Frame(s) /\ inst'[s] = x.inst[s] /\ sup'[s] = x.sup[s]
  BY <1>2, <1>3, BudgetKept, WorldAct
<1>5. proc' = proc /\ exit' = exit /\ op' = op /\ mine' = mine /\ lease' = lease /\ up' = up
  BY <1>3 DEF leases
<1>6. DownIdle(s)'
  BY <1>3, <1>5 DEF DownIdle
<1>7. Tracked(s) => Tracked(s)'
  BY <1>2, <1>4, <1>5 DEF Tracked
<1>8. Launching(s)'
  BY <1>3, <1>5 DEF Launching
<1>9. Holding(s) => Holding(s)'
  BY <1>3, <1>5 DEF Holding, Live, Coordinated
<1>10. ~Coordinated => inst'[s] = inst[s] /\ sup'[s] = sup[s]
  BY <1>2, <1>4, WorldNear
<1>11. ~Coordinated /\ Intended(s) => Intended(s)'
  BY <1>3, <1>5, <1>10 DEF Intended
<1>12. ~Coordinated /\ RunsAgain(s) => RunsAgain(s)'
  BY <1>3, <1>5, <1>10 DEF RunsAgain, ShouldRun, ToRestart
<1>13. QED
  BY <1>4, <1>6, <1>7, <1>8, <1>9, <1>11, <1>12, StationParts DEF StationInv

LEMMA StopHungKeeps ==
  ASSUME TypeOK, NEW s \in Stations, StationInv(s), StopHung(s)
  PROVE  TypeOK' /\ Frame(s) /\ StationInv(s)'
<1>1. PICK w : w = World
  OBVIOUS
<1>2. Near(s, w) /\ w.inst = inst /\ w.sup = sup
  BY <1>1, WorldNear
<1>3. PICK y : y = StopInitiated(w, s)
  OBVIOUS
<1>4. /\ Near(s, y) /\ y.inst[s].there = inst[s].there /\ y.inst[s].desired = inst[s].desired
      /\ (\A f \in Flags : f # "stopRequested" => y.sup[s][f] = sup[s][f])
      /\ (~sup[s].child => y = w)
  BY <1>2, <1>3, StopNear
<1>5. /\ Become(y) /\ tick[s] = "hung" /\ At(s, "idle")
      /\ UNCHANGED <<setting, proc, exit, op, leases, up>> /\ budget' = budget
  BY <1>1, <1>3 DEF StopHung
<1>6. TypeOK' /\ Frame(s) /\ inst'[s] = y.inst[s] /\ sup'[s] = y.sup[s] /\ tick'[s] = "idle"
  <2>1. TypeOK' /\ Frame(s) /\ inst'[s] = y.inst[s] /\ sup'[s] = y.sup[s]
    BY <1>4, <1>5, BudgetKept, WorldAct
  <2>2. QED BY <1>5, <2>1 DEF At, TypeOK
<1>7. /\ sup'[s].child = sup[s].child /\ sup'[s].removing = sup[s].removing
      /\ sup'[s].stalled = sup[s].stalled /\ sup'[s].forceRestart = sup[s].forceRestart
      /\ sup'[s].fatal = sup[s].fatal
      /\ proc' = proc /\ exit' = exit /\ op' = op /\ mine' = mine /\ lease' = lease /\ up' = up
  BY <1>4, <1>5, <1>6 DEF Flags, leases
<1>8. DownIdle(s)'
  BY <1>5, <1>7 DEF DownIdle, StationInv
<1>9. Tracked(s) => Tracked(s)'
  BY <1>4, <1>6, <1>7 DEF Tracked
<1>10. Launching(s)'
  BY <1>6 DEF Launching
<1>11. Holding(s) => Holding(s)'
  BY <1>5, <1>6, <1>7 DEF Holding, Live, Coordinated
<1>12. Intended(s) => Intended(s)'
  BY <1>4, <1>6, <1>7 DEF Intended
<1>13. Tracked(s) /\ Intended(s) /\ RunsAgain(s) => RunsAgain(s)'
  <2>1. CASE sup[s].child
    BY <1>5, <1>7, <2>1 DEF RunsAgain, Tracked, Intended
  <2>2. CASE ~sup[s].child
    BY <1>2, <1>4, <1>5, <1>6, <1>7, <2>2 DEF RunsAgain, ShouldRun, ToRestart
  <2>3. QED BY <2>1, <2>2
<1>14. QED
  BY <1>6, <1>8, <1>9, <1>10, <1>11, <1>12, <1>13, StationParts DEF StationInv

LEMMA StepAct ==
  ASSUME TypeOK, NEW s \in Stations, NEW x, Near(s, x), Become(x), setting' = setting,
         ProcOK', TickOK', ExitOK', OpOK', LeaseOK', UpOK', BudgetOK',
         \A t \in Stations : t # s =>
           /\ proc'[t] = proc[t] /\ tick'[t] = tick[t] /\ exit'[t] = exit[t] /\ op'[t] = op[t]
           /\ mine'[t] = mine[t] /\ up'[t] = up[t]
           /\ (mine[t] /\ lease.at = t /\ lease.live => lease' = lease)
  PROVE  /\ TypeOK' /\ Frame(s)
         /\ inst'[s] = x.inst[s] /\ sup'[s] = x.sup[s] /\ row' = x.row
<1>1. /\ WorldOK' /\ inst'[s] = x.inst[s] /\ sup'[s] = x.sup[s] /\ row' = x.row
      /\ \A t \in Stations : t # s => inst'[t] = inst[t] /\ sup'[t] = sup[t]
  BY BecomeNear
<1>2. setting' \in Settings
  BY DEF TypeOK
<1>3. TypeOK'
  BY <1>1, <1>2 DEF TypeOK, WorldOK, ProcOK, TickOK, Exits, ExitOK, OpOK, LeaseOK, UpOK, BudgetOK
<1>4. Frame(s)
  BY <1>1 DEF Frame
<1>5. QED BY <1>1, <1>3, <1>4

(* The types of the variables a step leaves alone, and of those it changes *)
(* for one station.                                                        *)
LEMMA LeftAlone ==
  ASSUME TypeOK
  PROVE  /\ proc' = proc => ProcOK'
         /\ tick' = tick => TickOK'
         /\ exit' = exit => ExitOK'
         /\ op' = op => OpOK'
         /\ lease' = lease /\ mine' = mine => LeaseOK'
         /\ up' = up => UpOK'
<1>1. ProcOK /\ TickOK /\ ExitOK /\ OpOK /\ LeaseOK /\ UpOK
  BY Parts
<1>2. proc' = proc => ProcOK'
  BY <1>1 DEF ProcOK
<1>3. tick' = tick => TickOK'
  BY <1>1 DEF TickOK
<1>4. exit' = exit => ExitOK'
  BY <1>1 DEF ExitOK
<1>5. op' = op => OpOK'
  BY <1>1 DEF OpOK
<1>6. lease' = lease /\ mine' = mine => LeaseOK'
  BY <1>1 DEF LeaseOK
<1>7. up' = up => UpOK'
  BY <1>1 DEF UpOK
<1>8. QED BY <1>2, <1>3, <1>4, <1>5, <1>6, <1>7

LEMMA TickMoves ==
  ASSUME TypeOK, NEW s \in Stations, NEW pc \in {"idle", "hung", "launch", "spawn"}, At(s, pc)
  PROVE  TickOK' /\ tick'[s] = pc /\ \A t \in Stations : t # s => tick'[t] = tick[t]
BY DEF TypeOK, TickOK, At

LEMMA ExitMoves ==
  ASSUME TypeOK, NEW s \in Stations, NEW e \in Exits, exit' = [exit EXCEPT ![s] = e]
  PROVE  ExitOK' /\ exit'[s] = e /\ \A t \in Stations : t # s => exit'[t] = exit[t]
BY DEF TypeOK, ExitOK, Exits

LEMMA ProcMoves ==
  ASSUME TypeOK, NEW s \in Stations, NEW p \in {"none", "boot", "up"} \cup Codes,
         proc' = [proc EXCEPT ![s] = p]
  PROVE  ProcOK' /\ proc'[s] = p /\ \A t \in Stations : t # s => proc'[t] = proc[t]
BY DEF TypeOK, ProcOK

LEMMA Releasing ==
  ASSUME TypeOK, NEW s \in Stations, Release(s)
  PROVE  /\ LeaseOK' /\ ~mine'[s]
         /\ \A t \in Stations : t # s =>
              mine'[t] = mine[t] /\ (mine[t] /\ lease.at = t /\ lease.live => lease' = lease)
BY DEF TypeOK, LeaseOK, Release, NoLease

LEMMA Acquiring ==
  ASSUME TypeOK, NEW s \in Stations, Acquired(s)
  PROVE  /\ LeaseOK'
         /\ Coordinated => mine'[s] /\ lease'.at = s /\ lease'.live /\ ~lease.live
         /\ \A t \in Stations : t # s =>
              mine'[t] = mine[t] /\ (mine[t] /\ lease.at = t /\ lease.live => lease' = lease)
<1>1. CASE ~Coordinated
  BY <1>1 DEF TypeOK, LeaseOK, Acquired, leases
<1>2. CASE Coordinated
  <2>1. /\ ~lease.live /\ lease' = [at |-> s, live |-> TRUE]
        /\ mine' = [mine EXCEPT ![s] = TRUE]
    BY <1>2 DEF Acquired
  <2>2. lease' \in [at : Stations \cup {None}, live : BOOLEAN] /\ lease'.at = s /\ lease'.live
    BY <2>1
  <2>3. mine' \in [Stations -> BOOLEAN] /\ mine'[s] /\ \A t \in Stations : t # s => mine'[t] = mine[t]
    BY <2>1 DEF TypeOK
  <2>4. s # None
    BY BeaconAssumption
  <2>5. QED BY <2>1, <2>2, <2>3, <2>4 DEF LeaseOK
<1>3. QED BY <1>1, <1>2

-----------------------------------------------------------------------------
(* The launch. *)
LEMMA SameWorld ==
  ASSUME UNCHANGED world
  PROVE  Become(World)
BY DEF world, Become, World

LEMMA LaunchLacksEnvKeeps ==
  ASSUME TypeOK, NEW s \in Stations, StationInv(s), LaunchLacksEnv(s)
  PROVE  TypeOK' /\ Frame(s) /\ StationInv(s)'
<1>1. PICK w : w = World
  OBVIOUS
<1>2. Near(s, w) /\ w.inst = inst /\ w.sup = sup
  BY <1>1, WorldNear
<1>3. PICK st \in Statuses, d \in Dues :
        /\ Become(Patched(w, s, [status |-> st, due |-> d]))
        /\ st = "errored" \/ (st = "backoff" /\ d = "later")
  BY <1>1 DEF LaunchLacksEnv, Statuses, Dues
<1>4. PICK x : x = Patched(w, s, [status |-> st, due |-> d])
  OBVIOUS
<1>5. /\ Near(s, x) /\ x.sup = sup /\ x.inst[s].there = inst[s].there
      /\ x.inst[s].desired = inst[s].desired
      /\ (~inst[s].there => x.inst[s] = inst[s])
      /\ (inst[s].there => x.inst[s].status = st /\ x.inst[s].due = d)
  BY <1>2, <1>3, <1>4, RestartNear
<1>6. /\ tick[s] = "launch" /\ At(s, "idle") /\ Fault("env")
      /\ UNCHANGED <<setting, proc, exit, op, leases, up>>
  BY DEF LaunchLacksEnv
<1>7. TypeOK' /\ Frame(s) /\ inst'[s] = x.inst[s] /\ sup'[s] = sup[s] /\ tick'[s] = "idle"
  <2>1. BudgetOK'
    BY <1>6, FaultType
  <2>2. Become(x)
    BY <1>3, <1>4
  <2>3. TypeOK' /\ Frame(s) /\ inst'[s] = x.inst[s] /\ sup'[s] = x.sup[s]
    BY <1>5, <1>6, <2>1, <2>2, WorldAct
  <2>4. QED BY <1>5, <1>6, <2>3, TickMoves
<1>8. proc' = proc /\ exit' = exit /\ op' = op /\ mine' = mine /\ lease' = lease /\ up' = up
  BY <1>6 DEF leases
<1>9. DownIdle(s)'
  BY <1>6, <1>8 DEF DownIdle, StationInv
<1>10. Tracked(s) => Tracked(s)'
  BY <1>5, <1>7, <1>8 DEF Tracked
<1>11. Launching(s)'
  BY <1>7 DEF Launching
<1>12. Holding(s) => Holding(s)'
  BY <1>6, <1>7, <1>8 DEF Holding, Live, Coordinated
<1>13. Intended(s) => Intended(s)'
  BY <1>5, <1>7, <1>8 DEF Intended
<1>14. Launching(s) => RunsAgain(s)'
  <2>1. ShouldRun(s)' => inst'[s].status = st /\ inst'[s].due = d
    BY <1>5, <1>7 DEF ShouldRun
  <2>2. QED BY <1>3, <1>6, <1>7, <1>8, <2>1 DEF RunsAgain, Launching, ToRestart
<1>15. QED
  BY <1>7, <1>9, <1>10, <1>11, <1>12, <1>13, <1>14, StationParts DEF StationInv

LEMMA LaunchRefusedKeeps ==
  ASSUME TypeOK, NEW s \in Stations, StationInv(s), LaunchRefused(s)
  PROVE  TypeOK' /\ Frame(s) /\ StationInv(s)'
<1>1. PICK w : w = World
  OBVIOUS
<1>2. Near(s, w) /\ w.inst = inst /\ w.sup = sup
  BY <1>1, WorldNear
<1>3. /\ tick[s] = "launch" /\ At(s, "idle") /\ Become(w)
      /\ UNCHANGED <<setting, proc, exit, op, leases, up>> /\ budget' = budget
  BY <1>1, SameWorld DEF LaunchRefused
<1>4. TypeOK' /\ Frame(s) /\ inst'[s] = inst[s] /\ sup'[s] = sup[s] /\ tick'[s] = "idle"
  <2>1. TypeOK' /\ Frame(s) /\ inst'[s] = w.inst[s] /\ sup'[s] = w.sup[s]
    BY <1>2, <1>3, BudgetKept, WorldAct
  <2>2. QED BY <1>2, <1>3, <2>1, TickMoves
<1>5. proc' = proc /\ exit' = exit /\ op' = op /\ mine' = mine /\ lease' = lease /\ up' = up
  BY <1>3 DEF leases
<1>6. DownIdle(s)'
  BY <1>3, <1>5 DEF DownIdle, StationInv
<1>7. Tracked(s) => Tracked(s)'
  BY <1>4, <1>5 DEF Tracked
<1>8. Launching(s)'
  BY <1>4 DEF Launching
<1>9. Holding(s) => Holding(s)'
  BY <1>3, <1>4, <1>5 DEF Holding, Live, Coordinated
<1>10. Intended(s) => Intended(s)'
  BY <1>4, <1>5 DEF Intended
<1>11. RunsAgain(s) => RunsAgain(s)'
  BY <1>3, <1>4, <1>5 DEF RunsAgain, ShouldRun, ToRestart
<1>12. QED
  BY <1>4, <1>6, <1>7, <1>8, <1>9, <1>10, <1>11, StationParts DEF StationInv

LEMMA LaunchStartsKeeps ==
  ASSUME TypeOK, NEW s \in Stations, StationInv(s), LaunchStarts(s)
  PROVE  TypeOK' /\ Frame(s) /\ StationInv(s)'
<1>1. PICK w : w = World
  OBVIOUS
<1>2. Near(s, w) /\ w.inst = inst /\ w.sup = sup
  BY <1>1, WorldNear
<1>3. PICK st \in Statuses, d \in Dues : st = "starting" /\ d = "no"
  BY DEF Statuses, Dues
<1>4. PICK x : x = Patched(w, s, [status |-> st, due |-> d])
  OBVIOUS
<1>5. /\ Near(s, x) /\ x.sup = sup /\ x.inst[s].there = inst[s].there
      /\ x.inst[s].desired = inst[s].desired
  BY <1>2, <1>3, <1>4, RestartNear
<1>6. /\ tick[s] = "launch" /\ At(s, "spawn") /\ Become(x) /\ Acquired(s) /\ setting' = setting
      /\ proc' = proc /\ exit' = exit /\ op' = op /\ up' = up /\ budget' = budget
  BY <1>1, <1>3, <1>4 DEF LaunchStarts
<1>7. /\ LeaseOK' /\ (Coordinated => mine'[s] /\ lease'.at = s /\ lease'.live /\ ~lease.live)
      /\ \A t \in Stations : t # s =>
           mine'[t] = mine[t] /\ (mine[t] /\ lease.at = t /\ lease.live => lease' = lease)
  BY <1>6, Acquiring
<1>8. TickOK' /\ tick'[s] = "spawn" /\ \A t \in Stations : t # s => tick'[t] = tick[t]
  BY <1>6, TickMoves
<1>9. TypeOK' /\ Frame(s) /\ inst'[s] = x.inst[s] /\ sup'[s] = sup[s]
  <2>1. BudgetOK' /\ ProcOK' /\ ExitOK' /\ OpOK' /\ UpOK'
    BY <1>6, BudgetKept, LeftAlone
  <2>2. QED BY <1>5, <1>6, <1>7, <1>8, <2>1, StepAct
<1>10. DownIdle(s)'
  BY <1>6 DEF DownIdle, StationInv
<1>11. Tracked(s) => Tracked(s)'
  BY <1>5, <1>6, <1>9 DEF Tracked
<1>12. Launching(s) => Launching(s)'
  BY <1>6, <1>8, <1>9 DEF Launching
<1>13. Holding(s) => Holding(s)'
  BY <1>6, <1>7, <1>8 DEF Holding, Coordinated
<1>14. Intended(s) => Intended(s)'
  BY <1>5, <1>6, <1>8, <1>9 DEF Intended
<1>15. Launching(s) => RunsAgain(s)'
  BY <1>6, <1>8, <1>9 DEF RunsAgain, Launching
<1>16. QED
  BY <1>9, <1>10, <1>11, <1>12, <1>13, <1>14, <1>15, StationParts DEF StationInv

(* The new entry has a child and no flag.                                  *)
LEMMA SpawnedNear ==
  ASSUME TypeOK, NEW s \in Stations,
         NEW x, x = Patched([World EXCEPT !.sup[s] = [freshSupervised EXCEPT !.child = TRUE]], s, Touch)
  PROVE  /\ Near(s, x) /\ x.inst[s].there = inst[s].there /\ x.inst[s].desired = inst[s].desired
         /\ x.row.there = row.there /\ x.sup[s].child
         /\ \A f \in Flags : f # "child" => ~x.sup[s][f]
<1>1. PICK w : w = World
  OBVIOUS
<1>2. Near(s, w) /\ w.inst = inst /\ w.sup = sup /\ w.row = row
  BY <1>1, WorldNear
<1>3. PICK entry : entry = [freshSupervised EXCEPT !.child = TRUE]
  OBVIOUS
<1>4. entry \in Supervised /\ entry.child /\ \A f \in Flags : f # "child" => ~entry[f]
  BY <1>3 DEF freshSupervised, Supervised, Flags
<1>5. PICK y : y = [w EXCEPT !.sup[s] = entry]
  OBVIOUS
<1>6. w \in Worlds /\ w.sup \in [Stations -> Supervised]
  BY <1>2 DEF Near, Worlds
<1>7. y \in Worlds /\ y.row = w.row /\ y.inst = w.inst /\ y.sup = [w.sup EXCEPT ![s] = entry]
  BY <1>4, <1>5, <1>6 DEF Worlds
<1>8. y.sup[s] = entry /\ \A t \in Stations : t # s => y.sup[t] = w.sup[t]
  BY <1>6, <1>7
<1>9. Near(s, y)
  BY <1>2, <1>7, <1>8 DEF Near
<1>10. x = Patched(y, s, Touch)
  BY <1>1, <1>3, <1>5
<1>11. /\ Near(s, x) /\ x.sup = y.sup /\ x.inst[s].there = y.inst[s].there
       /\ x.inst[s].desired = y.inst[s].desired /\ x.row.there = y.row.there
  BY <1>9, <1>10, TouchNear
<1>12. x.sup[s] = entry
  BY <1>8, <1>11
<1>13. QED BY <1>2, <1>4, <1>7, <1>11, <1>12

LEMMA SpawnKeeps ==
  ASSUME TypeOK, NEW s \in Stations, StationInv(s), Spawn(s)
  PROVE  TypeOK' /\ Frame(s) /\ StationInv(s)'
<1>1. /\ tick[s] = "spawn" /\ At(s, "idle") /\ setting' = setting
      /\ exit' = exit /\ op' = op /\ up' = up /\ budget' = budget
  BY DEF Spawn
<1>2. TickOK' /\ tick'[s] = "idle" /\ \A t \in Stations : t # s => tick'[t] = tick[t]
  BY <1>1, TickMoves
<1>3. BudgetOK' /\ ExitOK' /\ OpOK' /\ UpOK'
  BY <1>1, BudgetKept, LeftAlone
<1>4. DownIdle(s)'
  BY <1>1 DEF DownIdle, StationInv
<1>5. Launching(s)'
  BY <1>2 DEF Launching
<1>6. CASE /\ up[s] = "stopping" \/ ~inst[s].there \/ sup[s].removing
           /\ Release(s) /\ UNCHANGED <<world, proc>>
  <2>1. PICK w : w = World
    OBVIOUS
  <2>2. Near(s, w) /\ w.inst = inst /\ w.sup = sup /\ Become(w)
    BY <1>6, <2>1, WorldNear, SameWorld
  <2>3. /\ LeaseOK'
        /\ \A t \in Stations : t # s =>
             mine'[t] = mine[t] /\ (mine[t] /\ lease.at = t /\ lease.live => lease' = lease)
    BY <1>6, Releasing
  <2>4. proc' = proc /\ ProcOK'
    BY <1>6, LeftAlone
  <2>5. TypeOK' /\ Frame(s) /\ inst'[s] = inst[s] /\ sup'[s] = sup[s]
    BY <1>1, <1>2, <1>3, <2>2, <2>3, <2>4, StepAct
  <2>6. Tracked(s) => Tracked(s)'
    BY <1>1, <2>4, <2>5 DEF Tracked
  <2>7. Holding(s) => Holding(s)'
    BY <1>1, <1>2, <2>4 DEF Holding, Coordinated
  <2>8. Intended(s) => Intended(s)'
    BY <1>1, <1>2, <2>5 DEF Intended
  <2>9. Launching(s) /\ Intended(s) => RunsAgain(s)'
    BY <1>1, <1>2, <1>6, <2>5 DEF RunsAgain, ShouldRun, Launching, Intended
  <2>10. QED
    BY <1>4, <1>5, <2>5, <2>6, <2>7, <2>8, <2>9, StationParts DEF StationInv
<1>7. CASE inst[s].there /\ ~sup[s].removing /\ Spawned(s)
  <2>1. PICK x : x = Patched([World EXCEPT !.sup[s] = [freshSupervised EXCEPT !.child = TRUE]], s, Touch)
    OBVIOUS
  <2>2. /\ Near(s, x) /\ x.inst[s].there = inst[s].there /\ x.inst[s].desired = inst[s].desired
        /\ x.sup[s].child /\ \A f \in Flags : f # "child" => ~x.sup[s][f]
    BY <2>1, SpawnedNear
  <2>3. Become(x) /\ proc' = [proc EXCEPT ![s] = "boot"] /\ mine' = mine /\ lease' = lease
    BY <1>7, <2>1 DEF Spawned, leases
  <2>4. ProcOK' /\ proc'[s] = "boot" /\ \A t \in Stations : t # s => proc'[t] = proc[t]
    BY <2>3, ProcMoves
  <2>5. LeaseOK'
    BY <2>3, LeftAlone
  <2>6. TypeOK' /\ Frame(s) /\ inst'[s] = x.inst[s] /\ sup'[s] = x.sup[s]
    BY <1>1, <1>2, <1>3, <2>2, <2>3, <2>4, <2>5, StepAct
  <2>7. sup'[s].child /\ ~sup'[s].removing /\ ~sup'[s].stopRequested
    <3>1. PICK entry : entry = x.sup[s]
      OBVIOUS
    <3>2. entry.child /\ ~entry.removing /\ ~entry.stopRequested
      BY <2>2, <3>1 DEF Flags
    <3>3. QED BY <2>6, <3>1, <3>2
  <2>8. Launching(s) => Tracked(s)'
    <3>1. inst'[s].there /\ exit'[s] = exit[s] /\ proc'[s] = "boot"
      BY <1>1, <1>7, <2>2, <2>4, <2>6
    <3>2. Launching(s) => exit[s].pc = "none"
      BY <1>1 DEF Launching
    <3>3. QED BY <2>7, <3>1, <3>2 DEF Tracked
  <2>9. Holding(s) => Holding(s)'
    BY <1>1, <1>2, <2>3, <2>4 DEF Holding, Coordinated
  <2>10. Intended(s) => Intended(s)'
    BY <1>1, <1>2, <1>7, <2>2, <2>6, <2>7 DEF Intended
  <2>11. Launching(s) => RunsAgain(s)'
    BY <1>1, <2>7 DEF RunsAgain, Launching
  <2>12. QED
    BY <1>4, <1>5, <2>6, <2>8, <2>9, <2>10, <2>11, StationParts DEF StationInv
<1>8. QED BY <1>6, <1>7 DEF Spawn

-----------------------------------------------------------------------------
(* The messages of the child, and its end. *)
LEMMA MessageKeeps ==
  ASSUME TypeOK, NEW s \in Stations, StationInv(s), Live(s),
         NEW x, Near(s, x), Become(x),
         x.inst[s].there = inst[s].there, x.inst[s].desired = inst[s].desired,
         x.sup[s].child = sup[s].child, x.sup[s].removing = sup[s].removing,
         x.sup[s].stalled = sup[s].stalled, x.sup[s].stopRequested = sup[s].stopRequested,
         sup[s].forceRestart \/ sup[s].fatal => x.sup[s].forceRestart \/ x.sup[s].fatal,
         UNCHANGED <<setting, tick, exit, op, leases, up>>, BudgetOK',
         ProcOK', proc'[s] \in {"boot", "up"} \cup Codes,
         \A t \in Stations : t # s => proc'[t] = proc[t]
  PROVE  TypeOK' /\ Frame(s) /\ StationInv(s)'
<1>1. /\ setting' = setting /\ tick' = tick /\ exit' = exit /\ op' = op /\ lease' = lease
      /\ mine' = mine /\ up' = up
  BY DEF leases
<1>2. TickOK' /\ ExitOK' /\ OpOK' /\ LeaseOK' /\ UpOK'
  BY <1>1, LeftAlone
<1>3. TypeOK' /\ Frame(s) /\ inst'[s] = x.inst[s] /\ sup'[s] = x.sup[s]
  BY <1>1, <1>2, StepAct
<1>4. proc[s] # "none"
  BY DEF Live
<1>5. DownIdle(s)'
  BY <1>1, <1>4 DEF DownIdle, StationInv
<1>6. Tracked(s) => Tracked(s)'
  BY <1>1, <1>3, <1>4 DEF Tracked, Codes
<1>7. Launching(s) => Launching(s)'
  BY <1>1, <1>3 DEF Launching
<1>8. Holding(s) => Holding(s)'
  BY <1>1, <1>4 DEF Holding, Coordinated
<1>9. Intended(s) => Intended(s)'
  BY <1>1, <1>3 DEF Intended
<1>10. Tracked(s) /\ RunsAgain(s) => RunsAgain(s)'
  <2>1. Tracked(s) => sup[s].child /\ exit[s].pc = "none"
    BY <1>4 DEF Tracked
  <2>2. QED BY <1>1, <1>3, <2>1 DEF RunsAgain, ShouldRun
<1>11. QED
  BY <1>3, <1>5, <1>6, <1>7, <1>8, <1>9, <1>10, StationParts DEF StationInv

LEMMA OrphanNear ==
  ASSUME NEW s \in Stations, NEW w, Near(s, w), NEW x, x = Flagged(w, s, "leaseLost")
  PROVE  /\ Near(s, x) /\ x.inst = w.inst /\ x.row = w.row
         /\ \A f \in Flags : f # "leaseLost" => x.sup[s][f] = w.sup[s][f]
<1>1. PICK flag \in Flags : flag = "leaseLost"
  BY DEF Flags
<1>2. x = Flagged(w, s, flag)
  BY <1>1
<1>3. QED BY <1>1, <1>2, FlaggedNear

LEMMA ChildStartedKeeps ==
  ASSUME TypeOK, NEW s \in Stations, StationInv(s), ChildStarted(s)
  PROVE  TypeOK' /\ Frame(s) /\ StationInv(s)'
<1>1. PICK w : w = World
  OBVIOUS
<1>2. Near(s, w) /\ w.inst = inst /\ w.sup = sup
  BY <1>1, WorldNear
<1>3. PICK x : x = IF Owns(s) THEN IF sup[s].stopRequested THEN w
                                   ELSE Patched(w, s, [status |-> "running"])
                   ELSE Flagged(w, s, "leaseLost")
  OBVIOUS
<1>4. /\ Live(s) /\ Become(x) /\ proc' = [proc EXCEPT ![s] = "up"]
      /\ UNCHANGED <<setting, tick, exit, op, leases, up>> /\ budget' = budget
  BY <1>1, <1>3 DEF ChildStarted, Heard
<1>5. /\ Near(s, x) /\ x.inst[s].there = inst[s].there /\ x.inst[s].desired = inst[s].desired
      /\ \A f \in Flags : f # "leaseLost" => x.sup[s][f] = sup[s][f]
  <2>1. CASE x = w
    BY <1>2, <2>1
  <2>2. CASE x = Patched(w, s, [status |-> "running"])
    <3>1. PICK st \in Statuses : st = "running"
      BY DEF Statuses
    <3>2. x = Patched(w, s, [status |-> st])
      BY <2>2, <3>1
    <3>3. QED BY <1>2, <3>1, <3>2, StatusNear
  <2>3. CASE x = Flagged(w, s, "leaseLost")
    BY <1>2, <2>3, OrphanNear
  <2>4. QED BY <1>3, <2>1, <2>2, <2>3
<1>6. /\ x.sup[s].child = sup[s].child /\ x.sup[s].removing = sup[s].removing
      /\ x.sup[s].stalled = sup[s].stalled /\ x.sup[s].stopRequested = sup[s].stopRequested
      /\ x.sup[s].forceRestart = sup[s].forceRestart /\ x.sup[s].fatal = sup[s].fatal
  BY <1>5 DEF Flags
<1>7. ProcOK' /\ proc'[s] = "up" /\ \A t \in Stations : t # s => proc'[t] = proc[t]
  BY <1>4, ProcMoves
<1>8. BudgetOK'
  BY <1>4, BudgetKept
<1>9. QED BY <1>4, <1>5, <1>6, <1>7, <1>8, MessageKeeps

LEMMA HeartbeatKeeps ==
  ASSUME TypeOK, NEW s \in Stations, StationInv(s), Heartbeat(s)
  PROVE  TypeOK' /\ Frame(s) /\ StationInv(s)'
<1>1. PICK w : w = World
  OBVIOUS
<1>2. Near(s, w) /\ w.inst = inst /\ w.sup = sup
  BY <1>1, WorldNear
<1>3. PICK x : x = IF Owns(s) THEN Patched(w, s, Touch) ELSE Flagged(w, s, "leaseLost")
  OBVIOUS
<1>4. /\ Live(s) /\ Become(x) /\ proc' = proc /\ proc[s] = "up"
      /\ UNCHANGED <<setting, tick, exit, op, leases, up>> /\ budget' = budget
  BY <1>1, <1>3 DEF Heartbeat, Heard
<1>5. /\ Near(s, x) /\ x.inst[s].there = inst[s].there /\ x.inst[s].desired = inst[s].desired
      /\ \A f \in Flags : f # "leaseLost" => x.sup[s][f] = sup[s][f]
  <2>1. CASE x = Patched(w, s, Touch)
    BY <1>2, <2>1, TouchNear
  <2>2. CASE x = Flagged(w, s, "leaseLost")
    BY <1>2, <2>2, OrphanNear
  <2>3. QED BY <1>3, <2>1, <2>2
<1>6. /\ x.sup[s].child = sup[s].child /\ x.sup[s].removing = sup[s].removing
      /\ x.sup[s].stalled = sup[s].stalled /\ x.sup[s].stopRequested = sup[s].stopRequested
      /\ x.sup[s].forceRestart = sup[s].forceRestart /\ x.sup[s].fatal = sup[s].fatal
  BY <1>5 DEF Flags
<1>7. ProcOK' /\ proc'[s] = "up" /\ \A t \in Stations : t # s => proc'[t] = proc[t]
  BY <1>4, LeftAlone
<1>8. BudgetOK'
  BY <1>4, BudgetKept
<1>9. QED BY <1>4, <1>5, <1>6, <1>7, <1>8, MessageKeeps

LEMMA FatalMessageKeeps ==
  ASSUME TypeOK, NEW s \in Stations, StationInv(s), FatalMessage(s)
  PROVE  TypeOK' /\ Frame(s) /\ StationInv(s)'
<1>1. PICK w : w = World
  OBVIOUS
<1>2. Near(s, w) /\ w.inst = inst /\ w.sup = sup
  BY <1>1, WorldNear
<1>3. PICK entry : entry = [sup[s] EXCEPT !.forceRestart = FALSE, !.fatal = TRUE]
  OBVIOUS
<1>4. sup[s] \in Supervised
  BY DEF TypeOK
<1>5. /\ entry \in Supervised /\ entry.fatal
      /\ \A f \in Flags : f # "forceRestart" /\ f # "fatal" => entry[f] = sup[s][f]
  BY <1>3, <1>4 DEF Supervised, Flags
<1>6. PICK y : y = [w EXCEPT !.sup[s] = entry]
  OBVIOUS
<1>7. y = [World EXCEPT !.sup[s].forceRestart = FALSE, !.sup[s].fatal = TRUE]
  BY <1>1, <1>2, <1>3, <1>6 DEF World
<1>8. /\ Near(s, y) /\ y.inst = inst /\ y.sup[s] = entry
  <2>1. w \in Worlds /\ w.sup \in [Stations -> Supervised]
    BY <1>2 DEF Near, Worlds
  <2>2. y \in Worlds /\ y.inst = w.inst /\ y.sup = [w.sup EXCEPT ![s] = entry]
    BY <1>5, <1>6, <2>1 DEF Worlds
  <2>3. y.sup[s] = entry /\ \A t \in Stations : t # s => y.sup[t] = w.sup[t]
    BY <2>1, <2>2
  <2>4. QED BY <1>2, <2>2, <2>3 DEF Near
<1>9. PICK x : x = IF Owns(s) THEN Patched(y, s, Touch) ELSE Flagged(w, s, "leaseLost")
  OBVIOUS
<1>10. /\ Live(s) /\ Become(x) /\ proc' = proc /\ proc[s] = "boot" /\ Fault("fatal")
       /\ UNCHANGED <<setting, tick, exit, op, leases, up>>
  BY <1>1, <1>7, <1>9 DEF FatalMessage, Heard
<1>11. /\ Near(s, x) /\ x.inst[s].there = inst[s].there /\ x.inst[s].desired = inst[s].desired
       /\ \A f \in {"child", "removing", "stalled", "stopRequested"} : x.sup[s][f] = sup[s][f]
       /\ x.sup[s].fatal \/ (x.sup[s].fatal = sup[s].fatal /\ x.sup[s].forceRestart = sup[s].forceRestart)
  <2>1. CASE x = Patched(y, s, Touch)
    BY <1>5, <1>8, <2>1, TouchNear DEF Flags
  <2>2. CASE x = Flagged(w, s, "leaseLost")
    <3>1. /\ Near(s, x) /\ x.inst = w.inst
          /\ \A f \in Flags : f # "leaseLost" => x.sup[s][f] = w.sup[s][f]
      BY <1>2, <2>2, OrphanNear
    <3>2. QED BY <1>2, <3>1 DEF Flags
  <2>3. QED BY <1>9, <2>1, <2>2
<1>12. /\ x.sup[s].child = sup[s].child /\ x.sup[s].removing = sup[s].removing
       /\ x.sup[s].stalled = sup[s].stalled /\ x.sup[s].stopRequested = sup[s].stopRequested
  BY <1>11
<1>13. sup[s].forceRestart \/ sup[s].fatal => x.sup[s].forceRestart \/ x.sup[s].fatal
  BY <1>11
<1>14. ProcOK' /\ proc'[s] = "boot" /\ \A t \in Stations : t # s => proc'[t] = proc[t]
  BY <1>10, LeftAlone
<1>15. BudgetOK'
  BY <1>10, FaultType
<1>16. QED BY <1>10, <1>11, <1>12, <1>13, <1>14, <1>15, MessageKeeps

LEMMA ChildExitsKeeps ==
  ASSUME TypeOK, NEW s \in Stations, StationInv(s), NEW code \in Codes, ChildExits(s, code)
  PROVE  TypeOK' /\ Frame(s) /\ StationInv(s)'
<1>1. PICK w : w = World
  OBVIOUS
<1>2. Near(s, w) /\ w.inst = inst /\ w.sup = sup
  BY <1>1, WorldNear
<1>3. /\ Live(s) /\ Become(w) /\ proc' = [proc EXCEPT ![s] = code]
      /\ UNCHANGED <<setting, tick, exit, op, leases, up>> /\ (budget' = budget \/ Fault("fatal"))
  BY <1>1, SameWorld DEF ChildExits
<1>4. ProcOK' /\ proc'[s] = code /\ \A t \in Stations : t # s => proc'[t] = proc[t]
  BY <1>3, ProcMoves
<1>5. BudgetOK'
  BY <1>3, BudgetKept, FaultType
<1>6. QED BY <1>2, <1>3, <1>4, <1>5, MessageKeeps

-----------------------------------------------------------------------------
(* The exit of a child. *)
LEMMA ExitEventKeeps ==
  ASSUME TypeOK, NEW s \in Stations, StationInv(s), ExitEvent(s)
  PROVE  TypeOK' /\ Frame(s) /\ StationInv(s)'
<1>1. PICK w : w = World
  OBVIOUS
<1>2. Near(s, w) /\ w.inst = inst /\ w.sup = sup
  BY <1>1, WorldNear
<1>3. PICK entry : entry = [sup[s] EXCEPT !.child = FALSE]
  OBVIOUS
<1>4. sup[s] \in Supervised
  BY DEF TypeOK
<1>5. /\ entry \in Supervised /\ ~entry.child
      /\ \A f \in Flags : f # "child" => entry[f] = sup[s][f]
  BY <1>3, <1>4 DEF Supervised, Flags
<1>6. PICK y : y = [w EXCEPT !.sup[s] = entry]
  OBVIOUS
<1>7. y = [World EXCEPT !.sup[s].child = FALSE]
  BY <1>1, <1>2, <1>3, <1>6 DEF World
<1>8. /\ Near(s, y) /\ y.inst = inst /\ y.sup[s] = entry
  <2>1. w \in Worlds /\ w.sup \in [Stations -> Supervised]
    BY <1>2 DEF Near, Worlds
  <2>2. y \in Worlds /\ y.inst = w.inst /\ y.sup = [w.sup EXCEPT ![s] = entry]
    BY <1>5, <1>6, <2>1 DEF Worlds
  <2>3. y.sup[s] = entry /\ \A t \in Stations : t # s => y.sup[t] = w.sup[t]
    BY <2>1, <2>2
  <2>4. QED BY <1>2, <2>2, <2>3 DEF Near
<1>9. PICK code \in Codes : code = proc[s]
  BY DEF ExitEvent
<1>10. PICK x \in {y, Patched(y, s, Touch)}, e \in Exits :
         /\ Become(x) /\ exit' = [exit EXCEPT ![s] = e]
         /\ ~Coordinated => \/ /\ e.pc = "decide" /\ e.reason = Reason(s, code)
                            \/ e.pc = "none" /\ (sup[s].removing \/ ~inst[s].there)
  <2>1. CASE Coordinated
    <3>1. PICK e : e = [NoExit EXCEPT !.pc = "release", !.code = code]
      OBVIOUS
    <3>2. e \in Exits
      BY <1>9, <3>1 DEF NoExit, Exits, Codes
    <3>3. Become(y) /\ exit' = [exit EXCEPT ![s] = e]
      BY <1>7, <1>9, <2>1, <3>1 DEF ExitEvent
    <3>4. QED BY <2>1, <3>2, <3>3
  <2>2. CASE ~Coordinated /\ (sup[s].removing \/ ~inst[s].there)
    <3>1. NoExit \in Exits /\ NoExit.pc = "none"
      BY DEF NoExit, Exits, Codes
    <3>2. Become(y) /\ exit' = [exit EXCEPT ![s] = NoExit]
      BY <1>7, <2>2 DEF ExitEvent, Recording, ExitDone
    <3>3. QED BY <2>2, <3>1, <3>2
  <2>3. CASE ~Coordinated /\ ~(sup[s].removing \/ ~inst[s].there)
    <3>1. PICK e : e = [pc |-> "decide", code |-> code, reason |-> Reason(s, code)]
      OBVIOUS
    <3>2. e \in Exits /\ e.pc = "decide" /\ e.reason = Reason(s, code)
      BY <1>9, <3>1 DEF Exits, Reason
    <3>3. Become(Patched(y, s, Touch)) /\ exit' = [exit EXCEPT ![s] = e]
      BY <1>7, <1>9, <2>3, <3>1 DEF ExitEvent, Recording
    <3>4. QED BY <3>2, <3>3
  <2>4. QED BY <2>1, <2>2, <2>3
<1>11. /\ Near(s, x) /\ x.inst[s].there = inst[s].there /\ x.inst[s].desired = inst[s].desired
       /\ x.sup[s] = entry
  BY <1>8, <1>10, TouchNear
<1>12. /\ setting' = setting /\ tick' = tick /\ op' = op /\ lease' = lease /\ mine' = mine
       /\ up' = up /\ budget' = budget /\ proc' = [proc EXCEPT ![s] = "none"]
  BY DEF ExitEvent, leases
<1>13. ProcOK' /\ proc'[s] = "none" /\ \A t \in Stations : t # s => proc'[t] = proc[t]
  BY <1>12, ProcMoves
<1>14. ExitOK' /\ exit'[s] = e /\ \A t \in Stations : t # s => exit'[t] = exit[t]
  BY <1>10, ExitMoves
<1>15. TypeOK' /\ Frame(s) /\ inst'[s] = x.inst[s] /\ sup'[s] = entry
  <2>1. TickOK' /\ OpOK' /\ LeaseOK' /\ UpOK' /\ BudgetOK'
    BY <1>12, LeftAlone, BudgetKept
  <2>2. QED BY <1>10, <1>11, <1>12, <1>13, <1>14, <2>1, StepAct
<1>16. proc[s] # "none" /\ (Tracked(s) => sup[s].child)
  BY <1>9 DEF Codes, Tracked
<1>17. DownIdle(s)'
  BY <1>12, <1>16 DEF DownIdle, StationInv
<1>18. Tracked(s)'
  BY <1>5, <1>13, <1>15 DEF Tracked
<1>19. Tracked(s) /\ Launching(s) => tick[s] \notin {"launch", "spawn"}
  BY <1>16 DEF Launching
<1>20. Tracked(s) /\ Launching(s) => Launching(s)'
  BY <1>12, <1>19 DEF Launching
<1>21. ~Coordinated /\ Intended(s) => Intended(s)'
  <2>1. entry.removing = sup[s].removing
    BY <1>5 DEF Flags
  <2>2. QED BY <1>5, <1>10, <1>11, <1>12, <1>14, <1>15, <2>1 DEF Intended
<1>22. ~Coordinated /\ Tracked(s) /\ Intended(s) /\ RunsAgain(s) => RunsAgain(s)'
  <2> SUFFICES ASSUME ~Coordinated, Tracked(s), Intended(s), RunsAgain(s), ShouldRun(s)'
               PROVE  RunsAgain(s)'
    BY DEF RunsAgain
  <2>1. ShouldRun(s) /\ up[s] = "up" /\ inst[s].there /\ inst[s].desired = "running"
    BY <1>11, <1>12, <1>15 DEF ShouldRun
  <2>2. e.pc = "decide" /\ e.reason = Reason(s, code)
    BY <1>10, <2>1 DEF Intended
  <2>3. ASSUME e.reason = "stopped" PROVE sup[s].forceRestart \/ sup[s].fatal
    <3>1. ~sup[s].stalled /\ sup[s].stopRequested
      BY <1>9, <2>1, <2>2, <2>3 DEF Reason, Codes
    <3>2. QED BY <1>16, <2>1, <3>1 DEF RunsAgain
  <2>4. entry.forceRestart = sup[s].forceRestart /\ entry.fatal = sup[s].fatal
    BY <1>5 DEF Flags
  <2>5. QED BY <1>5, <1>14, <1>15, <2>2, <2>3, <2>4 DEF RunsAgain
<1>23. Holding(s) => Holding(s)'
  BY <1>12, <1>13, <1>14, <1>16 DEF Holding, Coordinated
<1>24. QED
  BY <1>15, <1>17, <1>18, <1>20, <1>21, <1>22, <1>23, StationParts DEF StationInv

(* A step of handleExit while the child is gone and nothing is launched.   *)
LEMMA ExitKeeps ==
  ASSUME TypeOK, NEW s \in Stations, StationInv(s), exit[s].pc # "none",
         NEW x, Near(s, x), Become(x), x.inst[s].there = inst[s].there,
         inst[s].desired = "stopped" => x.inst[s].desired = "stopped",
         ~sup[s].child => ~x.sup[s].child, ~sup[s].removing => ~x.sup[s].removing,
         UNCHANGED <<setting, proc, tick, op, up, budget>>, LeaseOK',
         \A t \in Stations : t # s =>
           mine'[t] = mine[t] /\ (mine[t] /\ lease.at = t /\ lease.live => lease' = lease),
         NEW e \in Exits, exit' = [exit EXCEPT ![s] = e], e.pc # "release",
         (lease' = lease /\ mine' = mine) \/ exit[s].pc = "release",
         ~Coordinated /\ Intended(s) => e.pc \notin {"release", "record"},
         ~Coordinated /\ Intended(s) /\ RunsAgain(s) /\ inst'[s] = x.inst[s] /\ sup'[s] = x.sup[s]
           /\ exit'[s] = e /\ ~sup'[s].child => RunsAgain(s)'
  PROVE  TypeOK' /\ Frame(s) /\ StationInv(s)'
<1>1. /\ setting' = setting /\ proc' = proc /\ tick' = tick /\ op' = op /\ up' = up
      /\ budget' = budget
  OBVIOUS
<1>2. ExitOK' /\ exit'[s] = e /\ \A t \in Stations : t # s => exit'[t] = exit[t]
  BY ExitMoves
<1>3. TypeOK' /\ Frame(s) /\ inst'[s] = x.inst[s] /\ sup'[s] = x.sup[s]
  <2>1. ProcOK' /\ TickOK' /\ OpOK' /\ UpOK' /\ BudgetOK'
    BY <1>1, LeftAlone, BudgetKept
  <2>2. QED BY <1>1, <1>2, <2>1, StepAct
<1>4. DownIdle(s)'
  BY <1>1 DEF DownIdle, StationInv
<1>5. Tracked(s) => ~sup[s].child /\ proc[s] = "none" /\ ~sup'[s].child
  BY <1>3 DEF Tracked
<1>6. Tracked(s) => Tracked(s)'
  BY <1>1, <1>5 DEF Tracked
<1>7. Launching(s) => tick[s] \notin {"launch", "spawn"}
  BY DEF Launching
<1>8. Tracked(s) /\ Launching(s) => Launching(s)'
  BY <1>1, <1>7 DEF Launching
<1>9. Tracked(s) /\ ~Coordinated /\ Intended(s) => Intended(s)'
  BY <1>1, <1>2, <1>3, <1>5 DEF Intended
<1>10. Tracked(s) /\ ~Coordinated /\ Intended(s) /\ RunsAgain(s) => RunsAgain(s)'
  BY <1>2, <1>3, <1>5
<1>11. Holding(s) => Holding(s)'
  BY <1>1, <1>2 DEF Holding, Coordinated
<1>12. QED
  BY <1>3, <1>4, <1>6, <1>8, <1>9, <1>10, <1>11, StationParts DEF StationInv

LEMMA ExitSteps ==
  ASSUME TypeOK, NEW s \in Stations, NEW pc \in {"none", "release", "record", "decide", "reset"}
  PROVE  /\ NoExit \in Exits /\ NoExit.pc = "none"
         /\ ExitDone(s) => exit' = [exit EXCEPT ![s] = NoExit]
         /\ Exiting(s, pc) => \E e \in Exits : e.pc = pc /\ exit' = [exit EXCEPT ![s] = e]
<1>1. NoExit \in Exits /\ NoExit.pc = "none"
  BY DEF NoExit, Exits, Codes
<1>2. exit[s] \in Exits
  BY DEF TypeOK, Exits
<1>3. PICK e : e = [exit[s] EXCEPT !.pc = pc]
  OBVIOUS
<1>4. e \in Exits /\ e.pc = pc
  BY <1>2, <1>3 DEF Exits
<1>5. Exiting(s, pc) => exit' = [exit EXCEPT ![s] = e]
  BY <1>3 DEF Exiting
<1>6. QED BY <1>1, <1>4, <1>5 DEF ExitDone

LEMMA ExitReleasesKeeps ==
  ASSUME TypeOK, NEW s \in Stations, StationInv(s), ExitReleases(s)
  PROVE  TypeOK' /\ Frame(s) /\ StationInv(s)'
<1>1. PICK w : w = World
  OBVIOUS
<1>2. Near(s, w) /\ w.inst = inst /\ w.sup = sup
  BY <1>1, WorldNear
<1>3. /\ exit[s].pc = "release" /\ Become(w) /\ Release(s)
      /\ UNCHANGED <<setting, proc, tick, op, up, budget>>
      /\ (Exiting(s, "record") \/ ExitDone(s))
  BY <1>1, SameWorld DEF ExitReleases
<1>4. PICK e \in Exits : e.pc # "release" /\ exit' = [exit EXCEPT ![s] = e]
  BY <1>3, ExitSteps
<1>5. /\ LeaseOK'
      /\ \A t \in Stations : t # s =>
           mine'[t] = mine[t] /\ (mine[t] /\ lease.at = t /\ lease.live => lease' = lease)
  BY <1>3, Releasing
<1>6. ~Intended(s)
  BY <1>3 DEF Intended
<1>7. QED BY <1>2, <1>3, <1>4, <1>5, <1>6, ExitKeeps

LEMMA ExitRecordsKeeps ==
  ASSUME TypeOK, NEW s \in Stations, StationInv(s), ExitRecords(s)
  PROVE  TypeOK' /\ Frame(s) /\ StationInv(s)'
<1>1. PICK w : w = World
  OBVIOUS
<1>2. Near(s, w) /\ w.inst = inst /\ w.sup = sup
  BY <1>1, WorldNear
<1>3. /\ exit[s].pc = "record" /\ UNCHANGED <<setting, proc, tick, op, up, budget>>
      /\ lease' = lease /\ mine' = mine
  BY DEF ExitRecords, leases
<1>4. PICK x \in {w, Patched(w, s, Touch)}, e \in Exits :
        Become(x) /\ exit' = [exit EXCEPT ![s] = e] /\ e.pc # "release"
  <2>1. CASE sup[s].leaseLost
    <3>1. Become(w) /\ ExitDone(s)
      BY <1>1, <2>1, SameWorld DEF ExitRecords
    <3>2. QED BY <3>1, ExitSteps
  <2>2. CASE ~sup[s].leaseLost /\ (sup[s].removing \/ ~inst[s].there)
    <3>1. Become(w) /\ ExitDone(s)
      BY <1>1, <2>2 DEF ExitRecords, Recording
    <3>2. QED BY <3>1, ExitSteps
  <2>3. CASE ~sup[s].leaseLost /\ ~(sup[s].removing \/ ~inst[s].there)
    <3>1. PICK code \in Codes : code = exit[s].code
      BY DEF TypeOK
    <3>2. PICK e : e = [pc |-> "decide", code |-> code, reason |-> Reason(s, code)]
      OBVIOUS
    <3>3. e \in Exits /\ e.pc = "decide"
      BY <3>1, <3>2 DEF Exits, Reason
    <3>4. Become(Patched(w, s, Touch)) /\ exit' = [exit EXCEPT ![s] = e]
      BY <1>1, <2>3, <3>1, <3>2 DEF ExitRecords, Recording
    <3>5. QED BY <3>3, <3>4
  <2>4. QED BY <2>1, <2>2, <2>3
<1>5. /\ Near(s, x) /\ x.inst[s].there = inst[s].there /\ x.inst[s].desired = inst[s].desired
      /\ x.sup = sup
  BY <1>2, <1>4, TouchNear
<1>6. ~Intended(s)
  BY <1>3 DEF Intended
<1>7. LeaseOK'
  BY <1>3, LeftAlone
<1>8. QED BY <1>3, <1>4, <1>5, <1>6, <1>7, ExitKeeps

LEMMA ExitResetsKeeps ==
  ASSUME TypeOK, NEW s \in Stations, StationInv(s), ExitResets(s)
  PROVE  TypeOK' /\ Frame(s) /\ StationInv(s)'
<1>1. PICK w : w = World
  OBVIOUS
<1>2. Near(s, w) /\ w.inst = inst /\ w.sup = sup
  BY <1>1, WorldNear
<1>3. PICK x : x = Reset(w, s)
  OBVIOUS
<1>4. Near(s, x) /\ x.inst = inst /\ ~x.sup[s].child /\ ~x.sup[s].removing
  <2>1. Near(s, x) /\ x.inst = inst /\ \A f \in Flags : ~x.sup[s][f]
    BY <1>2, <1>3, ResetNear
  <2>2. QED BY <2>1 DEF Flags
<1>5. /\ exit[s].pc = "reset" /\ Become(x) /\ UNCHANGED <<setting, proc, tick, op, up, budget>>
      /\ lease' = lease /\ mine' = mine /\ ExitDone(s)
  BY <1>1, <1>3 DEF ExitResets, leases
<1>6. PICK e \in Exits : e.pc = "none" /\ exit' = [exit EXCEPT ![s] = e]
  BY <1>5, ExitSteps
<1>7. LeaseOK'
  BY <1>5, LeftAlone
<1>8. ASSUME RunsAgain(s), inst'[s] = x.inst[s], exit'[s] = e, ~sup'[s].child
      PROVE  RunsAgain(s)'
  BY <1>4, <1>5, <1>6, <1>8 DEF RunsAgain, ShouldRun, ToRestart
<1>9. QED BY <1>4, <1>5, <1>6, <1>7, <1>8, ExitKeeps

(* What the exit handler writes, and what it leaves to do. *)
LEMMA DecidedNear ==
  ASSUME TypeOK, NEW s \in Stations, ExitDecides(s)
  PROVE  \E x, e : /\ e \in Exits /\ exit' = [exit EXCEPT ![s] = e]
                   /\ Near(s, x) /\ Become(x) /\ x.sup = sup /\ x.inst[s].there = inst[s].there
                   /\ inst[s].desired = "stopped" => x.inst[s].desired = "stopped"
                   /\ \/ /\ e.pc = "reset"
                         /\ inst[s].there => x.inst[s].status = "backoff" /\ x.inst[s].due # "no"
                      \/ /\ e.pc = "none" /\ ~Forced(s) /\ (Hopeless(s) \/ ~Retried(s))
                         /\ inst[s].there =>
                              \/ x.inst[s].status = "errored" \/ x.inst[s].desired = "stopped"
                              \/ ~Hopeless(s) /\ exit[s].reason = "stopped"
<1>1. PICK w : w = World
  OBVIOUS
<1>2. Near(s, w) /\ w.inst = inst /\ w.sup = sup
  BY <1>1, WorldNear
<1>3. CASE Exiting(s, "reset")
           /\ \/ Become(Patched(w, s, [status |-> "backoff", due |-> "now"]))
              \/ Become(Patched(w, s, [status |-> "backoff", due |-> "later"]))
  <2>1. PICK e \in Exits : e.pc = "reset" /\ exit' = [exit EXCEPT ![s] = e]
    BY <1>3, ExitSteps
  <2>2. PICK st \in Statuses, d \in Dues :
          st = "backoff" /\ d # "no" /\ Become(Patched(w, s, [status |-> st, due |-> d]))
    BY <1>3 DEF Statuses, Dues
  <2>3. PICK x : x = Patched(w, s, [status |-> st, due |-> d])
    OBVIOUS
  <2>4. /\ Near(s, x) /\ x.sup = sup /\ x.inst[s].there = inst[s].there
        /\ x.inst[s].desired = inst[s].desired
        /\ inst[s].there => x.inst[s].status = st /\ x.inst[s].due = d
    BY <1>2, <2>2, <2>3, RestartNear
  <2>5. QED BY <2>1, <2>2, <2>3, <2>4
<1>4. CASE /\ ExitDone(s) /\ ~Forced(s) /\ (Hopeless(s) \/ ~Retried(s))
           /\ Become(Patched(w, s, Final(s)))
  <2>1. PICK e \in Exits : e.pc = "none" /\ exit' = [exit EXCEPT ![s] = e]
    BY <1>4, ExitSteps
  <2>2. PICK x : x = Patched(w, s, Final(s))
    OBVIOUS
  <2>3. exit[s].reason \in {"clean", "failure", "stalled", "stopped"}
    BY DEF TypeOK
  <2>4. CASE Hopeless(s) \/ exit[s].reason \in {"failure", "stalled"}
    <3>1. PICK st \in Statuses : st = "errored"
      BY DEF Statuses
    <3>2. x = Patched(w, s, [status |-> st])
      BY <2>2, <2>4, <3>1 DEF Final
    <3>3. /\ Near(s, x) /\ x.sup = sup /\ x.inst[s].there = inst[s].there
          /\ x.inst[s].desired = inst[s].desired
          /\ inst[s].there => x.inst[s].status = st
      BY <1>2, <3>1, <3>2, StatusNear
    <3>4. QED BY <1>4, <2>1, <2>2, <3>1, <3>3
  <2>5. CASE ~Hopeless(s) /\ exit[s].reason = "clean"
    <3>1. PICK st \in Statuses, to \in Desires : st = "stopped" /\ to = "stopped"
      BY DEF Statuses, Desires
    <3>2. x = Patched(w, s, [status |-> st, desired |-> to])
      BY <2>2, <2>5, <3>1 DEF Final
    <3>3. /\ Near(s, x) /\ x.sup = sup /\ x.inst[s].there = inst[s].there
          /\ ~inst[s].there => x.inst[s] = inst[s]
          /\ inst[s].there => x.inst[s].desired = to
      BY <1>2, <3>1, <3>2, CleanNear
    <3>4. inst[s].there \in BOOLEAN
      BY DEF TypeOK, Instance
    <3>5. QED BY <1>4, <2>1, <2>2, <3>1, <3>3, <3>4
  <2>6. CASE ~Hopeless(s) /\ exit[s].reason = "stopped"
    <3>1. PICK st \in Statuses : st = "stopped"
      BY DEF Statuses
    <3>2. x = Patched(w, s, [status |-> st])
      BY <2>2, <2>6, <3>1 DEF Final
    <3>3. /\ Near(s, x) /\ x.sup = sup /\ x.inst[s].there = inst[s].there
          /\ x.inst[s].desired = inst[s].desired
      BY <1>2, <3>1, <3>2, StatusNear
    <3>4. QED BY <1>4, <2>1, <2>2, <2>6, <3>3
  <2>7. QED BY <2>3, <2>4, <2>5, <2>6
<1>5. QED BY <1>1, <1>3, <1>4 DEF ExitDecides

LEMMA ExitDecidesKeeps ==
  ASSUME TypeOK, NEW s \in Stations, StationInv(s), ExitDecides(s)
  PROVE  TypeOK' /\ Frame(s) /\ StationInv(s)'
<1>1. PICK x, e : /\ e \in Exits /\ exit' = [exit EXCEPT ![s] = e]
                  /\ Near(s, x) /\ Become(x) /\ x.sup = sup /\ x.inst[s].there = inst[s].there
                  /\ inst[s].desired = "stopped" => x.inst[s].desired = "stopped"
                  /\ \/ /\ e.pc = "reset"
                        /\ inst[s].there => x.inst[s].status = "backoff" /\ x.inst[s].due # "no"
                     \/ /\ e.pc = "none" /\ ~Forced(s) /\ (Hopeless(s) \/ ~Retried(s))
                        /\ inst[s].there =>
                             \/ x.inst[s].status = "errored" \/ x.inst[s].desired = "stopped"
                             \/ ~Hopeless(s) /\ exit[s].reason = "stopped"
  BY DecidedNear
<1>2. /\ exit[s].pc = "decide" /\ UNCHANGED <<setting, proc, tick, op, up, budget>>
      /\ lease' = lease /\ mine' = mine
  BY DEF ExitDecides, leases
<1>3. LeaseOK'
  BY <1>2, LeftAlone
<1>4. ASSUME RunsAgain(s), inst'[s] = x.inst[s], exit'[s] = e, ~sup'[s].child
      PROVE  RunsAgain(s)'
  <2> SUFFICES ASSUME ShouldRun(s)' PROVE RunsAgain(s)'
    BY DEF RunsAgain
  <2>1. inst[s].there /\ up[s] = "up" /\ x.inst[s].desired = "running" /\ inst[s].desired \in Desires
    BY <1>1, <1>2, <1>4 DEF ShouldRun, TypeOK, Instance, Desires
  <2>2. ShouldRun(s)
    BY <1>1, <2>1 DEF ShouldRun, Desires
  <2>3. CASE e.pc = "reset"
    BY <1>1, <1>4, <2>1, <2>3 DEF RunsAgain, ToRestart
  <2>4. CASE e.pc = "none"
    <3>1. exit[s].reason = "stopped" => Forced(s) \/ Hopeless(s)
      BY <1>2, <1>4, <2>1, <2>2 DEF RunsAgain, Forced, Hopeless
    <3>2. x.inst[s].status = "errored"
      BY <1>1, <2>1, <2>4, <3>1
    <3>3. QED BY <1>4, <2>4, <3>2 DEF RunsAgain
  <2>5. QED BY <1>1, <2>3, <2>4
<1>5. QED BY <1>1, <1>2, <1>3, <1>4, ExitKeeps

LEMMA BackoffEndsKeeps ==
  ASSUME TypeOK, NEW s \in Stations, StationInv(s), BackoffEnds(s)
  PROVE  TypeOK' /\ Frame(s) /\ StationInv(s)'
<1>1. PICK w : w = World
  OBVIOUS
<1>2. Near(s, w) /\ w.inst = inst /\ w.sup = sup
  BY <1>1, WorldNear
<1>3. PICK d \in Dues : d = "now"
  BY DEF Dues
<1>4. inst[s] \in Instance
  BY DEF TypeOK
<1>5. PICK i \in Instance :
        /\ i = With(inst[s], [due |-> d]) /\ i.there = inst[s].there
        /\ i.desired = inst[s].desired /\ i.status = inst[s].status /\ i.due = d
  BY <1>3, <1>4, DuePatch
<1>6. PICK x : x = Put(w, s, i)
  OBVIOUS
<1>7. Near(s, x) /\ x.sup = sup /\ x.inst[s] = i
  BY <1>2, <1>5, <1>6, CopyNear
<1>8. /\ inst[s].due = "later" /\ Become(x) /\ tick' = tick
      /\ UNCHANGED <<setting, proc, exit, op, leases, up>> /\ budget' = budget
  BY <1>1, <1>2, <1>3, <1>5, <1>6 DEF BackoffEnds, Copied, Put
<1>9. TypeOK' /\ Frame(s) /\ inst'[s] = i /\ sup'[s] = sup[s]
  BY <1>7, <1>8, BudgetKept, WorldAct
<1>10. proc' = proc /\ exit' = exit /\ op' = op /\ mine' = mine /\ lease' = lease /\ up' = up
  BY <1>8 DEF leases
<1>11. DownIdle(s)'
  BY <1>8, <1>10 DEF DownIdle, StationInv, NoInstance
<1>12. Tracked(s) => Tracked(s)'
  BY <1>5, <1>9, <1>10 DEF Tracked
<1>13. Launching(s) => Launching(s)'
  BY <1>8, <1>9, <1>10 DEF Launching
<1>14. Holding(s) => Holding(s)'
  BY <1>8, <1>10 DEF Holding, Live, Coordinated
<1>15. Intended(s) => Intended(s)'
  BY <1>5, <1>8, <1>9, <1>10 DEF Intended
<1>16. RunsAgain(s) => RunsAgain(s)'
  BY <1>3, <1>5, <1>8, <1>9, <1>10 DEF RunsAgain, ShouldRun, ToRestart
<1>17. QED
  BY <1>9, <1>11, <1>12, <1>13, <1>14, <1>15, <1>16, StationParts DEF StationInv

-----------------------------------------------------------------------------
(* Requests to a standalone runner, and what follows them. *)
Ops == {"idle", "stopping", "restarting", "deleting", "waiting", "removing"}

LEMMA RequestKeeps ==
  ASSUME TypeOK, NEW s \in Stations, StationInv(s), up[s] \notin {"down", "unused"},
         NEW x, Near(s, x), Become(x),
         Tracked(s) => x.sup[s].child = sup[s].child,
         Tracked(s) /\ sup[s].child => x.inst[s].there,
         NEW o \in Ops, op' = [op EXCEPT ![s] = o],
         UNCHANGED <<setting, proc, tick, exit, leases, up>>, BudgetOK',
         Launching(s) /\ tick[s] \in {"launch", "spawn"} => o # "restarting",
         ~SlowWrites /\ ~Coordinated /\ Tracked(s) /\ Launching(s) /\ Intended(s) /\ RunsAgain(s)
           /\ inst'[s] = x.inst[s] /\ sup'[s] = x.sup[s] /\ op'[s] = o
           => Intended(s)' /\ RunsAgain(s)'
  PROVE  TypeOK' /\ Frame(s) /\ StationInv(s)'
<1>1. /\ setting' = setting /\ proc' = proc /\ tick' = tick /\ exit' = exit /\ up' = up
      /\ lease' = lease /\ mine' = mine
  BY DEF leases
<1>2. OpOK' /\ op'[s] = o /\ \A t \in Stations : t # s => op'[t] = op[t]
  BY DEF TypeOK, OpOK, Ops
<1>3. TypeOK' /\ Frame(s) /\ inst'[s] = x.inst[s] /\ sup'[s] = x.sup[s]
  <2>1. ProcOK' /\ TickOK' /\ ExitOK' /\ LeaseOK' /\ UpOK'
    BY <1>1, LeftAlone
  <2>2. QED BY <1>1, <1>2, <2>1, StepAct
<1>4. DownIdle(s)'
  BY <1>1 DEF DownIdle
<1>5. Tracked(s) => Tracked(s)'
  BY <1>1, <1>3 DEF Tracked
<1>6. Tracked(s) /\ Launching(s) => Launching(s)'
  BY <1>1, <1>2, <1>3 DEF Launching
<1>7. Holding(s) => Holding(s)'
  BY <1>1 DEF Holding, Live, Coordinated
<1>8. QED
  BY <1>2, <1>3, <1>4, <1>5, <1>6, <1>7, StationParts DEF StationInv

LEMMA RaisedNear ==
  ASSUME TypeOK, NEW s \in Stations, NEW flag \in Flags, NEW to \in Desires,
         NEW x, x = Desire(Flagged(World, s, flag), s, to)
  PROVE  /\ Near(s, x) /\ x.inst[s].there = inst[s].there
         /\ inst[s].there => x.inst[s].desired = to
         /\ x.sup[s][flag] /\ \A f \in Flags : f # flag => x.sup[s][f] = sup[s][f]
<1>1. PICK w : w = World
  OBVIOUS
<1>2. Near(s, w) /\ w.inst = inst /\ w.sup = sup
  BY <1>1, WorldNear
<1>3. PICK y : y = Flagged(w, s, flag)
  OBVIOUS
<1>4. /\ Near(s, y) /\ y.inst = inst /\ y.sup[s][flag]
      /\ \A f \in Flags : f # flag => y.sup[s][f] = sup[s][f]
  BY <1>2, <1>3, FlaggedNear
<1>5. x = Patched(y, s, [desired |-> to])
  BY <1>1, <1>3 DEF Desire
<1>6. /\ Near(s, x) /\ x.sup = y.sup /\ x.inst[s].there = y.inst[s].there
      /\ y.inst[s].there => x.inst[s].desired = to
  BY <1>4, <1>5, DesireNear
<1>7. QED BY <1>4, <1>6

LEMMA StartKeeps ==
  ASSUME TypeOK, NEW s \in Stations, StationInv(s), Start(s)
  PROVE  TypeOK' /\ Frame(s) /\ StationInv(s)'
<1>1. PICK w : w = World
  OBVIOUS
<1>2. Near(s, w) /\ w.inst = inst /\ w.sup = sup
  BY <1>1, WorldNear
<1>3. PICK to \in Desires : to = "running"
  BY DEF Desires
<1>4. PICK flag \in Flags : flag = "forceRestart"
  BY DEF Flags
<1>5. PICK x : /\ Become(x)
               /\ \/ ~sup[s].child /\ x = Patched(w, s, Launchable)
                  \/ /\ sup[s].child /\ sup[s].stopRequested
                     /\ x = Desire(Flagged(World, s, flag), s, to)
                  \/ sup[s].child /\ ~sup[s].stopRequested /\ x = Patched(w, s, [desired |-> to])
  BY <1>1, <1>3, <1>4 DEF Start, Desire
<1>6. /\ up[s] = "up" /\ op[s] = "idle" /\ inst[s].there
      /\ (~SlowWrites => exit[s].pc = "none") /\ Command /\ op' = [op EXCEPT ![s] = "idle"]
      /\ UNCHANGED <<setting, proc, tick, exit, leases, up>>
  BY DEF Start, Asked, Quiet
<1>7. /\ Near(s, x) /\ x.inst[s].there
      /\ \A f \in Flags : f # "forceRestart" => x.sup[s][f] = sup[s][f]
      /\ ~sup[s].child => x.inst[s].status = "backoff" /\ x.inst[s].due = "now"
      /\ sup[s].child /\ sup[s].stopRequested => x.sup[s].forceRestart
  <2>1. CASE ~sup[s].child /\ x = Patched(w, s, Launchable)
    BY <1>2, <1>6, <2>1, LaunchNear
  <2>2. CASE sup[s].child /\ x = Desire(Flagged(World, s, flag), s, to)
    BY <1>4, <1>6, <2>2, RaisedNear
  <2>3. CASE sup[s].child /\ ~sup[s].stopRequested /\ x = Patched(w, s, [desired |-> to])
    BY <1>2, <1>3, <1>6, <2>3, DesireNear
  <2>4. QED BY <1>5, <2>1, <2>2, <2>3
<1>8. /\ x.sup[s].child = sup[s].child /\ x.sup[s].removing = sup[s].removing
      /\ x.sup[s].stalled = sup[s].stalled /\ x.sup[s].stopRequested = sup[s].stopRequested
  BY <1>7 DEF Flags
<1>9. ASSUME Intended(s), inst'[s] = x.inst[s], sup'[s] = x.sup[s], op'[s] = "idle"
      PROVE  Intended(s)'
  BY <1>6, <1>8, <1>9 DEF Intended
<1>10. ASSUME ~SlowWrites, inst'[s] = x.inst[s], sup'[s] = x.sup[s], op'[s] = "idle"
       PROVE  RunsAgain(s)'
  <2>1. exit'[s].pc = "none"
    BY <1>6, <1>10
  <2>2. CASE sup[s].child
    BY <1>7, <1>8, <1>10, <2>1, <2>2 DEF RunsAgain
  <2>3. CASE ~sup[s].child
    BY <1>7, <1>8, <1>10, <2>1, <2>3 DEF RunsAgain, ToRestart
  <2>4. QED BY <2>2, <2>3
<1>11. PICK o \in Ops : o = "idle"
  BY DEF Ops
<1>12. BudgetOK'
  BY <1>6, CommandType
<1>13. QED BY <1>5, <1>6, <1>7, <1>8, <1>9, <1>10, <1>11, <1>12, RequestKeeps

LEMMA StopAskedKeeps ==
  ASSUME TypeOK, NEW s \in Stations, StationInv(s), StopAsked(s)
  PROVE  TypeOK' /\ Frame(s) /\ StationInv(s)'
<1>1. PICK w : w = World
  OBVIOUS
<1>2. Near(s, w) /\ w.inst = inst /\ w.sup = sup
  BY <1>1, WorldNear
<1>3. PICK to \in Desires : to = "stopped"
  BY DEF Desires
<1>4. PICK x : x = Patched(w, s, [desired |-> to])
  OBVIOUS
<1>5. /\ up[s] = "up" /\ op[s] = "idle" /\ inst[s].there /\ Command /\ Become(x)
      /\ op' = [op EXCEPT ![s] = "stopping"]
      /\ UNCHANGED <<setting, proc, tick, exit, leases, up>>
  BY <1>1, <1>3, <1>4 DEF StopAsked, Asked, Desire
<1>6. Near(s, x) /\ x.sup = sup /\ x.inst[s].there /\ x.inst[s].desired = "stopped"
  BY <1>2, <1>3, <1>4, <1>5, DesireNear
<1>7. ASSUME Intended(s), inst'[s] = x.inst[s], sup'[s] = x.sup[s], op'[s] = "stopping"
      PROVE  Intended(s)' /\ RunsAgain(s)'
  BY <1>5, <1>6, <1>7 DEF Intended, RunsAgain, ShouldRun
<1>8. PICK o \in Ops : o = "stopping"
  BY DEF Ops
<1>9. BudgetOK'
  BY <1>5, CommandType
<1>10. QED BY <1>5, <1>6, <1>7, <1>8, <1>9, RequestKeeps

LEMMA RestartAskedKeeps ==
  ASSUME TypeOK, NEW s \in Stations, StationInv(s), RestartAsked(s)
  PROVE  TypeOK' /\ Frame(s) /\ StationInv(s)'
<1>1. PICK to \in Desires : to = "running"
  BY DEF Desires
<1>2. PICK flag \in Flags : flag = "forceRestart"
  BY DEF Flags
<1>3. PICK x : x = Desire(Flagged(World, s, flag), s, to)
  OBVIOUS
<1>4. /\ up[s] = "up" /\ op[s] = "idle" /\ sup[s].child /\ Command /\ Become(x)
      /\ op' = [op EXCEPT ![s] = "restarting"] /\ (~SlowWrites => exit[s].pc = "none")
      /\ UNCHANGED <<setting, proc, tick, exit, leases, up>>
  BY <1>1, <1>2, <1>3 DEF RestartAsked, Asked, Quiet
<1>5. /\ Near(s, x) /\ x.inst[s].there = inst[s].there /\ x.sup[s].forceRestart
      /\ \A f \in Flags : f # "forceRestart" => x.sup[s][f] = sup[s][f]
  BY <1>2, <1>3, RaisedNear
<1>6. /\ x.sup[s].child = sup[s].child /\ x.sup[s].removing = sup[s].removing
      /\ x.sup[s].stalled = sup[s].stalled
  BY <1>5 DEF Flags
<1>7. Tracked(s) => inst[s].there
  BY <1>4 DEF Tracked
<1>8. Launching(s) => tick[s] \notin {"launch", "spawn"}
  BY <1>4 DEF Launching
<1>9. ASSUME ~SlowWrites, Intended(s), inst'[s] = x.inst[s], sup'[s] = x.sup[s],
             op'[s] = "restarting"
      PROVE  Intended(s)' /\ RunsAgain(s)'
  <2>1. Intended(s)'
    BY <1>4, <1>6, <1>9 DEF Intended
  <2>2. exit'[s].pc = "none" /\ sup'[s].child /\ sup'[s].forceRestart
    BY <1>4, <1>5, <1>6, <1>9
  <2>3. RunsAgain(s)'
    BY <2>2 DEF RunsAgain
  <2>4. QED BY <2>1, <2>3
<1>10. PICK o \in Ops : o = "restarting"
  BY DEF Ops
<1>11. BudgetOK'
  BY <1>4, CommandType
<1>12. QED BY <1>4, <1>5, <1>6, <1>7, <1>8, <1>9, <1>10, <1>11, RequestKeeps

LEMMA CreateKeeps ==
  ASSUME TypeOK, NEW s \in Stations, StationInv(s), Create(s)
  PROVE  TypeOK' /\ Frame(s) /\ StationInv(s)'
<1>1. PICK w : w = World
  OBVIOUS
<1>2. Near(s, w) /\ w.inst = inst /\ w.sup = sup
  BY <1>1, WorldNear
<1>3. PICK i \in Instance : i = Created /\ i.there /\ i.status = "backoff" /\ i.due = "now"
  BY Constants DEF Created
<1>4. PICK y : y = [w EXCEPT !.inst[s] = i, !.row = i]
  OBVIOUS
<1>5. Near(s, y) /\ y.inst[s] = i /\ y.sup = sup
  <2>1. w \in Worlds /\ w.inst \in [Stations -> Instance]
    BY <1>2 DEF Near, Worlds
  <2>2. y \in Worlds /\ y.inst = [w.inst EXCEPT ![s] = i] /\ y.sup = w.sup
    BY <1>3, <1>4, <2>1 DEF Worlds
  <2>3. y.inst[s] = i /\ \A t \in Stations : t # s => y.inst[t] = w.inst[t]
    BY <2>1, <2>2
  <2>4. QED BY <1>2, <2>2, <2>3 DEF Near
<1>6. PICK x : x = Reset(y, s)
  OBVIOUS
<1>7. Near(s, x) /\ x.inst[s] = i /\ \A f \in Flags : ~x.sup[s][f]
  BY <1>5, <1>6, ResetNear
<1>8. ~x.sup[s].child /\ ~x.sup[s].removing
  BY <1>7 DEF Flags
<1>9. /\ up[s] = "up" /\ op[s] = "idle" /\ ~inst[s].there /\ Command /\ Become(x)
      /\ op' = [op EXCEPT ![s] = "idle"] /\ (~SlowWrites => exit[s].pc = "none")
      /\ UNCHANGED <<setting, proc, tick, exit, leases, up>>
  BY <1>1, <1>3, <1>4, <1>6 DEF Create, Asked, Quiet
<1>10. Tracked(s) => ~sup[s].child
  BY <1>9 DEF Tracked
<1>11. ASSUME ~SlowWrites, Intended(s), inst'[s] = x.inst[s], sup'[s] = x.sup[s], op'[s] = "idle"
       PROVE  Intended(s)' /\ RunsAgain(s)'
  <2>1. Intended(s)'
    BY <1>8, <1>9, <1>11 DEF Intended
  <2>2. RunsAgain(s)'
    BY <1>3, <1>7, <1>8, <1>9, <1>11 DEF RunsAgain, ToRestart
  <2>3. QED BY <2>1, <2>2
<1>12. PICK o \in Ops : o = "idle"
  BY DEF Ops
<1>13. BudgetOK'
  BY <1>9, CommandType
<1>14. x.sup[s].child \in BOOLEAN /\ sup[s].child \in BOOLEAN
  BY <1>2, <1>7, InWorld DEF Supervised, Flags
<1>15. QED BY <1>7, <1>8, <1>9, <1>10, <1>11, <1>12, <1>13, <1>14, RequestKeeps

LEMMA DeleteAskedKeeps ==
  ASSUME TypeOK, NEW s \in Stations, StationInv(s), DeleteAsked(s)
  PROVE  TypeOK' /\ Frame(s) /\ StationInv(s)'
<1>1. PICK to \in Desires : to = "stopped"
  BY DEF Desires
<1>2. PICK flag \in Flags : flag = "removing"
  BY DEF Flags
<1>3. PICK x : x = Desire(Flagged(World, s, flag), s, to)
  OBVIOUS
<1>4. /\ up[s] = "up" /\ op[s] = "idle" /\ inst[s].there /\ Command /\ Become(x)
      /\ op' = [op EXCEPT ![s] = "deleting"]
      /\ UNCHANGED <<setting, proc, tick, exit, leases, up>>
  BY <1>1, <1>2, <1>3 DEF DeleteAsked, Asked
<1>5. /\ Near(s, x) /\ x.inst[s].there /\ x.inst[s].desired = "stopped"
      /\ \A f \in Flags : f # "removing" => x.sup[s][f] = sup[s][f]
  BY <1>1, <1>2, <1>3, <1>4, RaisedNear
<1>6. x.sup[s].child = sup[s].child /\ x.sup[s].stalled = sup[s].stalled
  BY <1>5 DEF Flags
<1>7. ASSUME Intended(s), inst'[s] = x.inst[s], sup'[s] = x.sup[s], op'[s] = "deleting"
      PROVE  Intended(s)' /\ RunsAgain(s)'
  <2>1. Intended(s)'
    BY <1>4, <1>5, <1>6, <1>7 DEF Intended
  <2>2. RunsAgain(s)'
    BY <1>5, <1>7 DEF RunsAgain, ShouldRun
  <2>3. QED BY <2>1, <2>2
<1>8. PICK o \in Ops : o = "deleting"
  BY DEF Ops
<1>9. BudgetOK'
  BY <1>4, CommandType
<1>10. QED BY <1>4, <1>5, <1>6, <1>7, <1>8, <1>9, RequestKeeps

LEMMA StopActsKeeps ==
  ASSUME TypeOK, NEW s \in Stations, StationInv(s), StopActs(s)
  PROVE  TypeOK' /\ Frame(s) /\ StationInv(s)'
<1>1. PICK w : w = World
  OBVIOUS
<1>2. Near(s, w) /\ w.inst = inst /\ w.sup = sup
  BY <1>1, WorldNear
<1>3. PICK st \in Statuses, d \in Dues : st = "stopped" /\ d = "no"
  BY DEF Statuses, Dues
<1>4. PICK x : /\ Become(x)
               /\ x = StopInitiated(w, s) \/ x = Patched(w, s, [status |-> st, due |-> d])
  BY <1>1, <1>3 DEF StopActs
<1>5. /\ op[s] = "stopping" /\ op' = [op EXCEPT ![s] = "idle"] /\ budget' = budget
      /\ UNCHANGED <<setting, proc, tick, exit, leases, up>>
  BY DEF StopActs, Answered
<1>6. /\ Near(s, x) /\ x.inst[s].there = inst[s].there /\ x.inst[s].desired = inst[s].desired
      /\ \A f \in Flags : f # "stopRequested" => x.sup[s][f] = sup[s][f]
  <2>1. CASE x = StopInitiated(w, s)
    BY <1>2, <2>1, StopNear
  <2>2. CASE x = Patched(w, s, [status |-> st, due |-> d])
    BY <1>2, <1>3, <2>2, RestartNear
  <2>3. QED BY <1>4, <2>1, <2>2
<1>7. /\ x.sup[s].child = sup[s].child /\ x.sup[s].removing = sup[s].removing
      /\ x.sup[s].stalled = sup[s].stalled
  BY <1>6 DEF Flags
<1>8. up[s] \notin {"down", "unused"}
  BY <1>5 DEF StationInv, DownIdle
<1>9. Tracked(s) /\ sup[s].child => inst[s].there
  BY DEF Tracked
<1>10. ASSUME Intended(s), inst'[s] = x.inst[s], sup'[s] = x.sup[s], op'[s] = "idle"
       PROVE  Intended(s)' /\ RunsAgain(s)'
  <2>1. inst'[s].desired = "stopped"
    BY <1>5, <1>6, <1>10 DEF Intended
  <2>2. Intended(s)'
    BY <1>5, <1>7, <1>10, <2>1 DEF Intended
  <2>3. RunsAgain(s)'
    BY <2>1 DEF RunsAgain, ShouldRun
  <2>4. QED BY <2>2, <2>3
<1>11. PICK o \in Ops : o = "idle"
  BY DEF Ops
<1>12. BudgetOK'
  BY <1>5, BudgetKept
<1>13. QED BY <1>4, <1>5, <1>6, <1>7, <1>8, <1>9, <1>10, <1>11, <1>12, RequestKeeps

LEMMA RestartActsKeeps ==
  ASSUME TypeOK, NEW s \in Stations, StationInv(s), RestartActs(s)
  PROVE  TypeOK' /\ Frame(s) /\ StationInv(s)'
<1>1. PICK w : w = World
  OBVIOUS
<1>2. Near(s, w) /\ w.inst = inst /\ w.sup = sup
  BY <1>1, WorldNear
<1>3. PICK x : x = StopInitiated(w, s)
  OBVIOUS
<1>4. /\ op[s] = "restarting" /\ op' = [op EXCEPT ![s] = "idle"] /\ budget' = budget
      /\ Become(x) /\ UNCHANGED <<setting, proc, tick, exit, leases, up>>
  BY <1>1, <1>3 DEF RestartActs, Answered
<1>5. /\ Near(s, x) /\ x.inst[s].there = inst[s].there /\ x.inst[s].desired = inst[s].desired
      /\ (\A f \in Flags : f # "stopRequested" => x.sup[s][f] = sup[s][f])
      /\ (~sup[s].child => x = w)
  BY <1>2, <1>3, StopNear
<1>6. /\ x.sup[s].child = sup[s].child /\ x.sup[s].removing = sup[s].removing
      /\ x.sup[s].stalled = sup[s].stalled /\ x.sup[s].forceRestart = sup[s].forceRestart
      /\ x.sup[s].fatal = sup[s].fatal
  BY <1>5 DEF Flags
<1>7. up[s] \notin {"down", "unused"}
  BY <1>4 DEF StationInv, DownIdle
<1>8. Tracked(s) /\ sup[s].child => inst[s].there
  BY DEF Tracked
<1>9. ASSUME Intended(s), inst'[s] = x.inst[s], sup'[s] = x.sup[s], op'[s] = "idle"
      PROVE  Intended(s)'
  BY <1>4, <1>5, <1>6, <1>9 DEF Intended
<1>10. ASSUME Tracked(s), RunsAgain(s), inst'[s] = x.inst[s], sup'[s] = x.sup[s], op'[s] = "idle"
       PROVE  RunsAgain(s)'
  <2>1. ShouldRun(s)' => ShouldRun(s)
    BY <1>4, <1>5, <1>10 DEF ShouldRun
  <2>2. CASE sup[s].child
    <3>1. exit'[s].pc = "none" /\ sup'[s].child
      BY <1>4, <1>6, <1>10, <2>2 DEF Tracked
    <3>2. ShouldRun(s)' => sup'[s].forceRestart \/ sup'[s].fatal \/ sup'[s].stalled
      BY <1>4, <1>6, <1>10, <2>1, <2>2 DEF RunsAgain
    <3>3. QED BY <3>1, <3>2 DEF RunsAgain
  <2>3. CASE ~sup[s].child
    <3>1. inst'[s] = inst[s] /\ sup'[s] = sup[s]
      BY <1>2, <1>5, <1>10, <2>3
    <3>2. QED BY <1>4, <1>10, <2>3, <3>1 DEF RunsAgain, ShouldRun, ToRestart
  <2>4. QED BY <2>2, <2>3
<1>11. PICK o \in Ops : o = "idle"
  BY DEF Ops
<1>12. BudgetOK'
  BY <1>4, BudgetKept
<1>13. QED BY <1>4, <1>5, <1>6, <1>7, <1>8, <1>9, <1>10, <1>11, <1>12, RequestKeeps

LEMMA DeleteStopsKeeps ==
  ASSUME TypeOK, NEW s \in Stations, StationInv(s), DeleteStops(s)
  PROVE  TypeOK' /\ Frame(s) /\ StationInv(s)'
<1>1. PICK w : w = World
  OBVIOUS
<1>2. Near(s, w) /\ w.inst = inst /\ w.sup = sup
  BY <1>1, WorldNear
<1>3. PICK x : x = StopInitiated(w, s)
  OBVIOUS
<1>4. /\ op[s] = "deleting" /\ op' = [op EXCEPT ![s] = "waiting"] /\ budget' = budget
      /\ Become(x) /\ UNCHANGED <<setting, proc, tick, exit, leases, up>>
  BY <1>1, <1>3 DEF DeleteStops, Answered
<1>5. /\ Near(s, x) /\ x.inst[s].there = inst[s].there /\ x.inst[s].desired = inst[s].desired
      /\ (\A f \in Flags : f # "stopRequested" => x.sup[s][f] = sup[s][f])
  BY <1>2, <1>3, StopNear
<1>6. x.sup[s].child = sup[s].child /\ x.sup[s].stalled = sup[s].stalled
  BY <1>5 DEF Flags
<1>7. up[s] \notin {"down", "unused"}
  BY <1>4 DEF StationInv, DownIdle
<1>8. Tracked(s) /\ sup[s].child => inst[s].there
  BY DEF Tracked
<1>9. ASSUME Intended(s), inst'[s] = x.inst[s], sup'[s] = x.sup[s], op'[s] = "waiting"
      PROVE  Intended(s)' /\ RunsAgain(s)'
  <2>1. inst'[s].desired = "stopped"
    BY <1>4, <1>5, <1>9 DEF Intended
  <2>2. Intended(s)'
    BY <1>4, <1>6, <1>9, <2>1 DEF Intended
  <2>3. RunsAgain(s)'
    BY <2>1 DEF RunsAgain, ShouldRun
  <2>4. QED BY <2>2, <2>3
<1>10. PICK o \in Ops : o = "waiting"
  BY DEF Ops
<1>11. BudgetOK'
  BY <1>4, BudgetKept
<1>12. QED BY <1>4, <1>5, <1>6, <1>7, <1>8, <1>9, <1>10, <1>11, RequestKeeps

LEMMA DeleteForgetsKeeps ==
  ASSUME TypeOK, NEW s \in Stations, StationInv(s), DeleteForgets(s)
  PROVE  TypeOK' /\ Frame(s) /\ StationInv(s)'
<1>1. PICK w : w = World
  OBVIOUS
<1>2. Near(s, w)
  BY <1>1, WorldNear
<1>3. PICK x : x = Forgotten(w, s)
  OBVIOUS
<1>4. /\ op[s] = "waiting" /\ op' = [op EXCEPT ![s] = "removing"] /\ budget' = budget
      /\ Become(x) /\ proc' = [proc EXCEPT ![s] = "none"]
      /\ setting' = setting /\ tick' = tick /\ exit' = exit /\ lease' = lease /\ mine' = mine
      /\ up' = up
  BY <1>1, <1>3 DEF DeleteForgets, Answered, leases
<1>5. Near(s, x) /\ x.inst[s] = NoInstance /\ \A f \in Flags : ~x.sup[s][f]
  BY <1>2, <1>3, ForgottenNear
<1>6. ~x.sup[s].child /\ ~x.sup[s].removing
  BY <1>5 DEF Flags
<1>7. ProcOK' /\ proc'[s] = "none" /\ \A t \in Stations : t # s => proc'[t] = proc[t]
  BY <1>4, ProcMoves
<1>8. OpOK' /\ op'[s] = "removing" /\ \A t \in Stations : t # s => op'[t] = op[t]
  BY <1>4 DEF TypeOK, OpOK
<1>9. TypeOK' /\ Frame(s) /\ inst'[s] = x.inst[s] /\ sup'[s] = x.sup[s]
  <2>1. TickOK' /\ ExitOK' /\ LeaseOK' /\ UpOK' /\ BudgetOK'
    BY <1>4, LeftAlone, BudgetKept
  <2>2. QED BY <1>4, <1>5, <1>7, <1>8, <2>1, StepAct
<1>10. ~inst'[s].there
  BY <1>5, <1>9 DEF NoInstance
<1>11. DownIdle(s)'
  BY <1>4 DEF DownIdle, StationInv
<1>12. Tracked(s)'
  BY <1>6, <1>7, <1>9 DEF Tracked
<1>13. Launching(s) => Launching(s)'
  BY <1>4, <1>6, <1>8, <1>9 DEF Launching
<1>14. Holding(s) => Holding(s)'
  BY <1>4, <1>7 DEF Holding, Live, Coordinated
<1>15. Intended(s) => Intended(s)'
  BY <1>4, <1>6, <1>8, <1>9, <1>10 DEF Intended
<1>16. RunsAgain(s)'
  BY <1>10 DEF RunsAgain, ShouldRun
<1>17. QED
  BY <1>9, <1>11, <1>12, <1>13, <1>14, <1>15, <1>16, StationParts DEF StationInv

LEMMA DeleteRemovesKeeps ==
  ASSUME TypeOK, NEW s \in Stations, StationInv(s), DeleteRemoves(s)
  PROVE  TypeOK' /\ Frame(s) /\ StationInv(s)'
<1>1. PICK w : w = World
  OBVIOUS
<1>2. Near(s, w) /\ w.inst = inst /\ w.sup = sup
  BY <1>1, WorldNear
<1>3. PICK x : x = [w EXCEPT !.row = NoInstance]
  OBVIOUS
<1>4. Near(s, x) /\ x.inst = inst /\ x.sup = sup
  BY <1>2, <1>3, Constants DEF Near, Worlds
<1>5. /\ op[s] = "removing" /\ op' = [op EXCEPT ![s] = "idle"] /\ budget' = budget
      /\ Become(x) /\ UNCHANGED <<setting, proc, tick, exit, leases, up>>
  BY <1>1, <1>3 DEF DeleteRemoves, Answered
<1>6. up[s] \notin {"down", "unused"}
  BY <1>5 DEF StationInv, DownIdle
<1>7. Tracked(s) /\ sup[s].child => inst[s].there
  BY DEF Tracked
<1>8. ASSUME Intended(s), inst'[s] = x.inst[s], sup'[s] = x.sup[s], op'[s] = "idle"
      PROVE  Intended(s)' /\ RunsAgain(s)'
  <2>1. ~inst'[s].there
    BY <1>4, <1>5, <1>8 DEF Intended
  <2>2. Intended(s)'
    BY <1>4, <1>5, <1>8 DEF Intended
  <2>3. RunsAgain(s)'
    BY <2>1 DEF RunsAgain, ShouldRun
  <2>4. QED BY <2>2, <2>3
<1>9. PICK o \in Ops : o = "idle"
  BY DEF Ops
<1>10. BudgetOK'
  BY <1>5, BudgetKept
<1>11. QED BY <1>4, <1>5, <1>6, <1>7, <1>8, <1>9, <1>10, RequestKeeps

-----------------------------------------------------------------------------
(* The supervisor itself. *)
LEMMA UpMoves ==
  ASSUME TypeOK, NEW s \in Stations, NEW u \in {"up", "stopping", "down", "unused"},
         up' = [up EXCEPT ![s] = u]
  PROVE  UpOK' /\ up'[s] = u /\ \A t \in Stations : t # s => up'[t] = up[t]
BY DEF TypeOK, UpOK

LEMMA SupervisorStopKeeps ==
  ASSUME TypeOK, NEW s \in Stations, StationInv(s), SupervisorStop(s)
  PROVE  TypeOK' /\ Frame(s) /\ StationInv(s)'
<1>1. PICK w : w = World
  OBVIOUS
<1>2. Near(s, w) /\ w.inst = inst /\ w.sup = sup
  BY <1>1, WorldNear
<1>3. /\ up' = [up EXCEPT ![s] = "stopping"] /\ Fault("outage") /\ Become(w)
      /\ setting' = setting /\ proc' = proc /\ tick' = tick /\ exit' = exit /\ op' = op
      /\ lease' = lease /\ mine' = mine
  BY <1>1, SameWorld DEF SupervisorStop, leases
<1>4. UpOK' /\ up'[s] = "stopping" /\ \A t \in Stations : t # s => up'[t] = up[t]
  BY <1>3, UpMoves
<1>5. TypeOK' /\ Frame(s) /\ inst'[s] = inst[s] /\ sup'[s] = sup[s]
  <2>1. ProcOK' /\ TickOK' /\ ExitOK' /\ OpOK' /\ LeaseOK' /\ BudgetOK'
    BY <1>3, LeftAlone, FaultType
  <2>2. QED BY <1>2, <1>3, <1>4, <2>1, StepAct
<1>6. DownIdle(s)' /\ RunsAgain(s)'
  BY <1>4 DEF DownIdle, RunsAgain, ShouldRun
<1>7. Tracked(s) => Tracked(s)'
  BY <1>3, <1>5 DEF Tracked
<1>8. Launching(s) => Launching(s)'
  BY <1>3, <1>5 DEF Launching
<1>9. Holding(s) => Holding(s)'
  BY <1>3 DEF Holding, Live, Coordinated
<1>10. Intended(s) => Intended(s)'
  BY <1>3, <1>5 DEF Intended
<1>11. QED
  BY <1>5, <1>6, <1>7, <1>8, <1>9, <1>10, StationParts DEF StationInv

LEMMA SweepKeeps ==
  ASSUME TypeOK, NEW s \in Stations, StationInv(s), Sweep(s)
  PROVE  TypeOK' /\ Frame(s) /\ StationInv(s)'
<1>1. PICK w : w = World
  OBVIOUS
<1>2. Near(s, w) /\ w.inst = inst /\ w.sup = sup
  BY <1>1, WorldNear
<1>3. PICK x : x = StopInitiated(w, s)
  OBVIOUS
<1>4. /\ Near(s, x) /\ x.inst[s].there = inst[s].there /\ x.inst[s].desired = inst[s].desired
      /\ \A f \in Flags : f # "stopRequested" => x.sup[s][f] = sup[s][f]
  BY <1>2, <1>3, StopNear
<1>5. /\ up[s] = "stopping" /\ Become(x) /\ tick' = tick /\ budget' = budget
      /\ UNCHANGED <<setting, proc, exit, op, leases, up>>
  BY <1>1, <1>3 DEF Sweep
<1>6. TypeOK' /\ Frame(s) /\ inst'[s] = x.inst[s] /\ sup'[s] = x.sup[s]
  BY <1>4, <1>5, BudgetKept, WorldAct
<1>7. /\ sup'[s].child = sup[s].child /\ sup'[s].removing = sup[s].removing
      /\ sup'[s].stalled = sup[s].stalled
      /\ proc' = proc /\ exit' = exit /\ op' = op /\ mine' = mine /\ lease' = lease /\ up' = up
  BY <1>4, <1>5, <1>6 DEF Flags, leases
<1>8. DownIdle(s)' /\ RunsAgain(s)'
  BY <1>5, <1>7 DEF DownIdle, RunsAgain, ShouldRun
<1>9. Tracked(s) => Tracked(s)'
  BY <1>4, <1>6, <1>7 DEF Tracked
<1>10. Launching(s) => Launching(s)'
  BY <1>5, <1>7 DEF Launching
<1>11. Holding(s) => Holding(s)'
  BY <1>5, <1>7 DEF Holding, Live, Coordinated
<1>12. Intended(s) => Intended(s)'
  BY <1>4, <1>5, <1>6, <1>7 DEF Intended
<1>13. QED
  BY <1>6, <1>8, <1>9, <1>10, <1>11, <1>12, StationParts DEF StationInv

LEMMA GoneKeeps ==
  ASSUME TypeOK, NEW s \in Stations, Gone(s), BudgetOK'
  PROVE  TypeOK' /\ Frame(s) /\ StationInv(s)'
<1>1. PICK w : w = World
  OBVIOUS
<1>2. Near(s, w)
  BY <1>1, WorldNear
<1>3. PICK y : y = Forgotten(w, s)
  OBVIOUS
<1>4. Near(s, y) /\ y.inst[s] = NoInstance /\ \A f \in Flags : ~y.sup[s][f]
  BY <1>2, <1>3, ForgottenNear
<1>5. PICK x : x = Seen(y, s)
  OBVIOUS
<1>6. Near(s, x) /\ x.inst = y.inst /\ x.sup = y.sup
  BY <1>4, <1>5, StaleNear
<1>7. /\ Become(x) /\ up' = [up EXCEPT ![s] = "down"] /\ proc' = [proc EXCEPT ![s] = "none"]
      /\ At(s, "idle") /\ op' = [op EXCEPT ![s] = "idle"] /\ mine' = [mine EXCEPT ![s] = FALSE]
      /\ exit' = [exit EXCEPT ![s] = NoExit] /\ setting' = setting /\ lease' = lease
  BY <1>1, <1>3, <1>5 DEF Gone, Seen, At, ExitDone
<1>8. UpOK' /\ up'[s] = "down" /\ \A t \in Stations : t # s => up'[t] = up[t]
  BY <1>7, UpMoves
<1>9. ProcOK' /\ proc'[s] = "none" /\ \A t \in Stations : t # s => proc'[t] = proc[t]
  BY <1>7, ProcMoves
<1>10. TickOK' /\ tick'[s] = "idle" /\ \A t \in Stations : t # s => tick'[t] = tick[t]
  BY <1>7, TickMoves
<1>11. NoExit \in Exits /\ NoExit.pc = "none"
  BY DEF NoExit, Exits, Codes
<1>12. ExitOK' /\ exit'[s] = NoExit /\ \A t \in Stations : t # s => exit'[t] = exit[t]
  BY <1>7, <1>11, ExitMoves
<1>13. OpOK' /\ op'[s] = "idle" /\ \A t \in Stations : t # s => op'[t] = op[t]
  BY <1>7 DEF TypeOK, OpOK
<1>14. LeaseOK' /\ ~mine'[s] /\ \A t \in Stations : t # s => mine'[t] = mine[t]
  BY <1>7 DEF TypeOK, LeaseOK
<1>15. TypeOK' /\ Frame(s) /\ inst'[s] = NoInstance /\ sup'[s] = y.sup[s]
  <2>1. \A t \in Stations : t # s =>
          /\ proc'[t] = proc[t] /\ tick'[t] = tick[t] /\ exit'[t] = exit[t] /\ op'[t] = op[t]
          /\ mine'[t] = mine[t] /\ up'[t] = up[t]
          /\ (mine[t] /\ lease.at = t /\ lease.live => lease' = lease)
    <3>1. lease' = lease
      BY <1>7
    <3>2. QED
      BY <1>8, <1>9, <1>10, <1>12, <1>13, <1>14, <3>1
  <2>2. Become(x) /\ setting' = setting
    BY <1>7
  <2>3. TypeOK' /\ Frame(s) /\ inst'[s] = x.inst[s] /\ sup'[s] = x.sup[s]
    BY <1>6, <1>8, <1>9, <1>10, <1>12, <1>13, <1>14, <2>1, <2>2, StepAct
  <2>4. QED BY <1>4, <1>6, <2>3
<1>16. ~sup'[s].child /\ ~sup'[s].removing
  BY <1>4, <1>15 DEF Flags
<1>17. exit'[s].pc = "none"
  BY <1>11, <1>12
<1>18. DownIdle(s)'
  BY <1>9, <1>10, <1>13, <1>14, <1>15, <1>17 DEF DownIdle
<1>19. Tracked(s)' /\ Launching(s)' /\ Holding(s)'
  BY <1>9, <1>10, <1>16, <1>17 DEF Tracked, Launching, Holding
<1>20. Intended(s)' /\ RunsAgain(s)'
  BY <1>8, <1>10, <1>13, <1>16, <1>17 DEF Intended, RunsAgain, ShouldRun
<1>21. QED
  BY <1>15, <1>18, <1>19, <1>20, StationParts

LEMMA LeavingKeeps ==
  ASSUME TypeOK, NEW s \in Stations, StationInv(s), SupervisorEnds(s) \/ Crash(s)
  PROVE  TypeOK' /\ Frame(s) /\ StationInv(s)'
<1>1. Gone(s) /\ (budget' = budget \/ Fault("outage"))
  BY DEF SupervisorEnds, Crash
<1>2. setting' = setting
  BY <1>1 DEF Gone
<1>3. BudgetOK'
  BY <1>1, <1>2, BudgetKept, FaultType
<1>4. QED BY <1>1, <1>3, GoneKeeps

(* A station that starts again loads the record, to run it if it should.   *)
LEMMA LoadedNear ==
  ASSUME TypeOK, NEW s \in Stations, SupervisorStart(s), inst[s] = NoInstance
  PROVE  \E x : /\ Become(x) /\ Near(s, x) /\ x.sup = sup
                /\ x.inst[s].there /\ x.inst[s].desired = "running" =>
                     x.inst[s].status = "backoff" /\ x.inst[s].due # "no"
<1>1. PICK w : w = World
  OBVIOUS
<1>2. Near(s, w) /\ w.inst = inst /\ w.sup = sup /\ w.row = row
  BY <1>1, WorldNear
<1>3. CASE ~row.there
  <2>1. Become(w)
    BY <1>1, <1>3 DEF SupervisorStart
  <2>2. ~inst[s].there
    BY DEF NoInstance
  <2>3. QED BY <1>2, <2>1, <2>2
<1>4. CASE row.there
  <2>1. row \in Instance
    BY DEF TypeOK
  <2>2. PICK loaded : loaded = Put(w, s, row)
    OBVIOUS
  <2>3. PICK r \in Instance : r = row
    BY <2>1
  <2>4. Near(s, loaded) /\ loaded.sup = sup /\ loaded.inst[s] = row
    BY <1>2, <2>2, <2>3, CopyNear
  <2>5. PICK fields : fields = Hydrated(row)
    OBVIOUS
  <2>6. PICK i \in Instance : /\ i = With(r, fields) /\ i.desired = r.desired /\ IsPatch(fields)
                              /\ r.desired = "running" => i.status = "backoff" /\ i.due = "now"
    <3>1. CASE r.desired = "running" /\ fields = [status |-> "backoff", due |-> "now"]
      <4>1. PICK st \in Statuses, d \in Dues : st = "backoff" /\ d = "now"
        BY DEF Statuses, Dues
      <4>2. fields = [status |-> st, due |-> d]
        BY <3>1, <4>1
      <4>3. IsPatch(fields)
        BY <4>1, <4>2, RestartPatch DEF IsPatch
      <4>4. QED BY <2>3, <4>1, <4>2, <4>3, RestartPatch
    <3>2. CASE r.desired # "running" /\ fields = [status |-> "stopped"]
      <4>1. PICK st \in Statuses : st = "stopped"
        BY DEF Statuses
      <4>2. IsPatch(fields)
        BY <3>2, <4>1, StatusPatch DEF IsPatch
      <4>3. QED BY <2>3, <3>2, <4>1, <4>2, StatusPatch
    <3>3. CASE r.desired # "running" /\ fields = Touch
      <4>1. IsPatch(fields)
        BY <3>3, TouchPatch DEF IsPatch
      <4>2. QED BY <2>3, <3>3, <4>1, TouchPatch
    <3>4. QED BY <2>3, <2>5, <3>1, <3>2, <3>3 DEF Hydrated
  <2>7. PICK x : x = IF Coordinated THEN Put(loaded, s, i) ELSE Patched(loaded, s, fields)
    OBVIOUS
  <2>8. Become(x)
    <3>1. loaded = [World EXCEPT !.inst[s] = row]
      BY <1>1, <2>2 DEF Put
    <3>2. Coordinated => Copied(loaded, s, Hydrated(row)) = Put(loaded, s, i)
      BY <2>3, <2>4, <2>5, <2>6 DEF Copied, Put
    <3>3. QED BY <1>4, <2>5, <2>7, <3>1, <3>2 DEF SupervisorStart
  <2>9. Near(s, x) /\ x.sup = sup /\ x.inst[s] = i
    <3>1. CASE Coordinated
      BY <2>4, <2>6, <2>7, <3>1, CopyNear
    <3>2. CASE ~Coordinated
      BY <1>4, <2>3, <2>4, <2>6, <2>7, <3>2, PatchedNear
    <3>3. QED BY <3>1, <3>2
  <2>10. QED BY <2>6, <2>8, <2>9
<1>5. QED BY <1>3, <1>4

LEMMA SupervisorStartKeeps ==
  ASSUME TypeOK, NEW s \in Stations, StationInv(s), SupervisorStart(s)
  PROVE  TypeOK' /\ Frame(s) /\ StationInv(s)'
<1>1. /\ inst[s] = NoInstance /\ proc[s] = "none" /\ tick[s] = "idle" /\ exit[s].pc = "none"
      /\ op[s] = "idle"
  BY DEF SupervisorStart, StationInv, DownIdle
<1>2. PICK x : /\ Become(x) /\ Near(s, x) /\ x.sup = sup
               /\ x.inst[s].there /\ x.inst[s].desired = "running" =>
                    x.inst[s].status = "backoff" /\ x.inst[s].due # "no"
  BY <1>1, LoadedNear
<1>3. /\ up' = [up EXCEPT ![s] = "up"] /\ setting' = setting /\ proc' = proc /\ tick' = tick
      /\ exit' = exit /\ op' = op /\ lease' = lease /\ mine' = mine /\ budget' = budget
  BY DEF SupervisorStart, leases
<1>4. UpOK' /\ up'[s] = "up" /\ \A t \in Stations : t # s => up'[t] = up[t]
  BY <1>3, UpMoves
<1>5. TypeOK' /\ Frame(s) /\ inst'[s] = x.inst[s] /\ sup'[s] = sup[s]
  <2>1. ProcOK' /\ TickOK' /\ ExitOK' /\ OpOK' /\ LeaseOK' /\ BudgetOK'
    BY <1>3, LeftAlone, BudgetKept
  <2>2. QED BY <1>2, <1>3, <1>4, <2>1, StepAct
<1>6. DownIdle(s)'
  BY <1>4 DEF DownIdle
<1>7. Tracked(s) => ~sup[s].child
  BY <1>1 DEF Tracked
<1>8. (Tracked(s) => Tracked(s)' /\ Launching(s)') /\ Holding(s)'
  <2>1. Holding(s)'
    BY <1>1, <1>3 DEF Holding
  <2>2. QED BY <1>1, <1>3, <1>5, <1>7, <2>1 DEF Tracked, Launching
<1>9. Intended(s) => Intended(s)'
  BY <1>1, <1>3, <1>5 DEF Intended
<1>10. Tracked(s) => RunsAgain(s)'
  BY <1>1, <1>2, <1>3, <1>5, <1>7 DEF RunsAgain, ShouldRun, ToRestart
<1>11. QED
  BY <1>5, <1>6, <1>8, <1>9, <1>10, StationParts DEF StationInv

-----------------------------------------------------------------------------
(* Steps of no station: Headquarters, and the lapse of a lease. *)
LEMMA HQKeeps ==
  ASSUME BeaconInv, HQ
  PROVE  BeaconInv'
<1>1. TypeOK
  BY DEF BeaconInv
<1>2. PICK new \in Instance : Headquarters(new)
  <2>1. row \in Instance
    BY <1>1 DEF TypeOK
  <2>2. "stopped" \in Desires
    BY DEF Desires
  <2>3. HQStart => With(row, Launchable) \in Instance /\ Headquarters(With(row, Launchable))
    BY <2>1, LaunchPatch DEF HQStart
  <2>4. HQStop => /\ With(row, [desired |-> "stopped"]) \in Instance
                  /\ Headquarters(With(row, [desired |-> "stopped"]))
    BY <2>1, <2>2, DesirePatch DEF HQStop
  <2>5. HQDelete => Headquarters(NoInstance)
    BY DEF HQDelete
  <2>6. HQCreate => Headquarters(Created)
    BY DEF HQCreate
  <2>7. QED BY <2>3, <2>4, <2>5, <2>6, Constants DEF HQ
<1>3. /\ Command /\ row' = new /\ inst' = inst /\ sup' = sup
      /\ fresher' = [t \in Stations |-> inst[t].there]
      /\ UNCHANGED <<setting, proc, tick, exit, op, leases, up>>
  BY <1>2 DEF Headquarters, Become, World
<1>4. /\ setting' = setting /\ proc' = proc /\ tick' = tick /\ exit' = exit /\ op' = op
      /\ lease' = lease /\ mine' = mine /\ up' = up
  BY <1>3 DEF leases
<1>5. WorldOK'
  <2>1. \A t \in Stations : inst[t].there \in BOOLEAN
    BY <1>1 DEF TypeOK, Instance
  <2>2. QED BY <1>1, <1>2, <1>3, <2>1 DEF TypeOK, WorldOK
<1>6. TypeOK'
  <2>1. /\ setting' \in Settings /\ ProcOK' /\ TickOK' /\ ExitOK' /\ OpOK' /\ LeaseOK' /\ UpOK'
        /\ BudgetOK'
    BY <1>1, <1>3, <1>4, LeftAlone, CommandType DEF TypeOK
  <2>2. QED
    BY <1>5, <2>1 DEF TypeOK, WorldOK, ProcOK, TickOK, Exits, ExitOK, OpOK, LeaseOK, UpOK, BudgetOK
<1>7. ASSUME NEW t \in Stations PROVE StationInv(t)'
  BY <1>3, <1>4, StationKept DEF BeaconInv
<1>8. QED BY <1>6, <1>7 DEF BeaconInv

LEMMA LapseKeeps ==
  ASSUME BeaconInv, LeaseLapses
  PROVE  BeaconInv'
<1>1. TypeOK /\ \A t \in Stations : StationInv(t)
  BY DEF BeaconInv
<1>2. /\ lease.live /\ lease' = [lease EXCEPT !.live = FALSE] /\ (budget' = budget \/ Fault("lapse"))
      /\ setting' = setting /\ row' = row /\ inst' = inst /\ fresher' = fresher /\ sup' = sup
      /\ proc' = proc /\ tick' = tick /\ exit' = exit /\ op' = op /\ mine' = mine /\ up' = up
  BY DEF LeaseLapses, world
<1>3. BudgetOK'
  BY <1>1, <1>2, BudgetKept, FaultType
<1>4. LeaseOK'
  BY <1>1, <1>2 DEF TypeOK, LeaseOK
<1>5. TypeOK'
  <2>1. /\ setting' \in Settings /\ ProcOK' /\ TickOK' /\ ExitOK' /\ OpOK' /\ UpOK' /\ WorldOK'
    <3>1. WorldOK
      BY <1>1, Parts
    <3>2. WorldOK'
      BY <1>2, <3>1 DEF WorldOK
    <3>3. QED BY <1>1, <1>2, <3>2, LeftAlone DEF TypeOK
  <2>2. QED
    BY <1>3, <1>4, <2>1 DEF TypeOK, WorldOK, ProcOK, TickOK, Exits, ExitOK, OpOK, LeaseOK, UpOK, BudgetOK
<1>6. ASSUME NEW t \in Stations PROVE StationInv(t)'
  <2>1. StationInv(t)
    BY <1>1
  <2>2. DownIdle(t)'
    BY <1>2, <2>1 DEF DownIdle, StationInv
  <2>3. Tracked(t) => Tracked(t)'
    BY <1>2 DEF Tracked
  <2>4. Launching(t) => Launching(t)'
    BY <1>2 DEF Launching
  <2>5. Holding(t) => Holding(t)'
    <3> SUFFICES ASSUME Holding(t), Coordinated', "lapse" \notin setting'.kinds,
                        proc'[t] # "none" \/ tick'[t] = "spawn" \/ exit'[t].pc = "release"
                 PROVE  FALSE
      BY <1>2 DEF Holding, Coordinated
    <3>1. /\ Coordinated /\ "lapse" \notin setting.kinds
          /\ proc[t] # "none" \/ tick[t] = "spawn" \/ exit[t].pc = "release"
      BY <1>2 DEF Coordinated
    <3>2. mine[t] /\ lease.at = t
      BY <3>1 DEF Holding
    <3>3. up[t] # "down"
      BY <2>1, <3>2 DEF StationInv, DownIdle
    <3>4. ~Abandoned
      BY <3>2, <3>3 DEF Abandoned
    <3>5. Fault("lapse")
      BY <3>4 DEF LeaseLapses
    <3>6. QED BY <3>1, <3>5 DEF Fault
  <2>6. Intended(t) => Intended(t)'
    BY <1>2 DEF Intended
  <2>7. RunsAgain(t) => RunsAgain(t)'
    BY <1>2 DEF RunsAgain, ShouldRun, ToRestart
  <2>8. Coordinated' = Coordinated
    BY <1>2 DEF Coordinated
  <2>9. QED BY <2>1, <2>2, <2>3, <2>4, <2>5, <2>6, <2>7, <2>8 DEF StationInv
<1>7. QED BY <1>5, <1>6 DEF BeaconInv

-----------------------------------------------------------------------------
LEMMA InitBeacon == Init => BeaconInv
<1> SUFFICES ASSUME Init PROVE BeaconInv
  OBVIOUS
<1>1. row \in Instance /\ row.desired \in Desires
      /\ (row.desired = "running" => row.status = "backoff" /\ row.due # "no")
  BY Constants DEF Init, Created, Stopped, Instance, Desires
<1>2. inst \in [Stations -> Instance] /\ \A s \in Stations : inst[s] = row \/ inst[s] = NoInstance
  BY <1>1, Constants DEF Init
<1>3. TypeOK
  <2>1. sup \in [Stations -> Supervised]
    BY Fresh DEF Init
  <2>2. exit \in [Stations -> Exits]
    BY DEF Init, NoExit, Exits, Codes
  <2>3. lease \in [at : Stations \cup {None}, live : BOOLEAN] /\ ~lease.live
    BY DEF Init, NoLease
  <2>4. budget \in [commands : 0..setting.commands, faults : 0..setting.faults]
    <3>1. setting \in Setting /\ budget = [commands |-> setting.commands, faults |-> setting.faults]
      BY BeaconAssumption DEF Init
    <3>2. setting.commands \in 0..setting.commands /\ setting.faults \in 0..setting.faults
      BY <3>1 DEF Setting
    <3>3. QED BY <3>1, <3>2
  <2>5. /\ fresher \in [Stations -> BOOLEAN] /\ mine \in [Stations -> BOOLEAN]
        /\ proc \in [Stations -> {"none", "boot", "up"} \cup Codes]
        /\ tick \in [Stations -> {"idle", "hung", "launch", "spawn"}]
        /\ op \in [Stations -> {"idle", "stopping", "restarting", "deleting", "waiting", "removing"}]
        /\ up \in [Stations -> {"up", "stopping", "down", "unused"}] /\ setting \in Settings
    BY DEF Init
  <2>6. QED BY <1>1, <1>2, <2>1, <2>2, <2>3, <2>4, <2>5 DEF TypeOK, Exits
<1>4. ASSUME NEW s \in Stations PROVE StationInv(s)
  <2>1. /\ sup[s] = freshSupervised /\ proc[s] = "none" /\ tick[s] = "idle" /\ exit[s] = NoExit
        /\ op[s] = "idle" /\ ~mine[s]
    BY DEF Init
  <2>2. exit[s].pc = "none"
    BY <2>1 DEF NoExit
  <2>3. PICK entry : entry = sup[s]
    OBVIOUS
  <2>4. ~entry.child /\ ~entry.removing /\ ~entry.stopRequested
    BY <2>1, <2>3, Fresh DEF Flags
  <2>5. up[s] \in {"down", "unused"} => inst[s] = NoInstance
    BY DEF Init
  <2>6. DownIdle(s)
    BY <2>1, <2>2, <2>5 DEF DownIdle
  <2>7. Tracked(s) /\ Launching(s) /\ Holding(s)
    BY <2>1, <2>2, <2>3, <2>4 DEF Tracked, Launching, Holding
  <2>8. Intended(s)
    BY <2>1, <2>2, <2>3, <2>4 DEF Intended
  <2>9. RunsAgain(s)
    BY <1>1, <1>2, <2>1, <2>2, <2>3, <2>4 DEF RunsAgain, ShouldRun, ToRestart, NoInstance
  <2>10. QED BY <2>6, <2>7, <2>8, <2>9 DEF StationInv
<1>5. QED BY <1>3, <1>4 DEF BeaconInv

LEMMA StationStep ==
  ASSUME TypeOK, NEW s \in Stations, StationInv(s),
         \/ Tick(s) \/ Child(s) \/ HandleExit(s) \/ BackoffEnds(s) \/ Request(s) \/ Answer(s)
         \/ SupervisorStop(s) \/ Crash(s) \/ Ends(s)
  PROVE  TypeOK' /\ Frame(s) /\ StationInv(s)'
<1>1. CASE Tick(s)
  BY <1>1, PollStopsKeeps, PollFindsHungKeeps, PollLaunchesKeeps, PollRestsKeeps, StopHungKeeps,
     LaunchLacksEnvKeeps, LaunchRefusedKeeps, LaunchStartsKeeps, SpawnKeeps DEF Tick
<1>2. CASE Child(s)
  BY <1>2, ChildStartedKeeps, HeartbeatKeeps, FatalMessageKeeps, ChildExitsKeeps DEF Child
<1>3. CASE HandleExit(s)
  BY <1>3, ExitEventKeeps, ExitReleasesKeeps, ExitRecordsKeeps, ExitDecidesKeeps, ExitResetsKeeps
     DEF HandleExit
<1>4. CASE BackoffEnds(s)
  BY <1>4, BackoffEndsKeeps
<1>5. CASE Request(s)
  BY <1>5, StartKeeps, StopAskedKeeps, RestartAskedKeeps, CreateKeeps, DeleteAskedKeeps DEF Request
<1>6. CASE Answer(s)
  BY <1>6, StopActsKeeps, RestartActsKeeps, DeleteStopsKeeps, DeleteForgetsKeeps,
     DeleteRemovesKeeps DEF Answer
<1>7. CASE SupervisorStop(s)
  BY <1>7, SupervisorStopKeeps
<1>8. CASE Crash(s) \/ Ends(s)
  BY <1>8, LeavingKeeps, SweepKeeps, SupervisorStartKeeps DEF Ends
<1>9. QED BY <1>1, <1>2, <1>3, <1>4, <1>5, <1>6, <1>7, <1>8

(* The invariant is inductive.                                             *)
THEOREM BeaconInvariant == Spec => []BeaconInv
<1>1. Init => BeaconInv
  BY InitBeacon
<1>2. ASSUME BeaconInv, [Next]_vars PROVE BeaconInv'
  <2>1. CASE HQ
    BY <1>2, <2>1, HQKeeps
  <2>2. CASE LeaseLapses
    BY <1>2, <2>2, LapseKeeps
  <2>3. ASSUME NEW s \in Stations,
               \/ Tick(s) \/ Child(s) \/ HandleExit(s) \/ BackoffEnds(s) \/ Request(s) \/ Answer(s)
               \/ SupervisorStop(s) \/ Crash(s) \/ Ends(s)
        PROVE  BeaconInv'
    <3>1. TypeOK' /\ Frame(s) /\ StationInv(s)'
      BY <1>2, <2>3, StationStep DEF BeaconInv
    <3>2. \A t \in Stations : t # s => StationInv(t)'
      BY <1>2, <3>1, OthersKept DEF BeaconInv
    <3>3. QED BY <3>1, <3>2 DEF BeaconInv
  <2>4. CASE UNCHANGED vars
    BY <1>2, <2>4 DEF vars, world, leases, BeaconInv, TypeOK, StationInv, DownIdle, Tracked,
       Launching, Holding, Intended, RunsAgain, ShouldRun, ToRestart, Live, Coordinated
  <2>5. QED BY <1>2, <2>1, <2>2, <2>3, <2>4 DEF Next
<1>3. QED BY <1>1, <1>2, PTL DEF Spec

(* Stop, delete, restart and shutdown act on the child a supervisor tracks *)
(* (handleExit reads the entry of its instance, not of its process): there *)
(* is no other, if the writes of an exit and of a restart are over before  *)
(* the next poll or request.                                               *)
THEOREM EveryChildIsTracked ==
  ASSUME ~SlowWrites PROVE Spec => []NoStrayChild
<1>1. BeaconInv => NoStrayChild
  BY DEF BeaconInv, StationInv, NoStrayChild
<1>2. QED BY <1>1, BeaconInvariant, PTL

(* The controller lease keeps the stations of a network from supervising a *)
(* live child each, if leases outlive only stations that are down.  That   *)
(* needs no fast writes: handleExit gives up the lease of its own child    *)
(* only, as no launch of the station gets one while it is held.            *)
THEOREM OneStationSupervises == Spec => []OneOwner
<1>1. BeaconInv => OneOwner
  BY DEF BeaconInv, StationInv, Holding, OneOwner, Live
<1>2. QED BY <1>1, BeaconInvariant, PTL

(* start() and restart() during a stop, a launch or the handling of an     *)
(* exit are not lost: standalone, a beacon at rest that should run and has *)
(* no child waits for its restart, or is errored.                          *)
THEOREM StartsAreNotLost ==
  ASSUME ~SlowWrites PROVE Spec => []NeverStranded
<1>1. BeaconInv => NeverStranded
  <2> SUFFICES ASSUME BeaconInv, ~Coordinated, NEW s \in Stations,
                      AtRest(s), inst[s].there, inst[s].desired = "running", ~sup[s].child
               PROVE  inst[s].status = "errored" \/ (inst[s].status = "backoff" /\ inst[s].due # "no")
    BY DEF NeverStranded
  <2>1. RunsAgain(s)
    BY DEF BeaconInv, StationInv
  <2>2. QED BY <2>1 DEF RunsAgain, ShouldRun, ToRestart, AtRest
<1>2. QED BY <1>1, BeaconInvariant, PTL

-----------------------------------------------------------------------------
(* A deleted record.  Whatever a handler does to a world without the       *)
(* record, it leaves a world without it.                                   *)
Rowless(w) ==
  /\ w = [row |-> w.row, inst |-> w.inst, fresher |-> w.fresher, sup |-> w.sup]
  /\ ~w.row.there

LEMMA RowlessEdits ==
  ASSUME NEW w, Rowless(w), NEW s, NEW fields, NEW flag, NEW entry
  PROVE  /\ Rowless(Patched(w, s, fields)) /\ Rowless(Copied(w, s, fields))
         /\ Rowless(Flagged(w, s, flag)) /\ Rowless(Reset(w, s))
         /\ Rowless([w EXCEPT !.sup[s] = entry]) /\ Rowless([w EXCEPT !.inst[s] = entry])
         /\ Rowless([w EXCEPT !.fresher[s] = entry])
<1> DEFINE inst2 == [w.inst EXCEPT ![s] = entry]
           sup2 == [w.sup EXCEPT ![s] = entry]
<1>1. ASSUME NEW v PROVE /\ Rowless([w EXCEPT !.inst = v]) /\ Rowless([w EXCEPT !.sup = v])
                         /\ Rowless([w EXCEPT !.fresher = v])
  BY DEF Rowless
<1>2. /\ \A e : /\ [w EXCEPT !.inst[s] = e] = [w EXCEPT !.inst = [w.inst EXCEPT ![s] = e]]
                /\ [w EXCEPT !.sup[s] = e] = [w EXCEPT !.sup = [w.sup EXCEPT ![s] = e]]
                /\ [w EXCEPT !.fresher[s] = e] = [w EXCEPT !.fresher = [w.fresher EXCEPT ![s] = e]]
  OBVIOUS
<1>3. \A e : /\ Rowless([w EXCEPT !.inst[s] = e]) /\ Rowless([w EXCEPT !.sup[s] = e])
             /\ Rowless([w EXCEPT !.fresher[s] = e])
  BY <1>1, <1>2
<1>4. Rowless(Patched(w, s, fields)) /\ Rowless(Copied(w, s, fields))
  <2>1. PICK e : e = With(w.inst[s], fields)
    OBVIOUS
  <2>2. ~w.row.there
    BY DEF Rowless
  <2>3. /\ Patched(w, s, fields) = w \/ Patched(w, s, fields) = [w EXCEPT !.inst[s] = e]
        /\ Copied(w, s, fields) = [w EXCEPT !.inst[s] = e]
    BY <2>1, <2>2 DEF Patched, Copied
  <2>4. QED BY <1>3, <2>3
<1>5. Rowless(Flagged(w, s, flag))
  <2>1. PICK e : e = [w.sup[s] EXCEPT ![flag] = TRUE]
    OBVIOUS
  <2>2. Flagged(w, s, flag) = [w EXCEPT !.sup[s] = e]
    BY <2>1 DEF Flagged
  <2>3. QED BY <1>3, <2>2
<1>6. Rowless(Reset(w, s))
  BY <1>3 DEF Reset
<1>7. QED BY <1>3, <1>4, <1>5, <1>6

LEMMA RowlessStop ==
  ASSUME NEW w, Rowless(w), NEW s
  PROVE  Rowless(StopInitiated(w, s))
<1>1. PICK y : y = Flagged(w, s, "stopRequested")
  OBVIOUS
<1>2. Rowless(y)
  BY <1>1, RowlessEdits
<1>3. PICK fields : fields = [status |-> "stopping"]
  OBVIOUS
<1>4. Rowless(Patched(y, s, fields))
  BY <1>2, RowlessEdits
<1>5. QED BY <1>1, <1>3, <1>4 DEF StopInitiated

LEMMA RowlessForgotten ==
  ASSUME NEW w, Rowless(w), NEW s
  PROVE  Rowless(Forgotten(w, s))
<1>1. PICK y : y = [w EXCEPT !.inst[s] = NoInstance]
  OBVIOUS
<1>2. Rowless(y)
  BY <1>1, RowlessEdits
<1>3. QED BY <1>1, <1>2, RowlessEdits DEF Forgotten

LEMMA RowlessPolled ==
  ASSUME ~row.there, NEW s
  PROVE  Rowless(World) /\ Rowless(Polled(s))
<1>1. Rowless(World)
  BY DEF Rowless, World
<1>2. PICK w : w = World
  OBVIOUS
<1>3. PICK y : y = Renewed(w, s)
  OBVIOUS
<1>4. Rowless(y)
  BY <1>1, <1>2, <1>3, RowlessEdits DEF Renewed
<1>5. Synced(y, s) = y \/ Synced(y, s) = Forgotten(y, s)
  BY <1>4 DEF Synced, Rowless
<1>6. Rowless(Synced(y, s))
  BY <1>4, <1>5, RowlessForgotten
<1>7. QED BY <1>1, <1>2, <1>3, <1>6 DEF Polled

LEMMA RowlessBecome ==
  ASSUME NEW w, Rowless(w), Become(w)
  PROVE  ~row'.there
BY DEF Rowless, Become

LEMMA TickSilent ==
  ASSUME ~row.there, NEW s, Tick(s)
  PROVE  ~row'.there
<1> DEFINE w == World
           p == Polled(s)
<1>1. Rowless(w) /\ Rowless(p)
  BY RowlessPolled
<1> HIDE DEF w, p
<1>2. CASE PollStops(s)
  BY <1>1, <1>2, RowlessStop, RowlessBecome DEF PollStops, p
<1>3. CASE PollFindsHung(s)
  <2>1. Rowless(Flagged(p, s, "stalled"))
    BY <1>1, RowlessEdits
  <2>2. Rowless(Patched(Flagged(p, s, "stalled"), s, Touch))
    BY <2>1, RowlessEdits
  <2>3. QED BY <1>3, <2>2, RowlessBecome DEF PollFindsHung, p
<1>4. CASE PollLaunches(s) \/ PollRests(s)
  BY <1>1, <1>4, RowlessBecome DEF PollLaunches, PollRests, p
<1>5. CASE StopHung(s)
  BY <1>1, <1>5, RowlessStop, RowlessBecome DEF StopHung, w
<1>6. CASE LaunchLacksEnv(s) \/ LaunchStarts(s)
  <2>1. \E fields : Become(Patched(w, s, fields))
    BY <1>6 DEF LaunchLacksEnv, LaunchStarts, w
  <2>2. QED BY <1>1, <2>1, RowlessEdits, RowlessBecome
<1>7. CASE LaunchRefused(s)
  BY <1>7 DEF LaunchRefused, world
<1>8. CASE Spawn(s)
  <2>1. CASE UNCHANGED world
    BY <2>1 DEF world
  <2>2. CASE Spawned(s)
    <3>1. PICK entry : entry = [freshSupervised EXCEPT !.child = TRUE]
      OBVIOUS
    <3>2. PICK y : y = [w EXCEPT !.sup[s] = entry]
      OBVIOUS
    <3>3. Rowless(y)
      BY <1>1, <3>2, RowlessEdits
    <3>4. Rowless(Patched(y, s, Touch))
      BY <3>3, RowlessEdits
    <3>5. Become(Patched(y, s, Touch))
      BY <2>2, <3>1, <3>2 DEF Spawned, w
    <3>6. QED BY <3>4, <3>5, RowlessBecome
  <2>3. QED BY <1>8, <2>1, <2>2 DEF Spawn
<1>9. QED BY <1>2, <1>3, <1>4, <1>5, <1>6, <1>7, <1>8 DEF Tick

LEMMA ChildSilent ==
  ASSUME ~row.there, NEW s, Child(s) \/ HandleExit(s) \/ BackoffEnds(s)
  PROVE  ~row'.there
<1> DEFINE w == World
           childless == [World EXCEPT !.sup[s].child = FALSE]
           failed == [World EXCEPT !.sup[s].forceRestart = FALSE, !.sup[s].fatal = TRUE]
<1>1. Rowless(w)
  BY RowlessPolled
<1>2. Rowless(childless) /\ Rowless(failed)
  <2>1. /\ childless = [w EXCEPT !.sup[s] = [w.sup[s] EXCEPT !.child = FALSE]]
        /\ failed = [w EXCEPT !.sup[s] = [w.sup[s] EXCEPT !.forceRestart = FALSE, !.fatal = TRUE]]
    BY DEF World
  <2>2. QED BY <1>1, <2>1, RowlessEdits
<1> HIDE DEF w, childless, failed
<1>3. ASSUME NEW x, Rowless(x), Heard(s, x) PROVE ~row'.there
  <2>1. Rowless(Flagged(w, s, "leaseLost"))
    BY <1>1, RowlessEdits
  <2>2. QED BY <1>3, <2>1, RowlessBecome DEF Heard, w
<1>4. ASSUME NEW x, Rowless(x), NEW code, Recording(x, s, code) PROVE ~row'.there
  <2>1. Become(x) \/ Become(Patched(x, s, Touch))
    BY <1>4 DEF Recording
  <2>2. Rowless(Patched(x, s, Touch))
    BY <1>4, RowlessEdits
  <2>3. QED BY <1>4, <2>1, <2>2, RowlessBecome
<1>5. CASE Child(s)
  <2>1. CASE ChildStarted(s)
    <3>1. Rowless(Patched(w, s, [status |-> "running"]))
      BY <1>1, RowlessEdits
    <3>2. Heard(s, w) \/ Heard(s, Patched(w, s, [status |-> "running"]))
      BY <2>1 DEF ChildStarted, w
    <3>3. QED BY <1>1, <1>3, <3>1, <3>2
  <2>2. CASE Heartbeat(s)
    <3>1. Rowless(Patched(w, s, Touch))
      BY <1>1, RowlessEdits
    <3>2. Heard(s, Patched(w, s, Touch))
      BY <2>2 DEF Heartbeat, w
    <3>3. QED BY <1>3, <3>1, <3>2
  <2>3. CASE FatalMessage(s)
    <3>1. Rowless(Patched(failed, s, Touch))
      BY <1>2, RowlessEdits
    <3>2. Heard(s, Patched(failed, s, Touch))
      BY <2>3 DEF FatalMessage, failed
    <3>3. QED BY <1>3, <3>1, <3>2
  <2>4. CASE \E code \in Codes : ChildExits(s, code)
    BY <2>4 DEF ChildExits, world
  <2>5. QED BY <1>5, <2>1, <2>2, <2>3, <2>4 DEF Child
<1>6. CASE HandleExit(s)
  <2>1. CASE ExitEvent(s)
    <3>1. Become(childless) \/ Recording(childless, s, proc[s])
      BY <2>1 DEF ExitEvent, childless
    <3>2. QED BY <1>2, <1>4, <3>1, RowlessBecome
  <2>2. CASE ExitReleases(s)
    BY <2>2 DEF ExitReleases, world
  <2>3. CASE ExitRecords(s)
    <3>1. UNCHANGED row \/ Recording(w, s, exit[s].code)
      BY <2>3 DEF ExitRecords, world, w
    <3>2. QED BY <1>1, <1>4, <3>1
  <2>4. CASE ExitDecides(s)
    <3>1. \E fields : Become(Patched(w, s, fields))
      BY <2>4 DEF ExitDecides, w
    <3>2. QED BY <1>1, <3>1, RowlessEdits, RowlessBecome
  <2>5. CASE ExitResets(s)
    <3>1. Become(Reset(w, s))
      BY <2>5 DEF ExitResets, w
    <3>2. QED BY <1>1, <3>1, RowlessEdits, RowlessBecome
  <2>6. QED BY <1>6, <2>1, <2>2, <2>3, <2>4, <2>5 DEF HandleExit
<1>7. CASE BackoffEnds(s)
  <2>1. Become(Copied(w, s, [due |-> "now"]))
    BY <1>7 DEF BackoffEnds, w
  <2>2. QED BY <1>1, <2>1, RowlessEdits, RowlessBecome
<1>8. QED BY <1>5, <1>6, <1>7

LEMMA RequestSilent ==
  ASSUME ~row.there, NEW s, (Request(s) /\ ~Create(s)) \/ Answer(s)
  PROVE  ~row'.there
<1> DEFINE w == World
<1>1. Rowless(w)
  BY RowlessPolled
<1> HIDE DEF w
<1>2. ASSUME NEW flag, NEW to PROVE Rowless(Desire(Flagged(w, s, flag), s, to))
  <2>1. Rowless(Flagged(w, s, flag))
    BY <1>1, RowlessEdits
  <2>2. QED BY <2>1, RowlessEdits DEF Desire
<1>3. ASSUME NEW to PROVE Rowless(Desire(w, s, to))
  BY <1>1, RowlessEdits DEF Desire
<1>4. CASE Start(s)
  <2>1. \/ Become(Patched(w, s, Launchable)) \/ Become(Desire(w, s, "running"))
        \/ Become(Desire(Flagged(w, s, "forceRestart"), s, "running"))
    BY <1>4 DEF Start, w
  <2>2. Rowless(Patched(w, s, Launchable))
    BY <1>1, RowlessEdits
  <2>3. QED BY <1>2, <1>3, <2>1, <2>2, RowlessBecome
<1>5. CASE StopAsked(s) \/ RestartAsked(s) \/ DeleteAsked(s)
  <2>1. \/ Become(Desire(w, s, "stopped"))
        \/ Become(Desire(Flagged(w, s, "forceRestart"), s, "running"))
        \/ Become(Desire(Flagged(w, s, "removing"), s, "stopped"))
    BY <1>5 DEF StopAsked, RestartAsked, DeleteAsked, w
  <2>2. QED BY <1>2, <1>3, <2>1, RowlessBecome
<1>6. CASE StopActs(s) \/ RestartActs(s) \/ DeleteStops(s)
  <2>1. \/ Become(StopInitiated(w, s))
        \/ Become(Patched(w, s, [status |-> "stopped", due |-> "no"]))
    BY <1>6 DEF StopActs, RestartActs, DeleteStops, w
  <2>2. Rowless(Patched(w, s, [status |-> "stopped", due |-> "no"]))
    BY <1>1, RowlessEdits
  <2>3. QED BY <1>1, <2>1, <2>2, RowlessStop, RowlessBecome
<1>7. CASE DeleteForgets(s)
  BY <1>1, <1>7, RowlessForgotten, RowlessBecome DEF DeleteForgets, w
<1>8. CASE DeleteRemoves(s)
  BY <1>8 DEF DeleteRemoves, Become, World, NoInstance
<1>9. QED BY <1>4, <1>5, <1>6, <1>7, <1>8 DEF Request, Answer

LEMMA SupervisorSilent ==
  ASSUME ~row.there, NEW s, SupervisorStop(s) \/ Crash(s) \/ Ends(s)
  PROVE  ~row'.there
<1> DEFINE w == World
<1>1. Rowless(w)
  BY RowlessPolled
<1> HIDE DEF w
<1>2. CASE SupervisorStop(s)
  BY <1>2 DEF SupervisorStop, world
<1>3. CASE Sweep(s)
  BY <1>1, <1>3, RowlessStop, RowlessBecome DEF Sweep, w
<1>4. CASE Crash(s) \/ SupervisorEnds(s)
  <2>1. PICK y : y = Forgotten(w, s)
    OBVIOUS
  <2>2. Rowless(y)
    BY <1>1, <2>1, RowlessForgotten
  <2>3. Become([y EXCEPT !.fresher[s] = FALSE])
    BY <1>4, <2>1 DEF Crash, SupervisorEnds, Gone, w
  <2>4. Rowless([y EXCEPT !.fresher[s] = FALSE])
    BY <2>2, RowlessEdits
  <2>5. QED BY <2>3, <2>4, RowlessBecome
<1>5. CASE SupervisorStart(s)
  BY <1>1, <1>5, RowlessBecome DEF SupervisorStart, w
<1>6. QED BY <1>2, <1>3, <1>4, <1>5 DEF Ends

(* Nothing that was under way when a beacon was deleted - a launch, a       *)
(* message, the handling of an exit, a poll on a copy of the record, the    *)
(* restart of a supervisor - writes its record back: only a new create does. *)
THEOREM DeletedForGood == Spec => DeletedStaysGone
<1>1. ASSUME [Next]_vars, row'.there, ~row.there
      PROVE  HQCreate \/ \E s \in Stations : Create(s)
  <2>1. CASE UNCHANGED vars
    BY <1>1, <2>1 DEF vars, world
  <2>2. CASE HQ
    BY <1>1, <2>2 DEF HQ, HQStart, HQStop, HQDelete
  <2>3. CASE LeaseLapses
    BY <1>1, <2>3 DEF LeaseLapses, world
  <2>4. ASSUME NEW s \in Stations,
               \/ Tick(s) \/ Child(s) \/ HandleExit(s) \/ BackoffEnds(s) \/ Request(s) \/ Answer(s)
               \/ SupervisorStop(s) \/ Crash(s) \/ Ends(s)
        PROVE  Create(s)
    BY <1>1, <2>4, TickSilent, ChildSilent, RequestSilent, SupervisorSilent
  <2>5. QED BY <1>1, <2>1, <2>2, <2>3, <2>4 DEF Next
<1>2. QED BY <1>1, PTL DEF Spec, DeletedStaysGone
=============================================================================
