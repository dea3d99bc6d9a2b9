-------------------------- MODULE JobRunnerWrites ---------------------------
(***************************************************************************)
(* What is true of the writes of a job: that they are still approved when  *)
(* they begin, that the snapshot covers them, that the verify read         *)
(* confirms only what is there, that a job leaves the cache agreeing with  *)
(* what it has read, and that a rollback puts back what it says it does.   *)
(***************************************************************************)
EXTENDS JobRunnerAnswers

(* What it takes for a plan to add or remove a link. *)
LEMMA PlanMeans ==
  ASSUME NEW holds \in SUBSET Links, NEW answers \in [Devices -> Seen], NEW scope,
         NEW selected, NEW desired, NEW l \in Links
  PROVE  LET op == PlanOf(holds, answers, scope, selected, desired)[l] IN
         /\ op \in WriteOps => answers[SourceOf[l]] = "answering"
         /\ op = "remove" => /\ l \in holds /\ l \notin Desired(desired)
                             /\ l \in Managed \/ l \in selected
         /\ op = "add" => l \notin holds /\ l \in Desired(desired)
<1> DEFINE here == {k \in Links : SourceOf[k] \in InScope(answers, scope)}
           op == PlanOf(holds, answers, scope, selected, desired)[l]
<1>1. l \in here => answers[SourceOf[l]] = "answering"
  BY LinkAssumption DEF InScope
<1>2. op = "remove" => l \in Removals(Desired(desired) \cap here, holds \cap here, Managed, selected)
  BY DEF PlanOf, BuildPlan
<1>3. op = "add" => l \in Missing(Desired(desired) \cap here, holds \cap here)
  BY DEF PlanOf, BuildPlan, Adds
<1> HIDE DEF op
<1>4. op = "remove" => /\ l \in here /\ l \in holds /\ l \notin Desired(desired)
                       /\ l \in Managed \/ l \in selected
  BY <1>2 DEF Removals
<1>5. op = "add" => l \in here /\ l \notin holds /\ l \in Desired(desired)
  BY <1>3 DEF Missing
<1>6. QED  BY <1>1, <1>4, <1>5 DEF WriteOps, op

----------------------------------------------------------------------------
(* The writes begin in Launch and nowhere else. *)
LEMMA WorkBegins ==
  ASSUME TypeInv, Next, phase = "reread", phase' = "work"
  PROVE  \E d \in Devices : Launch(d)
<1>1. ~Requests
  BY DEF Requests, Apply, RemoveUnmanaged, Rollback, StartJob
<1>2. ASSUME NEW d \in Devices  PROVE ~Reread(d) /\ ~Device(d)
  BY DEF Reread, Device, Enter, Answer, TimeOut, BackoffOver, Verify
<1>3. ~Finish /\ ~ShutdownReturns
  BY DEF Finish, ShutdownReturns
<1>4. ~Others
  BY DEF Others, TaskCancelled, EndJob, Cancel, Shutdown, Land, Refresh, EditDevice, EditRule, job
<1>5. QED  BY <1>1, <1>2, <1>3, <1>4 DEF Next, Runner

(* A job at work ends by itself in Finish, or is killed.                   *)
LEMMA WorkEnds ==
  ASSUME TypeInv, Next, phase = "work", phase' = "idle"
  PROVE  Finish \/ TaskCancelled
<1>1. ~Requests
  BY DEF Requests, Apply, RemoveUnmanaged, Rollback, StartJob
<1>2. ASSUME NEW d \in Devices  PROVE ~Reread(d) /\ ~Launch(d) /\ ~Device(d)
  BY DEF Reread, Launch, Device, Enter, Answer, TimeOut, BackoffOver, Verify
<1>3. ~ShutdownReturns
  BY DEF ShutdownReturns
<1>4. Others => TaskCancelled
  BY DEF Others, Cancel, Shutdown, Land, Refresh, EditDevice, EditRule, job
<1>5. QED  BY <1>1, <1>2, <1>3, <1>4 DEF Next, Runner

(* Launch passes a write on only if a plan made from what was just read    *)
(* makes it too.                                                           *)
LEMMA LaunchAgrees ==
  ASSUME TypeInv, NEW d \in Devices, Launch(d), phase' = "work"
  PROVE  \A l \in request.writes :
           pc'[SourceOf[l]] # "off" \/ outcome'[l] = "none" =>
             /\ pc'[SourceOf[l]] # "off"
             /\ seen'[SourceOf[l]] = "answering"
             /\ PlanOf(cache', seen', request.scope, request.selected, request.desired)[l]
                  = request.op[l]
             /\ snap' # NoSnapshot
             /\ SourceOf[l] \in snap'.devices
             /\ snap'.links = {k \in cache' : SourceOf[k] \in snap'.devices}
<1> DEFINE stale == StaleDevices(cache', seen')
           live == {SourceOf[l] : l \in request.writes} \ stale
           covered == {e \in live : seen'[e] # "unread"}
<1>1. /\ snap' = IF covered = {} THEN snap ELSE SnapshotOf(cache', covered)
      /\ outcome' = [l \in Links |-> IF l \in request.writes /\ SourceOf[l] \in stale
                                     THEN "stale_plan" ELSE outcome[l]]
      /\ pc' = [e \in Devices |-> IF e \in live THEN "queued" ELSE "off"]
  BY DEF Launch, EndJob
<1>2. cache' \in SUBSET Links /\ seen' \in [Devices -> Seen]
  BY ReadTyped DEF Launch, TypeInv
<1>3. live \in SUBSET Devices
  BY LinkAssumption DEF TypeInv, TypeOK, RequestType
<1> SUFFICES ASSUME NEW l \in request.writes,
                    pc'[SourceOf[l]] # "off" \/ outcome'[l] = "none"
             PROVE  /\ pc'[SourceOf[l]] # "off"
                    /\ seen'[SourceOf[l]] = "answering"
                    /\ PlanOf(cache', seen', request.scope, request.selected,
                              request.desired)[l] = request.op[l]
                    /\ snap' # NoSnapshot
                    /\ SourceOf[l] \in snap'.devices
                    /\ snap'.links = {k \in cache' : SourceOf[k] \in snap'.devices}
  OBVIOUS
<1>4. l \in Links /\ SourceOf[l] \in Devices /\ request.op[l] \in WriteOps
  BY LinkAssumption DEF TypeInv, TypeOK, RequestType, WritesOK
<1>5. SourceOf[l] \notin stale
  BY <1>1, <1>4
<1>6. PlanOf(cache', seen', request.scope, request.selected, request.desired)[l] = request.op[l]
  BY <1>4, <1>5 DEF StaleDevices, WriteOf, Of
<1>7. seen'[SourceOf[l]] = "answering"
  BY <1>2, <1>4, <1>6, PlanMeans
<1>8. SourceOf[l] \in live /\ SourceOf[l] \in covered
  BY <1>5, <1>7
<1>9. snap' = SnapshotOf(cache', covered) /\ covered \in SUBSET Devices
  BY <1>1, <1>3, <1>8
<1> HIDE DEF covered
<1>10. /\ snap' # NoSnapshot
       /\ snap'.devices = covered
       /\ snap'.links = {k \in cache' : SourceOf[k] \in covered}
  BY <1>2, <1>9, RunnerAssumption DEF SnapshotOf
<1>11. QED  BY <1>1, <1>4, <1>6, <1>7, <1>8, <1>10

(* Every write that begins is one the rules and the devices, as just read, *)
(* still ask for: nothing is removed that is wanted, gone or somebody      *)
(* else's and not ticked, nothing is added that is there or not wanted.    *)
THEOREM WritesStillApproved == Spec => StillApproved
<1> DEFINE Approved ==
      (phase = "reread" /\ phase' = "work") =>
         \A l \in request.writes :
           outcome'[l] = "none" =>
             IF request.op[l] = "remove"
             THEN l \in cache' /\ l \notin Desired(request.desired)
                  /\ (l \in Managed \/ l \in request.selected)
             ELSE l \notin cache' /\ l \in Desired(request.desired)
<1>1. TypeInv /\ TypeInv' /\ [Next]_vars => [Approved]_vars
  <2> SUFFICES ASSUME TypeInv, TypeInv', Next, phase = "reread", phase' = "work",
                      NEW l \in request.writes, outcome'[l] = "none"
               PROVE  IF request.op[l] = "remove"
                      THEN l \in cache' /\ l \notin Desired(request.desired)
                           /\ (l \in Managed \/ l \in request.selected)
                      ELSE l \notin cache' /\ l \in Desired(request.desired)
    BY DEF vars
  <2>1. PICK d \in Devices : Launch(d)
    BY WorkBegins
  <2>2. PlanOf(cache', seen', request.scope, request.selected, request.desired)[l]
          = request.op[l]
    BY <2>1, LaunchAgrees
  <2>3. /\ l \in Links /\ request.op[l] \in WriteOps
        /\ cache' \in SUBSET Links /\ seen' \in [Devices -> Seen]
    BY DEF TypeInv, TypeOK, RequestType, WritesOK
  <2>4. QED  BY <2>2, <2>3, PlanMeans DEF WriteOps
<1>2. Init => TypeInv  BY InitTyped
<1>3. TypeInv /\ [Next]_vars => TypeInv'  BY StepTyped
<1>4. QED  BY <1>1, <1>2, <1>3, PTL DEF Spec, StillApproved

----------------------------------------------------------------------------
(* The snapshot. *)

(* Of a device that is being worked, the snapshot has what its writes need *)
Covered ==
  \A l \in request.writes : pc[SourceOf[l]] # "off" =>
    /\ snap # NoSnapshot
    /\ SourceOf[l] \in snap.devices
    /\ (l \in snap.links) = (request.op[l] = "remove")

(* Nothing is sent but writes of devices that are being worked. *)
SentHere == \A l \in sent : l \in request.writes /\ pc[SourceOf[l]] # "off"

SnapInv == TypeInv /\ Covered /\ SentHere

LEMMA SnapKept ==
  ASSUME SnapInv, TypeInv', UNCHANGED <<request, snap, sent>>,
         \A d \in Devices : (pc'[d] = "off") = (pc[d] = "off")
  PROVE  SnapInv'
<1>1. \A l \in request.writes : SourceOf[l] \in Devices
  BY LinkAssumption DEF SnapInv, TypeInv, TypeOK, RequestType
<1>2. QED  BY <1>1 DEF SnapInv, Covered, SentHere

LEMMA SnapIdle ==
  ASSUME TypeInv', sent' = {}, phase' # "work"
  PROVE  SnapInv'
<1>1. \A l \in request'.writes : SourceOf[l] \in Devices
  BY LinkAssumption DEF TypeInv, TypeOK, RequestType
<1>2. QED  BY <1>1 DEF SnapInv, TypeInv, AtRest, Covered, SentHere

LEMMA SnapProceed ==
  ASSUME SnapInv, TypeInv', NEW d \in Devices, pc[d] # "off", NEW out, NEW flying,
         Proceed(d, out, Rest(d), flying), UNCHANGED <<request, snap>>
  PROVE  SnapInv'
<1>1. \A e \in Devices : (pc'[e] = "off") = (pc[e] = "off")
  BY DEF Proceed, SnapInv, TypeInv, TypeOK
<1>2. \A l \in sent' \ sent : l \in request.writes /\ SourceOf[l] = d
  <2>1. \A l \in Rest(d) : l \in request.writes /\ SourceOf[l] = d
    BY DEF Rest, WriteOf, Of
  <2>2. sent' = sent \/ \E l \in Rest(d) : sent' = sent \cup {l}
    BY DEF Proceed
  <2>3. QED  BY <2>1, <2>2
<1>3. \A l \in request.writes : SourceOf[l] \in Devices
  BY LinkAssumption DEF SnapInv, TypeInv, TypeOK, RequestType
<1>4. QED  BY <1>1, <1>2, <1>3 DEF SnapInv, Covered, SentHere

LEMMA SnapDevice == ASSUME SnapInv, TypeInv', NEW d \in Devices, Device(d) PROVE SnapInv'
<1>1. CASE Enter(d)
  BY <1>1, SnapProceed DEF Enter, coordinator
<1>2. ASSUME NEW result, NEW flying, pc[d] = "call", Settle(d, result, flying),
             UNCHANGED <<request, snap>>
      PROVE  SnapInv'
  <2>1. CASE pc' = [pc EXCEPT ![d] = "backoff"] /\ UNCHANGED sent
    <3>1. \A e \in Devices : (pc'[e] = "off") = (pc[e] = "off")
      BY <1>2, <2>1 DEF SnapInv, TypeInv, TypeOK
    <3>2. QED  BY <1>2, <2>1, <3>1, SnapKept
  <2>2. QED  BY <1>2, <2>1, SnapProceed DEF Settle
<1>3. ASSUME NEW result \in Results, Answer(d, result)  PROVE SnapInv'
  BY <1>2, <1>3 DEF Answer, coordinator
<1>4. CASE TimeOut(d)
  BY <1>2, <1>4 DEF TimeOut, coordinator
<1>5. CASE BackoffOver(d)
  <2>1. pc[d] = "backoff" /\ UNCHANGED <<request, snap>>
    BY <1>5 DEF BackoffOver, coordinator
  <2>2. CASE pc' = [pc EXCEPT ![d] = "call"] /\ UNCHANGED sent
    <3>1. \A e \in Devices : (pc'[e] = "off") = (pc[e] = "off")
      BY <2>1, <2>2 DEF SnapInv, TypeInv, TypeOK
    <3>2. QED  BY <2>1, <2>2, <3>1, SnapKept
  <2>3. QED  BY <1>5, <2>1, <2>2, SnapProceed DEF BackoffOver
<1>6. CASE Verify(d)
  <2>1. \A e \in Devices : (pc'[e] = "off") = (pc[e] = "off")
    BY <1>6 DEF Verify, SnapInv, TypeInv, TypeOK
  <2>2. QED  BY <1>6, <2>1, SnapKept DEF Verify
<1>7. QED  BY <1>1, <1>3, <1>4, <1>5, <1>6 DEF Device

LEMMA SnapLaunch == ASSUME SnapInv, TypeInv', NEW d \in Devices, Launch(d) PROVE SnapInv'
<1>1. CASE phase' = "work"
  <2>1. UNCHANGED <<request, sent>>
    BY <1>1 DEF Launch, EndJob
  <2>2. sent = {}
    BY LinkAssumption DEF Launch, SnapInv, SentHere, TypeInv, TypeOK, RequestType, AtRest
  <2>3. ASSUME NEW l \in request.writes, pc'[SourceOf[l]] # "off"
        PROVE  /\ snap' # NoSnapshot
               /\ SourceOf[l] \in snap'.devices
               /\ (l \in snap'.links) = (request.op[l] = "remove")
    <3>1. /\ PlanOf(cache', seen', request.scope, request.selected, request.desired)[l]
               = request.op[l]
          /\ snap' # NoSnapshot
          /\ SourceOf[l] \in snap'.devices
          /\ snap'.links = {k \in cache' : SourceOf[k] \in snap'.devices}
      BY <1>1, <2>3, LaunchAgrees DEF SnapInv
    <3>2. /\ l \in Links /\ request.op[l] \in WriteOps
          /\ cache' \in SUBSET Links /\ seen' \in [Devices -> Seen]
      BY DEF SnapInv, TypeInv, TypeOK, RequestType, WritesOK
    <3>3. (l \in cache') = (request.op[l] = "remove")
      BY <3>1, <3>2, PlanMeans DEF WriteOps
    <3>4. QED  BY <3>1, <3>3
  <2>4. QED  BY <2>1, <2>2, <2>3 DEF SnapInv, Covered, SentHere
<1>2. CASE phase' # "work"
  <2>1. sent' = {}
    BY <1>2 DEF Launch, EndJob
  <2>2. QED  BY <1>2, <2>1, SnapIdle
<1>3. QED  BY <1>1, <1>2

LEMMA SnapStep == SnapInv /\ [Next]_vars => SnapInv'
<1> SUFFICES ASSUME SnapInv, [Next]_vars PROVE SnapInv'  OBVIOUS
<1>1. TypeInv'
  BY StepTyped DEF SnapInv
<1>2. phase # "work" => sent = {}
  BY LinkAssumption DEF SnapInv, SentHere, TypeInv, TypeOK, RequestType, AtRest
<1>3. CASE Requests
  <2>1. PICK scope, selected, desired, op : StartJob(scope, selected, desired, op)
    BY <1>3 DEF Requests, Apply, RemoveUnmanaged, Rollback
  <2>2. phase # "work" /\ phase' # "work" /\ sent' = sent
    BY <2>1 DEF StartJob
  <2>3. QED  BY <1>1, <1>2, <2>2, SnapIdle
<1>4. ASSUME NEW d \in Devices, Reread(d)  PROVE SnapInv'
  BY <1>1, <1>4, SnapKept DEF Reread, coroutines, ops
<1>5. CASE Finish \/ TaskCancelled
  <2>1. sent' = {} /\ phase' # "work"
    BY <1>5 DEF Finish, TaskCancelled, EndJob
  <2>2. QED  BY <1>1, <2>1, SnapIdle
<1>6. CASE \/ Cancel \/ Shutdown \/ ShutdownReturns
           \/ \E l \in Links, op \in WriteOps : Land(l, op)
           \/ \E d \in Devices : Refresh(d)
           \/ \E l \in Links : EditDevice(l)
           \/ \E r \in Rules : EditRule(r)
           \/ UNCHANGED vars
  <2>1. UNCHANGED <<request, snap, sent, pc>>
    BY <1>6 DEF Cancel, Shutdown, ShutdownReturns, Land, Refresh, EditDevice, EditRule, vars,
                coordinator, job, ops, coroutines
  <2>2. QED  BY <1>1, <2>1, SnapKept
<1>7. QED  BY <1>1, <1>3, <1>4, <1>5, <1>6, SnapLaunch, SnapDevice DEF Next, Runner, Others

(* The snapshot taken before the writes can undo every one of them: what a *)
(* job removes is in it, what it adds is not, its devices are covered.     *)
THEOREM SnapshotUndoesWrites == Spec => []SnapshotCoversWrites
<1>1. Init => SnapInv
  BY InitTyped DEF Init, NoJob, NoRequest, SnapInv, Covered, SentHere
<1>2. SnapInv => SnapshotCoversWrites
  BY DEF SnapInv, Covered, SentHere, SnapshotCoversWrites
<1>3. QED  BY <1>1, <1>2, SnapStep, PTL DEF Spec

----------------------------------------------------------------------------
(* Slots with a system entry.  The refusals are made of what the cache     *)
(* holds when the job is asked for, and the writes are sent long after: it *)
(* takes that nobody changes the system entries meanwhile, and that the    *)
(* cache has those of every device that was ever read, as the backend has. *)

(* No rule asks for a system entry. *)
NoRuleOfSystem == \A s \in SystemLinks : RuleOf[s] = NoRule

SystemKnown ==
  \A s \in SystemLinks :
    /\ (s \in copy) = (s \in table)
    /\ seen[SourceOf[s]] # "unread" => (s \in cache) = (s \in table)

SystemOnAir == \A l \in SystemLinks, op \in WriteOps : <<l, op>> \notin air

SystemNotSaved == snap # NoSnapshot => snap.managed \cap SystemLinks = {}

WritesClear ==
  \A l \in request.writes :
    /\ l \notin SystemLinks
    /\ SourceOf[l] \in SlotDevices =>
         \A s \in table \cap SystemLinks : ~SameSlot(s, l)

SlotInv == SystemKnown /\ SystemOnAir /\ SystemNotSaved /\ WritesClear

(* What a plan writes and _is_system does not refuse is clear of them. *)
LEMMA PlanClear ==
  ASSUME NoRuleOfSystem, TypeInv, SystemKnown, NEW scope, NEW selected, NEW desired,
         desired = Stored \/ desired \cap SystemLinks = {},
         NEW l \in Links, NEW op \in WriteOps, PlanNow(scope, selected, desired)[l] = op,
         ~IsSystem(l, op)
  PROVE  /\ l \notin SystemLinks
         /\ SourceOf[l] \in SlotDevices =>
              \A s \in table \cap SystemLinks : ~SameSlot(s, l)
<1>1. cache \in SUBSET Links /\ seen \in [Devices -> Seen] /\ enabled \in SUBSET Rules
  BY DEF TypeInv, TypeOK
<1>2. /\ seen[SourceOf[l]] = "answering"
      /\ op = "add" => l \in Desired(desired)
  BY <1>1, PlanMeans DEF PlanNow, WriteOps
<1>3. Desired(desired) \cap SystemLinks = {}
  BY <1>1, RunnerAssumption DEF Desired, NoRuleOfSystem
<1>4. l \notin SystemLinks
  BY <1>2, <1>3 DEF IsSystem, WriteOps
<1>5. ASSUME SourceOf[l] \in SlotDevices, NEW s \in table \cap SystemLinks, SameSlot(s, l)
      PROVE  FALSE
  <2>1. s \in Links /\ SourceOf[s] = SourceOf[l]
    BY <1>5, LinkAssumption DEF SameSlot
  <2>2. s \in cache
    BY <1>2, <1>5, <2>1 DEF SystemKnown
  <2>3. QED  BY <1>5, <2>2 DEF IsSystem
<1>6. QED  BY <1>4, <1>5

LEMMA RequestsClear ==
  ASSUME NoRuleOfSystem, TypeInv, SlotInv, Requests
  PROVE  SlotInv'
<1>1. ASSUME NEW scope, NEW selected, NEW desired, NEW op, StartJob(scope, selected, desired, op),
             \A l \in Links : op[l] \in WriteOps /\ ~IsSystem(l, op[l]) =>
               /\ l \notin SystemLinks
               /\ SourceOf[l] \in SlotDevices =>
                    \A s \in table \cap SystemLinks : ~SameSlot(s, l)
      PROVE  SlotInv'
  <2>1. UNCHANGED <<table, copy, air, cache, seen, snap>>
    BY <1>1 DEF StartJob, world, coordinator
  <2>2. CASE UNCHANGED request
    BY <2>1, <2>2 DEF SlotInv, SystemKnown, SystemOnAir, SystemNotSaved, WritesClear
  <2>3. CASE request'.writes =
               Writes(op) \ {l \in Links : op[l] # "none" /\ Refused(l, op[l], selected)}
    <3>1. \A l \in request'.writes : l \in Links /\ op[l] \in WriteOps /\ ~IsSystem(l, op[l])
      BY <2>3 DEF Writes, WriteOps, Refused
    <3>2. WritesClear'
      BY <1>1, <2>1, <3>1 DEF WritesClear
    <3>3. QED  BY <2>1, <3>2
               DEF SlotInv, SystemKnown, SystemOnAir, SystemNotSaved
  <2> DEFINE writes == Writes(op) \ {l \in Links : op[l] # "none" /\ Refused(l, op[l], selected)}
  <2>4. \/ UNCHANGED request
        \/ request' = [scope |-> scope, selected |-> selected, desired |-> desired,
                       op |-> op, writes |-> writes]
    BY <1>1 DEF StartJob
  <2> HIDE DEF writes
  <2>5. UNCHANGED request \/ request'.writes = writes
    BY <2>4
  <2>6. QED  BY <2>2, <2>3, <2>5 DEF writes
<1>2. ASSUME NEW scope, NEW selected, Apply(scope, selected)  PROVE SlotInv'
  <2> DEFINE op == PlanNow(scope, selected, Stored)
  <2>1. StartJob(scope, selected, Stored, op)
    BY <1>2 DEF Apply
  <2>2. \A l \in Links : op[l] \in WriteOps /\ ~IsSystem(l, op[l]) =>
          /\ l \notin SystemLinks
          /\ SourceOf[l] \in SlotDevices =>
               \A s \in table \cap SystemLinks : ~SameSlot(s, l)
    BY PlanClear DEF SlotInv
  <2> HIDE DEF op
  <2>3. QED  BY <1>1, <2>1, <2>2
<1>3. ASSUME NEW selected, RemoveUnmanaged(selected)  PROVE SlotInv'
  <2> DEFINE scope == [rules |-> {}, devices |-> Devices]
             plan == PlanNow(scope, selected, Stored)
             op == [l \in Links |-> IF l \in {k \in selected : plan[k] = "remove"}
                                    THEN "remove" ELSE "none"]
  <2>1. StartJob(scope, selected, Stored, op)
    BY <1>3 DEF RemoveUnmanaged
  <2>2. \A l \in Links : op[l] \in WriteOps => op[l] = "remove" /\ plan[l] = "remove"
    BY DEF WriteOps
  <2>3. \A l \in Links : op[l] \in WriteOps /\ ~IsSystem(l, op[l]) =>
          /\ l \notin SystemLinks
          /\ SourceOf[l] \in SlotDevices =>
               \A s \in table \cap SystemLinks : ~SameSlot(s, l)
    <3> HIDE DEF op, scope
    <3>1. QED  BY <2>2, PlanClear DEF SlotInv, WriteOps
  <2> HIDE DEF op, scope
  <2>4. QED  BY <1>1, <2>1, <2>3
<1>4. ASSUME NEW selected, Rollback(selected)  PROVE SlotInv'
  <2> DEFINE scope == [rules |-> {}, devices |-> snap.devices]
             op == PlanNow(scope, selected, snap.managed)
  <2>1. snap # NoSnapshot /\ StartJob(scope, selected, snap.managed, op)
    BY <1>4 DEF Rollback
  <2>2. \A l \in Links : op[l] \in WriteOps /\ ~IsSystem(l, op[l]) =>
          /\ l \notin SystemLinks
          /\ SourceOf[l] \in SlotDevices =>
               \A s \in table \cap SystemLinks : ~SameSlot(s, l)
    BY <2>1, PlanClear DEF SlotInv, SystemNotSaved
  <2> HIDE DEF op, scope
  <2>3. QED  BY <1>1, <2>1, <2>2
<1>5. QED  BY <1>2, <1>3, <1>4 DEF Requests

(* A read keeps what is known of system entries true. *)
LEMMA ReadKnows ==
  ASSUME TypeInv, SystemKnown, NEW d \in Devices, Read(d), UNCHANGED table
  PROVE  SystemKnown'
<1>1. seen \in [Devices -> Seen]
  BY DEF TypeInv, TypeOK
<1>2. \A s \in SystemLinks : s \in Links /\ SourceOf[s] \in Devices
  BY LinkAssumption
<1>3. CASE Unanswered(d)
  <2>1. \A e \in Devices : seen'[e] # "unread" => seen[e] # "unread"
    BY <1>1, <1>3 DEF Unanswered, SeenAfter
  <2>2. QED  BY <1>2, <1>3, <2>1 DEF Unanswered, SystemKnown
<1>4. ASSUME NEW heard \in SUBSET Behind(d), Answered(d, heard)  PROVE SystemKnown'
  <2>1. \A s \in SystemLinks : (s \in copy') = (s \in table)
    BY <1>4 DEF Answered, CopyAfter, SystemKnown
  <2>2. ASSUME NEW s \in SystemLinks, seen'[SourceOf[s]] # "unread"
        PROVE  (s \in cache') = (s \in table)
    <3>1. CASE SourceOf[s] = d
      BY <1>2, <1>4, <2>1, <3>1 DEF Answered, CacheAfter, Of
    <3>2. CASE SourceOf[s] # d
      <4>1. (s \in cache') = (s \in cache)
        BY <1>4, <3>2 DEF Answered, CacheAfter, Of
      <4>2. seen[SourceOf[s]] # "unread"
        BY <1>1, <1>2, <1>4, <2>2, <3>2 DEF Answered, SeenAfter
      <4>3. QED  BY <4>1, <4>2 DEF SystemKnown
    <3>3. QED  BY <3>1, <3>2
  <2>3. QED  BY <2>1, <2>2 DEF SystemKnown
<1>5. QED  BY <1>3, <1>4 DEF Read

(* Nothing but writes of the job is put on the air. *)
LEMMA DeviceClear == ASSUME TypeInv, SlotInv, NEW d \in Devices, Device(d) PROVE SlotInv'
<1>1. WriteOf(d) \cap SystemLinks = {}
  BY DEF SlotInv, WritesClear, WriteOf
<1>2. UNCHANGED <<table, request, snap>>
  BY DEF Device, Enter, Answer, TimeOut, BackoffOver, Verify, coordinator
<1>3. ASSUME NEW out, NEW flying, flying \subseteq air, Proceed(d, out, Rest(d), flying)
      PROVE  SystemOnAir'
  <2>1. air' = flying \/ \E l \in Rest(d) : air' = flying \cup {<<l, request.op[l]>>}
    BY <1>3 DEF Proceed
  <2>2. Rest(d) \cap SystemLinks = {}
    BY <1>1 DEF Rest
  <2>3. QED  BY <1>3, <2>1, <2>2 DEF SlotInv, SystemOnAir
<1>4. ASSUME NEW result, NEW flying, flying \subseteq air, Settle(d, result, flying)
      PROVE  SystemOnAir'
  BY <1>3, <1>4 DEF Settle, SlotInv, SystemOnAir
<1>5. SystemOnAir'
  <2>1. CASE Enter(d)
    BY <1>3, <2>1 DEF Enter
  <2>2. ASSUME NEW result, Answer(d, result)  PROVE SystemOnAir'
    BY <1>4, <2>2 DEF Answer
  <2>3. CASE TimeOut(d)
    BY <1>4, <2>3 DEF TimeOut
  <2>4. CASE BackoffOver(d)
    <3>1. CASE air' = air \cup {<<cur[d], request.op[cur[d]]>>}
      <4>1. cur[d] \in WriteOf(d)
        BY <2>4 DEF BackoffOver, TypeInv, CursorOK
      <4>2. QED  BY <1>1, <3>1, <4>1 DEF SlotInv, SystemOnAir
    <3>2. QED  BY <1>3, <2>4, <3>1 DEF BackoffOver
  <2>5. CASE Verify(d)
    BY <2>5 DEF Verify, SlotInv, SystemOnAir
  <2>6. QED  BY <2>1, <2>2, <2>3, <2>4, <2>5 DEF Device
<1>6. SystemKnown'
  <2>1. CASE UNCHANGED <<cache, seen, copy>>
    BY <1>2, <2>1 DEF SlotInv, SystemKnown
  <2>2. CASE Verify(d)
    BY <1>2, <2>2, ReadKnows DEF Verify, Read, SlotInv
  <2>3. QED  BY <2>1, <2>2 DEF Device, Enter, Answer, TimeOut, BackoffOver, coordinator
<1>7. QED  BY <1>2, <1>5, <1>6 DEF SlotInv, SystemNotSaved, WritesClear

LEMMA LaunchClear == ASSUME TypeInv, SlotInv, NEW d \in Devices, Launch(d) PROVE SlotInv'
<1>1. /\ Read(d)
      /\ snap' = snap \/ \E devices : snap' = SnapshotOf(cache', devices)
      /\ UNCHANGED request \/ request' = NoRequest
  BY DEF Launch, EndJob
<1>2. UNCHANGED <<table, air>>
  BY DEF Launch
<1>3. SystemNotSaved'
  BY <1>1 DEF SlotInv, SystemNotSaved, SnapshotOf, Managed
<1>4. SystemKnown'
  BY <1>1, <1>2, ReadKnows DEF SlotInv
<1>5. QED  BY <1>1, <1>2, <1>3, <1>4 DEF SlotInv, SystemOnAir, WritesClear, NoRequest

LEMMA SlotStep == NoRuleOfSystem /\ TypeInv /\ SlotInv /\ [Next]_vars => SlotInv'
<1> SUFFICES ASSUME NoRuleOfSystem, TypeInv, SlotInv, [Next]_vars PROVE SlotInv'  OBVIOUS
<1>1. ASSUME UNCHANGED <<table, air, snap>>, SystemKnown', UNCHANGED request \/ request' = NoRequest
      PROVE  SlotInv'
  BY <1>1 DEF SlotInv, SystemOnAir, SystemNotSaved, WritesClear, NoRequest
<1>2. ASSUME UNCHANGED <<table, copy, air, snap, cache, seen>>, UNCHANGED request \/ request' = NoRequest
      PROVE  SlotInv'
  BY <1>1, <1>2 DEF SlotInv, SystemKnown
<1>3. ASSUME NEW d \in Devices, Reread(d) \/ Refresh(d)  PROVE SlotInv'
  <2>1. UNCHANGED <<table, air, snap, request>> /\ Read(d)
    BY <1>3 DEF Reread, Refresh, job
  <2>2. QED  BY <1>1, <2>1, ReadKnows DEF SlotInv
<1>4. ASSUME NEW l \in Links \ SystemLinks, UNCHANGED <<cache, seen, snap, request>>,
             air' \subseteq air, NEW now, now = table \cup {l} \/ now = table \ {l},
             Changed(l, now)
      PROVE  SlotInv'
  BY <1>4 DEF Changed, SlotInv, SystemKnown, SystemOnAir, SystemNotSaved, WritesClear
<1>5. ASSUME NEW l \in Links, NEW op \in WriteOps, Land(l, op)  PROVE SlotInv'
  BY <1>4, <1>5 DEF Land, coordinator, job, SlotInv, SystemOnAir
<1>6. ASSUME NEW l \in Links, EditDevice(l)  PROVE SlotInv'
  BY <1>4, <1>6 DEF EditDevice, coordinator, job
<1>7. CASE \/ Finish \/ TaskCancelled \/ Cancel \/ Shutdown \/ ShutdownReturns
           \/ \E r \in Rules : EditRule(r)
           \/ UNCHANGED vars
  BY <1>2, <1>7 DEF Finish, TaskCancelled, EndJob, Cancel, Shutdown, ShutdownReturns, EditRule,
     world, coordinator, job, vars
<1>8. QED  BY <1>3, <1>5, <1>6, <1>7, RequestsClear, DeviceClear, LaunchClear
           DEF Next, Runner, Others

(* No write goes into a slot with a system entry where a slot has one      *)
(* purpose, nor removes a system entry anywhere, if no rule asks for one   *)
(* (_is_system): however long the job waits with its writes, whatever      *)
(* devices fail to answer, and for a rollback to a snapshot as well.       *)
THEOREM SystemSlotsKept == NoRuleOfSystem => (Spec => []SystemSlotsUntouched)
<1> SUFFICES ASSUME NoRuleOfSystem PROVE Spec => []SystemSlotsUntouched  OBVIOUS
<1>1. Init => SnapInv /\ SlotInv
  <2>1. Init => SnapInv
    BY InitTyped DEF Init, NoJob, NoRequest, SnapInv, Covered, SentHere
  <2>2. Init => SlotInv
    BY LinkAssumption DEF Init, NoJob, NoRequest, SlotInv, SystemKnown, SystemOnAir,
       SystemNotSaved, WritesClear
  <2>3. QED  BY <2>1, <2>2
<1>2. SnapInv /\ SlotInv /\ [Next]_vars => SnapInv' /\ SlotInv'
  BY SnapStep, SlotStep DEF SnapInv
<1>3. SnapInv /\ SlotInv => SystemSlotsUntouched
  BY DEF SnapInv, SentHere, SlotInv, WritesClear, SystemSlotsUntouched
<1>4. QED  BY <1>1, <1>2, <1>3, PTL DEF Spec

----------------------------------------------------------------------------
(* The cache when a job ends. *)

(* The devices a job has read and is not at work on: those of the plan the *)
(* re-read is through with, those that wait for a place, those verified.   *)
Settled(d) ==
  \/ pc[d] \in {"queued", "done"}
  \/ phase = "reread" /\ d \in {SourceOf[l] : l \in request.writes} \ toread

(* What is cached of a device is what the backend knows of it, if it       *)
(* answers and nobody changed it since.                                    *)
CacheIsCopy(d) ==
  seen[d] = "answering" /\ d \notin foreign => cache \cap Of(d) = copy \cap Of(d)

FreshInv == \A d \in Devices : Settled(d) => CacheIsCopy(d)

(* A read leaves the device it reads in agreement, and the others alone.   *)
LEMMA ReadAgrees ==
  ASSUME TypeInv, NEW d \in Devices, Read(d)
  PROVE  /\ CacheIsCopy(d)'
         /\ \A e \in Devices \ {d} : CacheIsCopy(e) => CacheIsCopy(e)'
<1>1. seen \in [Devices -> Seen]
  BY DEF TypeInv, TypeOK
<1>2. CASE Unanswered(d)
  <2>1. seen'[d] # "answering" /\ \A e \in Devices \ {d} : seen'[e] = seen[e]
    BY <1>1, <1>2 DEF Unanswered, SeenAfter
  <2>2. QED  BY <1>2, <2>1 DEF Unanswered, CacheIsCopy, Of
<1>3. ASSUME NEW heard \in SUBSET Behind(d), Answered(d, heard)
      PROVE  /\ CacheIsCopy(d)'
             /\ \A e \in Devices \ {d} : CacheIsCopy(e) => CacheIsCopy(e)'
  <2>1. cache' \cap Of(d) = copy' \cap Of(d)
    BY <1>3 DEF Answered, CacheAfter
  <2>2. ASSUME NEW e \in Devices \ {d}, CacheIsCopy(e)  PROVE CacheIsCopy(e)'
    <3>1. seen'[e] = seen[e] /\ (e \in foreign') = (e \in foreign)
      BY <1>1, <1>3 DEF Answered, SeenAfter
    <3>2. \A l \in Of(e) : (l \in cache') = (l \in cache)
      BY <1>3 DEF Answered, CacheAfter, Of
    <3>3. \A l \in Of(e) : (l \in copy') = (l \in copy)
      BY <1>3 DEF Answered, CopyAfter, Behind, Of
    <3>4. QED  BY <2>2, <3>1, <3>2, <3>3 DEF CacheIsCopy, Of
  <2>3. QED  BY <2>1, <2>2 DEF CacheIsCopy, Of
<1>4. QED  BY <1>2, <1>3 DEF Read

(* A step that brings no device to rest but the one it reads.              *)
LEMMA FreshRead ==
  ASSUME TypeInv, FreshInv, NEW d \in Devices, Read(d),
         \A e \in Devices \ {d} : Settled(e)' => Settled(e)
  PROVE  FreshInv'
BY ReadAgrees DEF FreshInv

LEMMA FreshStill ==
  ASSUME FreshInv, UNCHANGED <<copy, cache, seen, foreign>>,
         \A e \in Devices : Settled(e)' => Settled(e)
  PROVE  FreshInv'
BY DEF FreshInv, CacheIsCopy, Of

(* A device that changes while no job works on it is marked. *)
LEMMA FreshChange ==
  ASSUME TypeInv, FreshInv, NEW l \in Links, NEW now, Changed(l, now), UNCHANGED <<cache, seen>>,
         Settled(SourceOf[l]) => foreign' = foreign \cup {SourceOf[l]},
         foreign \subseteq foreign',
         \A e \in Devices : Settled(e)' => Settled(e)
  PROVE  FreshInv'
<1>1. ASSUME NEW e \in Devices, Settled(e), seen[e] = "answering", e \notin foreign'
      PROVE  cache \cap Of(e) = copy' \cap Of(e)
  <2>1. e # SourceOf[l] /\ e \notin foreign
    BY <1>1
  <2>2. copy' \cap Of(e) = copy \cap Of(e)
    BY <2>1 DEF Changed, Of
  <2>3. QED  BY <1>1, <2>1, <2>2 DEF FreshInv, CacheIsCopy
<1>2. QED  BY <1>1 DEF FreshInv, CacheIsCopy, Of

(* A coroutine that has sent something does not come to rest unverified. *)
LEMMA DeviceSettles ==
  ASSUME TypeInv, NEW d \in Devices, Device(d), ~Verify(d)
  PROVE  \A e \in Devices : Settled(e)' => Settled(e)
<1>1. UNCHANGED <<phase, request, toread>>
  BY DEF Device, Enter, Answer, TimeOut, BackoffOver
<1>2. ASSUME NEW out, NEW flying, Proceed(d, out, Rest(d), flying)
      PROVE  /\ pc' \in {[pc EXCEPT ![d] = "call"], [pc EXCEPT ![d] = "verify"],
                         [pc EXCEPT ![d] = "done"]}
             /\ (\E l \in WriteOf(d) : attempts[l] > 0) => pc' # [pc EXCEPT ![d] = "done"]
  BY <1>2 DEF Proceed, TypeInv, TypeOK
<1>3. CASE Enter(d)
  <2>1. pc[d] = "queued"
    BY <1>3 DEF Enter
  <2>2. \A e \in Devices \ {d} : pc'[e] = pc[e]
    BY <1>2, <1>3 DEF Enter, TypeInv, TypeOK
  <2>3. QED  BY <1>1, <2>1, <2>2 DEF Settled
<1>4. CASE pc[d] \in {"call", "backoff"}
  <2>1. \E l \in WriteOf(d) : attempts[l] > 0
    BY <1>4 DEF TypeInv, CursorOK
  <2>2. pc' \in {[pc EXCEPT ![d] = "call"], [pc EXCEPT ![d] = "verify"],
                 [pc EXCEPT ![d] = "backoff"]}
    <3>1. ASSUME NEW result, NEW flying, Settle(d, result, flying)
          PROVE  pc' \in {[pc EXCEPT ![d] = "call"], [pc EXCEPT ![d] = "verify"],
                          [pc EXCEPT ![d] = "backoff"]}
      BY <1>2, <2>1, <3>1 DEF Settle
    <3>2. CASE Enter(d)
      BY <1>4, <3>2 DEF Enter
    <3>3. QED  BY <1>2, <2>1, <3>1, <3>2 DEF Device, Answer, TimeOut, BackoffOver
  <2>3. pc'[d] \notin {"queued", "done"} /\ \A e \in Devices \ {d} : pc'[e] = pc[e]
    BY <2>2 DEF TypeInv, TypeOK
  <2>4. phase = "work"
    BY <1>4 DEF TypeInv, AtRest
  <2>5. QED  BY <1>1, <2>3, <2>4 DEF Settled
<1>5. QED  BY <1>3, <1>4 DEF Device, Answer, TimeOut, BackoffOver

LEMMA LaunchSettles ==
  ASSUME TypeInv, NEW d \in Devices, Launch(d)
  PROVE  \A e \in Devices \ {d} : Settled(e)' => Settled(e)
<1>1. phase = "reread" /\ toread = {d}
  BY DEF Launch
<1>2. CASE phase' = "idle"
  <2>1. \A e \in Devices : pc'[e] = "off"
    BY <1>2 DEF Launch, EndJob
  <2>2. QED  BY <1>2, <2>1 DEF Settled
<1>3. CASE phase' = "work"
  <2>1. \E S : pc' = [e \in Devices |-> IF e \in {SourceOf[l] : l \in request.writes} \ S
                                        THEN "queued" ELSE "off"]
    BY <1>3 DEF Launch, EndJob
  <2>2. \A e \in Devices : pc'[e] # "off" => e \in {SourceOf[l] : l \in request.writes}
    BY <2>1
  <2>3. QED  BY <1>1, <1>3, <2>2 DEF Settled
<1>4. QED  BY <1>2, <1>3 DEF Launch, EndJob

LEMMA FreshStep == TypeInv /\ FreshInv /\ [Next]_vars => FreshInv'
<1> SUFFICES ASSUME TypeInv, FreshInv, [Next]_vars PROVE FreshInv'  OBVIOUS
<1>1. CASE Requests
  <2>1. PICK scope, selected, desired, op : StartJob(scope, selected, desired, op)
    BY <1>1 DEF Requests, Apply, RemoveUnmanaged, Rollback
  <2>2. \A e \in Devices : pc'[e] = "off"
    BY <2>1 DEF StartJob, coroutines, TypeInv, AtRest
  <2>3. phase' = "reread" => toread' = {SourceOf[l] : l \in request'.writes}
    BY <2>1 DEF StartJob
  <2>4. \A e \in Devices : ~Settled(e)'
    BY <2>2, <2>3 DEF Settled
  <2>5. QED  BY <2>4 DEF FreshInv
<1>2. ASSUME NEW d \in Devices, Reread(d)  PROVE FreshInv'
  <2>1. Read(d)
    BY <1>2 DEF Reread
  <2>2. UNCHANGED <<phase, request, pc>> /\ toread' = toread \ {d}
    BY <1>2 DEF Reread, coroutines
  <2>3. \A e \in Devices \ {d} : Settled(e)' => Settled(e)
    BY <2>2 DEF Settled
  <2>4. QED  BY <2>1, <2>2, <2>3, FreshRead
<1>3. ASSUME NEW d \in Devices, Launch(d)  PROVE FreshInv'
  <2>1. Read(d)
    BY <1>3 DEF Launch
  <2>2. QED  BY <1>3, <2>1, LaunchSettles, FreshRead DEF Launch
<1>4. ASSUME NEW d \in Devices, Device(d)  PROVE FreshInv'
  <2>1. CASE Verify(d)
    <3>1. Read(d)
      BY <2>1 DEF Verify, Read
    <3>2. \A e \in Devices \ {d} : Settled(e)' => Settled(e)
      BY <2>1 DEF Verify, Settled, TypeInv, TypeOK
    <3>3. QED  BY <2>1, <3>1, <3>2, FreshRead DEF Verify
  <2>2. CASE ~Verify(d)
    <3>1. UNCHANGED <<copy, cache, seen, foreign>>
      BY <1>4, <2>2 DEF Device, Enter, Answer, TimeOut, BackoffOver, coordinator
    <3>2. QED  BY <1>4, <2>2, <3>1, DeviceSettles, FreshStill
  <2>3. QED  BY <2>1, <2>2
<1>5. CASE Finish \/ TaskCancelled
  <2>1. UNCHANGED <<copy, cache, seen, foreign>> /\ phase' = "idle"
        /\ \A e \in Devices : pc'[e] = "off"
    BY <1>5 DEF Finish, TaskCancelled, EndJob, world
  <2>2. \A e \in Devices : ~Settled(e)'
    BY <2>1 DEF Settled
  <2>3. QED  BY <2>2 DEF FreshInv
<1>6. CASE \/ Cancel \/ Shutdown \/ ShutdownReturns \/ UNCHANGED vars
           \/ \E r \in Rules : EditRule(r)
  <2>1. UNCHANGED <<copy, cache, seen, foreign, pc, phase, request, toread>>
    BY <1>6 DEF Cancel, Shutdown, ShutdownReturns, EditRule, vars, world, coordinator, job,
                coroutines
  <2>2. QED  BY <2>1, FreshStill DEF Settled
<1>7. ASSUME NEW d \in Devices, Refresh(d)  PROVE FreshInv'
  <2>1. Read(d)
    BY <1>7 DEF Refresh
  <2>2. UNCHANGED <<pc, phase, request, toread>>
    BY <1>7 DEF Refresh, job
  <2>3. QED  BY <2>1, <2>2, FreshRead DEF Settled
<1>8. ASSUME NEW l \in Links, EditDevice(l) \/ \E op \in WriteOps : Land(l, op)  PROVE FreshInv'
  <2>1. UNCHANGED <<cache, seen, pc, phase, request, toread>>
    BY <1>8 DEF EditDevice, Land, coordinator, job
  <2>2. \E now : Changed(l, now)
    BY <1>8 DEF EditDevice, Land
  <2>3. /\ foreign \subseteq foreign'
        /\ SourceOf[l] \notin InFlight => foreign' = foreign \cup {SourceOf[l]}
    BY <1>8 DEF EditDevice, Land
  <2>4. SourceOf[l] \in InFlight => ~Settled(SourceOf[l])
    BY DEF InFlight, Settled, TypeInv, AtRest
  <2>5. QED  BY <2>1, <2>2, <2>3, <2>4, FreshChange DEF Settled
<1>9. QED  BY <1>1, <1>2, <1>3, <1>4, <1>5, <1>6, <1>7, <1>8 DEF Next, Runner, Others

(* What the backend shows of a link that was not there as wanted when the  *)
(* writes began is there: while a device is worked on, nobody else changed *)
(* it, and it is behind of nothing but the job's own writes.               *)
CopyEarned ==
  \A l \in request.writes :
    (/\ pc[SourceOf[l]] \in {"queued", "call", "backoff", "verify"}
     /\ SourceOf[l] \notin foreign) => (AsWanted(l, copy) => AsWanted(l, table))

(* What was verified is known as it is, of a device that is done.          *)
VerifiedTrue ==
  \A l \in verified :
    /\ l \in request.writes /\ pc[SourceOf[l]] = "done"
    /\ SourceOf[l] \notin foreign => (l \in copy) = (l \in table)

EarnedInv == CopyEarned /\ VerifiedTrue

(* A read tells nothing that is not so, and all of it where it clears a    *)
(* mark.                                                                   *)
LEMMA ReadTells ==
  ASSUME NEW d \in Devices, Read(d), UNCHANGED table, NEW l \in Links
  PROVE  /\ (l \in copy') = (l \in copy) \/ (l \in copy') = (l \in table)
         /\ SourceOf[l] \notin foreign' =>
              SourceOf[l] \notin foreign \/ (l \in copy') = (l \in table)
<1>1. CASE Unanswered(d)
  BY <1>1 DEF Unanswered
<1>2. ASSUME NEW heard \in SUBSET Behind(d), Answered(d, heard)
      PROVE  /\ (l \in copy') = (l \in copy) \/ (l \in copy') = (l \in table)
             /\ SourceOf[l] \notin foreign' =>
                  SourceOf[l] \notin foreign \/ (l \in copy') = (l \in table)
  <2>1. (l \in copy') = (l \in copy) \/ (l \in copy') = (l \in table)
    BY <1>2 DEF Answered, CopyAfter
  <2>2. ASSUME SourceOf[l] \notin foreign', SourceOf[l] \in foreign
        PROVE  (l \in copy') = (l \in table)
    <3>1. heard = Behind(d) /\ SourceOf[l] = d
      BY <1>2, <2>2 DEF Answered
    <3>2. QED  BY <1>2, <3>1 DEF Answered, CopyAfter, Behind, Of
  <2>3. QED  BY <2>1, <2>2
<1>3. QED  BY <1>1, <1>2 DEF Read

(* What keeps the devices and what is known of them, or is a read.         *)
LEMMA EarnedKept ==
  ASSUME TypeInv, EarnedInv, UNCHANGED <<table, request, verified>>,
         \/ UNCHANGED <<copy, foreign>>
         \/ \E d \in Devices : Read(d),
         \A e \in Devices :
           /\ pc'[e] \in {"queued", "call", "backoff", "verify"} =>
                pc[e] \in {"queued", "call", "backoff", "verify"}
           /\ pc[e] = "done" => pc'[e] = "done"
  PROVE  EarnedInv'
<1>1. /\ \A l \in request.writes \cup verified : l \in Links /\ SourceOf[l] \in Devices
  BY LinkAssumption DEF TypeInv, TypeOK, RequestType
<1>2. ASSUME NEW l \in Links
      PROVE  /\ (l \in copy') = (l \in copy) \/ (l \in copy') = (l \in table)
             /\ SourceOf[l] \notin foreign' =>
                  SourceOf[l] \notin foreign \/ (l \in copy') = (l \in table)
  BY ReadTells
<1>3. CopyEarned'
  BY <1>1, <1>2 DEF EarnedInv, CopyEarned, AsWanted
<1>4. VerifiedTrue'
  BY <1>1, <1>2 DEF EarnedInv, VerifiedTrue
<1>5. QED  BY <1>3, <1>4 DEF EarnedInv

(* The writes begin with none of their links as wanted, as far as anybody  *)
(* knows.                                                                  *)
LEMMA EarnedLaunch ==
  ASSUME TypeInv, FreshInv, FreshInv', EarnedInv, NEW d \in Devices, Launch(d)
  PROVE  EarnedInv'
<1>1. \A e \in Devices : pc[e] = "off"
  BY DEF Launch, TypeInv, AtRest
<1>2. verified = {}
  BY <1>1, LinkAssumption DEF EarnedInv, VerifiedTrue, TypeInv, TypeOK
<1>3. verified' = {}
  BY <1>2 DEF Launch, EndJob
<1>4. CASE phase' = "work"
  <2>1. UNCHANGED request
    BY <1>4 DEF Launch, EndJob
  <2>2. ASSUME NEW l \in request.writes, SourceOf[l] \notin foreign', pc'[SourceOf[l]] = "queued"
        PROVE  ~AsWanted(l, copy')
    <3>1. /\ seen'[SourceOf[l]] = "answering"
          /\ PlanOf(cache', seen', request.scope, request.selected, request.desired)[l]
               = request.op[l]
      BY <1>4, <2>2, LaunchAgrees
    <3>2. /\ l \in Links /\ SourceOf[l] \in Devices /\ request.op[l] \in WriteOps
          /\ cache' \in SUBSET Links /\ seen' \in [Devices -> Seen]
      BY ReadTyped, LinkAssumption DEF Launch, TypeInv, TypeOK, RequestType, WritesOK
    <3>3. (l \in cache') = (request.op[l] = "remove")
      BY <3>1, <3>2, PlanMeans DEF WriteOps
    <3>4. (l \in cache') = (l \in copy')
      BY <2>2, <3>1, <3>2 DEF FreshInv, Settled, CacheIsCopy, Of
    <3>5. QED  BY <3>2, <3>3, <3>4 DEF AsWanted, WriteOps
  <2>3. \A l \in request.writes : pc'[SourceOf[l]] \in {"queued", "off"}
    BY <1>1, <1>4, LinkAssumption DEF Launch, EndJob, TypeInv, TypeOK, RequestType
  <2>4. QED  BY <1>3, <2>1, <2>2, <2>3 DEF EarnedInv, CopyEarned, VerifiedTrue, AsWanted
<1>5. CASE phase' # "work"
  <2>1. request' = NoRequest
    BY <1>5 DEF Launch, EndJob
  <2>2. request'.writes = {}
    BY <2>1 DEF NoRequest
  <2>3. QED  BY <1>3, <2>2 DEF EarnedInv, CopyEarned, VerifiedTrue
<1>6. QED  BY <1>4, <1>5

(* What the verify read shows as wanted is so.                             *)
LEMMA VerifyEarned ==
  ASSUME TypeInv, EarnedInv, NEW d \in Devices, Verify(d), NEW l \in verified' \ verified
  PROVE  /\ l \in WriteOf(d) /\ l \in Links /\ SourceOf[l] = d
         /\ AsWanted(l, copy')
         /\ d \notin foreign' => AsWanted(l, table)
<1>1. PICK heard \in SUBSET Behind(d) : /\ Answered(d, heard)
                                        /\ l \in Verifiable(d) /\ AsWanted(l, cache')
  BY DEF Verify
<1>2. l \in WriteOf(d) /\ l \in request.writes /\ l \in Links /\ SourceOf[l] = d /\ l \in Of(d)
  BY <1>1 DEF Verifiable, WriteOf, Of
<1>3. AsWanted(l, copy')
  <2>1. (l \in cache') = (l \in copy')
    BY <1>1, <1>2 DEF Answered, CacheAfter
  <2>2. QED  BY <1>1, <2>1 DEF AsWanted
<1>4. ASSUME d \notin foreign'  PROVE AsWanted(l, table)
  <2>1. /\ (l \in copy') = (l \in copy) \/ (l \in copy') = (l \in table)
        /\ d \notin foreign \/ (l \in copy') = (l \in table)
    BY <1>1, <1>2, <1>4, ReadTells DEF Verify, Read
  <2>2. pc[d] = "verify"
    BY DEF Verify
  <2>3. QED  BY <1>2, <1>3, <2>1, <2>2 DEF EarnedInv, CopyEarned, AsWanted
<1>5. QED  BY <1>2, <1>3, <1>4

LEMMA EarnedVerify ==
  ASSUME TypeInv, EarnedInv, NEW d \in Devices, Verify(d)
  PROVE  EarnedInv'
<1>1. /\ pc' = [pc EXCEPT ![d] = "done"] /\ pc \in [Devices -> Pcs] /\ pc[d] = "verify"
      /\ UNCHANGED <<table, request>>
      /\ verified \subseteq verified'
      /\ Read(d)
  BY DEF Verify, Read, TypeInv, TypeOK
<1>2. \A l \in request.writes \cup verified : l \in Links /\ SourceOf[l] \in Devices
  BY LinkAssumption DEF TypeInv, TypeOK, RequestType
<1>3. ASSUME NEW l \in Links
      PROVE  /\ (l \in copy') = (l \in copy) \/ (l \in copy') = (l \in table)
             /\ SourceOf[l] \notin foreign' =>
                  SourceOf[l] \notin foreign \/ (l \in copy') = (l \in table)
  BY <1>1, ReadTells
<1>4. CopyEarned'
  <2>1. \A e \in Devices : pc'[e] \in {"queued", "call", "backoff", "verify"} => pc'[e] = pc[e]
    BY <1>1
  <2>2. QED  BY <1>1, <1>2, <1>3, <2>1 DEF EarnedInv, CopyEarned, AsWanted
<1>5. VerifiedTrue'
  <2>1. ASSUME NEW l \in verified
        PROVE  /\ l \in request.writes /\ pc'[SourceOf[l]] = "done"
               /\ SourceOf[l] \notin foreign' => (l \in copy') = (l \in table)
    BY <1>1, <1>2, <1>3 DEF EarnedInv, VerifiedTrue
  <2>2. ASSUME NEW l \in verified' \ verified
        PROVE  /\ l \in request.writes /\ pc'[SourceOf[l]] = "done"
               /\ SourceOf[l] \notin foreign' => (l \in copy') = (l \in table)
    <3>1. /\ l \in WriteOf(d) /\ SourceOf[l] = d /\ AsWanted(l, copy')
          /\ d \notin foreign' => AsWanted(l, table)
      BY VerifyEarned
    <3>2. QED  BY <1>1, <3>1 DEF AsWanted, WriteOf
  <2>3. QED  BY <1>1, <2>1, <2>2 DEF VerifiedTrue
<1>6. QED  BY <1>4, <1>5 DEF EarnedInv

(* A device that changes is marked, or it is a write of the job that has   *)
(* come true.                                                              *)
LEMMA EarnedChange ==
  ASSUME TypeInv, EarnedInv, NEW l \in Links, NEW now, Changed(l, now),
         UNCHANGED <<request, verified, pc>>,
         now = table \cup {l} \/ now = table \ {l},
         \/ foreign' = foreign \cup {SourceOf[l]}
         \/ foreign' = foreign /\ pc[SourceOf[l]] # "done" /\ AsWanted(l, now)
  PROVE  EarnedInv'
<1>1. CopyEarned'
  <2>1. ASSUME NEW k \in request.writes, SourceOf[k] \notin foreign', AsWanted(k, copy'),
               pc[SourceOf[k]] \in {"queued", "call", "backoff", "verify"}
        PROVE  AsWanted(k, table')
    <3>1. CASE k # l
      <4>1. (k \in copy') = (k \in copy) /\ (k \in table') = (k \in table)
        BY <3>1 DEF Changed
      <4>2. QED  BY <2>1, <4>1 DEF EarnedInv, CopyEarned, AsWanted
    <3>2. CASE k = l
      BY <2>1, <3>2 DEF Changed, AsWanted
    <3>3. QED  BY <3>1, <3>2
  <2>2. QED  BY <2>1 DEF CopyEarned, AsWanted
<1>2. VerifiedTrue'
  <2>1. ASSUME NEW k \in verified, SourceOf[k] \notin foreign'
        PROVE  (k \in copy') = (k \in table')
    <3>1. k # l
      BY <2>1 DEF EarnedInv, VerifiedTrue
    <3>2. (k \in copy') = (k \in copy) /\ (k \in table') = (k \in table)
      BY <3>1 DEF Changed
    <3>3. QED  BY <2>1, <3>2 DEF EarnedInv, VerifiedTrue
  <2>2. QED  BY <2>1 DEF EarnedInv, VerifiedTrue
<1>3. QED  BY <1>1, <1>2 DEF EarnedInv

LEMMA EarnedStep ==
  ASSUME TypeInv, FreshInv, FreshInv', EarnedInv, [Next]_vars
  PROVE  EarnedInv'
<1>1. CASE Requests
  <2>1. PICK scope, selected, desired, op : StartJob(scope, selected, desired, op)
    BY <1>1 DEF Requests, Apply, RemoveUnmanaged, Rollback
  <2>2. \A e \in Devices : pc[e] = "off" /\ pc'[e] = "off"
    BY <2>1 DEF StartJob, coroutines, TypeInv, AtRest
  <2>3. verified = {} /\ verified' = {}
    BY <2>1, <2>2, LinkAssumption DEF StartJob, EarnedInv, VerifiedTrue, TypeInv, TypeOK
  <2>4. \A l \in request'.writes : SourceOf[l] \in Devices
    <3>1. \A l \in Writes(op) : SourceOf[l] \in Devices
      BY LinkAssumption DEF Writes
    <3>2. \A l \in request.writes : SourceOf[l] \in Devices
      BY LinkAssumption DEF TypeInv, TypeOK, RequestType
    <3> DEFINE writes == Writes(op) \ {l \in Links : op[l] # "none" /\ Refused(l, op[l], selected)}
    <3>3. \/ UNCHANGED request
          \/ request' = [scope |-> scope, selected |-> selected, desired |-> desired,
                         op |-> op, writes |-> writes]
      BY <2>1 DEF StartJob
    <3>4. writes \subseteq Writes(op)
      OBVIOUS
    <3> HIDE DEF writes
    <3>5. request'.writes = request.writes \/ request'.writes = writes
      BY <3>3
    <3>6. QED  BY <3>1, <3>2, <3>4, <3>5
  <2>5. QED  BY <2>2, <2>3, <2>4 DEF EarnedInv, CopyEarned, VerifiedTrue
<1>2. ASSUME NEW d \in Devices, Reread(d) \/ Refresh(d)  PROVE EarnedInv'
  <2>1. Read(d) /\ UNCHANGED <<table, request, verified, pc>>
    BY <1>2 DEF Reread, Refresh, coroutines, ops, job
  <2>2. QED  BY <2>1, EarnedKept
<1>3. ASSUME NEW d \in Devices, Device(d), ~Verify(d)  PROVE EarnedInv'
  <2>1. UNCHANGED <<table, copy, foreign, request, verified>>
    BY <1>3 DEF Device, Enter, Answer, TimeOut, BackoffOver
  <2>2. /\ pc[d] \in {"queued", "call", "backoff"}
        /\ \E next : pc' = [pc EXCEPT ![d] = next]
    <3>1. ASSUME NEW out, NEW flying, Proceed(d, out, Rest(d), flying)
          PROVE  \E next : pc' = [pc EXCEPT ![d] = next]
      BY <3>1 DEF Proceed
    <3>2. ASSUME NEW result, NEW flying, Settle(d, result, flying)
          PROVE  \E next : pc' = [pc EXCEPT ![d] = next]
      BY <3>1, <3>2 DEF Settle
    <3>3. QED  BY <1>3, <3>1, <3>2 DEF Device, Enter, Answer, TimeOut, BackoffOver
  <2>3. \A e \in Devices \ {d} : pc'[e] = pc[e]
    BY <2>2 DEF TypeInv, TypeOK
  <2>4. QED  BY <2>1, <2>2, <2>3, EarnedKept
<1>4. CASE Finish \/ TaskCancelled
  <2>1. request' = NoRequest /\ verified' = {}
    BY <1>4 DEF Finish, TaskCancelled, EndJob
  <2>2. request'.writes = {}
    BY <2>1 DEF NoRequest
  <2>3. QED  BY <2>1, <2>2 DEF EarnedInv, CopyEarned, VerifiedTrue
<1>5. CASE \/ Cancel \/ Shutdown \/ ShutdownReturns \/ UNCHANGED vars
           \/ \E r \in Rules : EditRule(r)
  <2>1. UNCHANGED <<table, copy, foreign, pc, request, verified>>
    BY <1>5 DEF Cancel, Shutdown, ShutdownReturns, EditRule, vars, world, job, coroutines, ops
  <2>2. QED  BY <2>1, EarnedKept
<1>6. ASSUME NEW l \in Links, EditDevice(l)  PROVE EarnedInv'
  BY <1>6, EarnedChange DEF EditDevice, job
<1>7. ASSUME NEW l \in Links, NEW op \in WriteOps, Land(l, op)  PROVE EarnedInv'
  <2> DEFINE now == IF op = "add" THEN table \cup {l} ELSE table \ {l}
  <2>1. Changed(l, now) /\ (now = table \cup {l} \/ now = table \ {l})
        /\ UNCHANGED <<request, verified, pc>>
    BY <1>7 DEF Land, job
  <2>2. \/ foreign' = foreign \cup {SourceOf[l]}
        \/ foreign' = foreign /\ SourceOf[l] \in InFlight /\ request.op[l] = op
    BY <1>7 DEF Land
  <2>3. SourceOf[l] \in InFlight => pc[SourceOf[l]] # "done"
    BY DEF InFlight
  <2>4. request.op[l] = op => AsWanted(l, now)
    BY DEF AsWanted, WriteOps
  <2> HIDE DEF now
  <2>5. QED  BY <2>1, <2>2, <2>3, <2>4, EarnedChange
<1>8. QED  BY <1>1, <1>2, <1>3, <1>4, <1>5, <1>6, <1>7, EarnedLaunch, EarnedVerify
           DEF Next, Runner, Others

(* All of it, from the first state on.                                     *)
ReadInv == AnswerInv /\ SnapInv /\ FreshInv /\ EarnedInv

LEMMA ReadInit == Init => ReadInv
<1>1. Init => SnapInv
  BY InitTyped DEF Init, NoJob, NoRequest, SnapInv, Covered, SentHere
<1>2. Init => FreshInv
  BY DEF Init, NoJob, FreshInv, Settled
<1>3. Init => EarnedInv
  BY DEF Init, NoJob, NoRequest, EarnedInv, CopyEarned, VerifiedTrue
<1>4. Init => AnswerInv
  BY InitTyped DEF Init, NoJob, NoRequest, AnswerInv, Accounted, OneInHand, Earned, Unstarted,
                   AnswersAreEarned
<1>5. QED  BY <1>1, <1>2, <1>3, <1>4 DEF ReadInv

LEMMA ReadStep == ReadInv /\ [Next]_vars => ReadInv'
BY AnswerStep, SnapStep, FreshStep, EarnedStep DEF ReadInv, SnapInv

(* A link is called verified only if the device holds it as the plan wants *)
(* it, though the read may be of a copy the device has not confirmed: the  *)
(* writes begin with no link as wanted in that copy, and nothing but the   *)
(* device's own reports puts it there (_reread, _stale_devices, _verify).  *)
(* Devices that others changed and that were not heard since are left out. *)
THEOREM VerifiedWasSeen == Spec => VerifiedIsHeld
<1> DEFINE Held == \A l \in verified' \ verified :
                     SourceOf[l] \notin foreign' => AsWanted(l, table)
<1>1. ReadInv /\ [Next]_vars => [Held]_vars
  <2> SUFFICES ASSUME ReadInv, Next, NEW l \in verified' \ verified,
                      SourceOf[l] \notin foreign'
               PROVE  AsWanted(l, table)
    BY DEF vars
  <2>1. ASSUME NEW d \in Devices, Verify(d)  PROVE AsWanted(l, table)
    BY <2>1, VerifyEarned DEF ReadInv, AnswerInv
  <2>2. ~Requests
    <3>1. ASSUME NEW scope, NEW selected, NEW desired, NEW op,
                 StartJob(scope, selected, desired, op)
          PROVE  FALSE
      BY <3>1 DEF StartJob
    <3>2. QED  BY <3>1 DEF Requests, Apply, RemoveUnmanaged, Rollback
  <2>3. ASSUME NEW d \in Devices, Reread(d) \/ Launch(d)  PROVE FALSE
    BY <2>3 DEF Reread, Launch, EndJob, ops
  <2>4. ASSUME NEW d \in Devices, Device(d)  PROVE Verify(d)
    BY <2>4 DEF Device, Enter, Answer, TimeOut, BackoffOver
  <2>5. ~Finish /\ ~ShutdownReturns
    BY DEF Finish, ShutdownReturns, EndJob, job
  <2>6. ~Others
    BY DEF Others, TaskCancelled, EndJob, Cancel, Shutdown, Land, Refresh, EditDevice,
           EditRule, job, ops
  <2>7. QED  BY <2>1, <2>2, <2>3, <2>4, <2>5, <2>6 DEF Next, Runner
<1>2. QED  BY <1>1, ReadInit, ReadStep, PTL DEF Spec, VerifiedIsHeld

(* When a job ends by itself, every device it sent anything to has been    *)
(* read again, or does not answer: the cache holds of those nobody else    *)
(* has changed all that the backends know, also where every write failed   *)
(* and one of them landed all the same, and what is reported as applied is *)
(* in the cache as it is on the device (_write_all, _verify).              *)
THEOREM CacheIsRead == Spec => CacheAgreesAtEnd
<1> DEFINE Agreeing ==
      (phase # "idle" /\ phase' = "idle" /\ ~report'.killed) =>
         \A l \in Links :
           (/\ SourceOf[l] \in {SourceOf[k] : k \in sent} \ foreign'
            /\ seen'[SourceOf[l]] = "answering") =>
              /\ (l \in cache') = (l \in copy')
              /\ report'.outcome[l] = "applied" => (l \in cache') = (l \in table')
<1>1. ReadInv /\ [Next]_vars => [Agreeing]_vars
  <2> SUFFICES ASSUME ReadInv, Next, phase # "idle", phase' = "idle", ~report'.killed,
                      NEW l \in Links, SourceOf[l] \in {SourceOf[k] : k \in sent} \ foreign',
                      seen'[SourceOf[l]] = "answering"
               PROVE  /\ (l \in cache') = (l \in copy')
                      /\ report'.outcome[l] = "applied" => (l \in cache') = (l \in table')
    BY DEF vars
  <2>1. /\ SourceOf[l] \in Devices /\ pc[SourceOf[l]] # "off"
        /\ phase = "work" /\ TypeInv
    BY LinkAssumption DEF ReadInv, SnapInv, SentHere, TypeInv, TypeOK, AtRest
  <2>2. Finish
    <3>1. TaskCancelled => report'.killed
      BY DEF TaskCancelled, EndJob, ReportOf
    <3>2. QED  BY <2>1, <3>1, WorkEnds
  <2>3. pc[SourceOf[l]] = "done" /\ UNCHANGED <<table, copy, cache, seen, foreign>>
    BY <2>1, <2>2 DEF Finish, world
  <2>4. (l \in cache) = (l \in copy)
    BY <2>1, <2>3 DEF ReadInv, FreshInv, Settled, CacheIsCopy, Of
  <2>5. ASSUME report'.outcome[l] = "applied"  PROVE (l \in copy) = (l \in table)
    <3>1. outcome[l] = "applied"
      BY <2>2, <2>5 DEF Finish, EndJob, ReportOf
    <3>2. l \in verified
      BY <2>3, <3>1 DEF ReadInv, AnswerInv, Earned
    <3>3. QED  BY <2>3, <3>2 DEF ReadInv, EarnedInv, VerifiedTrue
  <2>6. QED  BY <2>3, <2>4, <2>5
<1>2. QED  BY <1>1, ReadInit, ReadStep, PTL DEF Spec, CacheAgreesAtEnd

----------------------------------------------------------------------------
(* The rollback.                                                           *)

(* Nothing has gone wrong yet: every job so far had all of its plan        *)
(* applied, this one has nothing else to say, and nobody interfered.       *)
Undisturbed ==
  /\ report = NoReport \/ report.flawless
  /\ disturbances = 0
  /\ \A l \in request.writes : outcome[l] \in {"none", "applied"}

(* There are writes only while there is a job, and reads to do only at the *)
(* re-read.                                                                *)
PhaseSays ==
  /\ phase = "idle" => request.writes = {}
  /\ phase # "reread" => toread = {}

InHandUnanswered == \A d \in Devices : pc[d] \in {"call", "backoff"} => outcome[cur[d]] = "none"

(* Only a read can find that a device no longer answers; the re-read finds *)
(* it before its coroutine starts, the verify read when it is over.        *)
WorkedOnAnswers ==
  disturbances = 0 => \A d \in Devices :
    d \in toread \/ pc[d] \in {"queued", "call", "backoff", "verify"} => seen[d] = "answering"

(* What is on the air is in somebody's hand.                               *)
AirInHand ==
  \A l \in Links, op \in WriteOps : <<l, op>> \in air =>
    /\ pc[SourceOf[l]] \in {"call", "backoff"}
    /\ cur[SourceOf[l]] = l /\ request.op[l] = op

CacheTrue == \A d \in Devices \ InFlight : CacheIsCopy(d)

(* The backends are behind of nothing but writes in the works.             *)
CopyTrue ==
  \A l \in Links :
    \/ (l \in copy) = (l \in table)
    \/ l \in request.writes /\ SourceOf[l] \in InFlight /\ AsWanted(l, table)

(* What separates a device from the snapshot is in the plan.               *)
PutsBackLink(l) ==
  /\ request.op[l] = "add" => l \in request.desired
  /\ request.op[l] = "remove" => l \notin request.desired
  /\ l \in request.desired => l \in table \/ request.op[l] \in {"add", "blocked"}
  /\ l \in table \cap Managed => l \in request.desired \/ request.op[l] = "remove"

Restoring ==
  request.desired # Stored => \A d \in request.scope.devices :
    seen[d] = "answering" => \A l \in Of(d) : PutsBackLink(l)

(* What was confirmed stays as it was seen: its device is done.            *)
Confirmed == \A l \in verified : pc[SourceOf[l]] = "done" /\ AsWanted(l, table)

AllInOrder == foreign = {} /\ AirInHand /\ CacheTrue /\ CopyTrue /\ Restoring /\ Confirmed

RestoreInv ==
  /\ PhaseSays /\ InHandUnanswered /\ WorkedOnAnswers
  /\ Undisturbed => AllInOrder

(* No coroutine is at a write while nothing is worked on.                  *)
LEMMA NothingOnAir ==
  ASSUME TypeInv, AirInHand, \A d \in Devices : pc[d] \notin {"call", "backoff"}
  PROVE  air = {}
BY LinkAssumption DEF TypeInv, TypeOK, AirInHand

(* A plan for a snapshot puts back all that is missing and takes away all  *)
(* that is ours and not in it, if there is room.                           *)
LEMMA PlanPutsBack ==
  ASSUME TypeInv, CacheTrue, CopyTrue, foreign = {}, NEW devices \in SUBSET Devices, NEW selected,
         NEW desired \in SUBSET Links, NEW d \in devices, d \notin InFlight,
         seen[d] = "answering", NEW l \in Of(d)
  PROVE  LET op == PlanNow([rules |-> {}, devices |-> devices], selected, desired)[l] IN
         /\ op = "add" => l \in desired
         /\ op = "remove" => l \notin desired
         /\ l \in desired => l \in table \/ op \in {"add", "blocked"}
         /\ l \in table \cap Managed => l \in desired \/ op = "remove"
<1> DEFINE scope == [rules |-> {}, devices |-> devices]
           here == {k \in Links : SourceOf[k] \in InScope(seen, scope)}
           plan == BuildPlan(desired \cap here, cache \cap here, Managed, selected)
<1>1. l \in Links /\ SourceOf[l] = d
  BY DEF Of
<1>2. Desired(desired) = desired
  BY RunnerAssumption DEF Desired
<1>3. l \in here
  BY <1>1 DEF InScope
<1>4. PlanNow(scope, selected, desired)[l] = plan[l]
  BY <1>1, <1>2 DEF PlanNow, PlanOf, KeptByScope
<1>5. l \in cache <=> l \in table
  BY <1>1 DEF CacheTrue, CopyTrue, CacheIsCopy
<1>6. plan[l] = IF l \in Removals(desired \cap here, cache \cap here, Managed, selected)
                THEN "remove"
                ELSE IF l \in Adds(desired \cap here, cache \cap here, Managed, selected)
                THEN "add"
                ELSE IF l \in Missing(desired \cap here, cache \cap here)
                          \ Adds(desired \cap here, cache \cap here, Managed, selected)
                THEN "blocked" ELSE "none"
  BY <1>1 DEF BuildPlan
<1>7. /\ l \in Removals(desired \cap here, cache \cap here, Managed, selected) =>
           l \in cache /\ l \notin desired
      /\ l \in cache \cap Managed /\ l \notin desired =>
           l \in Removals(desired \cap here, cache \cap here, Managed, selected)
  BY <1>3 DEF Removals, Managed
<1>8. l \in Missing(desired \cap here, cache \cap here) <=> l \in desired /\ l \notin cache
  BY <1>3 DEF Missing
<1>9. l \in Adds(desired \cap here, cache \cap here, Managed, selected) =>
        l \in Missing(desired \cap here, cache \cap here)
  BY DEF Adds
<1> HIDE DEF plan, here, scope
<1>10. QED  BY <1>4, <1>5, <1>6, <1>7, <1>8, <1>9 DEF scope

(* A report is flawless only if the one before it was. *)
LEMMA FlawlessSays ==
  ASSUME TypeOK, NEW req \in RequestType, NEW out \in [Links -> Outcomes],
         NEW why \in Stops, NEW killed \in BOOLEAN, report' = ReportOf(req, out, why, killed)
  PROVE  /\ report' # NoReport
         /\ report'.flawless => /\ report = NoReport \/ report.flawless
                               /\ ~killed
                               /\ \A l \in Links : req.op[l] # "none" => out[l] = "applied"
<1>1. report' # NoReport
  BY ReportTyped, ReportAssumption
<1>2. QED  BY <1>1 DEF ReportOf

(* A job begins. *)
LEMMA RestoreStart ==
  ASSUME TypeInv, TypeInv', RestoreInv, NEW scope \in ScopeType, NEW selected \in SUBSET Links,
         NEW desired \in {Stored} \cup SUBSET Links, NEW op \in [Links -> PlanOps],
         StartJob(scope, selected, desired, op),
         \A l \in Links : op[l] \in WriteOps => seen[SourceOf[l]] = "answering",
         (desired # Stored /\ AllInOrder) => \A d \in scope.devices :
           seen[d] = "answering" => \A l \in Of(d) :
             /\ op[l] = "add" => l \in desired
             /\ op[l] = "remove" => l \notin desired
             /\ l \in desired => l \in table \/ op[l] \in {"add", "blocked"}
             /\ l \in table \cap Managed => l \in desired \/ op[l] = "remove"
  PROVE  RestoreInv'
<1> DEFINE refused == {l \in Links : op[l] # "none" /\ Refused(l, op[l], selected)}
           writes == Writes(op) \ refused
           answers == [l \in Links |-> IF l \in refused THEN "blocked" ELSE "none"]
           asked == [scope |-> scope, selected |-> selected, desired |-> desired,
                     op |-> op, writes |-> writes]
<1>1. /\ phase = "idle" /\ request.writes = {}
      /\ UNCHANGED <<table, copy, air, foreign, rules, cache, seen, pc, cur, verified,
                     disturbances>>
      /\ \A d \in Devices : pc[d] = "off"
  BY DEF StartJob, TypeInv, AtRest, RestoreInv, PhaseSays, world, profile, coordinator,
         coroutines
<1>2. \/ /\ phase' = "reread" /\ request' = asked /\ outcome' = answers
         /\ toread' = {SourceOf[l] : l \in writes} /\ UNCHANGED report
      \/ /\ report' = ReportOf(asked, answers, "none", FALSE)
         /\ UNCHANGED <<phase, request, outcome, toread>>
  BY DEF StartJob
<1>3. PhaseSays' /\ InHandUnanswered'
  BY <1>1, <1>2 DEF RestoreInv, PhaseSays, InHandUnanswered
<1>4. WorkedOnAnswers'
  <2>1. \A l \in writes : seen[SourceOf[l]] = "answering"
    BY DEF Writes
  <2>2. toread' \in {toread, {SourceOf[l] : l \in writes}}
    BY <1>2
  <2> HIDE DEF writes, asked
  <2>3. QED  BY <1>1, <2>1, <2>2 DEF RestoreInv, WorkedOnAnswers
<1>5. ASSUME Undisturbed'  PROVE AllInOrder'
  <2>1. report = NoReport \/ report.flawless
    <3>1. asked \in RequestType /\ answers \in [Links -> Outcomes]
      BY DEF RequestType, Writes, Outcomes, Results
    <3>2. CASE report' = ReportOf(asked, answers, "none", FALSE)
      <4> HIDE DEF asked, answers
      <4>1. QED  BY <1>5, <3>1, <3>2, FlawlessSays DEF TypeInv, Stops, Undisturbed
    <3>3. QED  BY <1>2, <1>5, <3>2 DEF Undisturbed
  <2>3. AllInOrder
    BY <1>1, <1>5, <2>1 DEF Undisturbed, RestoreInv
  <2>4. AirInHand' /\ CacheTrue' /\ CopyTrue' /\ Confirmed'
    <3>1. air = {}
      BY <1>1, <2>3, NothingOnAir DEF AllInOrder
    <3>2. verified = {}
      BY <1>1, <2>3, LinkAssumption DEF AllInOrder, Confirmed, TypeInv, TypeOK
    <3>3. CacheTrue' /\ CopyTrue'
      BY <1>1, <2>3, LinkAssumption
         DEF AllInOrder, CacheTrue, CacheIsCopy, CopyTrue, InFlight, Of
    <3>4. QED  BY <1>1, <3>1, <3>2, <3>3 DEF AirInHand, Confirmed
  <2>5. Restoring'
    <3>1. CASE request' = asked
      <4> HIDE DEF writes
      <4>1. QED  BY <1>1, <2>3, <3>1 DEF Restoring, PutsBackLink, Managed, Of
    <3>2. CASE UNCHANGED request
      BY <1>1, <2>3, <3>2 DEF AllInOrder, Restoring, PutsBackLink, Managed, Of
    <3>3. QED  BY <1>2, <3>1, <3>2
  <2>6. QED  BY <1>1, <2>3, <2>4, <2>5 DEF AllInOrder
<1>6. QED  BY <1>3, <1>4, <1>5 DEF RestoreInv

LEMMA RestoreRequests == ASSUME TypeInv, TypeInv', RestoreInv, Requests PROVE RestoreInv'
<1>p. /\ cache \in SUBSET Links /\ seen \in [Devices -> Seen]
      /\ snap \in SnapshotType \cup {NoSnapshot}
  BY DEF TypeInv, TypeOK
<1>q. ASSUME NEW scope, NEW selected, NEW desired, NEW l \in Links,
             PlanNow(scope, selected, desired)[l] \in WriteOps
      PROVE  seen[SourceOf[l]] = "answering"
  BY <1>p, <1>q, PlanMeans DEF PlanNow
<1>1. ASSUME NEW scope \in Scopes, NEW selected \in Selections, Apply(scope, selected)
      PROVE  RestoreInv'
  <2> DEFINE op == PlanNow(scope, selected, Stored)
  <2>1. /\ StartJob(scope, selected, Stored, op) /\ op \in [Links -> PlanOps]
        /\ scope \in ScopeType /\ selected \in SUBSET Links
    BY <1>1, PlanTyped, RunnerAssumption DEF Apply, PlanNow, ScopeType
  <2>2. \A l \in Links : op[l] \in WriteOps => seen[SourceOf[l]] = "answering"
    BY <1>q
  <2> HIDE DEF op
  <2>3. QED  BY <2>1, <2>2, RestoreStart
<1>2. ASSUME NEW selected \in Selections, RemoveUnmanaged(selected)  PROVE RestoreInv'
  <2> DEFINE scope == [rules |-> {}, devices |-> Devices]
             plan == PlanNow(scope, selected, Stored)
             op == [l \in Links |-> IF l \in {k \in selected : plan[k] = "remove"}
                                    THEN "remove" ELSE "none"]
  <2>1. /\ StartJob(scope, selected, Stored, op) /\ op \in [Links -> PlanOps]
        /\ scope \in ScopeType /\ selected \in SUBSET Links
    BY <1>2, RunnerAssumption DEF RemoveUnmanaged, PlanOps, ScopeType
  <2>2. \A l \in Links : op[l] \in WriteOps => plan[l] \in WriteOps
    BY DEF WriteOps
  <2>3. \A l \in Links : op[l] \in WriteOps => seen[SourceOf[l]] = "answering"
    <3> HIDE DEF op, scope
    <3>1. QED  BY <1>q, <2>2
  <2> HIDE DEF op, scope
  <2>4. QED  BY <2>1, <2>3, RestoreStart
<1>3. ASSUME NEW selected \in Selections, Rollback(selected)  PROVE RestoreInv'
  <2> DEFINE scope == [rules |-> {}, devices |-> snap.devices]
             op == PlanNow(scope, selected, snap.managed)
  <2>1. /\ StartJob(scope, selected, snap.managed, op) /\ op \in [Links -> PlanOps]
        /\ snap.devices \in SUBSET Devices /\ snap.managed \in SUBSET Links
        /\ scope \in ScopeType /\ selected \in SUBSET Links
    BY <1>p, <1>3, PlanTyped, RunnerAssumption
    DEF Rollback, PlanNow, SnapshotType, ScopeType
  <2>2. \A l \in Links : op[l] \in WriteOps => seen[SourceOf[l]] = "answering"
    BY <1>q
  <2>3. ASSUME AllInOrder, NEW d \in scope.devices, seen[d] = "answering", NEW l \in Of(d)
        PROVE  /\ op[l] = "add" => l \in snap.managed
               /\ op[l] = "remove" => l \notin snap.managed
               /\ l \in snap.managed => l \in table \/ op[l] \in {"add", "blocked"}
               /\ l \in table \cap Managed => l \in snap.managed \/ op[l] = "remove"
    <3>1. d \in snap.devices /\ d \notin InFlight
      BY <2>1, <2>3 DEF StartJob, TypeInv, AtRest, InFlight
    <3>2. QED  BY <2>1, <2>3, <3>1, PlanPutsBack DEF AllInOrder
  <2> HIDE DEF op, scope
  <2>4. QED  BY <2>1, <2>2, <2>3, RestoreStart
<1>4. QED  BY <1>1, <1>2, <1>3 DEF Requests

----------------------------------------------------------------------------
(* The steps of a job. *)

(* A read leaves the cache true, of the device it reads as of the others.  *)
LEMMA ReadKeepsTrue ==
  ASSUME TypeInv, CacheTrue, foreign = {}, NEW d \in Devices, Read(d),
         \A e \in Devices \ {d} : pc'[e] = pc[e]
  PROVE  CacheTrue' /\ foreign' = {}
<1>1. foreign' = {}
  BY DEF Read, Answered, Unanswered
<1>2. ASSUME NEW e \in Devices \ InFlight'  PROVE CacheIsCopy(e)'
  <2>1. CASE e = d
    BY <2>1, ReadAgrees
  <2>2. CASE e # d
    <3>1. e \notin InFlight
      BY <1>2, <2>2 DEF InFlight
    <3>2. QED  BY <2>2, <3>1, ReadAgrees DEF CacheTrue
  <2>3. QED  BY <2>1, <2>2
<1>3. QED  BY <1>1, <1>2 DEF CacheTrue

(* And the copy as true as it was. *)
LEMMA ReadKeepsCopy ==
  ASSUME TypeInv, CopyTrue, NEW d \in Devices, Read(d), UNCHANGED <<table, request, pc>>
  PROVE  CopyTrue'
<1>1. \A l \in Links : (l \in copy') = (l \in copy) \/ (l \in copy') = (l \in table)
  BY ReadTells
<1>2. QED  BY <1>1 DEF CopyTrue, AsWanted, InFlight

(* What a read can say of whether a device answers. *)
LEMMA ReadSees ==
  ASSUME TypeInv, NEW d \in Devices, Read(d)
  PROVE  \A e \in Devices \ {d} : seen'[e] = seen[e]
BY DEF Read, Answered, Unanswered, SeenAfter, TypeInv, TypeOK

(* What the plan puts back is not changed by a read either: a device that  *)
(* answers now did before.                                                 *)
LEMMA ReadRestoring ==
  ASSUME TypeInv, Restoring, NEW d \in Devices, Read(d), seen[d] = "answering",
         UNCHANGED <<table, rules, request>>
  PROVE  Restoring'
<1>1. \A e \in Devices : seen'[e] = "answering" => seen[e] = "answering"
  BY ReadSees
<1>2. request.scope.devices \subseteq Devices
  BY DEF TypeInv, TypeOK, RequestType, ScopeType
<1>3. QED  BY <1>1, <1>2 DEF Restoring, PutsBackLink, Managed, Of

LEMMA RestoreReread ==
  ASSUME TypeInv, TypeInv', RestoreInv, NEW d \in Devices, Reread(d)
  PROVE  RestoreInv'
<1>1. Read(d)
  BY DEF Reread
<1>2. /\ phase = "reread" /\ d \in toread /\ toread' = toread \ {d}
      /\ UNCHANGED <<table, air, rules, phase, request, pc, cur, outcome, verified, report,
                     disturbances>>
  BY DEF Reread, profile, coroutines, ops
<1>3. \A e \in Devices : pc[e] = "off" /\ pc'[e] = "off"
  BY <1>2 DEF TypeInv, AtRest
<1>4. \A e \in Devices \ {d} : seen'[e] = seen[e]
  BY <1>1, ReadSees
<1>5. PhaseSays' /\ InHandUnanswered' /\ WorkedOnAnswers'
  BY <1>2, <1>3, <1>4
  DEF RestoreInv, PhaseSays, InHandUnanswered, WorkedOnAnswers
<1>6. ASSUME Undisturbed'  PROVE AllInOrder'
  <2>1. AllInOrder /\ seen[d] = "answering"
    BY <1>2, <1>6 DEF Undisturbed, RestoreInv, WorkedOnAnswers
  <2>2. CacheTrue' /\ foreign' = {}
    BY <1>1, <1>2, <2>1, ReadKeepsTrue DEF AllInOrder
  <2>3. Restoring'
    BY <1>1, <1>2, <2>1, ReadRestoring DEF AllInOrder
  <2>4. AirInHand' /\ Confirmed'
    BY <1>2, <2>1 DEF AllInOrder, AirInHand, Confirmed, AsWanted
  <2>5. CopyTrue'
    BY <1>1, <1>2, <2>1, ReadKeepsCopy DEF AllInOrder
  <2>6. QED  BY <2>2, <2>3, <2>4, <2>5 DEF AllInOrder
<1>7. QED  BY <1>5, <1>6 DEF RestoreInv

(* A job ends. *)
LEMMA RestoreEnd ==
  ASSUME TypeInv, TypeInv', RestoreInv, NEW out \in [Links -> Outcomes], NEW why \in Stops,
         NEW killed \in BOOLEAN, EndJob(out, why, killed), UNCHANGED <<air, disturbances>>,
         \A l \in request.writes : out[l] = "applied" => outcome[l] = "applied",
         (AllInOrder /\ ~killed) => /\ air = {} /\ foreign' = {} /\ copy' = table'
                                    /\ \A d \in Devices : CacheIsCopy(d)'
  PROVE  RestoreInv'
<1>1. /\ request'.writes = {} /\ request'.desired = Stored /\ verified' = {} /\ toread' = {}
      /\ \A d \in Devices : pc'[d] = "off"
  BY DEF EndJob, NoRequest
<1>2. PhaseSays' /\ InHandUnanswered' /\ WorkedOnAnswers'
  BY <1>1 DEF PhaseSays, InHandUnanswered, WorkedOnAnswers
<1>3. ASSUME Undisturbed'  PROVE AllInOrder'
  <2>1. /\ report = NoReport \/ report.flawless
        /\ ~killed
        /\ \A l \in Links : request.op[l] # "none" => out[l] = "applied"
    BY <1>3, FlawlessSays DEF EndJob, Undisturbed, TypeInv, TypeOK
  <2>2. Undisturbed
    BY <1>3, <2>1 DEF Undisturbed, TypeInv, TypeOK, RequestType, WritesOK, WriteOps
  <2>3. AllInOrder
    BY <2>2 DEF RestoreInv
  <2>4. QED  BY <1>1, <2>1, <2>3
             DEF AllInOrder, AirInHand, CacheTrue, CopyTrue, Restoring, Confirmed
<1>4. QED  BY <1>2, <1>3 DEF RestoreInv

LEMMA RestoreLaunch ==
  ASSUME TypeInv, TypeInv', RestoreInv, NEW d \in Devices, Launch(d)
  PROVE  RestoreInv'
<1> DEFINE stale == StaleDevices(cache', seen')
           live == {SourceOf[l] : l \in request.writes} \ stale
           marked == [l \in Links |-> IF l \in request.writes /\ SourceOf[l] \in stale
                                      THEN "stale_plan" ELSE outcome[l]]
<1>1. /\ Read(d)
      /\ \/ /\ phase' = "work" /\ toread' = {} /\ outcome' = marked
            /\ pc' = [e \in Devices |-> IF e \in live THEN "queued" ELSE "off"]
            /\ UNCHANGED <<request, cur, verified, report>>
         \/ EndJob(marked, stop, FALSE)
  BY DEF Launch
<1>2. /\ phase = "reread" /\ d \in toread
      /\ UNCHANGED <<table, air, rules, disturbances>>
  BY DEF Launch, profile
<1>3. \A e \in Devices : pc[e] = "off"
  BY <1>2 DEF TypeInv, AtRest
<1>4. AllInOrder => /\ air = {} /\ foreign' = {} /\ copy' = table'
                    /\ \A e \in Devices : CacheIsCopy(e)'
  <2>1. AllInOrder => air = {}
    BY <1>3, NothingOnAir DEF AllInOrder
  <2>2. \A e \in Devices : e \notin InFlight
    BY <1>3 DEF InFlight
  <2>3. AllInOrder => foreign' = {} /\ \A e \in Devices : CacheIsCopy(e)'
    BY <1>1, <2>2, ReadAgrees DEF AllInOrder, CacheTrue, Read, Answered, Unanswered
  <2>4. ASSUME AllInOrder  PROVE copy' = table'
    <3>1. \A l \in Links : (l \in copy) = (l \in table)
      BY <2>2, <2>4, LinkAssumption DEF AllInOrder, CopyTrue
    <3>2. \A l \in Links : (l \in copy') = (l \in table')
      BY <1>1, <1>2, <3>1, ReadTells
    <3>3. copy' \in SUBSET Links /\ table' \in SUBSET Links
      BY DEF TypeInv, TypeOK
    <3>4. QED  BY <3>2, <3>3
  <2>5. QED  BY <2>1, <2>3, <2>4
<1>5. CASE EndJob(marked, stop, FALSE)
  <2>1. marked \in [Links -> Outcomes] /\ stop \in Stops
    BY DEF TypeInv, TypeOK, Outcomes
  <2>2. \A l \in request.writes : marked[l] = "applied" => outcome[l] = "applied"
    BY DEF TypeInv, TypeOK, RequestType
  <2> HIDE DEF marked
  <2>3. QED  BY <1>2, <1>4, <1>5, <2>1, <2>2, RestoreEnd
<1>6. CASE /\ phase' = "work" /\ toread' = {} /\ outcome' = marked
           /\ pc' = [e \in Devices |-> IF e \in live THEN "queued" ELSE "off"]
           /\ UNCHANGED <<request, cur, verified, report>>
  <2>1. \A e \in Devices : pc'[e] \in {"queued", "off"}
    BY <1>6
  <2>2. WorkedOnAnswers'
    <3>1. ASSUME NEW e \in Devices, pc'[e] = "queued"  PROVE seen'[e] = "answering"
      <4>1. PICK l \in request.writes : SourceOf[l] = e
        BY <1>6, <3>1
      <4>2. QED  BY <1>6, <3>1, <4>1, LaunchAgrees
    <3>2. QED  BY <1>6, <2>1, <3>1 DEF WorkedOnAnswers
  <2>3. PhaseSays' /\ InHandUnanswered'
    BY <1>6, <2>1 DEF PhaseSays, InHandUnanswered
  <2>4. ASSUME Undisturbed'  PROVE AllInOrder'
    <3>1. \A l \in request.writes : outcome'[l] \in {"none", "applied"} => outcome'[l] = outcome[l]
      BY <1>6 DEF TypeInv, TypeOK, RequestType
    <3>2. AllInOrder /\ seen[d] = "answering"
      BY <1>2, <1>6, <2>4, <3>1 DEF Undisturbed, RestoreInv, WorkedOnAnswers
    <3>3. Restoring'
      BY <1>1, <1>2, <1>6, <3>2, ReadRestoring DEF AllInOrder
    <3>4. verified = {}
      BY <1>3, <3>2, LinkAssumption DEF AllInOrder, Confirmed, TypeInv, TypeOK
    <3>5. AirInHand' /\ CacheTrue' /\ CopyTrue' /\ Confirmed'
      BY <1>2, <1>4, <1>6, <3>2, <3>4 DEF AirInHand, CacheTrue, CopyTrue, Confirmed
    <3>6. QED  BY <1>4, <3>2, <3>3, <3>5 DEF AllInOrder
  <2>5. QED  BY <2>2, <2>3, <2>4 DEF RestoreInv
<1>7. QED  BY <1>1, <1>5, <1>6

(* The loop of a device goes on, with the link it had in hand answered     *)
(* and, if the answer is good, nothing of it left on the air.              *)
LEMMA RestoreProceed ==
  ASSUME TypeInv, TypeInv', RestoreInv, NEW d \in Devices,
         pc[d] \in {"queued", "call", "backoff"},
         NEW out \in [Links -> Outcomes], NEW flying \in SUBSET air,
         Proceed(d, out, Rest(d), flying),
         UNCHANGED <<table, copy, foreign, profile, coordinator, phase, request, toread,
                     verified, report, disturbances>>,
         \A l \in Links : out[l] = outcome[l] \/ (pc[d] # "queued" /\ l = cur[d]),
         (pc[d] # "queued" /\ out[cur[d]] \in {"none", "applied"}) =>
           <<cur[d], request.op[cur[d]]>> \notin flying
  PROVE  RestoreInv'
<1>0. /\ Rest(d) \subseteq WriteOf(d) /\ WriteOf(d) \subseteq Links
      /\ \A l \in WriteOf(d) : l \in request.writes /\ SourceOf[l] = d
      /\ \A l \in Rest(d) : outcome[l] = "none" /\ attempts[l] = 0
      /\ request.writes \subseteq Links /\ pc \in [Devices -> Pcs]
      /\ outcome \in [Links -> Outcomes] /\ cur \in [Devices -> Links \cup {NoLink}]
      /\ stop \in Stops /\ phase = "work"
  BY DEF Rest, WriteOf, Of, TypeInv, TypeOK, RequestType, AtRest
<1>1. pc[d] # "queued" => /\ cur[d] \in WriteOf(d) /\ cur[d] \notin Rest(d)
                          /\ outcome[cur[d]] = "none" /\ attempts[cur[d]] > 0
  <2>1. pc[d] # "queued" => pc[d] \in {"call", "backoff"}
    OBVIOUS
  <2>2. QED  BY <1>0, <2>1 DEF TypeInv, CursorOK, RestoreInv, InHandUnanswered
<1>2. \/ \E l \in Rest(d) : /\ pc' = [pc EXCEPT ![d] = "call"]
                            /\ cur' = [cur EXCEPT ![d] = l]
                            /\ air' = flying \cup {<<l, request.op[l]>>}
                            /\ outcome' = out
      \/ /\ outcome' = [l \in Links |-> IF l \in Rest(d) THEN stop ELSE out[l]]
         /\ \/ pc' = [pc EXCEPT ![d] = "verify"]
            \/ pc[d] = "queued" /\ pc' = [pc EXCEPT ![d] = "done"]
         /\ cur' = [cur EXCEPT ![d] = NoLink]
         /\ air' = flying
  BY <1>0, <1>1 DEF Proceed
<1>3. /\ \A e \in Devices \ {d} : pc'[e] = pc[e] /\ cur'[e] = cur[e]
      /\ pc'[d] \in {"call", "verify", "done"}
      /\ pc'[d] = "done" => pc[d] = "queued"
      /\ pc'[d] = "call" => /\ cur'[d] \in Rest(d) /\ outcome' = out
      /\ \A l \in Links : l \notin WriteOf(d) => outcome'[l] = outcome[l]
  <2>1. \A l \in Links : l \notin WriteOf(d) => out[l] = outcome[l]
    BY <1>1
  <2>2. QED  BY <1>0, <1>2, <2>1
<1>4. PhaseSays' /\ WorkedOnAnswers'
  BY <1>3 DEF RestoreInv, PhaseSays, WorkedOnAnswers, coordinator
<1>5. InHandUnanswered'
  <2>1. ASSUME NEW e \in Devices, pc'[e] \in {"call", "backoff"}  PROVE outcome'[cur'[e]] = "none"
    <3>1. CASE e = d
      <4>1. cur'[d] \in Rest(d) /\ outcome' = out
        BY <1>3, <2>1, <3>1
      <4>2. out[cur'[d]] = outcome[cur'[d]]
        BY <1>0, <1>1, <4>1
      <4>3. QED  BY <1>0, <3>1, <4>1, <4>2
    <3>2. CASE e # d
      <4>1. cur'[e] = cur[e] /\ pc[e] \in {"call", "backoff"}
        BY <1>3, <2>1, <3>2
      <4>2. cur[e] \in Links /\ cur[e] \notin WriteOf(d)
        BY <3>2, <4>1 DEF TypeInv, CursorOK, WriteOf, Of
      <4>3. QED  BY <1>3, <4>1, <4>2 DEF RestoreInv, InHandUnanswered
    <3>3. QED  BY <3>1, <3>2
  <2>2. QED  BY <2>1 DEF InHandUnanswered
<1>6. ASSUME Undisturbed'  PROVE AllInOrder'
  <2>1. \A l \in request.writes : outcome'[l] \in {"none", "applied"}
    BY <1>6 DEF Undisturbed
  <2>2. pc[d] # "queued" => out[cur[d]] \in {"none", "applied"}
    <3>1. pc[d] # "queued" => outcome'[cur[d]] = out[cur[d]]
      BY <1>0, <1>1, <1>2
    <3>2. QED  BY <1>0, <1>1, <2>1, <3>1
  <2>3. Undisturbed
    <3>1. ASSUME NEW l \in request.writes  PROVE outcome[l] \in {"none", "applied"}
      <4>1. l \in Rest(d) => outcome[l] = "none"
        BY <1>0
      <4>2. (pc[d] # "queued" /\ l = cur[d]) => outcome[l] = "none"
        BY <1>1
      <4>3. (l \notin Rest(d) /\ ~(pc[d] # "queued" /\ l = cur[d])) => outcome'[l] = outcome[l]
        BY <1>0, <1>2
      <4>4. QED  BY <2>1, <4>1, <4>2, <4>3
    <3>2. QED  BY <1>6, <3>1 DEF Undisturbed
  <2>4. AllInOrder
    BY <2>3 DEF RestoreInv
  <2>5. AirInHand'
    <3>1. ASSUME NEW l \in Links, NEW op \in WriteOps, <<l, op>> \in air'
          PROVE  /\ pc'[SourceOf[l]] \in {"call", "backoff"}
                 /\ cur'[SourceOf[l]] = l /\ request'.op[l] = op
      <4>1. CASE <<l, op>> \in flying
        <5>1. /\ pc[SourceOf[l]] \in {"call", "backoff"}
              /\ cur[SourceOf[l]] = l /\ request.op[l] = op
          BY <2>4, <4>1 DEF AllInOrder, AirInHand
        <5>2. SourceOf[l] # d
          BY <2>2, <4>1, <5>1
        <5>3. SourceOf[l] \in Devices
          BY LinkAssumption
        <5>4. QED  BY <1>3, <5>1, <5>2, <5>3
      <4>2. CASE <<l, op>> \notin flying
        <5>1. pc' = [pc EXCEPT ![d] = "call"] /\ cur' = [cur EXCEPT ![d] = l] /\ l \in Rest(d)
              /\ op = request.op[l]
          BY <1>2, <3>1, <4>2
        <5>2. QED  BY <1>0, <5>1
      <4>3. QED  BY <4>1, <4>2
    <3>2. QED  BY <3>1 DEF AirInHand
  <2>6. CacheTrue'
    <3>1. ASSUME NEW e \in Devices \ InFlight'  PROVE e \notin InFlight
      <4>1. pc'[e] \notin {"call", "backoff", "verify"}
        BY <3>1 DEF InFlight
      <4>2. QED  BY <1>3, <4>1 DEF InFlight
    <3>2. QED  BY <2>4, <3>1 DEF AllInOrder, CacheTrue, CacheIsCopy, coordinator, Of
  <2>7. Restoring'
    BY <2>4 DEF AllInOrder, Restoring, PutsBackLink, Managed, coordinator, profile, Of
  <2>8. Confirmed'
    <3>1. ASSUME NEW l \in verified  PROVE pc'[SourceOf[l]] = "done" /\ AsWanted(l, table)
      <4>1. /\ pc[SourceOf[l]] = "done" /\ AsWanted(l, table) /\ SourceOf[l] \in Devices
        BY <2>4, LinkAssumption DEF AllInOrder, Confirmed, TypeInv, TypeOK
      <4>2. QED  BY <1>3, <4>1
    <3>2. QED  BY <3>1 DEF Confirmed, AsWanted
  <2>9. CopyTrue'
    <3>1. ASSUME NEW l \in Links, l \in request.writes, SourceOf[l] \in InFlight
          PROVE  SourceOf[l] \in InFlight'
      <4>1. pc[SourceOf[l]] \in {"call", "backoff", "verify"} /\ SourceOf[l] \in Devices
        BY <3>1 DEF InFlight
      <4>2. SourceOf[l] = d => pc'[d] \in {"call", "verify"}
        BY <1>3, <4>1
      <4>3. QED  BY <1>3, <4>1, <4>2 DEF InFlight
    <3>2. QED  BY <2>4, <3>1 DEF AllInOrder, CopyTrue, AsWanted
  <2>10. QED  BY <2>4, <2>5, <2>6, <2>7, <2>8, <2>9 DEF AllInOrder
<1>7. QED  BY <1>4, <1>5, <1>6 DEF RestoreInv

(* The link in hand waits out a backoff or is tried again.                 *)
LEMMA RestoreAgain ==
  ASSUME TypeInv, TypeInv', RestoreInv, NEW d \in Devices, pc[d] \in {"call", "backoff"},
         NEW next \in {"call", "backoff"}, pc' = [pc EXCEPT ![d] = next],
         air' \subseteq air \cup {<<cur[d], request.op[cur[d]]>>},
         UNCHANGED <<table, copy, foreign, profile, coordinator, phase, request, toread, cur,
                     outcome, verified, report, disturbances>>
  PROVE  RestoreInv'
<1>1. /\ \A e \in Devices \ {d} : pc'[e] = pc[e]
      /\ pc'[d] \in {"call", "backoff"}
      /\ \A e \in Devices : pc'[e] \in {"call", "backoff"} => pc[e] \in {"call", "backoff"}
  BY DEF TypeInv, TypeOK
<1>2. cur[d] \in Links /\ SourceOf[cur[d]] = d
  BY DEF TypeInv, CursorOK, WriteOf, Of
<1>3. PhaseSays' /\ InHandUnanswered' /\ WorkedOnAnswers'
  BY <1>1 DEF RestoreInv, PhaseSays, InHandUnanswered, WorkedOnAnswers, coordinator
<1>4. ASSUME Undisturbed'  PROVE AllInOrder'
  <2>1. AllInOrder
    BY <1>4 DEF Undisturbed, RestoreInv
  <2>2. AirInHand'
    <3>1. ASSUME NEW l \in Links, NEW op \in WriteOps, <<l, op>> \in air'
          PROVE  /\ pc'[SourceOf[l]] \in {"call", "backoff"}
                 /\ cur[SourceOf[l]] = l /\ request.op[l] = op
      <4>1. CASE <<l, op>> \in air
        BY <1>1, <2>1, <4>1, LinkAssumption DEF AllInOrder, AirInHand
      <4>2. CASE <<l, op>> \notin air
        <5>1. l = cur[d] /\ op = request.op[cur[d]]
          BY <3>1, <4>2
        <5>2. QED  BY <1>1, <1>2, <5>1
      <4>3. QED  BY <4>1, <4>2
    <3>2. QED  BY <3>1 DEF AirInHand
  <2>3. CacheTrue'
    BY <1>1, <2>1 DEF AllInOrder, CacheTrue, CacheIsCopy, coordinator, InFlight, Of
  <2>4. Restoring' /\ Confirmed'
    <3>1. \A e \in Devices : pc[e] = "done" => pc'[e] = "done"
      BY <1>1
    <3>2. \A l \in verified : SourceOf[l] \in Devices
      BY LinkAssumption DEF TypeInv, TypeOK
    <3>3. QED  BY <2>1, <3>1, <3>2
               DEF AllInOrder, Restoring, PutsBackLink, Managed, coordinator, profile, Of,
                   Confirmed, AsWanted
  <2>5. CopyTrue'
    BY <1>1, <2>1 DEF AllInOrder, CopyTrue, AsWanted, InFlight
  <2>6. QED  BY <2>1, <2>2, <2>3, <2>4, <2>5 DEF AllInOrder
<1>5. QED  BY <1>3, <1>4 DEF RestoreInv

(* The answer to a write, or its timeout.                                  *)
LEMMA RestoreSettle ==
  ASSUME TypeInv, TypeInv', RestoreInv, NEW d \in Devices, pc[d] = "call",
         NEW result \in Results, NEW flying \in SUBSET air, Settle(d, result, flying),
         result = "applied" => <<cur[d], request.op[cur[d]]>> \notin flying,
         UNCHANGED <<table, copy, foreign, profile, coordinator, phase, request, toread,
                     verified, report, disturbances>>
  PROVE  RestoreInv'
<1>1. CASE /\ pc' = [pc EXCEPT ![d] = "backoff"]
           /\ air' = flying /\ UNCHANGED <<cur, outcome>>
  BY <1>1, RestoreAgain
<1>2. CASE Proceed(d, [outcome EXCEPT ![cur[d]] = result], Rest(d), flying)
  <2> DEFINE out == [outcome EXCEPT ![cur[d]] = result]
  <2>1. /\ out \in [Links -> Outcomes] /\ cur[d] \in Links
        /\ \A l \in Links : out[l] = outcome[l] \/ l = cur[d]
        /\ out[cur[d]] = result
    BY DEF TypeInv, TypeOK, CursorOK, WriteOf, Of, Outcomes
  <2>2. result \in {"none", "applied"} => result = "applied"
    BY DEF Results
  <2>3. Proceed(d, out, Rest(d), flying)
    BY <1>2
  <2> HIDE DEF out
  <2>4. QED  BY <2>1, <2>2, <2>3, RestoreProceed
<1>3. QED  BY <1>1, <1>2 DEF Settle

LEMMA RestoreVerify ==
  ASSUME AnswerInv, TypeInv', EarnedInv, RestoreInv, NEW d \in Devices, Verify(d)
  PROVE  RestoreInv'
<1>0. TypeInv
  BY DEF AnswerInv
<1>1. /\ pc[d] = "verify" /\ pc' = [pc EXCEPT ![d] = "done"] /\ pc \in [Devices -> Pcs]
      /\ UNCHANGED <<table, air, rules, phase, request, toread, cur, report, disturbances>>
  BY <1>0 DEF Verify, profile, TypeInv, TypeOK
<1>2. Read(d)
  BY DEF Verify, Read
<1>3. /\ \A l \in Links : outcome'[l] # outcome[l] => l \in Verifiable(d)
      /\ \A l \in Verifiable(d) : outcome[l] = "applied" /\ SourceOf[l] = d
      /\ \A l \in Links : outcome'[l] \in {"none", "applied"} => outcome'[l] = outcome[l]
      /\ \A l \in Verifiable(d) : outcome'[l] = "applied" => AsWanted(l, cache')
  BY DEF Verify, Verifiable, WriteOf, Of
<1>4. \A e \in Devices \ {d} : pc'[e] = pc[e] /\ seen'[e] = seen[e]
  BY <1>0, <1>1, <1>2, ReadSees
<1>5. PhaseSays' /\ WorkedOnAnswers'
  <2>1. phase = "work" /\ toread = {}
    BY <1>0, <1>1 DEF TypeInv, AtRest, RestoreInv, PhaseSays
  <2>2. \A e \in Devices : pc'[e] \in {"queued", "call", "backoff", "verify"} =>
          e # d /\ pc'[e] = pc[e]
    BY <1>1
  <2>3. QED  BY <1>1, <1>4, <2>1, <2>2 DEF RestoreInv, PhaseSays, WorkedOnAnswers
<1>6. InHandUnanswered'
  <2>1. ASSUME NEW e \in Devices, pc'[e] \in {"call", "backoff"}  PROVE outcome'[cur'[e]] = "none"
    <3>1. e # d /\ pc[e] \in {"call", "backoff"} /\ cur'[e] = cur[e]
      BY <1>1, <2>1
    <3>2. cur[e] \in Links /\ SourceOf[cur[e]] = e /\ outcome[cur[e]] = "none"
      BY <1>0, <3>1 DEF TypeInv, CursorOK, WriteOf, Of, RestoreInv, InHandUnanswered
    <3>3. QED  BY <1>3, <3>1, <3>2
  <2>2. QED  BY <2>1 DEF InHandUnanswered
<1>7. ASSUME Undisturbed'  PROVE AllInOrder'
  <2>1. AllInOrder /\ seen[d] = "answering"
    <3>1. request.writes \subseteq Links
      BY <1>0 DEF TypeInv, TypeOK, RequestType
    <3>2. QED  BY <1>1, <1>3, <1>7, <3>1 DEF Undisturbed, RestoreInv, WorkedOnAnswers
  <2>2. CacheTrue' /\ foreign' = {}
    BY <1>0, <1>1, <1>2, <1>4, <2>1, ReadKeepsTrue DEF AllInOrder
  <2>3. Restoring'
    BY <1>0, <1>1, <1>2, <2>1, ReadRestoring DEF AllInOrder
  <2>4. AirInHand'
    <3>1. \A e \in Devices : pc[e] \in {"call", "backoff"} => pc'[e] = pc[e]
      BY <1>1
    <3>2. \A l \in Links : SourceOf[l] \in Devices
      BY LinkAssumption
    <3>3. QED  BY <1>1, <2>1, <3>1, <3>2 DEF AllInOrder, AirInHand
  <2>5. Confirmed'
    <3>1. ASSUME NEW l \in verified'  PROVE pc'[SourceOf[l]] = "done" /\ AsWanted(l, table)
      <4>1. CASE l \in verified
        <5>1. pc[SourceOf[l]] = "done" /\ AsWanted(l, table) /\ SourceOf[l] \in Devices
          BY <1>0, <2>1, <4>1, LinkAssumption DEF AllInOrder, Confirmed, TypeInv, TypeOK
        <5>2. QED  BY <1>1, <5>1
      <4>2. CASE l \notin verified
        <5>1. SourceOf[l] = d /\ (d \notin foreign' => AsWanted(l, table))
          BY <1>0, <3>1, <4>2, VerifyEarned
        <5>2. QED  BY <1>1, <2>2, <5>1
      <4>3. QED  BY <4>1, <4>2
    <3>2. QED  BY <1>1, <3>1 DEF Confirmed, AsWanted
  <2>6. CopyTrue'
    <3>1. ASSUME NEW l \in Links, (l \in copy') # (l \in table)
          PROVE  l \in request.writes /\ SourceOf[l] \in InFlight /\ AsWanted(l, table)
      <4>1. (l \in copy) # (l \in table)
        BY <1>1, <1>2, <3>1, ReadTells
      <4>2. QED  BY <2>1, <4>1 DEF AllInOrder, CopyTrue
    <3>2. ASSUME NEW l \in Of(d), (l \in copy') # (l \in table)  PROVE FALSE
      <4>1. /\ l \in Links /\ SourceOf[l] = d
            /\ l \in request.writes /\ l \in WriteOf(d) /\ AsWanted(l, table)
        BY <3>1, <3>2 DEF Of, WriteOf
      <4>2. outcome[l] # "none"
        <5>1. phase # "idle" /\ request.op[l] # "none"
          BY <1>0, <1>1, <4>1 DEF TypeInv, AtRest, WritesOK, WriteOps
        <5>2. QED  BY <1>1, <4>1, <5>1 DEF AnswerInv, Accounted
      <4>3. outcome[l] = "applied" /\ outcome'[l] = "applied" /\ l \in Verifiable(d)
        <5>1. outcome'[l] \in {"none", "applied"}
          BY <1>1, <1>7, <4>1 DEF Undisturbed
        <5>2. outcome'[l] = outcome[l]
          BY <1>3, <4>1, <5>1
        <5>3. QED  BY <4>1, <4>2, <5>1, <5>2 DEF Verifiable
      <4>4. (l \in cache') = (l \in copy')
        <5>1. seen'[d] = "answering" => cache' \cap Of(d) = copy' \cap Of(d)
          BY <1>0, <1>2, <2>2, ReadAgrees DEF CacheIsCopy, Of
        <5>2. CASE Unanswered(d)
          <6>1. outcome'[l] = "unconfirmed"
            BY <4>1, <4>3, <5>2 DEF Verify, Unanswered, Answered, SeenAfter, TypeInv, TypeOK, Seen
          <6>2. QED  BY <4>3, <6>1
        <5>3. CASE \E heard \in SUBSET Behind(d) : Answered(d, heard)
          BY <3>2, <5>3 DEF Answered, CacheAfter
        <5>4. QED  BY <1>2, <5>2, <5>3 DEF Read
      <4>5. AsWanted(l, copy')
        BY <1>3, <4>3, <4>4 DEF AsWanted
      <4>6. QED  BY <3>2, <4>1, <4>5 DEF AsWanted
    <3>3. ASSUME NEW l \in Links, (l \in copy') # (l \in table)
          PROVE  l \in request.writes /\ SourceOf[l] \in InFlight' /\ AsWanted(l, table)
      <4>1. SourceOf[l] # d
        BY <3>2, <3>3 DEF Of
      <4>2. QED  BY <1>1, <3>1, <3>3, <4>1 DEF InFlight
    <3>4. QED  BY <1>1, <3>3 DEF CopyTrue, AsWanted
  <2>7. QED  BY <2>2, <2>3, <2>4, <2>5, <2>6 DEF AllInOrder
<1>8. QED  BY <1>5, <1>6, <1>7 DEF RestoreInv

(* A command lands: one in somebody's hand, so it does what the plan says. *)
LEMMA RestoreLand ==
  ASSUME TypeInv, TypeInv', RestoreInv, NEW l \in Links, NEW op \in WriteOps, Land(l, op)
  PROVE  RestoreInv'
<1>1. /\ <<l, op>> \in air /\ air' \subseteq air
      /\ table' = IF op = "add" THEN table \cup {l} ELSE table \ {l}
      /\ copy' \in {copy, (copy \ {l}) \cup (table' \cap {l})}
      /\ foreign' = IF SourceOf[l] \in InFlight /\ l \in request.writes /\ request.op[l] = op
                    THEN foreign ELSE foreign \cup {SourceOf[l]}
      /\ UNCHANGED <<rules, cache, seen, phase, request, toread, pc, cur, outcome, verified,
                     report, disturbances>>
  BY DEF Land, Changed, profile, coordinator, job
<1>2. PhaseSays' /\ InHandUnanswered' /\ WorkedOnAnswers'
  BY <1>1 DEF RestoreInv, PhaseSays, InHandUnanswered, WorkedOnAnswers
<1>3. ASSUME Undisturbed'  PROVE AllInOrder'
  <2>1. AllInOrder
    BY <1>1, <1>3 DEF Undisturbed, RestoreInv
  <2>2. /\ SourceOf[l] \in InFlight /\ pc[SourceOf[l]] # "done"
        /\ request.op[l] = op /\ l \in request.writes
    <3>1. /\ pc[SourceOf[l]] \in {"call", "backoff"} /\ SourceOf[l] \in Devices
          /\ cur[SourceOf[l]] = l /\ request.op[l] = op
      BY <1>1, <2>1, LinkAssumption DEF AllInOrder, AirInHand
    <3>2. QED  BY <3>1 DEF InFlight, TypeInv, CursorOK, WriteOf
  <2>3. \A k \in Links : k # l => /\ (k \in table') = (k \in table)
                                  /\ (k \in copy') = (k \in copy)
    BY <1>1
  <2>4. CacheTrue' /\ CopyTrue'
    <3>1. \A e \in Devices \ InFlight : copy' \cap Of(e) = copy \cap Of(e)
      BY <2>2, <2>3 DEF Of
    <3>2. CacheTrue'
      BY <1>1, <2>1, <3>1 DEF AllInOrder, CacheTrue, CacheIsCopy, InFlight, Of
    <3>3. AsWanted(l, table')
      BY <1>1, <2>2 DEF AsWanted, WriteOps
    <3>4. CopyTrue'
      BY <1>1, <2>1, <2>2, <2>3, <3>3 DEF AllInOrder, CopyTrue, AsWanted, InFlight
    <3>5. QED  BY <3>2, <3>4
  <2>5. Restoring'
    <3>1. ASSUME NEW k \in Links, PutsBackLink(k)  PROVE PutsBackLink(k)'
      BY <1>1, <2>2, <3>1 DEF PutsBackLink, Managed, WriteOps
    <3>2. QED  BY <1>1, <2>1, <3>1 DEF AllInOrder, Restoring, Of
  <2>6. Confirmed'
    BY <1>1, <2>1, <2>2 DEF AllInOrder, Confirmed, AsWanted
  <2>7. QED  BY <1>1, <2>1, <2>2, <2>4, <2>5, <2>6 DEF AllInOrder, AirInHand
<1>4. QED  BY <1>2, <1>3 DEF RestoreInv

LEMMA RestoreStep == AnswerInv /\ EarnedInv /\ RestoreInv /\ [Next]_vars => RestoreInv'
<1> SUFFICES ASSUME AnswerInv, EarnedInv, RestoreInv, [Next]_vars PROVE RestoreInv'  OBVIOUS
<1>t. TypeInv /\ TypeInv' /\ outcome \in [Links -> Outcomes] /\ stop \in Stops
  BY StepTyped DEF AnswerInv, TypeInv, TypeOK
<1>1. ASSUME NEW d \in Devices, Enter(d)  PROVE RestoreInv'
  BY <1>t, <1>1, RestoreProceed DEF Enter
<1>2. ASSUME NEW d \in Devices, NEW result \in Results, Answer(d, result)  PROVE RestoreInv'
  <2> DEFINE flying == IF result = "pending_wakeup" THEN air
                       ELSE air \ {<<cur[d], request.op[cur[d]]>>}
  <2>1. /\ flying \in SUBSET air /\ Settle(d, result, flying)
        /\ result = "applied" => <<cur[d], request.op[cur[d]]>> \notin flying
    BY <1>2 DEF Answer
  <2> HIDE DEF flying
  <2>2. QED  BY <1>t, <1>2, <2>1, RestoreSettle DEF Answer
<1>3. ASSUME NEW d \in Devices, TimeOut(d)  PROVE RestoreInv'
  BY <1>t, <1>3, RestoreSettle DEF TimeOut, Results
<1>4. ASSUME NEW d \in Devices, BackoffOver(d)  PROVE RestoreInv'
  <2>1. CASE /\ pc' = [pc EXCEPT ![d] = "call"]
             /\ air' = air \cup {<<cur[d], request.op[cur[d]]>>}
             /\ UNCHANGED <<cur, sent, outcome>>
    BY <1>t, <1>4, <2>1, RestoreAgain DEF BackoffOver
  <2>2. CASE Proceed(d, [outcome EXCEPT ![cur[d]] = "failed"], Rest(d), air)
    <3> DEFINE out == [outcome EXCEPT ![cur[d]] = "failed"]
    <3>1. pc[d] = "backoff" /\ cur[d] \in Links
      BY <1>t, <1>4 DEF BackoffOver, TypeInv, CursorOK, WriteOf, Of
    <3>2. /\ out \in [Links -> Outcomes] /\ out[cur[d]] \notin {"none", "applied"}
          /\ \A l \in Links : out[l] = outcome[l] \/ l = cur[d]
      BY <1>t, <3>1 DEF Outcomes, Results
    <3>3. Proceed(d, out, Rest(d), air)
      BY <2>2
    <3> HIDE DEF out
    <3>4. QED  BY <1>t, <1>4, <3>1, <3>2, <3>3, RestoreProceed DEF BackoffOver
  <2>3. QED  BY <1>4, <2>1, <2>2 DEF BackoffOver
<1>5. CASE Finish
  <2>1. ASSUME AllInOrder  PROVE /\ air = {} /\ foreign' = {} /\ copy' = table'
                                 /\ \A d \in Devices : CacheIsCopy(d)'
    <3>1. \A d \in Devices : pc[d] \notin {"call", "backoff"} /\ d \notin InFlight
      BY <1>5 DEF Finish, InFlight
    <3>2. UNCHANGED <<table, copy, cache, seen, foreign>>
      BY <1>5 DEF Finish, world
    <3>3. copy = table
      <4>1. \A l \in Links : (l \in copy) = (l \in table)
        BY <2>1, <3>1, LinkAssumption DEF AllInOrder, CopyTrue
      <4>2. QED  BY <1>t, <4>1 DEF TypeInv, TypeOK
    <3>4. QED  BY <1>t, <2>1, <3>1, <3>2, <3>3, NothingOnAir
               DEF AllInOrder, CacheTrue, CacheIsCopy, Of
  <2>2. QED  BY <1>t, <1>5, <2>1, RestoreEnd DEF Finish, world
<1>6. CASE TaskCancelled
  <2> DEFINE why == FirstStop("interrupted")
             out == [l \in Links |-> IF l \in NotAttempted THEN why ELSE outcome[l]]
  <2>1. why \in Stops \ {"none"}
    BY <1>t DEF FirstStop, Stops
  <2>2. out \in [Links -> Outcomes]
    BY <1>t, <2>1 DEF Stops, Outcomes
  <2>3. \A l \in request.writes : out[l] = "applied" => outcome[l] = "applied"
    BY <1>t, <2>1 DEF Stops, TypeInv, TypeOK, RequestType
  <2>4. EndJob(out, why, TRUE) /\ UNCHANGED <<air, disturbances>>
    BY <1>6 DEF TaskCancelled, world
  <2> HIDE DEF out, why
  <2>5. QED  BY <1>t, <2>1, <2>2, <2>3, <2>4, RestoreEnd
<1>7. CASE Cancel \/ Shutdown \/ ShutdownReturns \/ UNCHANGED vars
  <2>1. UNCHANGED <<table, copy, air, foreign, cache, seen, rules, phase, request, toread, pc,
                    cur, outcome, verified, report, disturbances>>
    BY <1>7 DEF Cancel, Shutdown, ShutdownReturns, vars, world, profile, coordinator, job,
                coroutines, ops
  <2>2. PhaseSays' /\ InHandUnanswered' /\ WorkedOnAnswers'
    BY <2>1 DEF RestoreInv, PhaseSays, InHandUnanswered, WorkedOnAnswers
  <2>3. ASSUME Undisturbed'  PROVE AllInOrder'
    <3>1. AllInOrder
      BY <2>1, <2>3 DEF RestoreInv, Undisturbed
    <3>2. AirInHand' /\ CacheTrue' /\ CopyTrue' /\ Confirmed'
      BY <2>1, <3>1 DEF AllInOrder, AirInHand, CacheTrue, CacheIsCopy, CopyTrue, InFlight, Of,
                        Confirmed, AsWanted
    <3>3. Restoring'
      BY <2>1, <3>1 DEF AllInOrder, Restoring, PutsBackLink, Managed, Of
    <3>4. QED  BY <2>1, <3>1, <3>2, <3>3 DEF AllInOrder
  <2>4. QED  BY <2>2, <2>3 DEF RestoreInv
<1>8. CASE \/ \E d \in Devices : Refresh(d)
           \/ \E l \in Links : EditDevice(l)
           \/ \E r \in Rules : EditRule(r)
  <2>1. disturbances' = disturbances + 1 /\ UNCHANGED <<phase, request, toread, pc, cur, outcome>>
    BY <1>8 DEF Refresh, EditDevice, EditRule, job, coroutines, ops
  <2>2. disturbances' # 0
    <3>1. disturbances \in Nat
      BY <1>t, RunnerAssumption DEF TypeInv, TypeOK
    <3>2. QED  BY <2>1, <3>1
  <2>3. PhaseSays' /\ InHandUnanswered' /\ WorkedOnAnswers'
    BY <2>1, <2>2 DEF RestoreInv, PhaseSays, InHandUnanswered, WorkedOnAnswers
  <2>4. QED  BY <2>2, <2>3 DEF RestoreInv, Undisturbed
<1>9. QED  BY <1>t, <1>1, <1>2, <1>3, <1>4, <1>5, <1>6, <1>7, <1>8, RestoreRequests,
              RestoreReread, RestoreLaunch, RestoreVerify, RestoreLand
           DEF Next, Runner, Device, Others

(* After jobs that went well and with nobody else at work, a rollback that *)
(* goes well leaves on every device of its snapshot that answers exactly   *)
(* the managed links the snapshot has: what it has to put back and to take *)
(* away is in its plan, what is in its plan is confirmed, and no command   *)
(* of an earlier job is left to undo it (_build_rollback, _run_device).    *)
THEOREM RollbackPutsBack == Spec => RollbackRestores
<1> DEFINE Restored ==
      (/\ phase = "work" /\ phase' = "idle"
       /\ request.desired # Stored /\ report'.flawless /\ disturbances = 0) =>
         \A d \in request.scope.devices :
           seen[d] = "answering" =>
             /\ request.desired \cap Of(d) \subseteq table
             /\ table \cap Managed \cap Of(d) \subseteq request.desired
<1>1. ReadInv /\ RestoreInv /\ [Next]_vars => [Restored]_vars
  <2> SUFFICES ASSUME ReadInv, RestoreInv, Next, phase = "work", phase' = "idle",
                      request.desired # Stored, report'.flawless, disturbances = 0,
                      NEW d \in request.scope.devices, seen[d] = "answering", NEW l \in Of(d)
               PROVE  /\ l \in request.desired => l \in table
                      /\ l \in table \cap Managed => l \in request.desired
    BY DEF vars
  <2>1. AnswerInv /\ TypeInv /\ l \in Links /\ SourceOf[l] = d
    BY DEF ReadInv, AnswerInv, Of
  <2>2. Finish
    <3>1. TaskCancelled => ~report'.flawless
      BY DEF TaskCancelled, EndJob, ReportOf
    <3>2. QED  BY <2>1, <3>1, WorkEnds
  <2>3. /\ report = NoReport \/ report.flawless
        /\ \A k \in Links : request.op[k] # "none" => outcome[k] = "applied"
    <3>1. report' = ReportOf(request, outcome, stop, FALSE)
      BY <2>2 DEF Finish, EndJob
    <3>2. /\ TypeOK /\ request \in RequestType /\ outcome \in [Links -> Outcomes]
          /\ stop \in Stops
      BY <2>1 DEF TypeInv, TypeOK
    <3>3. QED  BY <3>1, <3>2, FlawlessSays
  <2>4. AllInOrder
    BY <2>1, <2>3, WritesHere DEF Undisturbed, RestoreInv
  <2>5. PutsBackLink(l)
    BY <2>4 DEF AllInOrder, Restoring
  <2>6. request.op[l] # "none" => l \in request.writes /\ AsWanted(l, table)
    <3>1. ASSUME request.op[l] # "none"  PROVE l \in request.writes /\ l \in verified
      <4>1. l \in request.writes /\ pc[d] # "off"
        BY <2>1, <2>3, <3>1 DEF AnswerInv, Earned
      <4>2. pc[d] = "done"
        BY <2>1, <2>2, <4>1, LinkAssumption DEF Finish
      <4>3. QED  BY <2>1, <2>3, <3>1, <4>1, <4>2 DEF AnswerInv, Earned
    <3>2. QED  BY <2>4, <3>1 DEF AllInOrder, Confirmed
  <2>7. request.op[l] # "blocked"
    BY <2>1, <2>6 DEF TypeInv, WritesOK, WriteOps
  <2>8. QED  BY <2>5, <2>6, <2>7 DEF PutsBackLink, AsWanted
<1>2. Init => ReadInv /\ RestoreInv
  <2>1. Init => PhaseSays /\ InHandUnanswered /\ WorkedOnAnswers
    BY DEF Init, NoJob, NoRequest, PhaseSays, InHandUnanswered, WorkedOnAnswers
  <2>2. Init => AllInOrder
    BY DEF Init, NoJob, NoRequest, AllInOrder, AirInHand, CacheTrue, CacheIsCopy, CopyTrue,
           Restoring, Confirmed, Of
  <2>3. QED  BY <2>1, <2>2, ReadInit DEF RestoreInv
<1>3. ReadInv /\ RestoreInv /\ [Next]_vars => ReadInv' /\ RestoreInv'
  BY ReadStep, RestoreStep DEF ReadInv
<1>4. QED  BY <1>1, <1>2, <1>3, PTL DEF Spec, RollbackRestores

=============================================================================
