----------------------------- MODULE JobRunner -----------------------------
(***************************************************************************)
(* executor.JobRunner: one apply at a time, from the plan to the report.   *)
(*                                                                         *)
(* Home Assistant runs one thread, so an action is the code between two    *)
(* awaits.  The processes are the apply itself (refuse, resolve, re-read,  *)
(* check staleness, snapshot, gather, finish), one coroutine per device    *)
(* (pc), and everybody else: a cancel, an unload, a task that is cancelled *)
(* from outside, a user editing rules, somebody editing a device, and any  *)
(* read of a device by the rest of the integration.                        *)
(*                                                                         *)
(* The network is the worst the code is written for.  A write becomes a    *)
(* command on the air, which lands at any time before its answer or never; *)
(* the answer says what it likes; after a timeout it may still land.       *)
(* A read gives what the backend's copy of the device holds (the Z-Wave    *)
(* driver's cache, what the bridge retains), and the copy is right only    *)
(* about what the device has reported.                                     *)
(***************************************************************************)
EXTENDS Planner

CONSTANTS
  Rules,
  RuleOf,        \* [Links -> Rules \cup {NoRule}]: the rule that asks for it
  NoRule,
  DevicesOf,     \* [Rules -> SUBSET Devices]: its source and its targets
  EndpointOf,    \* [Links -> endpoints]: the one of its device a link leaves from
  SlotDevices,   \* devices whose backend's system_scope() is SLOT
  MaxConcurrent, \* DEFAULT_MAX_CONCURRENT_DEVICES
  Retries,       \* Len(RETRY_BACKOFF_SECONDS)
  Scopes,        \* the plan scopes callers ask for
  Selections,    \* the sets of unmanaged links callers tick
  InitialTables, \* what the devices may hold at first
  Stored,        \* "the desired state is the stored profile"
  NoLink, NoReport, NoSnapshot,
  MaxJobs,       \* bound: jobs in one behaviour
  MaxDisturbances \* bound: edits of rules and devices, and reads, by others

ASSUME RunnerAssumption ==
  /\ RuleOf \in [Links -> Rules \cup {NoRule}]
  /\ NoRule \notin Rules
  /\ DevicesOf \in [Rules -> SUBSET Devices]
  /\ EndpointOf \in [Links -> Nat]
  /\ SlotDevices \subseteq Devices
  /\ MaxConcurrent \in Nat \ {0}
  /\ Retries \in Nat
  /\ Scopes \subseteq [rules : SUBSET Rules, devices : SUBSET Devices]
  /\ Selections \subseteq SUBSET Links
  /\ InitialTables \subseteq SUBSET Links
  /\ \A S \in SUBSET Links : Stored # S
  /\ NoLink \notin Links
  /\ NoSnapshot \notin [devices : SUBSET Devices, links : SUBSET Links, managed : SUBSET Links]
  /\ MaxJobs \in Nat /\ MaxDisturbances \in Nat

VARIABLES
  \* The network.
  table,     \* the links the devices hold
  air,       \* commands that may still land: <<link, op>>; a lost one never does
  copy,      \* the links the backends hold the devices to have
  foreign,   \* history: devices changed by no job at work on them, and not heard since
  \* The coordinator.
  cache,     \* _observed: the links of every device read so far
  seen,      \* per device: never read, answering, or read once and lost
  rules,     \* the rules of the active profile
  enabled,   \* those that are enabled
  applied,   \* applied_rule_ids
  snap,      \* the last snapshot taken
  \* The runner.
  shut,      \* async_shutdown: not called, waiting for the job, returned
  phase,     \* where the apply is
  request,   \* what it was asked: scope, selection, desired state, plan
  stop,      \* _Job.stop
  toread,    \* devices _reread has still to read
  pc,        \* the device coroutines
  cur,       \* the link each is writing
  attempts, outcome, verified,   \* _Op, per link
  sent,      \* history: links handed to a backend in this job
  report,    \* the last finished job
  jobs, disturbances

world == <<table, copy, air, foreign>>
profile == <<rules, enabled>>
coordinator == <<cache, seen, applied, snap>>
ops == <<attempts, outcome, verified, sent>>
coroutines == <<pc, cur>>
job == <<phase, request, stop, toread, pc, cur, attempts, outcome, verified, sent>>
vars == <<table, copy, air, foreign, cache, seen, rules, enabled, applied, snap, shut, phase,
          request, stop, toread, pc, cur, attempts, outcome, verified, sent,
          report, jobs, disturbances>>

Seen == {"unread", "answering", "lost"}
Stops == {"none", "cancelled", "interrupted"}
Results == {"applied", "pending_wakeup", "failed", "blocked"}
Outcomes == Results \cup {"none", "stale_plan", "cancelled", "interrupted",
                          "unverified", "unconfirmed"}
Pcs == {"off", "queued", "call", "backoff", "verify", "done"}

(* Mutant of AppliedAtLeastOnce: only what was verified has been applied.  *)
AppliedAndVerified == {"applied"}

(* _SUCCESSFUL and _APPLIED_AT_LEAST_ONCE.  ALREADY_PRESENT is never told  *)
(* apart from APPLIED by this module, so one value stands for both.        *)
Successful == {"applied", "pending_wakeup"}
AppliedAtLeastOnce == {"applied", "unverified", "unconfirmed"}

----------------------------------------------------------------------------
(* The coordinator's answers.                                              *)

Managed == {l \in Links \ SystemLinks : RuleOf[l] \in rules}
(* Mutant of Desired: a rollback wants the enabled rules' links as well.   *)
DesiredToo(desired) ==
  {l \in Links : RuleOf[l] \in enabled} \cup (IF desired = Stored THEN {} ELSE desired)

Desired(desired) == IF desired = Stored THEN {l \in Links : RuleOf[l] \in enabled} ELSE desired

(* identities_in_scope: a device that does not answer is in no plan.       *)
InScope(answers, scope) ==
  {d \in Devices :
     /\ answers[d] = "answering"
     /\ d \in scope.devices
     /\ scope.rules # {} => \E l \in Of(d) : RuleOf[l] \in scope.rules \cap rules}

(* _narrowed_to_rules                                                      *)
KeptByScope(l, scope, selected) ==
  \/ scope.rules = {}
  \/ IF RuleOf[l] \in rules THEN RuleOf[l] \in scope.rules ELSE l \in selected

(* async_plan, of what the coordinator holds and which devices answer.  It *)
(* awaits nothing, so a plan is of one state.                              *)
PlanOf(holds, answers, scope, selected, desired) ==
  LET here == {l \in Links : SourceOf[l] \in InScope(answers, scope)}
      plan == BuildPlan(Desired(desired) \cap here, holds \cap here, Managed, selected)
  IN  [l \in Links |-> IF KeptByScope(l, scope, selected) THEN plan[l] ELSE "none"]

PlanNow(scope, selected, desired) == PlanOf(cache, seen, scope, selected, desired)

(* One group of a device may be there at several of its endpoints.         *)
SameSlot(k, l) == GroupOf[k] = GroupOf[l] /\ EndpointOf[k] = EndpointOf[l]

(* Mutant of IsSystem: only the system entry itself is out of bounds.      *)
IsSystemEntry(l, op) == op = "remove" /\ l \in SystemLinks

(* _is_system: an observed system entry, or, where a slot has one purpose, *)
(* any link of a slot that holds one.                                      *)
IsSystem(l, op) ==
  \/ op = "remove" /\ l \in SystemLinks
  \/ /\ SourceOf[l] \in SlotDevices
     /\ \E s \in cache \cap SystemLinks : SameSlot(s, l)

(* _refusal                                                                *)
Refused(l, op, selected) ==
  \/ IsSystem(l, op)
  \/ op = "blocked"
  \/ op = "remove" /\ l \notin Managed /\ l \notin selected

(* The writes of the running job on one device.                            *)
WriteOf(d) == request.writes \cap Of(d)

Rest(d) == {l \in WriteOf(d) : outcome[l] = "none" /\ attempts[l] = 0}

----------------------------------------------------------------------------
NoRequest == [scope |-> [rules |-> {}, devices |-> {}], selected |-> {},
              desired |-> Stored, op |-> [l \in Links |-> "none"], writes |-> {}]

NoJob ==
  /\ phase = "idle"
  /\ request = NoRequest
  /\ stop = "none"
  /\ toread = {}
  /\ pc = [d \in Devices |-> "off"]
  /\ cur = [d \in Devices |-> NoLink]
  /\ attempts = [l \in Links |-> 0]
  /\ outcome = [l \in Links |-> "none"]
  /\ verified = {}
  /\ sent = {}

(* After async_setup: every device that answered is in the cache, every    *)
(* other has never been read.                                              *)
Init ==
  /\ table \in InitialTables
  /\ seen \in [Devices -> {"unread", "answering"}]
  /\ copy = table
  /\ cache = {l \in table : seen[SourceOf[l]] = "answering"}
  /\ rules = Rules
  /\ enabled \in SUBSET Rules
  /\ applied = {}
  /\ snap = NoSnapshot
  /\ air = {} /\ foreign = {}
  /\ shut = "up"
  /\ NoJob
  /\ report = NoReport
  /\ jobs = 0 /\ disturbances = 0

----------------------------------------------------------------------------
(* _finish, and the finally of async_apply.  An operation nobody answered  *)
(* reads as failed.  Whose rule a link was is noted whether or not the     *)
(* rule is still there; no rule comes back with an id of old.  History:    *)
(* a report is flawless if this job and every job before it ended by       *)
(* itself with all of its plan applied.                                    *)
ReportOf(req, out, why, killed) ==
  [status |-> IF why # "none" THEN why
              ELSE IF \A l \in Links : req.op[l] # "none" => out[l] \in Successful
              THEN "completed" ELSE "partial",
   outcome |-> [l \in Links |-> IF req.op[l] # "none" /\ out[l] = "none"
                                THEN "failed" ELSE out[l]],
   op |-> req.op, verified |-> verified, attempts |-> attempts,
   sent |-> sent, killed |-> killed,
   flawless |-> /\ report = NoReport \/ report.flawless
                /\ ~killed /\ \A l \in Links : req.op[l] # "none" => out[l] = "applied"]

EndJob(out, why, killed) ==
  /\ report' = ReportOf(request, out, why, killed)
  /\ applied' = applied \cup
       {RuleOf[l] : l \in {k \in request.writes : /\ out[k] \in AppliedAtLeastOnce
                                                  /\ RuleOf[k] # NoRule}}
  /\ phase' = "idle"
  /\ request' = NoRequest
  /\ stop' = "none"
  /\ toread' = {}
  /\ pc' = [d \in Devices |-> "off"]
  /\ cur' = [d \in Devices |-> NoLink]
  /\ attempts' = [l \in Links |-> 0]
  /\ outcome' = [l \in Links |-> "none"]
  /\ verified' = {} /\ sent' = {}

----------------------------------------------------------------------------
(* async_apply.  A job that is running or a runner that is down raises     *)
(* instead, and no caller applies an empty plan.  What is refused is       *)
(* answered before anything is read; with nothing left to write there is   *)
(* no await at all and the job is over.                                    *)
StartJob(scope, selected, desired, op) ==
  LET refused == {l \in Links : op[l] # "none" /\ Refused(l, op[l], selected)}
      asked == [scope |-> scope, selected |-> selected, desired |-> desired,
                op |-> op, writes |-> Writes(op) \ refused]
      answers == [l \in Links |-> IF l \in refused THEN "blocked" ELSE "none"]
  IN
  /\ shut = "up"
  /\ phase = "idle"
  /\ jobs < MaxJobs
  /\ \E l \in Links : op[l] # "none"
  /\ jobs' = jobs + 1
  /\ \/ /\ asked.writes # {}
        /\ phase' = "reread"
        /\ request' = asked
        /\ outcome' = answers
        /\ toread' = {SourceOf[l] : l \in asked.writes}
        /\ UNCHANGED report
     \/ /\ asked.writes = {}
        /\ report' = ReportOf(asked, answers, "none", FALSE)
        /\ UNCHANGED <<phase, request, outcome, toread>>
  /\ UNCHANGED <<world, profile, coordinator, shut, stop, coroutines, attempts, verified,
                 sent, disturbances>>

(* The apply service, the WebSocket apply, the button, the select, a rule  *)
(* toggle: the stored profile, in some scope.                              *)
Apply(scope, selected) ==
  StartJob(scope, selected, Stored, PlanNow(scope, selected, Stored))

(* websocket._unmanaged_remove: that plan, cut down to the ticked removals *)
RemoveUnmanaged(selected) ==
  LET scope == [rules |-> {}, devices |-> Devices]
      plan == PlanNow(scope, selected, Stored)
      kept == {l \in selected : plan[l] = "remove"}
  IN  StartJob(scope, selected, Stored, [l \in Links |-> IF l \in kept THEN "remove" ELSE "none"])

(* websocket._snapshots_rollback: the managed links of a snapshot, on its  *)
(* devices.                                                                *)
Rollback(selected) ==
  /\ snap # NoSnapshot
  /\ LET scope == [rules |-> {}, devices |-> snap.devices] IN
     StartJob(scope, selected, snap.managed, PlanNow(scope, selected, snap.managed))

----------------------------------------------------------------------------
(* What the backend has wrong about device d, which a report would tell.   *)
Behind(d) == {l \in Of(d) : (l \in copy) # (l \in table)}

(* What it holds after some of that was heard: a deep read asks for all of *)
(* it and takes the first report for the answer, a shallow one asks for    *)
(* nothing, and either way any number of reports may have come by the time *)
(* it returns the copy.                                                    *)
CopyAfter(heard) == (copy \ heard) \cup (table \cap heard)

(* _read_device of one device that answers: what is found takes the place  *)
(* of what was known.                                                      *)
CacheAfter(d, found) == (cache \ Of(d)) \cup (found \cap Of(d))

(* And whether it answers: if not, what is known is kept and the device is *)
(* unavailable.                                                            *)
SeenAfter(d, answered) ==
  [seen EXCEPT ![d] = IF answered THEN "answering"
                      ELSE IF @ = "unread" THEN "unread" ELSE "lost"]

Answered(d, heard) ==
  /\ copy' = CopyAfter(heard)
  /\ cache' = CacheAfter(d, CopyAfter(heard))
  /\ seen' = SeenAfter(d, TRUE)
  /\ foreign' = IF heard = Behind(d) THEN foreign \ {d} ELSE foreign

Unanswered(d) ==
  /\ seen' = SeenAfter(d, FALSE)
  /\ UNCHANGED <<copy, cache, foreign>>

Read(d) == Unanswered(d) \/ \E heard \in SUBSET Behind(d) : Answered(d, heard)

(* _reread, one device of it; others are still to be read.                 *)
Reread(d) ==
  /\ phase = "reread"
  /\ d \in toread /\ toread # {d}
  /\ toread' = toread \ {d}
  /\ Read(d)
  /\ UNCHANGED <<table, air, profile, applied, snap, shut, phase, request, stop,
                 coroutines, ops, report, jobs, disturbances>>

(* Mutant of StaleDevices: the plan is trusted to be what it was.          *)
StaleNever(holds, answers) == {}

(* _stale_devices: the devices whose approved writes a plan made now would *)
(* not make, each on its own (E15).                                        *)
StaleDevices(holds, answers) ==
  LET fresh == PlanOf(holds, answers, request.scope, request.selected, request.desired)
  IN  {d \in Devices : \E l \in WriteOf(d) : fresh[l] # request.op[l]}

(* Mutant of SnapshotOf: a snapshot of what the rules manage.              *)
SnapshotOfManaged(holds, devices) ==
  LET links == {l \in holds \cap Managed : SourceOf[l] \in devices}
  IN  [devices |-> devices, links |-> links, managed |-> links]

(* _take_snapshot: everything the devices to be written to hold.           *)
SnapshotOf(holds, devices) ==
  LET links == {l \in holds : SourceOf[l] \in devices}
  IN  [devices |-> devices, links |-> links, managed |-> links \cap Managed]

(* The last re-read, and what follows it with no await between: staleness, *)
(* the marks, the snapshot, one coroutine per device that is left, or the  *)
(* end of a job with none.                                                 *)
Launch(d) ==
  /\ phase = "reread"
  /\ toread = {d}
  /\ Read(d)
  /\ LET stale == StaleDevices(cache', seen')
         live == {SourceOf[l] : l \in request.writes} \ stale
         covered == {e \in live : seen'[e] # "unread"}
         marked == [l \in Links |-> IF l \in request.writes /\ SourceOf[l] \in stale
                                    THEN "stale_plan" ELSE outcome[l]]
     IN
     /\ snap' = IF covered = {} THEN snap ELSE SnapshotOf(cache', covered)
     /\ \/ /\ live # {}
           /\ phase' = "work"
           /\ toread' = {}
           /\ outcome' = marked
           /\ pc' = [e \in Devices |-> IF e \in live THEN "queued" ELSE "off"]
           /\ UNCHANGED <<request, stop, cur, attempts, verified, sent, report, applied>>
        \/ live = {} /\ EndJob(marked, stop, FALSE)
  /\ UNCHANGED <<table, air, profile, shut, jobs, disturbances>>

----------------------------------------------------------------------------
(* _run_device.                                                            *)

(* Mutant of InFlight: a coroutine that is done keeps its place.           *)
InFlightForGood == {d \in Devices : pc[d] \in {"call", "backoff", "verify", "done"}}

InFlight == {d \in Devices : pc[d] \in {"call", "backoff", "verify"}}

(* Mutant of Proceed: the stop is not looked at between two writes.        *)
ProceedDeaf(d, out, left, flying) ==
  \/ \E l \in left :
       /\ IsFirst(request.op, left, l)
       /\ pc' = [pc EXCEPT ![d] = "call"]
       /\ cur' = [cur EXCEPT ![d] = l]
       /\ attempts' = [attempts EXCEPT ![l] = 1]
       /\ sent' = sent \cup {l}
       /\ air' = flying \cup {<<l, request.op[l]>>}
       /\ outcome' = out
  \/ /\ left = {}
     /\ outcome' = out
     /\ pc' = [pc EXCEPT ![d] = IF \E l \in WriteOf(d) : attempts[l] > 0 THEN "verify" ELSE "done"]
     /\ cur' = [cur EXCEPT ![d] = NoLink]
     /\ air' = flying
     /\ UNCHANGED <<attempts, sent>>

(* Mutant of Proceed: a device is verified only if a write of it succeeded.*)
ProceedVerifyingSuccess(d, out, left, flying) ==
  \/ /\ stop = "none"
     /\ \E l \in left :
          /\ IsFirst(request.op, left, l)
          /\ pc' = [pc EXCEPT ![d] = "call"]
          /\ cur' = [cur EXCEPT ![d] = l]
          /\ attempts' = [attempts EXCEPT ![l] = 1]
          /\ sent' = sent \cup {l}
          /\ air' = flying \cup {<<l, request.op[l]>>}
          /\ outcome' = out
  \/ /\ stop # "none" \/ left = {}
     /\ outcome' = [l \in Links |-> IF l \in left THEN stop ELSE out[l]]
     /\ pc' = [pc EXCEPT ![d] = IF \E l \in WriteOf(d) : out[l] = "applied" THEN "verify" ELSE "done"]
     /\ cur' = [cur EXCEPT ![d] = NoLink]
     /\ air' = flying
     /\ UNCHANGED <<attempts, sent>>

(* The loop of _write_all up to its next await: the next write of the plan *)
(* goes to the backend, or a stop answers all that is left, or the device  *)
(* is verified if anything at all was sent to it.                          *)
Proceed(d, out, left, flying) ==
  \/ /\ stop = "none"
     /\ \E l \in left :
          /\ IsFirst(request.op, left, l)
          /\ pc' = [pc EXCEPT ![d] = "call"]
          /\ cur' = [cur EXCEPT ![d] = l]
          /\ attempts' = [attempts EXCEPT ![l] = 1]
          /\ sent' = sent \cup {l}
          /\ air' = flying \cup {<<l, request.op[l]>>}
          /\ outcome' = out
  \/ /\ stop # "none" \/ left = {}
     /\ outcome' = [l \in Links |-> IF l \in left THEN stop ELSE out[l]]
     /\ pc' = [pc EXCEPT ![d] = IF \E l \in WriteOf(d) : attempts[l] > 0 THEN "verify" ELSE "done"]
     /\ cur' = [cur EXCEPT ![d] = NoLink]
     /\ air' = flying
     /\ UNCHANGED <<attempts, sent>>

(* The semaphore lets a coroutine in.                                      *)
Enter(d) ==
  /\ pc[d] = "queued"
  /\ Cardinality(InFlight) < MaxConcurrent
  /\ Proceed(d, outcome, Rest(d), air)
  /\ UNCHANGED <<table, copy, foreign, profile, coordinator, shut, phase, request, stop, toread,
                 verified, report, jobs, disturbances>>

(* The answer to a write, or its timeout: FAILED with attempts left waits  *)
(* out a backoff; anything else is the link's outcome and the loop goes on *)
Settle(d, result, flying) ==
  LET l == cur[d] IN
  \/ /\ result = "failed" /\ attempts[l] <= Retries
     /\ pc' = [pc EXCEPT ![d] = "backoff"]
     /\ air' = flying
     /\ UNCHANGED <<cur, attempts, sent, outcome>>
  \/ /\ result # "failed" \/ attempts[l] > Retries
     /\ Proceed(d, [outcome EXCEPT ![l] = result], Rest(d), flying)

Answer(d, result) ==
  /\ pc[d] = "call"
  /\ Settle(d, result, IF result = "pending_wakeup" THEN air
                       ELSE air \ {<<cur[d], request.op[cur[d]]>>})
  /\ UNCHANGED <<table, copy, foreign, profile, coordinator, shut, phase, request, stop, toread,
                 verified, report, jobs, disturbances>>

(* asyncio.timeout gave up on the call; nothing takes the command back.    *)
TimeOut(d) ==
  /\ pc[d] = "call"
  /\ Settle(d, "failed", air)
  /\ UNCHANGED <<table, copy, foreign, profile, coordinator, shut, phase, request, stop, toread,
                 verified, report, jobs, disturbances>>

(* Mutant of BackoffOver: a stop wakes nobody up.                          *)
BackoffDeaf(d) ==
  /\ pc[d] = "backoff" /\ stop = "none"
  /\ pc' = [pc EXCEPT ![d] = "call"]
  /\ attempts' = [attempts EXCEPT ![cur[d]] = @ + 1]
  /\ air' = air \cup {<<cur[d], request.op[cur[d]]>>}
  /\ UNCHANGED <<table, copy, foreign, profile, coordinator, shut, phase, request, stop, toread,
                 verified, report, jobs, disturbances, cur, sent, outcome>>

(* The backoff is seen through; a stop that came meanwhile leaves the last *)
(* result standing.                                                        *)
BackoffOver(d) ==
  /\ pc[d] = "backoff"
  /\ \/ /\ stop = "none"
        /\ pc' = [pc EXCEPT ![d] = "call"]
        /\ attempts' = [attempts EXCEPT ![cur[d]] = @ + 1]
        /\ air' = air \cup {<<cur[d], request.op[cur[d]]>>}
        /\ UNCHANGED <<cur, sent, outcome>>
     \/ /\ stop # "none"
        /\ Proceed(d, [outcome EXCEPT ![cur[d]] = "failed"], Rest(d), air)
  /\ UNCHANGED <<table, copy, foreign, profile, coordinator, shut, phase, request, stop, toread,
                 verified, report, jobs, disturbances>>

(* _verify, of the links the backend said are done.                        *)
Verifiable(d) == {l \in WriteOf(d) : outcome[l] = "applied"}

AsWanted(l, held) == (l \in held) = (request.op[l] = "add")

(* Mutant of Verify: when the device does not answer, the backend's word   *)
(* stands.                                                                 *)
VerifyTrusting(d) ==
  LET claimed == Verifiable(d) IN
  /\ pc[d] = "verify"
  /\ pc' = [pc EXCEPT ![d] = "done"]
  /\ \/ Unanswered(d) /\ UNCHANGED <<outcome, verified>>
     \/ /\ \E heard \in SUBSET Behind(d) : Answered(d, heard)
        /\ outcome' = [l \in Links |-> IF l \in claimed /\ ~AsWanted(l, cache')
                                       THEN "unverified" ELSE outcome[l]]
        /\ verified' = verified \cup {l \in claimed : AsWanted(l, cache')}
  /\ UNCHANGED <<table, air, profile, applied, snap, shut, phase, request, stop, toread, cur,
                 attempts, sent, report, jobs, disturbances>>

(* Mutant of Verify: any answer of the device confirms all of its writes.  *)
VerifyAnyAnswer(d) ==
  LET claimed == Verifiable(d) IN
  /\ pc[d] = "verify"
  /\ pc' = [pc EXCEPT ![d] = "done"]
  /\ \/ /\ Unanswered(d)
        /\ outcome' = [l \in Links |-> IF l \in claimed THEN "unconfirmed" ELSE outcome[l]]
        /\ UNCHANGED verified
     \/ \E heard \in SUBSET Behind(d), deep \in BOOLEAN :
        /\ Answered(d, heard)
        /\ outcome' = [l \in Links |-> IF l \in claimed /\ ~deep
                                       THEN "unconfirmed" ELSE outcome[l]]
        /\ verified' = verified \cup {l \in claimed : deep}
  /\ UNCHANGED <<table, air, profile, applied, snap, shut, phase, request, stop, toread, cur,
                 attempts, sent, report, jobs, disturbances>>

(* The deep read, and its judgement of every claim by what it returned:    *)
(* unconfirmed if the read failed, unverified if it does not show the link *)
(* as wanted, and only then does it matter whether a report came in time   *)
(* (deep), which says nothing of the values it was not about.              *)
Verify(d) ==
  LET claimed == Verifiable(d) IN
  /\ pc[d] = "verify"
  /\ pc' = [pc EXCEPT ![d] = "done"]
  /\ \/ /\ Unanswered(d)
        /\ outcome' = [l \in Links |-> IF l \in claimed THEN "unconfirmed" ELSE outcome[l]]
        /\ UNCHANGED verified
     \/ \E heard \in SUBSET Behind(d), deep \in BOOLEAN :
        /\ Answered(d, heard)
        /\ outcome' = [l \in Links |->
                         IF l \notin claimed THEN outcome[l]
                         ELSE IF ~AsWanted(l, cache') THEN "unverified"
                         ELSE IF ~deep THEN "unconfirmed" ELSE outcome[l]]
        /\ verified' = verified \cup {l \in claimed : deep /\ AsWanted(l, cache')}
  /\ UNCHANGED <<table, air, profile, applied, snap, shut, phase, request, stop, toread, cur,
                 attempts, sent, report, jobs, disturbances>>

----------------------------------------------------------------------------
(* gather has every coroutine back.                                        *)
Finish ==
  /\ phase = "work"
  /\ \A d \in Devices : pc[d] \in {"off", "done"}
  /\ EndJob(outcome, stop, FALSE)
  /\ UNCHANGED <<world, profile, cache, seen, snap, shut, jobs, disturbances>>

(* Mutant of FirstStop: the last to stop the job says why.                 *)
LastStop(why) == why

(* The task awaiting the apply is cancelled from outside: gather cancels   *)
(* the coroutines where they stand, what was never attempted is answered,  *)
(* and the job is recorded before the cancellation goes on.                *)
FirstStop(why) == IF stop = "none" THEN why ELSE stop

(* Mutant of NotAttempted: whatever has no answer was not attempted.       *)
NotAnswered == {l \in Links : request.op[l] # "none" /\ outcome[l] = "none"}

NotAttempted == {l \in Links : request.op[l] # "none" /\ outcome[l] = "none" /\ attempts[l] = 0}

TaskCancelled ==
  LET why == FirstStop("interrupted") IN
  /\ phase # "idle"
  /\ EndJob([l \in Links |-> IF l \in NotAttempted THEN why ELSE outcome[l]], why, TRUE)
  /\ UNCHANGED <<world, profile, cache, seen, snap, shut, jobs, disturbances>>

(* async_cancel                                                            *)
Cancel ==
  /\ phase # "idle"
  /\ stop' = FirstStop("cancelled")
  /\ UNCHANGED <<world, profile, coordinator, shut, phase, request, toread, coroutines, ops,
                 report, jobs, disturbances>>

(* Mutant of Shutdown: the flag and the stop, without the wait.            *)
ShutdownWithoutWaiting ==
  /\ shut = "up"
  /\ shut' = "down"
  /\ stop' = IF phase = "idle" THEN stop ELSE FirstStop("interrupted")
  /\ UNCHANGED <<world, profile, coordinator, phase, request, toread, coroutines, ops, report,
                 jobs, disturbances>>

(* async_shutdown: the flag, the stop, and the wait for job.finished.      *)
Shutdown ==
  /\ shut = "up"
  /\ shut' = IF phase = "idle" THEN "down" ELSE "stopping"
  /\ stop' = IF phase = "idle" THEN stop ELSE FirstStop("interrupted")
  /\ UNCHANGED <<world, profile, coordinator, phase, request, toread, coroutines, ops, report,
                 jobs, disturbances>>

ShutdownReturns ==
  /\ shut = "stopping"
  /\ phase = "idle"
  /\ shut' = "down"
  /\ UNCHANGED <<world, profile, coordinator, job, report, jobs, disturbances>>

----------------------------------------------------------------------------
(* Everybody else.                                                         *)

(* The device has changed link l, and the backend may hear of it or not (a *)
(* lost acknowledgement, another controller's doing).                      *)
Changed(l, now) ==
  /\ table' = now
  /\ copy' \in {copy, (copy \ {l}) \cup (now \cap {l})}

(* A command reaches the device.  Unless it is a write of the job at work  *)
(* on the device, this is a change nobody has been told to go and read.    *)
Land(l, op) ==
  /\ <<l, op>> \in air
  /\ air' = air \ {<<l, op>>}
  /\ Changed(l, IF op = "add" THEN table \cup {l} ELSE table \ {l})
  /\ foreign' = IF SourceOf[l] \in InFlight /\ l \in request.writes /\ request.op[l] = op
                THEN foreign ELSE foreign \cup {SourceOf[l]}
  /\ UNCHANGED <<profile, coordinator, shut, job, report, jobs, disturbances>>

(* Any other read of the device: an event, a verify service, a listing.    *)
Refresh(d) ==
  /\ disturbances < MaxDisturbances
  /\ disturbances' = disturbances + 1
  /\ Read(d)
  /\ UNCHANGED <<table, air, profile, applied, snap, shut, job, report, jobs>>

(* Somebody edits a device by hand; system entries stay as they are.       *)
EditDevice(l) ==
  /\ disturbances < MaxDisturbances
  /\ l \notin SystemLinks
  /\ disturbances' = disturbances + 1
  /\ Changed(l, IF l \in table THEN table \ {l} ELSE table \cup {l})
  /\ foreign' = foreign \cup {SourceOf[l]}
  /\ UNCHANGED <<air, profile, coordinator, shut, job, report, jobs>>

(* A rule is switched on or off, or deleted.                               *)
EditRule(r) ==
  /\ disturbances < MaxDisturbances
  /\ r \in rules
  /\ disturbances' = disturbances + 1
  /\ \/ /\ enabled' = IF r \in enabled THEN enabled \ {r} ELSE enabled \cup {r}
        /\ UNCHANGED rules
     \/ /\ rules' = rules \ {r}
        /\ enabled' = enabled \ {r}
  /\ UNCHANGED <<world, coordinator, shut, job, report, jobs>>

----------------------------------------------------------------------------
Requests ==
  \E selected \in Selections :
     \/ \E scope \in Scopes : Apply(scope, selected)
     \/ RemoveUnmanaged(selected)
     \/ Rollback(selected)

Device(d) ==
  \/ Enter(d)
  \/ \E result \in Results : Answer(d, result)
  \/ TimeOut(d)
  \/ BackoffOver(d)
  \/ Verify(d)

Runner ==
  \/ \E d \in Devices : Reread(d) \/ Launch(d) \/ Device(d)
  \/ Finish
  \/ ShutdownReturns

Others ==
  \/ TaskCancelled
  \/ Cancel
  \/ Shutdown
  \/ \E l \in Links, op \in WriteOps : Land(l, op)
  \/ \E d \in Devices : Refresh(d)
  \/ \E l \in Links : EditDevice(l)
  \/ \E r \in Rules : EditRule(r)

Next == Requests \/ Runner \/ Others

Spec == Init /\ [][Next]_vars

(* The event loop runs what is ready, every call is bounded by             *)
(* OPERATION_TIMEOUT_SECONDS, every sleep ends, and a read of a device     *)
(* answers or fails (the clients under the backends time out).             *)
Fairness ==
  /\ \A d \in Devices : WF_vars(Reread(d) \/ Launch(d)) /\ WF_vars(Device(d))
  /\ WF_vars(Finish) /\ WF_vars(ShutdownReturns)

FairSpec == Spec /\ Fairness

----------------------------------------------------------------------------
(* coordinator._rule_state                                                 *)
LinksOf(r) == {l \in Links : RuleOf[l] = r}

RuleState(r) ==
  IF r \notin enabled THEN "disabled"
  ELSE IF \E d \in DevicesOf[r] : seen[d] # "answering" THEN "unknown"
  ELSE IF LinksOf(r) = {} THEN "blocked"
  ELSE IF \A l \in LinksOf(r) : l \in cache /\ seen[SourceOf[l]] = "answering" THEN "in_sync"
  ELSE IF r \in applied THEN "drift" ELSE "pending"

----------------------------------------------------------------------------
(* Types.                                                                  *)

ScopeType == [rules : SUBSET Rules, devices : SUBSET Devices]
RequestType == [scope : ScopeType, selected : SUBSET Links,
                desired : {Stored} \cup SUBSET Links,
                op : [Links -> PlanOps], writes : SUBSET Links]
SnapshotType == [devices : SUBSET Devices, links : SUBSET Links, managed : SUBSET Links]
ReportType == [status : {"completed", "partial", "cancelled", "interrupted"},
               outcome : [Links -> Outcomes], op : [Links -> PlanOps],
               verified : SUBSET Links, attempts : [Links -> 0..Retries + 1],
               sent : SUBSET Links, killed : BOOLEAN, flawless : BOOLEAN]

ASSUME ReportAssumption == NoReport \notin ReportType

TypeOK ==
  /\ table \in SUBSET Links /\ copy \in SUBSET Links
  /\ air \in SUBSET (Links \X WriteOps)
  /\ foreign \in SUBSET Devices
  /\ cache \in SUBSET Links
  /\ seen \in [Devices -> Seen]
  /\ rules \in SUBSET Rules
  /\ enabled \in SUBSET Rules
  /\ applied \in SUBSET Rules
  /\ snap \in SnapshotType \cup {NoSnapshot}
  /\ shut \in {"up", "stopping", "down"}
  /\ phase \in {"idle", "reread", "work"}
  /\ request \in RequestType
  /\ stop \in Stops
  /\ toread \in SUBSET Devices
  /\ pc \in [Devices -> Pcs]
  /\ cur \in [Devices -> Links \cup {NoLink}]
  /\ attempts \in [Links -> 0..Retries + 1]
  /\ outcome \in [Links -> Outcomes]
  /\ verified \in SUBSET Links
  /\ sent \in SUBSET Links
  /\ report \in ReportType \cup {NoReport}
  /\ jobs \in 0..MaxJobs
  /\ disturbances \in 0..MaxDisturbances

----------------------------------------------------------------------------
(* Safety.                                                                 *)

(* "cancelled" and "interrupted" mean that nothing reached the device, and *)
(* mean only that (executor.py, "Cancel stops"), however the stop raced    *)
(* the writes, the backoffs and the wait for the semaphore.                *)
StoppedMeansUntouched ==
  report # NoReport =>
    \A l \in Links : report.outcome[l] \in {"cancelled", "interrupted"} => l \notin report.sent

(* One job has one reason for stopping: its status and the answers of the  *)
(* links it did not attempt agree, whatever stops came after the first     *)
(* (_stop, "first writer wins").                                           *)
StopsAgree ==
  report # NoReport =>
    \A l \in Links :
      report.outcome[l] \in {"cancelled", "interrupted"} => report.outcome[l] = report.status

(* A job that ended by itself calls a link applied only if the verify read *)
(* confirmed it, and fails it only after every retry or a stop (E13, E14). *)
AnswersAreEarned ==
  (report # NoReport /\ ~report.killed) =>
    \A l \in Links :
      /\ report.outcome[l] = "applied" => l \in report.verified
      /\ (report.outcome[l] = "failed" /\ report.status \in {"completed", "partial"}) =>
            report.attempts[l] = Retries + 1

(* The snapshot can undo every write of the job: what is removed is in it, *)
(* what is added is not, and its device is one it covers (_take_snapshot). *)
SnapshotCoversWrites ==
  \A l \in sent :
    /\ snap # NoSnapshot
    /\ SourceOf[l] \in snap.devices
    /\ (l \in snap.links) = (request.op[l] = "remove")

(* No write goes into a slot that holds a system entry where a slot has    *)
(* one purpose, and no system entry is removed anywhere (_is_system).      *)
SystemSlotsUntouched ==
  \A l \in sent :
    /\ request.op[l] = "remove" => l \notin SystemLinks
    /\ SourceOf[l] \in SlotDevices =>
         \A s \in table \cap SystemLinks : ~SameSlot(s, l)

(* Once the unload's wait has returned there is no job, so no coroutine is *)
(* left to write through a backend that is being torn down (E17).          *)
QuietAfterShutdown == shut = "down" => phase = "idle"

(* Actions.                                                                *)

(* When the writes begin, each of them is one the rules and the devices,   *)
(* as just read, still ask for: a link is removed only if it is there, is  *)
(* not wanted and is ours or ticked; it is added only if it is wanted and  *)
(* missing (E15).                                                          *)
StillApproved ==
  [][(phase = "reread" /\ phase' = "work") =>
       \A l \in request.writes :
         outcome'[l] = "none" =>
           IF request.op[l] = "remove"
           THEN l \in cache' /\ l \notin Desired(request.desired)
                /\ (l \in Managed \/ l \in request.selected)
           ELSE l \notin cache' /\ l \in Desired(request.desired)]_vars

(* A verify read may answer from a copy the device has not confirmed, and  *)
(* still it calls no link verified that the device does not hold as the    *)
(* plan wants it, unless somebody else has changed the device and it has   *)
(* not been heard since: the job writes only what the copy, as re-read,    *)
(* does not have yet, so the copy can show it only after the device did    *)
(* (_reread, _stale_devices, _verify).                                     *)
VerifiedIsHeld ==
  [][\A l \in verified' \ verified :
       SourceOf[l] \notin foreign' => AsWanted(l, table)]_vars

(* A job that ends by itself leaves the cache with all that the backends   *)
(* know of every device it sent anything to that still answers and that    *)
(* nobody else has changed - also when every write failed but one landed   *)
(* (executor.py, "the verify read is the cache update") - and what it      *)
(* reports as applied is in the cache as it is on the device.              *)
CacheAgreesAtEnd ==
  [][(phase # "idle" /\ phase' = "idle" /\ ~report'.killed) =>
       \A l \in Links :
         (/\ SourceOf[l] \in {SourceOf[k] : k \in sent} \ foreign'
          /\ seen'[SourceOf[l]] = "answering") =>
            /\ (l \in cache') = (l \in copy')
            /\ report'.outcome[l] = "applied" => (l \in cache') = (l \in table')]_vars

(* A link that was written and did not stick puts its rule into drift, not *)
(* back to pending and not in sync (E14).                                  *)
UnverifiedIsDrift ==
  [][(phase # "idle" /\ phase' = "idle") =>
       \A l \in Links \ cache' :
         (report'.outcome[l] = "unverified" /\ RuleOf[l] \in rules') =>
            RuleState(RuleOf[l])' \in {"drift", "disabled", "unknown"}]_vars

(* After jobs that had all of their plans applied, and with nobody else at *)
(* work, a rollback that has all of its plan applied leaves on its devices *)
(* every managed link of the snapshot and no managed link besides          *)
(* (websocket._build_rollback, "a restore of that moment").                *)
RollbackRestores ==
  [][(/\ phase = "work" /\ phase' = "idle"
      /\ request.desired # Stored /\ report'.flawless /\ disturbances = 0) =>
       \A d \in request.scope.devices :
         seen[d] = "answering" =>
           /\ request.desired \cap Of(d) \subseteq table
           /\ table \cap Managed \cap Of(d) \subseteq request.desired]_vars

----------------------------------------------------------------------------
(* Liveness.                                                               *)

(* Every job ends: no device is left waiting for the semaphore, no backoff *)
(* or retry goes on for ever.                                              *)
JobEnds == (phase # "idle") ~> (phase = "idle")

(* An unload that waits for a job gets its answer.                         *)
ShutdownEnds == (shut = "stopping") ~> (shut = "down")

=============================================================================
