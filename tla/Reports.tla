------------------------------ MODULE Reports ------------------------------
(***************************************************************************)
(* What the integration says unasked: the bus event about drift            *)
(* (events.py) and the repair issue about writes that wait for a sleeping  *)
(* device (repairs.py), over the rule states and the history of jobs that  *)
(* the coordinator keeps for them.                                         *)
(*                                                                         *)
(* A rule has one link, on a battery device.  A job and a read are one     *)
(* step each (JobRunner and DeviceCache are about theirs); both end in     *)
(* _resolve_ownership, and so with every listener called.                  *)
(***************************************************************************)
EXTENDS Integers, Sequences, FiniteSets

CONSTANTS
  Sleepers,       \* battery devices
  Wishes,         \* rules of the active profile
  WishDevice,     \* [Wishes -> Sleepers]
  HistoryLength,  \* MAX_JOBS
  Overdue,        \* PENDING_WAKEUP_AFTER
  Never,          \* no time, nothing queued
  MaxHours, MaxHistory, MaxTurns  \* bounds: hours, jobs, everything else

ASSUME ReportsAssumption ==
  /\ WishDevice \in [Wishes -> Sleepers]
  /\ HistoryLength \in Nat \ {0} /\ Overdue \in Nat /\ Never \notin Nat
  /\ MaxHours \in Nat /\ MaxHistory \in Nat /\ MaxTurns \in Nat

VARIABLES
  present,      \* the links on the devices
  lastRead,     \* the links the coordinator has read
  silent,       \* _unavailable
  dozing,       \* devices that are asleep
  queued,       \* what the driver holds for the link of each rule
  ruled,        \* rules that are there, and those of them that are enabled
  switchedOn,
  applied,      \* applied_rule_ids
  jobs,         \* the history: when, and what was said of each link it was about
  reported,     \* _reported_drift
  issues,       \* devices with the issue pending_wakeup
  announced,    \* history: rules an event told of since they were last not drifting
  queuedAt,     \* history: since when the driver has held a write for the link
  hour, turns, finished

reportsVars == <<present, lastRead, silent, dozing, queued, ruled, switchedOn, applied,
                 jobs, reported, issues, announced, queuedAt, hour, turns, finished>>

OnDevice(d) == {r \in Wishes : WishDevice[r] = d}
IsPresentNow(r) == r \in lastRead /\ WishDevice[r] \notin silent

(* _rule_state: drift, and nothing milder.                                 *)
Drifted(on, seen, mute, noted) ==
  {r \in on : WishDevice[r] \notin mute /\ r \notin seen /\ r \in noted}

(* pending_link_fingerprints: the last job that says anything of a link.   *)
Said(history, r) == {i \in DOMAIN history : r \in DOMAIN history[i].results}
IsPending(history, r) ==
  \E i \in Said(history, r) :
    /\ \A j \in Said(history, r) : j <= i
    /\ history[i].results[r] = "pending_wakeup"

(* Mutant of PendingSince: the last job that queued the write dates it.    *)
PendingSinceLast(history, r) ==
  history[CHOOSE i \in Said(history, r) : \A j \in Said(history, r) : j <= i].at

(* _pending_since: the first job of the run the last one is in.            *)
PendingSince(history, r) ==
  history[CHOOSE i \in Said(history, r) :
            /\ \A j \in Said(history, r) : j >= i => history[j].results[r] = "pending_wakeup"
            /\ \A k \in Said(history, r) : k < i =>
                 \E j \in Said(history, r) : /\ k <= j /\ j < i
                                             /\ history[j].results[r] # "pending_wakeup"].at

(* _pending_wakeups: a device is named while the last that was said of the *)
(* link of a rule that is there is that it waits, and it is long since.    *)
PendingWakeups(history, rules, now) ==
  {WishDevice[r] : r \in {q \in rules : /\ IsPending(history, q)
                                        /\ now - PendingSince(history, q) > Overdue}}

(* Mutant of CheckDrift: what was reported once is not reported again.     *)
CheckDriftOnce(drifting) ==
  /\ reported' = reported \cup drifting
  /\ announced' = (announced \cap drifting) \cup (drifting \ reported)

(* _async_check_drift: an event for the rules that drift and did not.      *)
CheckDrift(drifting) ==
  /\ reported' = drifting
  /\ announced' = (announced \cap drifting) \cup (drifting \ reported)

(* async_update_listeners, with everything else in its new state.          *)
UpdateListeners ==
  /\ CheckDrift(Drifted(switchedOn', lastRead', silent', applied'))
  /\ issues' = PendingWakeups(jobs', ruled', hour')

(* Some time after the setup, when the listeners have been called.         *)
ReportsInit ==
  /\ present \in SUBSET Wishes /\ lastRead = present
  /\ silent = {} /\ dozing = {}
  /\ queued = [r \in Wishes |-> Never]
  /\ ruled = Wishes /\ switchedOn \in SUBSET ruled
  /\ applied \in {{}, Wishes}
  /\ jobs = <<>>
  /\ reported = Drifted(switchedOn, lastRead, silent, applied) /\ announced = reported
  /\ issues = {}
  /\ queuedAt = [r \in Wishes |-> Never]
  /\ hour = 0 /\ turns = 0 /\ finished = 0

Turns == turns < MaxTurns /\ turns' = turns + 1

----------------------------------------------------------------------------
(* What a job says of a link, "unverified" if the read after it disagrees. *)
Outcomes == {"applied", "unverified", "failed", "pending_wakeup"}

(* A job for one device: adds what enabled rules want and the device has   *)
(* not, removes what rules own and do not want.                            *)
PlannedFor(d) ==
  {r \in ruled \cap OnDevice(d) : IsPresentNow(r) # (r \in switchedOn) /\ d \notin silent}

(* Mutant of WithJob: nothing is ever dropped from the history.            *)
WithJobUntrimmed(history, job) == Append(history, job)

(* with_job. *)
WithJob(history, job) ==
  IF Len(history) < HistoryLength THEN Append(history, job) ELSE Append(Tail(history), job)

(* JobRunner._finish, after the verify read of a device that is awake.  A  *)
(* sleeping one takes every write into the driver's queue.                 *)
JobFinished(d) ==
  LET items == PlannedFor(d)
      pending == IF d \in dozing THEN items ELSE {}
  IN
  /\ finished < MaxHistory /\ finished' = finished + 1
  /\ items # {}
  /\ \E said \in [items -> Outcomes] :
       LET done == {r \in items : said[r] = "applied"} IN
       /\ \A r \in items : r \in pending <=> said[r] = "pending_wakeup"
       /\ present' = (present \ (done \ switchedOn)) \cup (done \cap switchedOn)
       /\ lastRead' = IF d \in dozing THEN lastRead
                      ELSE (lastRead \ OnDevice(d)) \cup (present' \cap OnDevice(d))
       /\ jobs' = WithJob(jobs, [at |-> hour, results |-> said])
       /\ applied' = applied \cup {r \in items : said[r] \in {"applied", "unverified"}}
  /\ queued' = [r \in Wishes |-> IF r \notin pending THEN queued[r]
                                 ELSE IF r \in switchedOn THEN "add" ELSE "remove"]
  /\ queuedAt' = [r \in Wishes |-> IF r \in pending /\ queuedAt[r] = Never THEN hour
                                   ELSE queuedAt[r]]
  /\ UNCHANGED <<silent, dozing, ruled, switchedOn, hour, turns>>
  /\ UpdateListeners

(* Any read of a device: after an event of it, or because it was asked for.*)
ReadDevice(d) ==
  /\ Turns
  /\ \/ /\ lastRead' = (lastRead \ OnDevice(d)) \cup (present \cap OnDevice(d))
        /\ silent' = silent \ {d}
     \/ /\ silent' = silent \cup {d}
        /\ UNCHANGED lastRead
  /\ UNCHANGED <<present, dozing, queued, ruled, switchedOn, applied, jobs, queuedAt, hour,
                 finished>>
  /\ UpdateListeners

(* async_set_rule_enabled, and a rule deleted (async_update_state).        *)
EnableRule(r) ==
  /\ Turns /\ r \in ruled
  /\ switchedOn' = IF r \in switchedOn THEN switchedOn \ {r} ELSE switchedOn \cup {r}
  /\ UNCHANGED <<present, lastRead, silent, dozing, queued, ruled, applied, jobs, queuedAt,
                 hour, finished>>
  /\ UpdateListeners

DeleteRule(r) ==
  /\ Turns /\ r \in ruled
  /\ ruled' = ruled \ {r} /\ switchedOn' = switchedOn \ {r}
  /\ UNCHANGED <<present, lastRead, silent, dozing, queued, applied, jobs, queuedAt, hour,
                 finished>>
  /\ UpdateListeners

(* RECHECK_INTERVAL: the repairs look again; nobody else does.             *)
HourPasses ==
  /\ hour < MaxHours /\ hour' = hour + 1
  /\ issues' = PendingWakeups(jobs, ruled, hour')
  /\ UNCHANGED <<present, lastRead, silent, dozing, queued, ruled, switchedOn, applied,
                 jobs, reported, announced, queuedAt, turns, finished>>

----------------------------------------------------------------------------
(* A device falls asleep, or wakes and takes what was queued for it.       *)
SleepOrWakes(d) ==
  LET landing(op) == {r \in OnDevice(d) : queued[r] = op}
      woken == d \in dozing
  IN
  /\ Turns
  /\ dozing' = IF woken THEN dozing \ {d} ELSE dozing \cup {d}
  /\ present' = IF woken THEN (present \cup landing("add")) \ landing("remove") ELSE present
  /\ queued' = [r \in Wishes |-> IF WishDevice[r] = d /\ woken THEN Never ELSE queued[r]]
  /\ queuedAt' = [r \in Wishes |-> IF WishDevice[r] = d /\ woken THEN Never ELSE queuedAt[r]]
  /\ UNCHANGED <<lastRead, silent, ruled, switchedOn, applied, jobs, reported, issues,
                 announced, hour, finished>>

(* Somebody else takes a link off a device that is awake.                  *)
LinkLost(r) ==
  /\ Turns /\ r \in present /\ WishDevice[r] \notin dozing
  /\ present' = present \ {r}
  /\ UNCHANGED <<lastRead, silent, dozing, queued, ruled, switchedOn, applied, jobs,
                 reported, issues, announced, queuedAt, hour, finished>>

ReportsNext ==
  \/ HourPasses
  \/ \E d \in Sleepers : JobFinished(d) \/ ReadDevice(d) \/ SleepOrWakes(d)
  \/ \E r \in Wishes : EnableRule(r) \/ DeleteRule(r) \/ LinkLost(r)

ReportsSpec == ReportsInit /\ [][ReportsNext]_reportsVars

----------------------------------------------------------------------------
ReportsTypeOK ==
  /\ present \subseteq Wishes /\ lastRead \subseteq Wishes /\ applied \subseteq Wishes
  /\ ruled \subseteq Wishes /\ switchedOn \subseteq ruled
  /\ silent \subseteq Sleepers /\ dozing \subseteq Sleepers /\ issues \subseteq Sleepers
  /\ queued \in [Wishes -> {Never, "add", "remove"}]
  /\ queuedAt \in [Wishes -> 0..MaxHours \cup {Never}]
  /\ Len(jobs) <= HistoryLength
  /\ reported \subseteq Wishes /\ announced \subseteq Wishes
  /\ hour \in 0..MaxHours /\ turns \in 0..MaxTurns /\ finished \in 0..MaxHistory

(* A rule that drifts was told of since it last did not (events.py, "so    *)
(* the next failure is reported").                                         *)
DriftTold == Drifted(switchedOn, lastRead, silent, applied) \subseteq announced

(* A write of a rule that the driver has held for longer than a day has    *)
(* its device named, however often it was applied again, as long as the    *)
(* history reaches back to the job that queued it (_pending_since).        *)
OverdueNamed ==
  \A r \in ruled :
    /\ queuedAt[r] # Never /\ hour - queuedAt[r] > Overdue
    /\ \E i \in DOMAIN jobs : jobs[i].at = queuedAt[r] /\ r \in DOMAIN jobs[i].results
    => WishDevice[r] \in issues

(* Nothing the two are there to say is left unsaid.                        *)
NothingUnsaid == DriftTold /\ OverdueNamed

(* E5: the issue "closes on wake".  A device that is named has a write     *)
(* waiting for it, or has changed since it was read.                       *)
ClosesOnWake ==
  \A d \in issues : \E r \in OnDevice(d) :
    queued[r] # Never \/ (r \in present) # (r \in lastRead)
=============================================================================
