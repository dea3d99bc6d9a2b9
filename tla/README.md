# Device Links, specified

TLA+ modules, TLC runs and TLAPS proofs for the Home Assistant integration in
`custom_components/device_links`. It turns rules ("this button controls those lights") into
associations and bindings stored on Z-Wave, Zigbee and Matter devices, and keeps them there.

Everything below is translated from the Python under `src/custom_components/device_links`
(paths are relative to it). `PROJECT.json` maps each definition to the lines it stands for.

## The system

Home Assistant runs one thread: two pieces of this code can only interleave where one of
them awaits. What is hard is therefore what happens *between* awaits, over networks that
lose, delay and contradict what they are told.

| Part | State it keeps | Operations | What it talks to |
|---|---|---|---|
| **Planner** (`planner.py`) | none | `build_plan`: removals, adds, blocked adds, in the order they are sent | called by the coordinator |
| **Coordinator** (`coordinator.py`) | observed devices, which of them answer, who owns a link, applied rules, stored profile; pending events, timer, holds | plan, rule state, read, relist, hold, flush, shutdown | backends (reads, events), store, entities |
| **Job runner** (`executor.py`) | the one running job and its operations | apply, cancel, shutdown | coordinator (plan, read, hold, applied rules), backends (writes) |
| **Rule toggle limiter** (`rule_toggle.py`) | cooldowns, pending and executed state per rule | request, cooldown elapsed, shutdown | coordinator, runner; switches, services and panel call it |
| **Z-Wave** (`backends/zwave.py`) | subscriptions; the driver's cache and queue behind it | check, add, remove, read, deep verify | Z-Wave JS |
| **Zigbee** (`backends/zigbee2mqtt.py`) | the bridge's retained state, requests under way, one stale mark | bind, unbind, managed groups, read | Zigbee2MQTT over MQTT |
| **Matter** (`backends/matter.py`) | none between calls | bindings and access control lists, read, changed, written back | Matter server |
| **Hybrid legs** (`hybrid.py`) | running legs, wanted and written indications, restore values | start, retire, react, indicate | events, services, backends |
| **Storage, YAML mirror** (`storage.py`, `yaml_mirror.py`) | stored state, delayed save, last written text | load, save, mirror | Home Assistant's store, files |
| **Compiler, loops, swap** (`compiler.py`, `loops.py`, `swap.py`) | none | pure functions of rules and capabilities | coordinator, WebSocket API |
| **Bus events, repairs** (`events.py`, `repairs.py`) | the rules reported as drifting | called after every read and job | rule states, history of jobs |
| **WebSocket API, services, entities, diagnostics, panel** | almost none | call the above, display it | users |

What makes each part correct, and which behaviour is hard:

* **Planner.** Carried out, a plan leaves nothing of anybody else's touched and nothing
  overfull at any moment, and needs no second plan. Hard: groups at their capacity.
* **Job runner.** A link called cancelled was never sent; one called applied was seen; what
  is written is still wanted when it is written; a snapshot can undo it; an unload waits for
  it. Hard: cancel, unload and cancellation of the task against retries, backoffs, late
  answers and a semaphore.
* **Coordinator's cache.** No event is lost, nothing that is there is forgotten, a device a
  job is at work on is left alone. Hard: overlapping reads, two debounces in a row, holds.
* **Toggle limiter.** The last request wins, the switch shows it, a device is not worn out.
  Hard: requests during the write of an earlier one; timers that overwrite each other.
* **Backends.** What is called applied is there, what is called verified was read. Hard:
  late responses, bindings that take several requests (Zigbee), a list that is read, changed
  and written back (Matter), a cache and a queue that others write to (Z-Wave).
* **Hybrid.** The button shows the last wanted state, and gets its own back at the end.
  Hard: a slow write overtaken by a newer wish.
* **Storage.** Every edit that was confirmed survives whatever is not a crash, and the
  mirror's files say what is stored. Hard: delayed saves, reloads, overlapping flushes.
* **Compiler, loops, swap.** Nothing that was asked for is left out in silence; exactly the
  loops are found; a swap says what it loses before it stores anything.
* **Events and repairs.** Every drift is announced, once; an issue ends with its cause.

The full list of hazards, each at its line and with the properties that cover it, is in
`PROJECT.json`.

## The modules

| Module | Models | Extends |
|---|---|---|
| `Planner` | `planner.build_plan` as operators on sets of links | |
| `PlanWalk` | carrying a plan out, one write at a time | `Planner` |
| `JobRunner` | `executor.JobRunner` with the coordinator's plan, cache and rule states | `Planner` |
| `ApplyContract` | what a caller may count on: one request, answers that are never taken back, one end | |
| `ApplyRefinement` | the refinement mapping from `JobRunner` to `ApplyContract` | `JobRunner` |
| `DeviceCache` | the coordinator's cache behind one backend, with reads in three steps | |
| `RuleToggle` | `rule_toggle.RuleToggleLimiter` | |
| `Zigbee`, `Matter`, `ZWave` | the three backends over their networks | |
| `Hybrid` | the legs of `hybrid.HybridLegs` that light a button | |
| `Storage` | the store, the coordinator's edits, the mirror and the entry's life | |
| `Compiler` | `compiler.compile_rule` as operators | |
| `Compilation` | one compilation and what has to be accounted for | `Compiler` |
| `Swap` | `swap.propose` and the commands that preview and apply a swap | `Compiler` |
| `Loops` | `loops.find_loops`, its search frame by frame | |
| `Reports` | drift events and the issue about waiting writes | |
| `JobRunnerProofs`, `JobRunnerAnswers`, `JobRunnerWrites` | theorems: the runner's types and stops; its answers, drift and contract; what it writes, what its cache says and what a rollback puts back | `JobRunner`, each the one before; `ApplyRefinement` |
| `CoordinatorProofs` | theorems about the cache and the toggle limiter | `DeviceCache`, `RuleToggle` |
| `RuleProofs` | theorems about the compiler, the swap, the plan and the loop search | `Compilation`, `Swap`, `PlanWalk`, `Loops` |
| `ZigbeeProofs` | theorems about the Zigbee adapter | `Zigbee` |
| `BackendProofs` | theorems about the Z-Wave and the Matter adapter | `ZWave`, `Matter` |
| `PartsProofs` | theorems about the store and its mirror, the legs, the events and issues | `Storage`, `Hybrid`, `Reports` |
| `MC...` | constants for TLC; `MCCoordinator` and `MCParts` put several modules in one run | |

### Planner, PlanWalk

A link is its fingerprint: a member of `Links` with a device (`SourceOf`), a slot of that
device's table (`GroupOf`) and a rank (the order of fingerprints). `Capacity`, `SystemLinks`,
and the three sets a plan is made from (wanted, present, managed) are all the algorithm looks
at. Removals come before adds on each device, each in rank order. An add is blocked when the
entries that survive and the adds before it fill its group.

`PlanWalk` picks any wanted, present, managed and selected sets and writes the plan one link
at a time.

### JobRunner

| Variables | Code |
|---|---|
| `table`, `air` | the devices' tables; commands that may still land (external) |
| `copy` | what the backends hold the devices to have: the driver's values, the bridge's state |
| `cache`, `seen` | `_observed`, and `_unavailable` / never read |
| `rules`, `enabled`, `applied`, `snap` | the active profile, `applied_rule_ids`, the last snapshot |
| `shut` | `JobRunner._shutdown` and whether `async_shutdown` has returned |
| `phase`, `request`, `toread`, `stop` | where `_run` is, the `_Job`, its `stop` |
| `pc`, `cur` | one `_run_device` coroutine per device |
| `attempts`, `outcome`, `verified` | `_Op` |
| `foreign`, `sent` | history: what properties refer to |

An action is the code between two awaits. `StartJob` is `async_apply` down to the first
re-read; `Reread` and `Launch` are `_resolve_devices`, `_stale_devices`, `_take_snapshot` and
the gather; `Enter`, `Answer`, `TimeOut`, `BackoffOver`, `Verify` are the device coroutine;
`Finish` and `TaskCancelled` the two ends. A write goes on the air with the call and lands
(`Land`) any time before its answer, after it, or never. The answer may be any result the
backends return, true or not.

A read returns what the backend holds, which is not the truth. `copy` lags behind `table`: a
change of a device is heard of when it happens or not (`Changed`), and a read that answers may
have heard any part of what was missed (`Behind`, `CopyAfter`), from nothing, as a shallow read
or one of a sleeping node does, to all of it. A deep verify that ends at the first report says
`deep` all the same (`zwave.py:213-263`), so `deep` says nothing of the values. `cache` is the
coordinator's copy of that copy (`CacheAfter`). What is assumed of a backend is that its copy
changes only with what the device told it, so that a copy that shows a link shows one that was
there (`zwave.py:188-190`). `foreign` names the devices that somebody else changed, or a command
nobody waits for, and that were not heard in full since: there the copy may show what is gone,
and there verified need not mean held (the finding of `zwave_verify` below).

`IsSystem` compares slots by group and endpoint (`SameSlot`); `EndpointOf` is a constant.

Reads are one step in this module. `DeviceCache` shows what that leaves out: a flush that was
already reading when the job took its hold can land an older answer during the job.

### DeviceCache

`truth` counts the changes of a device, `cache` holds the version last read. A task that
reads (a flush, a relist, an explicit refresh) asks a device (`at`), the answer is fixed
(`Sample`, `got`) and lands later (`Land`), and the task goes on with its next device in the
same step, because the code does not await in between (`Go`). `window` is the Z-Wave
listener's leading-edge debounce, `timer` the coordinator's. `held` is the coordinator's
counter and `holding` what the jobs really hold. `watched` are the nodes of the day the
listener was registered. A device without a handle is passed over in its turn of a flush, where
the code leaves it out at the start; neither reads it.

### RuleToggle

The runner is reduced to what a caller sees: at most one job, a second request refused at
once. So only one toggle can ever be waiting for its job (`job`), and everything else a
request or an elapsed cooldown does is one step. `cooldown` holds the timer the limiter can
still cancel; `timer` holds those that really run. A job ends with the cooldown begun
(`JobEnds`), or the task that waits for it is cancelled and the cancellation goes past the
call that would begin it (`CallerCancelled`), its links written or not. `excepted` is history:
the rules that were toggled during their own write or lost a cooldown that way.

### Zigbee

`air` is the network, `copy` what the bridge has retained and delivered of it, `calls` the
requests published and not carried out, `stream` the bridge's messages on their way, `work`
one coroutine per device. A write is a chain of requests (create a group, join it, bind it;
leave it, drop it), and between two of them anybody may go on. A write is refused, found to
be there already, or begun in the order of `_write`: what no binding can be, what is there,
what would do nothing. The bridge carries a request
out or refuses it; a request may time out before or after it was carried out; the retained
state comes before the answer or after it (`stateFirst`, by version of the bridge). `stale`
is the one flag that `_state_stale` is, shared by all requests. A coroutine goes on in the step
that delivers its answer; in the code it goes on in the event loop's next round, so a message
that was read from the socket together with the answer comes first there.

### Matter

`bindings` and `acl` are what the nodes hold, `writer` one coroutine per source node with the
list it has read (`list`, `before`). A link is added by a grant in the target's access
control list and then an entry in the source's binding list; removed in the other order.
Between reading a list and writing it back other coroutines write theirs. The operations on
lists (`IsManagedGrant`, narrow, merge, drop) are `matter_protocol`'s.

### ZWave

`held` is what the nodes hold, `copied` the driver's copy, `queue` the driver's commands per
node, which wait while it sleeps. `refreshing` are the values a deep verify asked for and
that have not been reported. The callers are the runner and the raw services, which share
nothing but the driver. `CheckAnswers`, the answers of the driver's check, are its numbers, so
that an unknown one is handled as the code handles it.

### Hybrid

One record per leg: `wanted`, `written`, the second's rate limit (`recent`, `armed`), the
`original` to put back, and `tasks`, the queue of the button's lock. Functions that do not
await are operators from record to record.

### Storage

`state` is the coordinator's, `unsaved` and `saving` are per *store*, because a reload makes
a new store while the delayed save of the old one is still scheduled. `file` is the JSON,
`mirrored` the YAML files. `wish` is history: the last edit that was confirmed.

### Compiler, Compilation, Swap, Loops

`Compile(rule, capabilities)` is the record of links, legs, settings, warnings and errors that
`compile_rule` returns. `Compilation` takes one rule and states what must be accounted for.
`Swap` uses the same operator for proposals and ownership; the coordinator's cache is taken
to be the tables, and a job writes in one step. `changed` are the addresses where some rule records another
model; storing a swap takes the mark off the replacement unless a rule that named it before
keeps its old record (`ChangedAfter`). `Loops` is Tarjan's search as the code has
it, with its explicit stack of frames. How far a frame has got through its successors is kept
as the set of those it has taken, and it takes the smallest that is left (`Untaken`), which is
the order the code sorts them in. The property compares the result with the definition of a
strongly connected component, by sets that nothing relayed leaves.

### Reports

Rules with one link each on battery devices. A job and a read are one step; both call the
listeners, so drift (`reported`) and the issues are recomputed after each. `jobs` is the
history with its limit, `queuedAt` says since when the driver has really held the write.

## The runs

| Run | Question | States |
|---|---|---|
| `one_device` | one apply, of everything or of one rule, against edits, other reads, losses, late landings and stale copies: staleness, snapshot, verify, cache | 2.6 M |
| `two_devices` | two devices, one place in the semaphore, a retry each, every race of stops; does everything end? | 403 k |
| `two_jobs` | an apply and then another or a rollback, next to a lifeline slot; does the runner keep its contract? | 1.25 M |
| `coordinator` | the cache: events, holds, flushes, relists, joins and leaves; the limiter: bursts for two rules, cancelled callers | 220 k |
| `parts` | ten parts, each with its own question (below) | 496 k |
| `cache_lost_change` | *violation*: does every change reach the cache? | |
| `cache_held_read` | *violation*: does a flush never read a held device? | |
| `toggle_rate` | *violation*: is a rule written at most once per interval? | |
| `matter_grant` | *violation*: does a removal leave the grant of another control? | |
| `storage_reload` | *violation*: does only a crash lose an edit? | |
| `zwave_verify` | *violation*: does a verified read show the truth? | |
| `reports_wake` | *violation*: does the issue close when the device wakes? | |

`CHECK_DEADLOCK FALSE` in all of them: every behaviour is cut off by a bound, and a system in
which nobody asks for anything rightly does nothing.

**Several parts in one run.** Parts that share no state are checked in one run: a variable
says whose behaviour this is, and the others rest in one of their initial states. Nothing is
multiplied, and nothing of a part is restricted. `parts` checks, per part:

| Part | Property | Says |
|---|---|---|
| plan | `NeverOverfull`, `Converged`, `OthersUntouched` | every write fits, one plan is enough, nobody else's link is touched |
| compile | `NothingDroppedInSilence` | every feature asked for is carried to every target, there and back, or that feature, target or opt-in is mentioned; but for `LeftOut` (below) |
| loops | `LoopsExact` | the loops found are the strongly connected components, with their rules |
| swap | `NoLossUnsaid`, `OldLetGo` | a swap that was not called lossy leaves a one-way rule without opt-ins all its features at all its targets; the rules let go of the old device |
| zigbee | `PromisesKept`, `AnswersAreTheirOwn`, `VerifiedShowsWrite` | what is called applied is bound, by its own requests; a verified read shows it |
| matter | `KeptLinksAllowed`, `BindingFollowsGrant` | a link that was written may be used; no binding before its grant was read back |
| zwave | `AnswersHold` | what was answered about an association is so |
| legs | `ButtonFollows`, `ButtonPutBack` | a button at rest shows its light; a retired one shows what its owner had |
| storage | `EditsKept`, `MirrorKnows` | no edit is lost but by a crash or a hurried unload; the mirror believes only what it wrote |
| reports | `NothingUnsaid` | every drifting rule was announced, and every write that waits too long has an issue while the job that queued it is in the history |
| all | `PartsTypeOK` | the types, and the bounds of tables, queues and histories |

**Bounds, and why they are enough.** *Links:* three or four on one device give a group at its
limit with one of each kind (ours, ours and disabled, somebody else's, a lifeline).
*Devices:* the device coroutines share only the semaphore, the stop, and the report, so two
devices with one place show every interaction. *Retries:* the retry loop is the same at each
attempt; one retry passes through the backoff, none keeps `one_device` small. `MaxJobs` is 2
only where the second job says something about the first (rollback, a refinement's second
request). `MaxDisturbances` limits edits and reads by others: one is enough to make a plan
stale, and the staleness check compares plans, not histories. In `DeviceCache` three
disturbances allow two changes under a hold, or two relists around a departure; two tasks are
the least that can overlap. `RuleToggle` needs three timers: two for one rule and one for the
other.

In `parts`: *compile* has every rule of two sources, up to two of five targets (a device that
is gone, one of long range, the source itself, with and without endpoint) and every
combination of features and opt-ins: the compiler looks at targets one by one or counts
whether there is more than one. *loops*: four relays give two components with an edge
between, in every order of the search. *swap*: three steps are preview, a change by somebody
else, apply. *zigbee* (`MaxTrouble = 3`): a device with two links on one control, one of them
shared with a group, and one link back; three is two writes and one mishap, or one write and
two. *matter* (`MaxMishaps = 4`): two switches, one lamp with two endpoints, tables of two:
two controls of one switch for one target, a full list, an entry nobody may touch. *zwave*
(`Room = 1`, two calls, two changes by others): two associations that want the same place,
one with an endpoint and one without; answers 0, 1 and 5 of the check are an unknown one, OK and
one that forbids. *legs* (`MaxEvents = 5`): on, retire, on again, with changes between.
*storage*: two set-ups, two edits, two profiles. *reports*: a history of two of up to three
jobs, so that one is trimmed, and an hour more than the issue's delay.

In the violation runs everything that is not needed is switched off, so that the
counterexample has one cause.

**Fairness.** Weak fairness of each device coroutine, of the job's own steps, of timers and
of reads. The event loop runs what is ready; a write is bounded by
`OPERATION_TIMEOUT_SECONDS`; a backoff is a sleep; a read answers or raises because the
clients under the backends time out (the runner has no timeout of its own there, which is
listed as a hazard). Nothing is assumed of users, devices or the network, and none of
their actions is fair. The backends, the legs and the store are checked for safety only:
what they must eventually do hangs on devices that may never answer.

**What the properties leave out, on purpose.** A few name circumstances the code does not
guard against, so that they say what holds outside them: `PromisesKept` excludes a request that
was carried out after its timeout, two devices' writes that meet in one managed group, and an
entry that is set up with requests of an earlier set-up still out; `AnswersAreTheirOwn` a
reload with requests out; `VerifiedShowsWrite` writes that overlap and a bridge that answers
first; `KeptLinksAllowed` two coroutines on one access control list; `ButtonFollows` a wish
overtaken by a slow write and `ButtonPutBack` a leg retired under its first write;
`MirrorKnows` and `EditsKept` what the findings below show; `AnswersHold` an answer read off a
copy of the driver's that is out of date; `VerifiedIsHeld` and `CacheAgreesAtEnd` devices that
somebody else changed and that were not heard in full since; `RateLimitedInTurn` rules that were
toggled, or whose waiting task was cancelled, during their own write. `NothingDroppedInSilence`
names one thing the compiler does drop in silence (`LeftOut`): what is not on/off of a source
that is its own target. `NoLossUnsaid` is about one-way rules without opt-ins: that a two-way
rule loses its way back is a warning of the compiler (`compiler.py:350-358`), which
`swap.py:111-113` does not count as a loss. `NothingUnsaid` is about writes whose job is still in
the history. Each exclusion of a circumstance is a history variable that is set only
by that circumstance.

## What is proved

TLAPS proves, for every set of devices, links, rules and every bound:

| Theorem | Statement |
|---|---|
| `NothingOfOthers`, `NoGroupOverfull`, `SecondPlanIsEmpty` | a plan touches nothing of others, never overfills a group, and leaves nothing to a second plan |
| `TypeCorrect` | `Spec => []TypeOK` of the runner |
| `StoppedLinksUntouched`, `OneReasonForStopping`, `ShutdownIsFinal` | a stopped link was never sent; one reason per job; nothing runs after the unload's wait |
| `WritesStillApproved`, `SnapshotUndoesWrites`, `VerifiedWasSeen` | what is written is still wanted; the snapshot covers it; what is verified is held by the device, from whatever copy the read answers, unless somebody else changed it unheard |
| `AnswersEarned` | applied means verified, failed means every retry was used |
| `CacheIsRead` | when a job ends, the cache has what the backends know of each device it sent anything to, and what it reports applied as on the device, or somebody else changed it |
| `DriftAfterUnverified` | a rule one of whose links did not stick is among those that drift |
| `RollbackPutsBack` | after jobs that went well, a rollback that goes well leaves on its devices the managed links of the snapshot and no others, for any number of jobs |
| `SystemSlotsKept` | if no rule asks for a system entry: no job and no rollback writes into a slot that has one, nor removes one |
| `RunnerKeepsContract` | the runner implements `ApplyContract` |
| `CacheTyped`, `HeldChangesWait`, `WaitingIsArmed`, `NothingAfterShutdown`, `NothingThereIsForgotten` | the cache: types; a held device's change stays pending; what waits has a timer; no timer after the shutdown; no listing forgets what is there |
| `ToggleTyped`, `NothingWaitsForEver`, `SwitchShowsRequest`, `RateKeptInTurn` | the toggle limiter: types; a coalesced request has a timer that will execute it; a switch shows the last request; one write per interval unless a rule is toggled, or its waiting task cancelled, during its own write |
| `AppliedWasCarriedOut` | Zigbee: what a write calls applied rests on its own requests, which the bridge carried out |
| `PromisesAreKept` | Zigbee: a link called applied or present is carried by the network until its removal is asked for (outside the exclusions above) |
| `VerifiedReadsAreTrue` | Zigbee: a read that is said to be verified shows the link as it is, for a device that had the bridge to itself from its write on |
| `AnswersAreTrue` | Z-Wave: the last answer about an association is so, until a hand or a command nobody waits for changes it |
| `KeptStayAllowed`, `NeverBoundBeforeAllowed` | Matter: a link that was applied stays allowed by its target; no binding is added before its target lets the source in |
| `EditsAreKept`, `MirrorIsRight` | no edit is lost but by a crash or an unload within the save's delay; what the mirror believes to have written is what its files say |
| `ButtonShowsLight`, `ButtonLeftAsFound` | a leg with nothing left to send shows its light; a leg turned off left its button as it found it |
| `AllIsSaid` | every rule that drifts was announced, and a device whose write waits past the limit is named while the job that queued it is in the history |
| `NothingDropped` | of every enabled rule, every feature reaches every target and back, or a warning or an error names that feature, target or opt-in; but for `LeftOut` |
| `LossIsSaid`, `OldIsLetGo` | a swap stored without accepting a loss leaves one-way rules without opt-ins every feature at every target; no rule refers to the old device afterwards |
| `LoopsFound` | the loop search returns exactly the groups of two or more devices that reach one another, each with its rules, for any finite set of devices |
| `WalkTyped`, `SwapTyped`, `LoopsTyped`, `StoreTyped`, `LegsTyped`, `ReportsTyped`, `ZigbeeAdapterTyped`, `MatterAdapterTyped`, `ZWaveTyped` | the type invariant of each part of the run `parts` |

The assumptions are `LinkAssumption`, `FiniteLinks`, `RunnerAssumption` and `ReportAssumption`
for planner and runner, `CacheAssumption` for the cache, `ToggleAssumption` for the limiter,
and the assumption named in the module of each other part; the runs over these modules
evaluate all of them. They say that constants have their types, that the links have distinct
ranks (the planner sorts them), that sets are finite, that the marker values are no data
(`ReportAssumption`: no report is the value that stands for none), and that what has different
names is different: nodes, coordinator and groups of a Zigbee network (`ZigbeeAssumption`), the
three features of a link (`FeatureAssumption`). `CompilationAssumption` and `SwapAssumption` take
the rules as `Rule.__post_init__` lets them through, with a source, a target and a feature.
`SystemSlotsKept` has a hypothesis of its own, `NoRuleOfSystem`: no rule compiles to a system
entry (a lifeline group is no control of a rule, and the bridge's coordinator no target).
`TypeCorrect`, `CacheTyped`, `ToggleTyped`, `WaitingIsArmed` and `NothingAfterShutdown` are
proved and in no run; of the type invariants of the parts a run checks the conjunction,
`PartsTypeOK`, and each conjunct is a theorem.

*The inductive invariants.* `WalkInv` (in `RuleProofs`) says that the tables are what
they were, less what was removed and with what was added (`HoldsDone`), and that what is
done precedes, on its device, what is not (`InTurn`). The room for an add needs both: when
an add is next, the device's removals are done, and the adds done in its group are among
those the planner counted before it. `SecondPlanIsEmpty` is then counting: of the adds that
went before a blocked one, each was made and takes room in the table, or is itself blocked
and counted again.

`TypeInv` (in `JobRunnerProofs`) adds to the types that a
coroutine inside a call or a backoff has a current link among the writes of its device
(`CursorOK`), that the writes of a request are its adds and removes (`WritesOK`), and that an
idle runner has nothing left over (`AtRest`). Without `CursorOK` an answer could be recorded
for no link; without `AtRest` a new job would start from the last one's outcomes.
`StoppedMeansUntouched` speaks of the report, so its invariant carries the same fact for the
running job: what was sent has been attempted, and only what was not attempted is marked
stopped. `SnapshotCoversWrites` needs that from `Launch` on the live writes are those a plan
of the cache at that moment would make, which is the same plan the snapshot was taken from.
`AnswersAreEarned` needs, per device coroutine, which links may still be unanswered or
applied and not verified at each program counter.

`SystemSlotsUntouched` compares a write with the devices' tables, while `_is_system` looked at
the cache when the job was asked for. `SlotInv` bridges the time between: the cache has the
system entries of every device that was ever read (`SystemKnown`), none is on the air or in a
snapshot's managed links, and the writes of the job stay clear of them (`WritesClear`).

`KeepsContract` is a step simulation: a request is `Begin` or `Refuse`, the loop's hand-over
`Touch`, the three ends `Close`, the stops `Stop`, `GoDown` and `Down`, everything else
stutters. That the report is exact needs `SentInv`: a link has an attempt if and only if it was
handed over, and every outcome tells which of the two it was (`Tells`). The only operations a
report finds unanswered are those a cancelled task left on the air, and these were attempted.

`HeldStaysPending` needs that the coordinator's counter is the number of jobs that hold the
device (`HoldsCounted`), since `_held` is only a counter; `KeepsWhatIsThere` that the listing
a relist has taken contains every device that was there before it and still is (`RollInv`);
that the reads of a task go on in the order of the identities rests on the order being
well-founded (`FirstIsIn`).

`WaitsForATimer` is not inductive: overlapping requests leave timers the limiter has lost
the handle of, and any of them may elapse first. `CooldownRuns` (a handle names a running
timer of its own rule) and `PendingCools` (who waits has a handle) are what survives that.
`ShowsLastRequest` needs `ExecutedStored` (what was last executed is what is stored): a
cooldown that ends with the executed state pending writes nothing and still shows it.
`RateLimitedInTurn` rests on `RateOK`, for each rule that is not `excepted`: its
only timer is the one the limiter knows, none runs during the write, and what is left of it
with the ticks since the write began makes up the interval.

`AnswersAreTheirOwn` needs, as long as no backend object was started with requests of another
still out, that every request is of the present object (`OwnCalls`), that every "ok" in the
stream is of a request that was carried out (`TrueStream`), and that a coroutine has asked
nothing else that was not carried out but what it waits for (`AskedInTurn`). `EditsKept` needs
that of all stores only the coordinator's has anything left to write (`OneWriter`) and that the
newest of its unsaved state, its running save and the file is the last edit (`NewestIsWish`);
with no entry, the file is (`FileIsWish`). `AnswersHold` is inductive with its types.

`CacheAgreesAtEnd` needs that the cache is the backends' copy of every device the job is through
with for now (read in the re-read, waiting for a place, or verified), if the device answers and
nobody else changed it (`FreshInv`, of `CacheIsCopy`). Neither is the device's table. That what
is verified is held all the same is `EarnedInv`: of a device nobody else changed, whatever
separates copy and table is a write of the present job that landed unheard, so for a write of the
job the copy can show it as wanted only if the device does (`CopyEarned`), and what a verify
read has confirmed stays known as it is (`VerifiedTrue`). It rests on the plan: the job writes only what the
cache, as just re-read, does not have as wanted, and until it is written neither has the copy.
`UnverifiedIsDrift` spans two steps that are far apart,
the answer and the end of the job; `SentInv` bridges them: only what was sent can be marked
unverified (`Tells`), so the end of the job counts its rule among those that were applied.

`RollbackRestores` is claimed of a rollback all of whose plan was applied, after jobs of which
that is true as well (`flawless`, a history of the reports), with nobody else at work. It is not
true without the earlier jobs: a write that one of them gave up on may still land between the
rollback's plan and its re-read, and the staleness check compares only what was approved, so a
link the plan had no reason to touch is not looked at again. `RestoreInv` says what holds as
long as nothing has gone wrong (`Undisturbed`): what is on the air is in the hand of a coroutine
(`AirInHand`), so no command of an earlier job is left; the cache shows every device that answers
and is not being written to (`CacheTrue`), and the copy is behind of nothing but writes in the works
(`CopyTrue`); whatever separates a device from the snapshot is in
the plan (`Restoring`); and what a verify read confirmed is still so (`Confirmed`). TLC checked
it for two jobs on the network of `two_jobs` and, within `Undisturbed`, for three jobs there and
on two devices with a ticked unmanaged link.

`PromisesKept` is the longest argument. The adapter decides by a copy of the network that
lags behind, so the invariant `PromiseInv` relates the network to every list of it that is
still on its way: what a list does not show yet is accounted for by a coroutine whose answer
is further back (`BoundShown`, `MembersShown`), and since the bridge publishes its lists before
the answer (`StateFirst`), the copy is right about what was asked for when the answer is
read. Requests, answers and coroutines go by number (`Numbered`), a request is what the
coroutine of its number waits for (`Asked`), nobody else is at work in a managed group that
somebody is at work in (`Apart`), a group about to be dropped is empty and seen to be
(`DroppedEmpty`), and what is asked for spares every link that was promised (`Spares`), so that
what is promised is kept whatever is carried out next (`Kept`). TLC checked `PromiseInv` on
three networks (two shared groups, a foreign group, the network of `parts`) before it was
proved, and it corrected the model's exclusions: writes also meet when one goes through the
managed group that another one's control is bound to.

`VerifiedShowsWrite` needs no exclusion but its own. `ViewInv` says that the newest list of each
topic, read or still on its way, shows the network (`UpToDate`), and that of a device that had
the bridge to itself at most one request is out: with a bridge that publishes first, nothing
is on its way any more once the answer was read (`AnswersLast`); with one that answers first,
what it publishes of a single request may be, and then `_state_stale` is still raised, so the
read waits for it (`AnswersFirst`). TLC checked it on the same three networks.

`KeptLinksAllowed` needs that a list about to be written back still says what the device says of
every target nobody else writes to. `MirrorKnows` (`MirrorInv`) needs that a flush which outlived
its entry implies that the next mirror has written nothing yet. `ButtonFollows` needs that what a
leg wants is taken, or is the last write in its queue (`LastSays`). `ButtonPutBack` needs that
what the owner had is shown, or has been read, or is about to be put back (`PutsBack`), and
that nothing of an earlier life of the leg stands behind a write of this one (`InLine`).
`NothingUnsaid` needs that the jobs which spoke of a write since it was queued are all waits
(`QueuedTold`), and that the issues are those the history makes at the present hour
(`IssuesCurrent`). `NoLossUnsaid` and `OldLetGo` need little of the state (`SwapInv`:
rules stay rules, and who answers is known) and much of the compiler: a one-way rule without
opt-ins that compiles without an error, and of whose features each made some link, has every
feature at every target (`FullyLinked`). `NothingDropped` has no invariant: it is a lemma for
each part of what `Compile` returns (`TakenAccounted`, `AskedAccounted`, `SelfAccounted`,
`BackAccounted`).

`LoopsFound` is Tarjan's argument without a path in it. That one device reaches another is said
by the sets that nothing passed on leaves (`Reaches`), which needs no induction along a path.
`LoopsInv` says what the numbers, the lows and the trail mean between two steps of the search:
the trail is in the order of the numbers (`InOrder`); what is off the trail is finished and
leads only to what is finished, and what is on it without a frame has had all its successors
numbered (`Explored`); a device on the trail reaches every later one, and a frame not later than
itself (`Joined`); a low is the number of a device on the trail that its frame reaches
(`LowTrue`), and no edge taken so far from what a frame covers leads to an earlier device than
its low (`LowEnough`). So when a frame is left with its low at its own number, what lies above
it on the trail is closed but for finished devices, and all of it reaches all of it: one
component, no more and no less. Between a successor's being turned to and its being numbered
the invariant holds of the walk without the new frame (`Descending`). TLC checked `LoopsInv` on
the questions of `parts` before it was proved.

The type invariants need more than types where a value is used later in the place of another
type. A caller of the Z-Wave driver has an entry and a node exactly at the steps that use them
(`CallsOK`), since otherwise a queue could get a command for nobody. A Zigbee request fits its
step (`CallFits`) and a coroutine's step its link (`WorkFits`): a group is joined only for a link
between two devices, never by the coordinator or by a group, or the bridge would carry out what
makes no network (`CarriedIsNetwork`); that is why refusals come before the first request. A
swap's jobs are of devices there are because a plan keeps to those that answer (`PlanReaches`).

Only model-checked:

* `JobEnds`, `ShutdownEnds`, `EveryToldChangeIsRead`, `LastRequestWins`: liveness, which is
  outside what the prover does.
* `PartsTypeOK`, as the conjunction over the parts that share the run; its conjuncts are proved
  one by one.

## What disagrees with the documentation

Seven runs end in a violation of something the repository says of itself; `findings` in
`PROJECT.json` quotes the sentences.

1. `cache_lost_change`: an event let through just before a flush opens a two-second window
   in the adapter, after the flush has read the device; a change inside it is lost.
2. `cache_held_read`: a flush looks at the holds once and then awaits one read per device; a
   job that starts meanwhile finds its device being read.
3. `toggle_rate`: the cooldown begins when the apply is over; a request during the apply
   starts a timer of its own, and the two timers then let a rule be written twice at once.
   A timer whose handle was overwritten is also not cancelled by the shutdown.
4. `matter_grant`: a grant is given to a node, a link belongs to an endpoint; taking one
   control's link away takes the grant from another control of the same switch.
5. `storage_reload`: an unload does not save; a reload within ten seconds of an edit loads
   the state before it.
6. `zwave_verify`: a deep verify ends at the first of several reports, and calls what the
   others would have said verified.
7. `reports_wake`: the issue about a waiting write reads the history of jobs, in which a
   write that landed on waking leaves no trace.

Observed while modelling, in the modules' states and in no run of their own:

* *Runner.* An apply whose task is cancelled during a write ends without the read that
  `executor.py:37-39` promises for every attempted device.
* *Zigbee.* A two-way rule with a managed group binds a device to a group it is a member of.
  Removing one of two links that share a binding removes both. `_state_stale` is one flag,
  lowered by any republication, refusal or timeout. A group whose members are judged by an
  old copy may be left empty and bound. Transactions count from one again after a reload.
* *Matter.* Two coroutines on one target's list can lose one of two grants. A write that ends
  blocked after its grant leaves the grant. A binding that is there already is answered for
  without a look at its grant.
* *Hybrid.* A wish equal to the last written value is not sent while an older write is on its
  way (the docstring near line 576 says "the last state is never the one that was dropped").
  A leg retired under its first write can leave the button lit.
* *Storage.* Without an active profile the mirror removes no file. An edit and its opposite
  during one flush leave the mirror behind until the next edit. `applied_rule_ids` is never
  pruned.
* *Compiler.* A rule that names its own source as a target and opts into `self_load` has every
  other feature dropped at that target, and nobody is told (`compiler.py:242-258`, `471-498`): a
  rule for on/off and dimming is saved and dims everything but the source itself.
* *Limiter.* A toggle whose waiting task is cancelled starts no cooldown (`rule_toggle.py:94-95`),
  so the next one is written at once; `executor.py:554-562` foresees such a cancellation.
* *Swap.* A two-way rule whose replacement has no control for the way back is not lossy. Storing the rules can change the plan, and then nothing is written although the
  rules are stored (`websocket.py:1494-1504` says so). A device a relist has forgotten has no
  links to move, and other devices' links to it stay. A rule whose feature a hybrid leg has
  taken over is reported as losing it.
* *Z-Wave.* A removal is answered "already so" while an addition of the same entry is queued.
  A write waited for at a node that has just fallen asleep has no limit of the adapter's own.
* *Reports.* A rule whose device falls silent while it drifts is announced a second time.
  Enabling or editing an applied rule is announced as drift until its apply. A rule whose
  only result is "pending wakeup" never counts as applied, so it never drifts. A trimmed
  history forgets since when a write waits.

## Not modelled

* The legs that fire a service call (`on_only`, `off_only`, `self_load`): they keep no state.
* Z-Wave configuration parameters, descriptions of groups, parsing of the bridges' device
  lists, capabilities and views: what devices can do is a constant of the modules.
* Entities, sensors, diagnostics, serialisation, forms, the profile database, import and
  export, the panel and the developer tools: they decide nothing that changes a device.
* The order in which Home Assistant unloads platforms, and a platform that fails to unload.
* More than one backend in one cache, and more than one config entry.

## What is left

1. A composition of the unload: toggles, legs, runner, events, coordinator.
2. The runner over a backend's own module instead of any answer at all.
