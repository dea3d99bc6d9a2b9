---------------------------- MODULE DeviceCache ----------------------------
(***************************************************************************)
(* coordinator.DeviceLinksCoordinator as a cache of one backend's devices: *)
(* what was last read of each, the events that say a device is worth       *)
(* reading again, the debounce in front of them, the holds of a running    *)
(* job, and the tasks that read.                                           *)
(*                                                                         *)
(* JobRunner takes a read for one step.  Here it is three: a task asks a   *)
(* device, the device's answer is fixed at some moment, and the answer     *)
(* reaches the cache at a later one, with anything in between.             *)
(*                                                                         *)
(* In front of the coordinator is the Z-Wave adapter's listener, which     *)
(* lets the first event of a device through and swallows the others of the *)
(* next Window ticks.  Matter and Zigbee have no such window: Window = 0.  *)
(***************************************************************************)
EXTENDS Integers, FiniteSets

CONSTANTS
  Devices,
  Order,          \* [Devices -> Nat], injective: how identities sort
  Tasks,          \* bound: flushes, listings and reads in flight at once
  Networks,       \* the devices there may be at setup
  Holders,        \* jobs that may hold devices
  Window,         \* DEFAULT_DEBOUNCE_SECONDS of the Z-Wave listener, in ticks
  Debounce,       \* REFRESH_DEBOUNCE_SECONDS, in ticks
  Unset,
  MaxDisturbances, \* bound: changes, joins, leaves, holds, reads and relists together
  MaxFailures     \* bound: reads and listings that get no or an empty answer

ASSUME CacheAssumption ==
  /\ Order \in [Devices -> Nat]
  /\ \A d, e \in Devices : Order[d] = Order[e] => d = e
  /\ IsFiniteSet(Devices) /\ IsFiniteSet(Holders)
  /\ Networks \subseteq SUBSET Devices
  /\ Window \in Nat /\ Debounce \in Nat
  /\ Unset \notin Devices /\ Unset \notin Int
  /\ MaxDisturbances \in Nat /\ MaxFailures \in Nat

VARIABLES
  \* The network, as the driver knows it.
  network,    \* the devices on it
  truth,      \* how often each has changed: the version of what it holds
  \* The adapter's listener.
  watched,    \* devices whose events it was registered for at setup
  window,     \* ticks for which it still swallows each device's events
  \* The coordinator.
  listening,  \* not shut down
  known,      \* _handles
  cache,      \* _observed: the version last read
  unavailable,
  unread,     \* _pending
  flushTimer, \* _flush_handle: the ticks left, or None
  held,       \* _held
  \* The tasks that read.
  kind, todo, at, got, roll,
  \* The jobs that hold.
  holding,
  owed,       \* history: devices the coordinator was told of and no flush has asked since
  disturbances, failures

outside == <<network, truth, watched, window>>
debounce == <<unread, flushTimer, owed>>
holds == <<held, holding>>
store == <<known, cache, unavailable>>
tasks == <<kind, todo, at, got, roll>>
bounds == <<disturbances, failures>>
cacheVars == <<network, truth, watched, window, listening, known, cache, unavailable, unread,
               flushTimer, held, kind, todo, at, got, roll, holding, owed, disturbances, failures>>

Versions == 0..MaxDisturbances
Kinds == {"off", "flush", "listing", "relist", "read"}

Held == {d \in Devices : held[d] > 0}

----------------------------------------------------------------------------
(* async_setup has read every device once; those that did not answer are   *)
(* known and not cached.                                                   *)
CacheInit ==
  /\ network \in Networks
  /\ truth = [d \in Devices |-> 0]
  /\ watched = network
  /\ window = [d \in Devices |-> 0]
  /\ listening = TRUE
  /\ known = network
  /\ unavailable \in SUBSET network
  /\ cache = [d \in Devices |-> IF d \in network \ unavailable THEN 0 ELSE Unset]
  /\ unread = {}
  /\ flushTimer = Unset
  /\ held = [d \in Devices |-> 0]
  /\ kind = [t \in Tasks |-> "off"]
  /\ todo = [t \in Tasks |-> {}]
  /\ at = [t \in Tasks |-> Unset]
  /\ got = [t \in Tasks |-> Unset]
  /\ roll = [t \in Tasks |-> {}]
  /\ holding = [h \in Holders |-> {}]
  /\ owed = {}
  /\ disturbances = 0 /\ failures = 0

----------------------------------------------------------------------------
(* A task that starts is one that is not running; which, means nothing.    *)
Starts(t) == kind[t] = "off" /\ t = CHOOSE u \in Tasks : kind[u] = "off"

(* Events, the timer and the holds.                                        *)

(* _arm_flush: the timer, given what is pending and held.                  *)
ArmedFor(toRead, holders, running) ==
  IF running # Unset \/ \A d \in toRead : holders[d] > 0 THEN running ELSE Debounce

(* A device changes, and the driver emits the event of it.  The listener   *)
(* swallows it inside the device's window, and hands it to _device_changed *)
(* otherwise.                                                              *)
Change(d) ==
  /\ d \in network
  /\ disturbances < MaxDisturbances
  /\ disturbances' = disturbances + 1
  /\ truth' = [truth EXCEPT ![d] = @ + 1]
  /\ IF listening /\ d \in watched /\ window[d] = 0
     THEN /\ window' = [window EXCEPT ![d] = Window]
          /\ unread' = unread \cup {d}
          /\ flushTimer' = ArmedFor(unread', held, flushTimer)
          /\ owed' = owed \cup {d}
     ELSE UNCHANGED <<window, debounce>>
  /\ UNCHANGED <<network, watched, listening, store, holds, tasks, failures>>

(* async_hold_refresh, by a job that is at no device yet.                  *)
Hold(h, devices) ==
  /\ holding[h] = {}
  /\ disturbances < MaxDisturbances
  /\ disturbances' = disturbances + 1
  /\ holding' = [holding EXCEPT ![h] = devices]
  /\ held' = [d \in Devices |-> IF d \in devices THEN held[d] + 1 ELSE held[d]]
  /\ UNCHANGED <<outside, listening, store, debounce, tasks, failures>>

(* Mutant of Release: letting go does not look at what waited.             *)
ReleaseUnarmed(h) ==
  /\ holding[h] # {}
  /\ holding' = [holding EXCEPT ![h] = {}]
  /\ held' = [d \in Devices |-> IF d \in holding[h] THEN held[d] - 1 ELSE held[d]]
  /\ UNCHANGED <<outside, listening, store, debounce, tasks, bounds>>

(* The callable async_hold_refresh returned.                               *)
Release(h) ==
  /\ holding[h] # {}
  /\ holding' = [holding EXCEPT ![h] = {}]
  /\ held' = [d \in Devices |-> IF d \in holding[h] THEN held[d] - 1 ELSE held[d]]
  /\ flushTimer' = ArmedFor(unread, held', flushTimer)
  /\ UNCHANGED <<outside, listening, store, unread, owed, tasks, bounds>>

(* Time passes; a timer that is due fires before the next tick.            *)
CacheTick ==
  /\ flushTimer # 0
  /\ flushTimer # Unset \/ \E d \in Devices : window[d] > 0
  /\ flushTimer' = IF flushTimer = Unset THEN Unset ELSE flushTimer - 1
  /\ window' = [d \in Devices |-> IF window[d] > 0 THEN window[d] - 1 ELSE 0]
  /\ UNCHANGED <<network, truth, watched, listening, store, unread, owed, holds, tasks, bounds>>

----------------------------------------------------------------------------
(* Reading.                                                                *)

First(S) == CHOOSE d \in S : \A e \in S : Order[d] <= Order[e]

After(S, d) == {e \in S : Order[e] > Order[d]}

(* Mutant of Forgotten: an empty listing is an empty network.              *)
ForgottenByAnyListing(listed, handles) == handles \ listed

(* _forget_unlisted: what a listing drops.                                 *)
Forgotten(listed, handles) == IF listed = {} THEN {} ELSE handles \ listed

(* A task with work to do asks the next device, with no await since its    *)
(* last step; with none left it is over, and a relist forgets what the     *)
(* listing did not have.  A flush skips devices with no handle; a relist   *)
(* gives the device one.                                                   *)
Go(t, work, what, listed, handles, seen, silent) ==
  LET ready == IF what = "flush" THEN work \cap handles ELSE work
      gone == IF what = "relist" THEN Forgotten(listed, handles) ELSE {}
  IN
  IF ready # {}
  THEN /\ kind' = [kind EXCEPT ![t] = what]
       /\ at' = [at EXCEPT ![t] = First(ready)]
       /\ todo' = [todo EXCEPT ![t] = After(ready, First(ready))]
       /\ got' = [got EXCEPT ![t] = Unset]
       /\ roll' = [roll EXCEPT ![t] = listed]
       /\ known' = IF what = "relist" THEN handles \cup {First(ready)} ELSE handles
       /\ cache' = seen
       /\ unavailable' = silent
       /\ owed' = IF what = "flush" THEN owed \ {First(ready)} ELSE owed
  ELSE /\ kind' = [kind EXCEPT ![t] = "off"]
       /\ at' = [at EXCEPT ![t] = Unset]
       /\ todo' = [todo EXCEPT ![t] = {}]
       /\ got' = [got EXCEPT ![t] = Unset]
       /\ roll' = [roll EXCEPT ![t] = {}]
       /\ known' = handles \ gone
       /\ cache' = [d \in Devices |-> IF d \in gone THEN Unset ELSE seen[d]]
       /\ unavailable' = silent \ gone
       /\ UNCHANGED owed

(* Mutant of Flush: what is pending is cleared, held or not.               *)
FlushAll(t) ==
  /\ flushTimer = 0
  /\ Starts(t)
  /\ flushTimer' = Unset
  /\ unread' = {}
  /\ Go(t, unread \ Held, "flush", {}, known, cache, unavailable)
  /\ UNCHANGED <<outside, listening, holds, bounds>>

(* _flush_pending up to its first await.                                   *)
Flush(t) ==
  /\ flushTimer = 0
  /\ Starts(t)
  /\ flushTimer' = Unset
  /\ unread' = unread \cap Held
  /\ Go(t, unread \ Held, "flush", {}, known, cache, unavailable)
  /\ UNCHANGED <<outside, listening, holds, bounds>>

(* async_refresh of one device: a verify, a job, the panel.                *)
StartRead(t, d) ==
  /\ Starts(t)
  /\ disturbances < MaxDisturbances
  /\ listening /\ d \in known
  /\ disturbances' = disturbances + 1
  /\ Go(t, {d}, "read", {}, known, cache, unavailable)
  /\ UNCHANGED <<outside, listening, unread, flushTimer, holds, failures>>

(* async_relist, up to the backend's answer.                               *)
StartRelist(t) ==
  /\ Starts(t)
  /\ listening /\ disturbances < MaxDisturbances
  /\ disturbances' = disturbances + 1
  /\ kind' = [kind EXCEPT ![t] = "listing"]
  /\ UNCHANGED <<outside, listening, store, debounce, holds, todo, at, got, roll, failures>>

(* The answer: what is on the network, or nothing while the bridge         *)
(* restarts.                                                               *)
Listed(t) ==
  /\ kind[t] = "listing"
  /\ \/ /\ Go(t, network, "relist", network, known, cache, unavailable)
        /\ UNCHANGED failures
     \/ /\ failures < MaxFailures
        /\ failures' = failures + 1
        /\ Go(t, {}, "relist", {}, known, cache, unavailable)
  /\ UNCHANGED <<outside, listening, unread, flushTimer, holds, disturbances>>

(* No answer: every device is unavailable, and what is cached stands.      *)
ListingFails(t) ==
  /\ kind[t] = "listing"
  /\ failures < MaxFailures
  /\ failures' = failures + 1
  /\ Go(t, {}, "read", {}, known, cache, unavailable \cup known)
  /\ UNCHANGED <<outside, listening, unread, flushTimer, holds, disturbances>>

(* The device's answer is fixed.                                           *)
Sample(t) ==
  /\ at[t] # Unset /\ got[t] = Unset
  /\ at[t] \in network
  /\ got' = [got EXCEPT ![t] = truth[at[t]]]
  /\ UNCHANGED <<outside, listening, store, debounce, holds, kind, todo, at, roll, bounds>>

(* _read_device comes back.  With the answer, it is the cache, whatever    *)
(* has been read since it was fixed; without one the cache stands and the  *)
(* device is unavailable.                                                  *)
Land(t) ==
  LET d == at[t]
      answered == got[t] # Unset
  IN
  /\ d # Unset
  /\ IF answered THEN UNCHANGED failures
     ELSE IF d \in network THEN failures < MaxFailures /\ failures' = failures + 1
     ELSE UNCHANGED failures
  /\ Go(t, todo[t], kind[t], roll[t], IF answered THEN known \cup {d} ELSE known,
        IF answered THEN [cache EXCEPT ![d] = got[t]] ELSE cache,
        IF answered THEN unavailable \ {d} ELSE unavailable \cup {d})
  /\ UNCHANGED <<outside, listening, unread, flushTimer, holds, disturbances>>

----------------------------------------------------------------------------
(* async_shutdown.  A task that is reading reads on.                       *)
CacheShutdown ==
  /\ listening
  /\ listening' = FALSE
  /\ flushTimer' = Unset
  /\ unread' = {}
  /\ UNCHANGED <<outside, store, owed, holds, tasks, bounds>>

(* A device is included, or excluded for good.  The listener was registered *)
(* with the nodes of the day it was made.                                  *)
Join(d) ==
  /\ d \notin network /\ d \notin watched
  /\ disturbances < MaxDisturbances
  /\ disturbances' = disturbances + 1
  /\ network' = network \cup {d}
  /\ UNCHANGED <<truth, watched, window, listening, store, debounce, holds, tasks, failures>>

Leave(d) ==
  /\ d \in network /\ d \in watched
  /\ disturbances < MaxDisturbances
  /\ disturbances' = disturbances + 1
  /\ network' = network \ {d}
  /\ UNCHANGED <<truth, watched, window, listening, store, debounce, holds, tasks, failures>>

Task(t) == Flush(t) \/ Listed(t) \/ ListingFails(t) \/ Sample(t) \/ Land(t)

CacheNext ==
  \/ \E d \in Devices : Change(d) \/ Join(d) \/ Leave(d)
  \/ \E h \in Holders, devices \in SUBSET Devices \ {{}} : Hold(h, devices)
  \/ \E h \in Holders : Release(h)
  \/ \E t \in Tasks : StartRelist(t) \/ Task(t) \/ \E d \in Devices : StartRead(t, d)
  \/ CacheTick
  \/ CacheShutdown

CacheSpec == CacheInit /\ [][CacheNext]_cacheVars

(* Timers fire, calls of a backend come back, and a job ends (JobRunner's  *)
(* JobEnds) and releases what it holds in a finally.                       *)
CacheFairness ==
  /\ WF_cacheVars(CacheTick)
  /\ WF_cacheVars(\E t \in Tasks : Flush(t))
  /\ \A t \in Tasks : WF_cacheVars(Listed(t) \/ Sample(t) \/ Land(t))
  /\ \A h \in Holders : WF_cacheVars(Release(h))

CacheFairSpec == CacheSpec /\ CacheFairness

----------------------------------------------------------------------------
CacheTypeOK ==
  /\ network \in SUBSET Devices
  /\ truth \in [Devices -> Versions]
  /\ watched \in SUBSET Devices
  /\ window \in [Devices -> 0..Window]
  /\ listening \in BOOLEAN
  /\ known \in SUBSET Devices
  /\ cache \in [Devices -> Versions \cup {Unset}]
  /\ unavailable \in SUBSET Devices
  /\ unread \in SUBSET Devices
  /\ flushTimer \in 0..Debounce \cup {Unset}
  /\ held \in [Devices -> 0..Cardinality(Holders)]
  /\ kind \in [Tasks -> Kinds]
  /\ todo \in [Tasks -> SUBSET Devices]
  /\ at \in [Tasks -> Devices \cup {Unset}]
  /\ got \in [Tasks -> Versions \cup {Unset}]
  /\ roll \in [Tasks -> SUBSET Devices]
  /\ holding \in [Holders -> SUBSET Devices]
  /\ owed \in SUBSET Devices
  /\ disturbances \in 0..MaxDisturbances /\ failures \in 0..MaxFailures

(* The devices some job is at work on. *)
AtWork == UNION {holding[h] : h \in Holders}

(* A device that waits to be read, and that no job is at work on, has a    *)
(* timer running for it: no event is left behind by a hold, a flush or a   *)
(* burst (_arm_flush).                                                     *)
ArmedWhenWaiting == unread \subseteq AtWork \/ flushTimer # Unset

(* After the shutdown nothing is scheduled, and nothing a job lets go of   *)
(* afterwards schedules anything (async_shutdown, "fires at a coordinator  *)
(* that has already torn itself down").                                    *)
SilentWhenDown == ~listening => flushTimer = Unset

(* What changed on a device while a job is at work on it stays pending for *)
(* as long as any job is ("Events are not dropped either, they are         *)
(* deferred", async_hold_refresh).                                         *)
HeldStaysPending ==
  [][\A d \in unread \cap AtWork : listening' => d \in unread']_cacheVars

(* A device that has been on the network since the start is not forgotten, *)
(* and what was last read of it is not lost, whatever overlaps: relists,   *)
(* empty listings, reads without an answer (_forget_unlisted, E1).         *)
KeepsWhatIsThere ==
  [][\A d \in known \cap network \cap watched :
       d \in known' /\ (cache[d] # Unset => cache'[d] # Unset)]_cacheVars

(* No flush begins a read of a device while a job is at work on it: "the   *)
(* one thing this cache must never do" (_flush_pending).                   *)
HeldNotRead ==
  [][\A t \in Tasks :
       (kind'[t] = "flush" /\ at'[t] \notin {at[t], Unset}) => at'[t] \notin AtWork]_cacheVars

(* Every change the coordinator is told of is read by a flush that begins  *)
(* after it, unless the device has left or the entry is unloaded first.    *)
EveryToldChangeIsRead ==
  \A d \in Devices : (d \in owed) ~> (d \notin owed \/ d \notin network \/ ~listening)

(* What a device that answers changed to is in the cache sooner or later   *)
(* (G3, S6).                                                               *)
ChangesReflected ==
  \A d \in Devices :
    (d \in known \ unavailable /\ cache[d] # truth[d]) ~>
      (cache[d] = truth[d] \/ d \notin network \/ ~listening)

=============================================================================
