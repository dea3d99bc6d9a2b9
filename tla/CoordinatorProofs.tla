------------------------- MODULE CoordinatorProofs --------------------------
(***************************************************************************)
(* Theorems about the coordinator: the cache of observed devices, for any  *)
(* devices, holders, reading tasks, windows and debounces, and the toggle  *)
(* limiter, for any rules, timers and requests.                            *)
(***************************************************************************)
EXTENDS DeviceCache, RuleToggle, FiniteSetTheorems, WellFoundedInduction, TLAPS

(* The counter of a device is the number of jobs that hold it.             *)
HoldersOf(d) == {h \in Holders : d \in holding[h]}
HoldsCounted ==
  /\ holding \in [Holders -> SUBSET Devices]
  /\ held = [d \in Devices |-> Cardinality(HoldersOf(d))]

TimerOK == flushTimer \in Int \cup {Unset}

HoldInv == HoldsCounted /\ TimerOK /\ unread \subseteq Devices

LEMMA HoldersFinite ==
  ASSUME NEW d
  PROVE  IsFiniteSet(HoldersOf(d)) /\ Cardinality(HoldersOf(d)) \in Nat
BY CacheAssumption, FS_Subset, FS_CardinalityType DEF HoldersOf

(* Who is counted as held is what some job is at work on.                  *)
LEMMA HeldIsAtWork == HoldsCounted => Held = AtWork
<1> SUFFICES ASSUME HoldsCounted PROVE Held = AtWork
  OBVIOUS
<1>1. ASSUME NEW d \in Devices
      PROVE  d \in Held <=> HoldersOf(d) # {}
  BY <1>1, HoldersFinite, FS_EmptySet DEF Held, HoldsCounted
<1>2. AtWork \subseteq Devices
  BY DEF AtWork, HoldsCounted
<1>3. ASSUME NEW d \in Devices
      PROVE  d \in AtWork <=> HoldersOf(d) # {}
  BY DEF AtWork, HoldersOf
<1>4. QED  BY <1>1, <1>2, <1>3 DEF Held

LEMMA HoldCounts ==
  ASSUME HoldsCounted, NEW h \in Holders, NEW devices \in SUBSET Devices, Hold(h, devices)
  PROVE  HoldsCounted'
<1>1. holding' \in [Holders -> SUBSET Devices]
  BY DEF Hold, HoldsCounted
<1>2. ASSUME NEW d \in Devices
      PROVE  held'[d] = Cardinality(HoldersOf(d)')
  <2>1. CASE d \in devices
    <3>1. HoldersOf(d)' = HoldersOf(d) \cup {h} /\ h \notin HoldersOf(d)
      BY <2>1 DEF Hold, HoldsCounted, HoldersOf
    <3>2. Cardinality(HoldersOf(d)') = Cardinality(HoldersOf(d)) + 1
      BY <3>1, HoldersFinite, FS_AddElement
    <3>3. QED  BY <2>1, <3>2 DEF Hold, HoldsCounted
  <2>2. CASE d \notin devices
    <3>1. HoldersOf(d)' = HoldersOf(d)
      BY <2>2 DEF Hold, HoldsCounted, HoldersOf
    <3>2. QED  BY <2>2, <3>1 DEF Hold, HoldsCounted
  <2>3. QED  BY <2>1, <2>2
<1>3. held' = [d \in Devices |-> held'[d]]
  BY DEF Hold
<1>4. QED  BY <1>1, <1>2, <1>3 DEF HoldsCounted

LEMMA ReleaseCounts ==
  ASSUME HoldsCounted, NEW h \in Holders, Release(h)
  PROVE  HoldsCounted'
<1>1. holding' \in [Holders -> SUBSET Devices]
  BY DEF Release, HoldsCounted
<1>2. ASSUME NEW d \in Devices
      PROVE  held'[d] = Cardinality(HoldersOf(d)')
  <2>1. CASE d \in holding[h]
    <3>1. HoldersOf(d)' = HoldersOf(d) \ {h} /\ h \in HoldersOf(d)
      BY <2>1 DEF Release, HoldsCounted, HoldersOf
    <3>2. Cardinality(HoldersOf(d)') = Cardinality(HoldersOf(d)) - 1
      BY <3>1, HoldersFinite, FS_RemoveElement
    <3>3. QED  BY <2>1, <3>2 DEF Release, HoldsCounted
  <2>2. CASE d \notin holding[h]
    <3>1. HoldersOf(d)' = HoldersOf(d)
      BY <2>2 DEF Release, HoldsCounted, HoldersOf
    <3>2. QED  BY <2>2, <3>1 DEF Release, HoldsCounted
  <2>3. QED  BY <2>1, <2>2
<1>3. held' = [d \in Devices |-> held'[d]]
  BY DEF Release
<1>4. QED  BY <1>1, <1>2, <1>3 DEF HoldsCounted

LEMMA ArmedIsTimed ==
  ASSUME TimerOK, NEW toRead, NEW holders
  PROVE  ArmedFor(toRead, holders, flushTimer) \in Int \cup {Unset}
BY CacheAssumption DEF ArmedFor, TimerOK

(* What leaves the holds and what is pending alone.                        *)
LEMMA HoldsKept ==
  ASSUME HoldInv, UNCHANGED holds, unread' \subseteq Devices, flushTimer' \in Int \cup {Unset}
  PROVE  HoldInv'
BY DEF HoldInv, HoldsCounted, HoldersOf, TimerOK, holds

LEMMA HoldInitially == CacheInit => HoldInv
<1> SUFFICES ASSUME CacheInit PROVE HoldInv
  OBVIOUS
<1>1. \A d \in Devices : HoldersOf(d) = {}
  BY DEF CacheInit, HoldersOf
<1>2. HoldsCounted
  BY <1>1, FS_EmptySet DEF CacheInit, HoldsCounted
<1>3. QED  BY <1>2 DEF CacheInit, HoldInv, TimerOK

LEMMA HoldInvKept == HoldInv /\ [CacheNext]_cacheVars => HoldInv'
<1> SUFFICES ASSUME HoldInv, [CacheNext]_cacheVars PROVE HoldInv'
  OBVIOUS
<1> USE DEF HoldInv
<1>1. ASSUME NEW d \in Devices, Change(d) PROVE HoldInv'
  <2>1. unread' \subseteq Devices /\ flushTimer' \in Int \cup {Unset}
    BY <1>1, ArmedIsTimed DEF Change, debounce, TimerOK
  <2>2. QED  BY <1>1, <2>1, HoldsKept DEF Change
<1>2. ASSUME NEW d \in Devices, Join(d) \/ Leave(d) PROVE HoldInv'
  BY <1>2, HoldsKept DEF Join, Leave, debounce, TimerOK
<1>3. ASSUME NEW h \in Holders, NEW devices \in SUBSET Devices \ {{}}, Hold(h, devices)
      PROVE  HoldInv'
  BY <1>3, HoldCounts DEF Hold, debounce, TimerOK
<1>4. ASSUME NEW h \in Holders, Release(h) PROVE HoldInv'
  <2>1. flushTimer' \in Int \cup {Unset}
    BY <1>4, ArmedIsTimed DEF Release
  <2>2. QED  BY <1>4, <2>1, ReleaseCounts DEF Release, TimerOK
<1>5. ASSUME NEW t \in Tasks, StartRelist(t) \/ Task(t) \/ \E d \in Devices : StartRead(t, d)
      PROVE  HoldInv'
  <2>1. CASE Flush(t)
    BY <2>1, HoldsKept DEF Flush
  <2>2. CASE ~Flush(t)
    BY <1>5, <2>2, HoldsKept
    DEF StartRelist, Task, Listed, ListingFails, Sample, Land, StartRead, debounce, TimerOK
  <2>3. QED  BY <2>1, <2>2
<1>6. CASE CacheTick
  <2>1. flushTimer' \in Int \cup {Unset}
    BY <1>6 DEF CacheTick, TimerOK
  <2>2. QED  BY <1>6, <2>1, HoldsKept DEF CacheTick
<1>7. CASE CacheShutdown
  BY <1>7, HoldsKept DEF CacheShutdown
<1>8. CASE UNCHANGED cacheVars
  BY <1>8, HoldsKept DEF cacheVars, holds, TimerOK
<1>9. QED
  BY <1>1, <1>2, <1>3, <1>4, <1>5, <1>6, <1>7, <1>8 DEF CacheNext

----------------------------------------------------------------------------
(* What changed on a device while a job is at work on it stays pending for *)
(* as long as any job is (async_hold_refresh, _flush_pending).             *)
THEOREM HeldChangesWait == CacheSpec => HeldStaysPending
<1>1. ASSUME HoldInv, [CacheNext]_cacheVars
      PROVE  [\A d \in unread \cap AtWork : listening' => d \in unread']_cacheVars
  <2> SUFFICES ASSUME NEW d \in unread \cap AtWork, listening', CacheNext
               PROVE  d \in unread'
    BY <1>1
  <2>1. d \in Held
    BY <1>1, HeldIsAtWork DEF HoldInv
  <2>2. ASSUME NEW t \in Tasks, StartRelist(t) \/ Task(t) \/ \E e \in Devices : StartRead(t, e)
        PROVE  d \in unread'
    BY <2>1, <2>2
    DEF StartRelist, Task, Flush, Listed, ListingFails, Sample, Land, StartRead, debounce
  <2>3. CASE \E e \in Devices : Change(e) \/ Join(e) \/ Leave(e)
    BY <2>3 DEF Change, Join, Leave, debounce
  <2>4. CASE \/ \E h \in Holders, devices \in SUBSET Devices \ {{}} : Hold(h, devices)
             \/ \E h \in Holders : Release(h)
    BY <2>4 DEF Hold, Release, debounce
  <2>5. CASE CacheTick \/ CacheShutdown
    BY <2>5 DEF CacheTick, CacheShutdown
  <2>6. QED  BY <2>2, <2>3, <2>4, <2>5 DEF CacheNext
<1>2. QED
  BY <1>1, HoldInitially, HoldInvKept, PTL DEF CacheSpec, HeldStaysPending

----------------------------------------------------------------------------
(* A timer runs for whatever waits and is not held.                        *)
ArmedInv == HoldInv /\ ArmedWhenWaiting

LEMMA ArmedHolds ==
  ASSUME HoldsCounted', NEW toRead, toRead \subseteq Devices, unread' = toRead,
         NEW running, flushTimer' = ArmedFor(toRead, held', running)
  PROVE  ArmedWhenWaiting'
<1>1. CASE \A d \in toRead : held'[d] > 0
  <2>1. (HoldsCounted => Held = AtWork)'
    BY HeldIsAtWork, PTL
  <2>2. Held' = AtWork'
    BY <2>1
  <2>3. QED  BY <1>1, <2>2 DEF Held, ArmedWhenWaiting
<1>2. CASE ~ \A d \in toRead : held'[d] > 0
  BY <1>2, CacheAssumption DEF ArmedFor, ArmedWhenWaiting
<1>3. QED  BY <1>1, <1>2

LEMMA ArmedKept == ArmedInv /\ [CacheNext]_cacheVars => ArmedWhenWaiting'
<1> SUFFICES ASSUME ArmedInv, [CacheNext]_cacheVars PROVE ArmedWhenWaiting'
  OBVIOUS
<1> USE DEF ArmedInv
<1>1. HoldInv'
  BY HoldInvKept
<1>2. ASSUME NEW d \in Devices, Change(d) PROVE ArmedWhenWaiting'
  <2>1. CASE listening /\ d \in watched /\ window[d] = 0
    BY <1>1, <1>2, <2>1, ArmedHolds DEF Change, holds, HoldInv
  <2>2. CASE ~(listening /\ d \in watched /\ window[d] = 0)
    BY <1>2, <2>2 DEF Change, holds, debounce, ArmedWhenWaiting, AtWork
  <2>3. QED  BY <2>1, <2>2
<1>3. ASSUME NEW d \in Devices, Join(d) \/ Leave(d) PROVE ArmedWhenWaiting'
  BY <1>3 DEF Join, Leave, holds, debounce, ArmedWhenWaiting, AtWork
<1>4. ASSUME NEW h \in Holders, NEW devices \in SUBSET Devices, Hold(h, devices)
      PROVE  ArmedWhenWaiting'
  <2>1. AtWork \subseteq AtWork'
    BY <1>4 DEF Hold, AtWork, HoldInv, HoldsCounted
  <2>2. QED  BY <1>4, <2>1 DEF Hold, debounce, ArmedWhenWaiting
<1>5. ASSUME NEW h \in Holders, Release(h) PROVE ArmedWhenWaiting'
  BY <1>1, <1>5, ArmedHolds DEF Release, HoldInv
<1>6. ASSUME NEW t \in Tasks, StartRelist(t) \/ Task(t) \/ \E d \in Devices : StartRead(t, d)
      PROVE  ArmedWhenWaiting'
  <2>1. CASE Flush(t)
    <3>1. Held = AtWork
      BY HeldIsAtWork DEF HoldInv
    <3>2. QED  BY <2>1, <3>1 DEF Flush, holds, ArmedWhenWaiting, AtWork
  <2>2. CASE ~Flush(t)
    BY <1>6, <2>2
    DEF StartRelist, Task, Listed, ListingFails, Sample, Land, StartRead, holds, debounce,
        ArmedWhenWaiting, AtWork
  <2>3. QED  BY <2>1, <2>2
<1>7. CASE CacheTick
  BY <1>7, CacheAssumption DEF CacheTick, holds, ArmedWhenWaiting, AtWork, HoldInv, TimerOK
<1>8. CASE CacheShutdown
  BY <1>8 DEF CacheShutdown, ArmedWhenWaiting
<1>9. CASE UNCHANGED cacheVars
  BY <1>9 DEF cacheVars, ArmedWhenWaiting, AtWork
<1>10. QED
  BY <1>2, <1>3, <1>4, <1>5, <1>6, <1>7, <1>8, <1>9 DEF CacheNext

(* A device that waits to be read, and that no job is at work on, has a    *)
(* timer running for it, whatever holds, flushes and bursts do             *)
(* (_arm_flush).                                                           *)
THEOREM WaitingIsArmed == CacheSpec => []ArmedWhenWaiting
<1>1. CacheInit => ArmedInv
  BY HoldInitially DEF ArmedInv, CacheInit, ArmedWhenWaiting
<1>2. ArmedInv /\ [CacheNext]_cacheVars => ArmedInv'
  BY HoldInvKept, ArmedKept DEF ArmedInv
<1>3. ArmedInv => ArmedWhenWaiting
  BY DEF ArmedInv
<1>4. QED  BY <1>1, <1>2, <1>3, PTL DEF CacheSpec

----------------------------------------------------------------------------
(* What lets a job go of its devices after the shutdown finds nothing that *)
(* waits, so nothing is armed.                                             *)
SilentInv == ~listening => unread = {} /\ flushTimer = Unset

(* After the shutdown nothing is scheduled, also by a job that lets go of  *)
(* its devices only then (async_shutdown, async_hold_refresh._release).    *)
THEOREM NothingAfterShutdown == CacheSpec => []SilentWhenDown
<1>1. CacheInit => SilentInv
  BY DEF CacheInit, SilentInv
<1>2. SilentInv /\ [CacheNext]_cacheVars => SilentInv'
  <2> SUFFICES ASSUME SilentInv, CacheNext, ~listening' PROVE unread' = {} /\ flushTimer' = Unset
    BY DEF SilentInv, cacheVars
  <2>1. CASE CacheShutdown
    BY <2>1 DEF CacheShutdown
  <2>2. CASE ~listening
    <3>1. unread = {} /\ flushTimer = Unset
      BY <2>2 DEF SilentInv
    <3>2. Unset # 0
      BY CacheAssumption
    <3>3. CASE \E d \in Devices : Change(d) \/ Join(d) \/ Leave(d)
      BY <2>2, <3>1, <3>3 DEF Change, Join, Leave, debounce
    <3>4. CASE \/ \E h \in Holders, devices \in SUBSET Devices \ {{}} : Hold(h, devices)
               \/ \E h \in Holders : Release(h)
      BY <3>1, <3>4 DEF Hold, Release, ArmedFor, debounce
    <3>5. ASSUME NEW t \in Tasks, StartRelist(t) \/ Task(t) \/ \E d \in Devices : StartRead(t, d)
          PROVE  unread' = {} /\ flushTimer' = Unset
      BY <2>2, <3>1, <3>2, <3>5
      DEF StartRelist, Task, Flush, Listed, ListingFails, Sample, Land, StartRead, debounce
    <3>6. CASE CacheTick
      BY <3>1, <3>6 DEF CacheTick
    <3>7. QED  BY <2>1, <3>3, <3>4, <3>5, <3>6 DEF CacheNext
  <2>3. CASE listening /\ ~CacheShutdown
    <3>1. listening' = listening
      BY <2>3 DEF CacheNext, Change, Join, Leave, Hold, Release, StartRelist, Task, Flush, Listed,
         ListingFails, Sample, Land, StartRead, CacheTick
    <3>2. QED  BY <2>3, <3>1
  <2>4. QED  BY <2>1, <2>2, <2>3
<1>3. SilentInv => SilentWhenDown
  BY DEF SilentInv, SilentWhenDown
<1>4. QED  BY <1>1, <1>2, <1>3, PTL DEF CacheSpec

----------------------------------------------------------------------------
(* Types.  The devices have a first one, since no two sort alike and all   *)
(* sort by numbers.                                                        *)
LEMMA FirstIsIn ==
  ASSUME NEW S \in SUBSET Devices, S # {}
  PROVE  First(S) \in S
<1> DEFINE T == {Order[d] : d \in S}
<1>1. T \subseteq Nat /\ T # {}
  BY CacheAssumption
<1>2. \E x \in T : \A y \in T : <<y, x>> \notin OpToRel(<, Nat)
  BY <1>1, WFMin, NatLessThanWellFounded
<1>3. PICK d \in S : \A e \in S : <<Order[e], Order[d]>> \notin OpToRel(<, Nat)
  BY <1>2
<1>4. OpToRel(<, Nat) = {ss \in Nat \X Nat : ss[1] < ss[2]}
  BY DEF OpToRel
<1>5. ASSUME NEW e \in S
      PROVE  Order[d] <= Order[e]
  <2>1. Order[d] \in Nat /\ Order[e] \in Nat
    BY CacheAssumption
  <2>2. ~ (Order[e] < Order[d])
    BY <1>3, <1>4, <2>1
  <2>3. QED  BY <2>1, <2>2
<1>6. QED  BY <1>5 DEF First

(* What Go changes. *)
TasksTyped ==
  /\ known \in SUBSET Devices /\ unavailable \in SUBSET Devices /\ owed \in SUBSET Devices
  /\ cache \in [Devices -> Versions \cup {Unset}]
  /\ kind \in [Tasks -> Kinds]
  /\ todo \in [Tasks -> SUBSET Devices]
  /\ at \in [Tasks -> Devices \cup {Unset}]
  /\ got \in [Tasks -> Versions \cup {Unset}]
  /\ roll \in [Tasks -> SUBSET Devices]

(* What it leaves. *)
RestTyped ==
  /\ network \in SUBSET Devices /\ watched \in SUBSET Devices
  /\ truth \in [Devices -> Nat] /\ \A d \in Devices : truth[d] <= disturbances
  /\ window \in [Devices -> 0..Window]
  /\ listening \in BOOLEAN
  /\ unread \in SUBSET Devices
  /\ flushTimer \in 0..Debounce \cup {Unset}
  /\ disturbances \in 0..MaxDisturbances /\ failures \in 0..MaxFailures

LEMMA GoTyped ==
  ASSUME TasksTyped, NEW t \in Tasks, NEW work \in SUBSET Devices, NEW what \in Kinds,
         NEW listed \in SUBSET Devices, NEW handles \in SUBSET Devices,
         NEW seen \in [Devices -> Versions \cup {Unset}], NEW silent \in SUBSET Devices,
         Go(t, work, what, listed, handles, seen, silent)
  PROVE  TasksTyped'
<1> DEFINE ready == IF what = "flush" THEN work \cap handles ELSE work
<1>1. ready \in SUBSET Devices
  OBVIOUS
<1>2. CASE ready # {}
  <2>1. First(ready) \in Devices
    BY <1>1, <1>2, FirstIsIn
  <2>2. After(ready, First(ready)) \in SUBSET Devices
    BY <1>1 DEF After
  <2>3. /\ kind' = [kind EXCEPT ![t] = what] /\ at' = [at EXCEPT ![t] = First(ready)]
        /\ todo' = [todo EXCEPT ![t] = After(ready, First(ready))]
        /\ got' = [got EXCEPT ![t] = Unset] /\ roll' = [roll EXCEPT ![t] = listed]
    BY <1>2 DEF Go
  <2>4. /\ known' \in SUBSET Devices /\ cache' = seen /\ unavailable' = silent
        /\ owed' \in SUBSET Devices
    BY <1>2, <2>1 DEF Go, TasksTyped
  <2> HIDE DEF ready
  <2>5. QED  BY <2>1, <2>2, <2>3, <2>4 DEF TasksTyped
<1>3. CASE ready = {}
  <2>1. "off" \in Kinds
    BY DEF Kinds
  <2>2. QED  BY <1>3, <2>1 DEF Go, TasksTyped
<1>4. QED  BY <1>2, <1>3

LEMMA TypedInitially == CacheInit => TasksTyped /\ RestTyped
BY CacheAssumption DEF CacheInit, TasksTyped, RestTyped, Versions, Kinds

LEMMA TasksTypedKept == TasksTyped /\ RestTyped /\ [CacheNext]_cacheVars => TasksTyped'
<1> SUFFICES ASSUME TasksTyped, RestTyped, [CacheNext]_cacheVars PROVE TasksTyped'
  OBVIOUS
<1>1. ASSUME UNCHANGED <<store, tasks>>, owed' \in SUBSET Devices PROVE TasksTyped'
  BY <1>1 DEF TasksTyped, store, tasks
<1>2. owed \in SUBSET Devices
  BY DEF TasksTyped
<1>3. ASSUME NEW d \in Devices, Change(d) \/ Join(d) \/ Leave(d) PROVE TasksTyped'
  BY <1>1, <1>2, <1>3 DEF Change, Join, Leave, debounce
<1>4. ASSUME NEW h \in Holders, Release(h) \/ \E devices \in SUBSET Devices : Hold(h, devices)
      PROVE  TasksTyped'
  BY <1>1, <1>2, <1>4 DEF Hold, Release, debounce
<1>5. CASE CacheTick \/ CacheShutdown \/ UNCHANGED cacheVars
  BY <1>1, <1>2, <1>5 DEF CacheTick, CacheShutdown, cacheVars, store, tasks
<1>6. ASSUME NEW t \in Tasks, StartRelist(t) PROVE TasksTyped'
  BY <1>6 DEF StartRelist, TasksTyped, store, debounce, Kinds
<1>7. ASSUME NEW t \in Tasks, Flush(t) PROVE TasksTyped'
  <2>1. unread \ Held \in SUBSET Devices /\ {} \in SUBSET Devices /\ "flush" \in Kinds
    BY DEF RestTyped, Kinds
  <2>2. QED  BY <1>7, <2>1, GoTyped DEF Flush, TasksTyped
<1>8. ASSUME NEW t \in Tasks, NEW d \in Devices, StartRead(t, d) PROVE TasksTyped'
  <2>1. {d} \in SUBSET Devices /\ {} \in SUBSET Devices /\ "read" \in Kinds
    BY DEF Kinds
  <2>2. QED  BY <1>8, <2>1, GoTyped DEF StartRead, TasksTyped
<1>9. ASSUME NEW t \in Tasks, Listed(t) PROVE TasksTyped'
  <2>1. network \in SUBSET Devices /\ {} \in SUBSET Devices /\ "relist" \in Kinds
    BY DEF RestTyped, Kinds
  <2>2. QED  BY <1>9, <2>1, GoTyped DEF Listed, TasksTyped
<1>10. ASSUME NEW t \in Tasks, ListingFails(t) PROVE TasksTyped'
  <2>1. {} \in SUBSET Devices /\ "read" \in Kinds
    BY DEF Kinds
  <2>2. unavailable \cup known \in SUBSET Devices
    BY DEF TasksTyped
  <2>3. QED  BY <1>10, <2>1, <2>2, GoTyped DEF ListingFails, TasksTyped
<1>11. ASSUME NEW t \in Tasks, Sample(t) PROVE TasksTyped'
  <2>1. at[t] \in Devices /\ truth[at[t]] \in Versions
    BY <1>11, CacheAssumption DEF Sample, RestTyped, Versions
  <2>2. QED  BY <1>11, <2>1 DEF Sample, TasksTyped, store, debounce
<1>12. ASSUME NEW t \in Tasks, Land(t) PROVE TasksTyped'
  <2>1. at[t] \in Devices /\ todo[t] \in SUBSET Devices /\ kind[t] \in Kinds
        /\ roll[t] \in SUBSET Devices /\ got[t] \in Versions \cup {Unset}
    BY <1>12 DEF Land, TasksTyped
  <2>2. CASE got[t] # Unset
    <3>1. [cache EXCEPT ![at[t]] = got[t]] \in [Devices -> Versions \cup {Unset}]
      BY <2>1 DEF TasksTyped
    <3>2. known \cup {at[t]} \in SUBSET Devices /\ unavailable \ {at[t]} \in SUBSET Devices
      BY <2>1 DEF TasksTyped
    <3>3. Go(t, todo[t], kind[t], roll[t], known \cup {at[t]}, [cache EXCEPT ![at[t]] = got[t]],
             unavailable \ {at[t]})
      BY <1>12, <2>2 DEF Land
    <3>4. QED  BY <2>1, <3>1, <3>2, <3>3, GoTyped
  <2>3. CASE got[t] = Unset
    <3>1. known \in SUBSET Devices /\ cache \in [Devices -> Versions \cup {Unset}]
          /\ unavailable \cup {at[t]} \in SUBSET Devices
      BY <2>1 DEF TasksTyped
    <3>2. Go(t, todo[t], kind[t], roll[t], known, cache, unavailable \cup {at[t]})
      BY <1>12, <2>3 DEF Land
    <3>3. QED  BY <2>1, <3>1, <3>2, GoTyped
  <2>4. QED  BY <2>2, <2>3
<1>13. QED
  BY <1>3, <1>4, <1>5, <1>6, <1>7, <1>8, <1>9, <1>10, <1>11, <1>12 DEF CacheNext, Task

LEMMA RestTypedKept == TasksTyped /\ RestTyped /\ [CacheNext]_cacheVars => RestTyped'
<1> SUFFICES ASSUME TasksTyped, RestTyped, [CacheNext]_cacheVars PROVE RestTyped'
  OBVIOUS
<1> USE CacheAssumption
<1>1. ASSUME NEW toRead, NEW holders
      PROVE  ArmedFor(toRead, holders, flushTimer) \in 0..Debounce \cup {Unset}
  BY DEF ArmedFor, RestTyped
<1>2. ASSUME NEW d \in Devices, Change(d) PROVE RestTyped'
  <2>1. /\ truth' \in [Devices -> Nat] /\ disturbances' \in 0..MaxDisturbances
        /\ \A e \in Devices : truth'[e] <= disturbances'
    BY <1>2 DEF Change, RestTyped
  <2>2. /\ window' \in [Devices -> 0..Window] /\ unread' \in SUBSET Devices
        /\ flushTimer' \in 0..Debounce \cup {Unset}
    BY <1>1, <1>2 DEF Change, RestTyped, debounce
  <2>3. QED  BY <1>2, <2>1, <2>2 DEF Change, RestTyped
<1>3. ASSUME NEW d \in Devices, Join(d) \/ Leave(d) PROVE RestTyped'
  BY <1>3 DEF Join, Leave, RestTyped, debounce
<1>4. ASSUME NEW h \in Holders, NEW devices \in SUBSET Devices, Hold(h, devices)
      PROVE  RestTyped'
  BY <1>4 DEF Hold, RestTyped, debounce, outside
<1>5. ASSUME NEW h \in Holders, Release(h) PROVE RestTyped'
  BY <1>1, <1>5 DEF Release, RestTyped, outside, bounds
<1>6. ASSUME NEW t \in Tasks, StartRelist(t) \/ Task(t) \/ \E d \in Devices : StartRead(t, d)
      PROVE  RestTyped'
  <2>1. /\ UNCHANGED <<outside, listening>> /\ unread' \in SUBSET Devices
        /\ flushTimer' \in {flushTimer, Unset}
    BY <1>6 DEF StartRelist, Task, Flush, Listed, ListingFails, Sample, Land, StartRead, debounce,
       RestTyped
  <2>2. /\ disturbances' \in {disturbances, disturbances + 1}
        /\ disturbances' # disturbances => disturbances < MaxDisturbances
    BY <1>6 DEF StartRelist, Task, Flush, Listed, ListingFails, Sample, Land, StartRead, bounds
  <2>3. /\ failures' \in {failures, failures + 1}
        /\ failures' # failures => failures < MaxFailures
    BY <1>6 DEF StartRelist, Task, Flush, Listed, ListingFails, Sample, Land, StartRead, bounds
  <2>4. QED  BY <2>1, <2>2, <2>3 DEF RestTyped, outside
<1>7. CASE CacheTick
  <2>1. window' \in [Devices -> 0..Window] /\ flushTimer' \in 0..Debounce \cup {Unset}
    BY <1>7 DEF CacheTick, RestTyped
  <2>2. QED  BY <1>7, <2>1 DEF CacheTick, RestTyped, bounds
<1>8. CASE CacheShutdown
  BY <1>8 DEF CacheShutdown, RestTyped, outside, bounds
<1>9. CASE UNCHANGED cacheVars
  BY <1>9 DEF cacheVars, RestTyped
<1>10. QED
  BY <1>2, <1>3, <1>4, <1>5, <1>6, <1>7, <1>8, <1>9 DEF CacheNext

(* Every variable of the cache keeps its type: no hold is counted more     *)
(* often than there are jobs, no timer runs longer than its debounce, and  *)
(* what a task asks, has got and has still to read are devices and their   *)
(* versions.                                                               *)
THEOREM CacheTyped == CacheSpec => []CacheTypeOK
<1> DEFINE Inv == TasksTyped /\ RestTyped /\ HoldInv
<1>1. CacheInit => Inv
  BY TypedInitially, HoldInitially
<1>2. Inv /\ [CacheNext]_cacheVars => Inv'
  BY TasksTypedKept, RestTypedKept, HoldInvKept
<1>3. Inv => CacheTypeOK
  <2> SUFFICES ASSUME TasksTyped, RestTyped, HoldInv PROVE CacheTypeOK
    OBVIOUS
  <2>1. truth \in [Devices -> Versions]
    BY CacheAssumption DEF RestTyped, Versions
  <2>2. held \in [Devices -> 0..Cardinality(Holders)]
    <3>1. ASSUME NEW d \in Devices
          PROVE  Cardinality(HoldersOf(d)) \in 0..Cardinality(Holders)
      <4>1. HoldersOf(d) \in SUBSET Holders
        BY DEF HoldersOf
      <4>2. Cardinality(HoldersOf(d)) <= Cardinality(Holders) /\ Cardinality(Holders) \in Nat
        BY <4>1, CacheAssumption, FS_Subset, FS_CardinalityType
      <4>3. QED  BY <4>2, HoldersFinite
    <3>2. QED  BY <3>1 DEF HoldInv, HoldsCounted
  <2>3. QED  BY <2>1, <2>2 DEF TasksTyped, RestTyped, HoldInv, HoldsCounted, CacheTypeOK
<1>4. QED  BY <1>1, <1>2, <1>3, PTL DEF CacheSpec

----------------------------------------------------------------------------
(* A relist works from a listing that had every device that has been there *)
(* from the setup on and is still there: none of those can come back.      *)
RollInv ==
  \A t \in Tasks :
    kind[t] = "relist" => roll[t] = {} \/ network \cap watched \subseteq roll[t]

TypedRolls == TasksTyped /\ RestTyped /\ RollInv

(* What a step of a task says of a listing is true of the devices there.   *)
LEMMA GoRolls ==
  ASSUME TasksTyped, RollInv, NEW t \in Tasks, NEW work, NEW what, NEW listed, NEW handles,
         NEW seen, NEW silent, Go(t, work, what, listed, handles, seen, silent),
         UNCHANGED <<network, watched>>,
         what = "relist" => listed = {} \/ network \cap watched \subseteq listed
  PROVE  RollInv'
<1>1. ASSUME NEW u \in Tasks, u # t
      PROVE  kind'[u] = kind[u] /\ roll'[u] = roll[u]
  BY <1>1 DEF Go, TasksTyped
<1>2. \/ kind'[t] = what /\ roll'[t] = listed
      \/ kind'[t] = "off"
  BY DEF Go, TasksTyped
<1>3. QED  BY <1>1, <1>2 DEF RollInv

LEMMA RollsKept == TypedRolls /\ [CacheNext]_cacheVars => RollInv'
<1> SUFFICES ASSUME TypedRolls, [CacheNext]_cacheVars PROVE RollInv'
  OBVIOUS
<1> USE DEF TypedRolls
<1>1. ASSUME UNCHANGED tasks, network' \cap watched' \subseteq network \cap watched
      PROVE  RollInv'
  BY <1>1 DEF RollInv, tasks
<1>2. ASSUME NEW d \in Devices, Change(d) \/ Join(d) \/ Leave(d) PROVE RollInv'
  BY <1>1, <1>2 DEF Change, Join, Leave
<1>3. ASSUME NEW h \in Holders, Release(h) \/ \E devices \in SUBSET Devices : Hold(h, devices)
      PROVE  RollInv'
  BY <1>1, <1>3 DEF Hold, Release, outside
<1>4. CASE CacheTick \/ CacheShutdown \/ UNCHANGED cacheVars
  BY <1>1, <1>4 DEF CacheTick, CacheShutdown, outside, cacheVars, tasks
<1>5. ASSUME NEW t \in Tasks, Flush(t) \/ ListingFails(t) \/ \E d \in Devices : StartRead(t, d)
      PROVE  RollInv'
  BY <1>5, GoRolls DEF Flush, ListingFails, StartRead, outside
<1>6. ASSUME NEW t \in Tasks, Listed(t) PROVE RollInv'
  BY <1>6, GoRolls DEF Listed, outside
<1>7. ASSUME NEW t \in Tasks, Land(t) PROVE RollInv'
  <2>1. kind[t] = "relist" => roll[t] = {} \/ network \cap watched \subseteq roll[t]
    BY DEF RollInv
  <2>2. QED  BY <1>7, <2>1, GoRolls DEF Land, outside
<1>8. ASSUME NEW t \in Tasks, StartRelist(t) \/ Sample(t) PROVE RollInv'
  BY <1>8 DEF StartRelist, Sample, outside, RollInv, TasksTyped
<1>9. QED
  BY <1>2, <1>3, <1>4, <1>5, <1>6, <1>7, <1>8 DEF CacheNext, Task

(* A step of a task drops nothing its listing had.                         *)
LEMMA GoKeeps ==
  ASSUME NEW d \in Devices, NEW t, NEW work, NEW what, NEW listed, NEW handles,
         NEW seen, NEW silent, Go(t, work, what, listed, handles, seen, silent),
         d \in handles, what = "relist" => listed = {} \/ d \in listed
  PROVE  d \in known' /\ (seen[d] # Unset => cache'[d] # Unset)
<1> DEFINE gone == IF what = "relist" THEN Forgotten(listed, handles) ELSE {}
<1>1. d \notin gone
  BY DEF Forgotten
<1> HIDE DEF gone
<1>2. \/ cache' = seen /\ d \in known'
      \/ cache' = [e \in Devices |-> IF e \in gone THEN Unset ELSE seen[e]] /\ known' = handles \ gone
  BY DEF Go, gone
<1>3. QED  BY <1>1, <1>2

(* A device that has been on the network since the start is not forgotten, *)
(* and what was last read of it is not lost, whatever overlaps: relists,   *)
(* empty listings, reads without an answer (_forget_unlisted, E1).         *)
THEOREM NothingThereIsForgotten == CacheSpec => KeepsWhatIsThere
<1>1. CacheInit => TypedRolls
  BY TypedInitially DEF TypedRolls, RollInv, CacheInit
<1>2. TypedRolls /\ [CacheNext]_cacheVars => TypedRolls'
  BY TasksTypedKept, RestTypedKept, RollsKept DEF TypedRolls
<1>3. ASSUME TypedRolls, [CacheNext]_cacheVars
      PROVE  [\A d \in known \cap network \cap watched :
                d \in known' /\ (cache[d] # Unset => cache'[d] # Unset)]_cacheVars
  <2> SUFFICES ASSUME NEW d \in known \cap network \cap watched, CacheNext
               PROVE  d \in known' /\ (cache[d] # Unset => cache'[d] # Unset)
    BY <1>3
  <2>1. d \in Devices
    BY <1>3 DEF TypedRolls, TasksTyped
  <2>2. CASE UNCHANGED store
    BY <2>2 DEF store
  <2>3. ASSUME NEW t \in Tasks, Flush(t) \/ ListingFails(t) \/ \E e \in Devices : StartRead(t, e)
        PROVE  d \in known' /\ (cache[d] # Unset => cache'[d] # Unset)
    BY <2>1, <2>3, GoKeeps DEF Flush, ListingFails, StartRead
  <2>4. ASSUME NEW t \in Tasks, Listed(t)
        PROVE  d \in known' /\ (cache[d] # Unset => cache'[d] # Unset)
    BY <2>1, <2>4, GoKeeps DEF Listed
  <2>5. ASSUME NEW t \in Tasks, Land(t)
        PROVE  d \in known' /\ (cache[d] # Unset => cache'[d] # Unset)
    <3>1. kind[t] = "relist" => roll[t] = {} \/ d \in roll[t]
      BY <1>3 DEF TypedRolls, RollInv
    <3>2. CASE got[t] # Unset
      <4> DEFINE seen == [cache EXCEPT ![at[t]] = got[t]]
      <4>1. Go(t, todo[t], kind[t], roll[t], known \cup {at[t]}, seen, unavailable \ {at[t]})
        BY <2>5, <3>2 DEF Land
      <4>2. cache[d] # Unset => seen[d] # Unset
        BY <1>3, <2>1, <3>2 DEF TypedRolls, TasksTyped
      <4>3. d \in known \cup {at[t]}
        OBVIOUS
      <4> HIDE DEF seen
      <4>4. d \in known' /\ (seen[d] # Unset => cache'[d] # Unset)
        BY <2>1, <3>1, <4>1, <4>3, GoKeeps
      <4>5. QED  BY <4>2, <4>4
    <3>3. CASE got[t] = Unset
      <4>1. Go(t, todo[t], kind[t], roll[t], known, cache, unavailable \cup {at[t]})
        BY <2>5, <3>3 DEF Land
      <4>2. QED  BY <2>1, <3>1, <4>1, GoKeeps
    <3>4. QED  BY <3>2, <3>3
  <2>6. CASE \/ \E e \in Devices : Change(e) \/ Join(e) \/ Leave(e)
             \/ \E h \in Holders, devices \in SUBSET Devices \ {{}} : Hold(h, devices)
             \/ \E h \in Holders : Release(h)
    BY <2>2, <2>6 DEF Change, Join, Leave, Hold, Release
  <2>7. CASE \E t \in Tasks : StartRelist(t) \/ Sample(t)
    BY <2>2, <2>7 DEF StartRelist, Sample
  <2>8. CASE CacheTick \/ CacheShutdown
    BY <2>2, <2>8 DEF CacheTick, CacheShutdown
  <2>9. QED
    BY <2>3, <2>4, <2>5, <2>6, <2>7, <2>8 DEF CacheNext, Task
<1>4. QED
  BY <1>1, <1>2, <1>3, PTL DEF CacheSpec, KeepsWhatIsThere

----------------------------------------------------------------------------
(***************************************************************************)
(* The toggle limiter: one apply a rule and second, and the last request   *)
(* wins.                                                                   *)
(***************************************************************************)
(* A timer the limiter can cancel runs, and for the rule it is kept for.   *)
CooldownRuns ==
  \A r \in Rules : cooldown[r] # None =>
    timer[cooldown[r]] # None /\ timer[cooldown[r]].rule = r

(* Nothing waits for a rule that is not cooling down. *)
PendingCools == \A r \in Rules : pending[r] # None => cooldown[r] # None

(* What was last executed is what is stored. *)
ExecutedStored == \A r \in profile : executed[r] # None => enabled[r] = executed[r]

ToggleInv == TypeOK /\ CooldownRuns /\ PendingCools /\ ExecutedStored /\ ShowsLastRequest

(* Which timers run, and which the limiter can cancel.                     *)
TimersOK(handles, running) ==
  /\ handles \in [Rules -> Timers \cup {None}]
  /\ running \in [Timers -> [rule : Rules, left : 0..Interval] \cup {None}]
  /\ \A r \in Rules : handles[r] # None =>
       running[handles[r]] # None /\ running[handles[r]].rule = r

LEMMA Initially == Init => ToggleInv
BY ToggleAssumption DEF Init, ToggleInv, TypeOK, CooldownRuns, PendingCools, ExecutedStored,
   ShowsLastRequest, Shown, States

(* The new timer is one that was not running, so no other handle meant it. *)
LEMMA CooldownStarts ==
  ASSUME NEW r \in Rules, NEW handles, NEW running, TimersOK(handles, running),
         StartCooldown(r, handles, running)
  PROVE  /\ TimersOK(cooldown', timer')
         /\ \A s \in Rules : handles[s] # None => cooldown'[s] # None
<1>1. CASE ~up
  BY <1>1 DEF StartCooldown, TimersOK
<1>2. CASE up
  <2>1. PICK t \in Timers : /\ running[t] = None
                            /\ cooldown' = [handles EXCEPT ![r] = t]
                            /\ timer' = [running EXCEPT ![t] = Started(r)]
    BY <1>2 DEF StartCooldown
  <2>2. Started(r) \in [rule : Rules, left : 0..Interval] /\ Started(r).rule = r
    BY ToggleAssumption DEF Started
  <2>3. Started(r) # None /\ t # None
    BY <2>2, ToggleAssumption
  <2>4. cooldown' \in [Rules -> Timers \cup {None}]
    BY <2>1 DEF TimersOK
  <2>5. timer' \in [Timers -> [rule : Rules, left : 0..Interval] \cup {None}]
    BY <2>1, <2>2 DEF TimersOK
  <2>6. ASSUME NEW s \in Rules, cooldown'[s] # None
        PROVE  timer'[cooldown'[s]] # None /\ timer'[cooldown'[s]].rule = s
    <3>1. CASE s = r
      BY <3>1, <2>1, <2>2, <2>3 DEF TimersOK
    <3>2. CASE s # r
      <4>1. cooldown'[s] = handles[s] /\ handles[s] # t /\ handles[s] \in Timers
        BY <3>2, <2>1, <2>6 DEF TimersOK
      <4>2. QED  BY <4>1, <2>1, <2>6 DEF TimersOK
    <3>3. QED  BY <3>1, <3>2
  <2>7. \A s \in Rules : handles[s] # None => cooldown'[s] # None
    BY <2>1, <2>3 DEF TimersOK
  <2>8. QED  BY <2>4, <2>5, <2>6, <2>7 DEF TimersOK
<1>3. QED  BY <1>1, <1>2

(* What an execution leaves behind. *)
LEMMA ExecutionLeaves ==
  ASSUME TypeOK, NEW r \in Rules, NEW state \in BOOLEAN, NEW handles, NEW running,
         TimersOK(handles, running), Execute(r, state, handles, running)
  PROVE  /\ TimersOK(cooldown', timer')
         /\ \A s \in Rules : handles[s] # None => cooldown'[s] # None
         /\ executed' = [executed EXCEPT ![r] = state]
         /\ enabled' = IF r \in profile THEN [enabled EXCEPT ![r] = state] ELSE enabled
         /\ job' \in Toggles \cup {None, Other}
         /\ since' \in [Rules -> 0..Interval]
         /\ hasty' \in SUBSET Rules
         /\ excepted' \in SUBSET Rules
<1>1. CASE r \in profile /\ linked[r] # state /\ job = None /\ up
  <2>1. cooldown' = handles /\ timer' = running
    BY <1>1 DEF Execute
  <2>2. job' \in Toggles /\ since' \in [Rules -> 0..Interval] /\ hasty' \in SUBSET Rules
    BY <1>1, ToggleAssumption DEF Execute, TypeOK, Toggles
  <2>3. QED  BY <2>1, <2>2 DEF Execute, TypeOK
<1>2. CASE ~(r \in profile /\ linked[r] # state /\ job = None /\ up)
  <2>1. StartCooldown(r, handles, running) /\ UNCHANGED <<job, since, hasty>>
    BY <1>2 DEF Execute
  <2>2. TimersOK(cooldown', timer') /\ \A s \in Rules : handles[s] # None => cooldown'[s] # None
    BY <2>1, CooldownStarts
  <2>3. QED  BY <2>1, <2>2 DEF Execute, TypeOK
<1>3. QED  BY <1>1, <1>2

LEMMA RequestKeeps ==
  ASSUME ToggleInv, NEW r \in Rules, NEW state \in BOOLEAN, Request(r, state)
  PROVE  ToggleInv'
<1> USE ToggleAssumption
<1>1. requests' \in 0..MaxRequests /\ asked' = [asked EXCEPT ![r] = state]
  BY DEF Request, ToggleInv, TypeOK
<1>2. CASE cooldown[r] # None
  <2>1. /\ pending' = [pending EXCEPT ![r] = state]
        /\ UNCHANGED <<enabled, job, cooldown, executed, timer, history, up, profile, linked, others>>
    BY <1>2 DEF Request
  <2>2. TypeOK'
    BY <1>1, <2>1 DEF ToggleInv, TypeOK, history, States
  <2>3. CooldownRuns' /\ PendingCools' /\ ExecutedStored'
    BY <1>2, <2>1 DEF ToggleInv, TypeOK, CooldownRuns, PendingCools, ExecutedStored
  <2>4. ShowsLastRequest'
    BY <1>1, <2>1 DEF ToggleInv, TypeOK, ShowsLastRequest, Shown
  <2>5. QED  BY <2>2, <2>3, <2>4 DEF ToggleInv
<1>3. CASE cooldown[r] = None
  <2>1. /\ Execute(r, state, cooldown, timer)
        /\ UNCHANGED <<pending, up, profile, linked, others>>
    BY <1>3 DEF Request
  <2>2. TimersOK(cooldown, timer)
    BY DEF TimersOK, ToggleInv, TypeOK, CooldownRuns
  <2>3. /\ TimersOK(cooldown', timer')
        /\ \A s \in Rules : cooldown[s] # None => cooldown'[s] # None
        /\ executed' = [executed EXCEPT ![r] = state]
        /\ enabled' = IF r \in profile THEN [enabled EXCEPT ![r] = state] ELSE enabled
        /\ job' \in Toggles \cup {None, Other}
        /\ since' \in [Rules -> 0..Interval]
        /\ hasty' \in SUBSET Rules
        /\ excepted' \in SUBSET Rules
    BY <2>1, <2>2, ExecutionLeaves DEF ToggleInv
  <2>4. TypeOK'
    BY <1>1, <2>1, <2>3 DEF ToggleInv, TypeOK, States, TimersOK
  <2>5. CooldownRuns' /\ PendingCools' /\ ExecutedStored'
    BY <2>1, <2>3 DEF ToggleInv, TypeOK, CooldownRuns, PendingCools, ExecutedStored, TimersOK
  <2>6. ShowsLastRequest'
    BY <1>1, <1>3, <2>1, <2>3 DEF ToggleInv, TypeOK, ShowsLastRequest, Shown, PendingCools
  <2>7. QED  BY <2>4, <2>5, <2>6 DEF ToggleInv
<1>4. QED  BY <1>2, <1>3

LEMMA ElapsedKeeps ==
  ASSUME ToggleInv, NEW t \in Timers, Elapsed(t)
  PROVE  ToggleInv'
<1> DEFINE r == timer[t].rule
           handles == [cooldown EXCEPT ![r] = None]
           running == [timer EXCEPT ![t] = None]
<1> USE ToggleAssumption
<1>1. timer[t] \in [rule : Rules, left : 0..Interval] /\ r \in Rules
  BY DEF Elapsed, ToggleInv, TypeOK
<1>2. TimersOK(handles, running)
  <2>1. /\ handles \in [Rules -> Timers \cup {None}]
        /\ running \in [Timers -> [rule : Rules, left : 0..Interval] \cup {None}]
    BY <1>1 DEF ToggleInv, TypeOK
  <2>2. ASSUME NEW s \in Rules, handles[s] # None
        PROVE  running[handles[s]] # None /\ running[handles[s]].rule = s
    <3>1. s # r /\ handles[s] = cooldown[s] /\ cooldown[s] \in Timers
      BY <2>2, <1>1 DEF ToggleInv, TypeOK
    <3>2. timer[cooldown[s]] # None /\ timer[cooldown[s]].rule = s
      BY <2>2, <3>1 DEF ToggleInv, CooldownRuns
    <3>3. cooldown[s] # t
      BY <3>1, <3>2
    <3>4. running[handles[s]] = timer[cooldown[s]]
      BY <3>1, <3>3 DEF ToggleInv, TypeOK
    <3>5. QED  BY <3>2, <3>4
  <2>3. QED  BY <2>1, <2>2 DEF TimersOK
<1>3. /\ pending' = [pending EXCEPT ![r] = None]
      /\ UNCHANGED <<up, profile, linked, asked, spent>>
  BY DEF Elapsed
<1>4. CASE pending[r] \in {None, executed[r]}
  <2>1. /\ cooldown' = handles /\ timer' = running
        /\ UNCHANGED <<enabled, job, executed, history>>
    BY <1>4 DEF Elapsed
  <2>2. TypeOK'
    BY <1>1, <1>2, <1>3, <2>1 DEF ToggleInv, TypeOK, TimersOK, States, history, spent
  <2>3. CooldownRuns' /\ PendingCools' /\ ExecutedStored'
    BY <1>1, <1>2, <1>3, <2>1
       DEF ToggleInv, TypeOK, TimersOK, CooldownRuns, PendingCools, ExecutedStored
  <2>4. ShowsLastRequest'
    BY <1>1, <1>3, <1>4, <2>1 DEF ToggleInv, TypeOK, ShowsLastRequest, Shown, ExecutedStored
  <2>5. QED  BY <2>2, <2>3, <2>4 DEF ToggleInv
<1>5. CASE pending[r] \notin {None, executed[r]}
  <2>1. Execute(r, pending[r], handles, running) /\ pending[r] \in BOOLEAN
    BY <1>1, <1>5 DEF Elapsed, ToggleInv, TypeOK, States
  <2>2. /\ TimersOK(cooldown', timer')
        /\ \A s \in Rules : handles[s] # None => cooldown'[s] # None
        /\ executed' = [executed EXCEPT ![r] = pending[r]]
        /\ enabled' = IF r \in profile THEN [enabled EXCEPT ![r] = pending[r]] ELSE enabled
        /\ job' \in Toggles \cup {None, Other}
        /\ since' \in [Rules -> 0..Interval]
        /\ hasty' \in SUBSET Rules
        /\ excepted' \in SUBSET Rules
    BY <1>1, <1>2, <2>1, ExecutionLeaves DEF ToggleInv
  <2>3. TypeOK'
    BY <1>1, <1>3, <2>1, <2>2 DEF ToggleInv, TypeOK, States, TimersOK, spent
  <2>4. CooldownRuns' /\ PendingCools' /\ ExecutedStored'
    BY <1>1, <1>3, <2>1, <2>2
       DEF ToggleInv, TypeOK, CooldownRuns, PendingCools, ExecutedStored, TimersOK
  <2>5. ShowsLastRequest'
    BY <1>1, <1>3, <2>1, <2>2 DEF ToggleInv, TypeOK, ShowsLastRequest, Shown
  <2>6. QED  BY <2>3, <2>4, <2>5 DEF ToggleInv
<1>6. QED  BY <1>4, <1>5

LEMMA JobEndKeeps == ASSUME ToggleInv, JobEnds PROVE ToggleInv'
<1> USE ToggleAssumption
<1>1. job.rule \in Rules /\ job.enabled \in BOOLEAN
  BY DEF JobEnds, Toggles
<1>2. TimersOK(cooldown, timer)
  BY DEF TimersOK, ToggleInv, TypeOK, CooldownRuns
<1>3. StartCooldown(job.rule, cooldown, timer)
  BY DEF JobEnds
<1>4. /\ TimersOK(cooldown', timer')
      /\ \A s \in Rules : cooldown[s] # None => cooldown'[s] # None
  BY <1>1, <1>2, <1>3, CooldownStarts
<1>5. linked' \in [Rules -> BOOLEAN]
  BY <1>1 DEF JobEnds, ToggleInv, TypeOK
<1>6. job' = None
      /\ UNCHANGED <<up, profile, enabled, pending, executed, asked, history, spent>>
  BY DEF JobEnds
<1>7. TypeOK'
  BY <1>4, <1>5, <1>6 DEF ToggleInv, TypeOK, TimersOK, history, spent
<1>8. CooldownRuns' /\ PendingCools' /\ ExecutedStored' /\ ShowsLastRequest'
  BY <1>4, <1>6 DEF ToggleInv, TypeOK, TimersOK, CooldownRuns, PendingCools, ExecutedStored,
     ShowsLastRequest, Shown
<1>9. QED  BY <1>7, <1>8 DEF ToggleInv

LEMMA CancelledKeeps == ASSUME ToggleInv, CallerCancelled PROVE ToggleInv'
<1>1. job.rule \in Rules /\ job.enabled \in BOOLEAN
  BY DEF CallerCancelled, Toggles
<1>2. /\ job' = None /\ excepted' = excepted \cup {job.rule} /\ others' = others + 1
      /\ others < MaxOthers
      /\ UNCHANGED <<up, profile, enabled, limiter, asked, since, hasty, requests>>
  BY DEF CallerCancelled
<1>3. linked' \in [Rules -> BOOLEAN]
  BY <1>1 DEF CallerCancelled, ToggleInv, TypeOK
<1>4. others' \in 0..MaxOthers
  BY <1>2, ToggleAssumption DEF ToggleInv, TypeOK
<1>5. TypeOK'
  BY <1>1, <1>2, <1>3, <1>4 DEF ToggleInv, TypeOK, limiter
<1>6. CooldownRuns' /\ PendingCools' /\ ExecutedStored' /\ ShowsLastRequest'
  BY <1>2 DEF ToggleInv, CooldownRuns, PendingCools, ExecutedStored, ShowsLastRequest, Shown,
              limiter
<1>7. QED  BY <1>5, <1>6 DEF ToggleInv

LEMMA TickKeeps == ASSUME ToggleInv, Tick PROVE ToggleInv'
<1> USE ToggleAssumption
<1>1. \A t \in Timers : timer[t] # None => timer[t] \in [rule : Rules, left : 0..Interval]
  BY DEF ToggleInv, TypeOK
<1>2. ASSUME NEW t \in Timers
      PROVE  /\ timer[t] = None => timer'[t] = None
             /\ timer[t] # None => /\ timer'[t] \in [rule : Rules, left : 0..Interval]
                                   /\ timer'[t].rule = timer[t].rule
  <2>1. timer'[t] = IF timer[t] = None THEN None ELSE [timer[t] EXCEPT !.left = @ - 1]
    BY DEF Tick
  <2>2. CASE timer[t] # None
    <3>1. timer[t].left > 0 /\ timer[t].left - 1 \in 0..Interval
      BY <1>1, <2>2 DEF Tick
    <3>2. QED  BY <1>1, <2>1, <2>2, <3>1
  <2>3. QED  BY <2>1, <2>2
<1>3. timer' \in [Timers -> [rule : Rules, left : 0..Interval] \cup {None}]
  <2>1. timer' = [t \in Timers |-> timer'[t]]
    BY DEF Tick
  <2>2. QED  BY <1>2, <2>1, SMT
<1>4. since' \in [Rules -> 0..Interval]
  BY DEF Tick, ToggleInv, TypeOK
<1>5. UNCHANGED <<up, profile, enabled, linked, job, cooldown, pending, executed, asked,
                  hasty, excepted, spent>>
  BY DEF Tick
<1>6. TypeOK'
  BY <1>3, <1>4, <1>5 DEF ToggleInv, TypeOK, spent
<1>7. CooldownRuns'
  <2>1. ASSUME NEW r \in Rules, cooldown[r] # None
        PROVE  timer'[cooldown[r]] # None /\ timer'[cooldown[r]].rule = r
    <3>1. cooldown[r] \in Timers /\ timer[cooldown[r]] # None /\ timer[cooldown[r]].rule = r
      BY <2>1 DEF ToggleInv, TypeOK, CooldownRuns
    <3>2. QED  BY <3>1, <1>2
  <2>2. QED  BY <2>1, <1>5 DEF CooldownRuns
<1>8. PendingCools' /\ ExecutedStored' /\ ShowsLastRequest'
  BY <1>5 DEF ToggleInv, PendingCools, ExecutedStored, ShowsLastRequest, Shown
<1>9. QED  BY <1>6, <1>7, <1>8 DEF ToggleInv

LEMMA OthersKeep ==
  ASSUME ToggleInv, OtherStarts \/ OtherEnds \/ \E r \in Rules : Delete(r)
  PROVE  ToggleInv'
<1> USE ToggleAssumption DEF ToggleInv, TypeOK, CooldownRuns, PendingCools, ExecutedStored,
        ShowsLastRequest, Shown, limiter, history, spent
<1>1. CASE OtherStarts
  BY <1>1 DEF OtherStarts
<1>2. CASE OtherEnds
  BY <1>2 DEF OtherEnds
<1>3. ASSUME NEW r \in Rules, Delete(r) PROVE ToggleInv'
  BY <1>3 DEF Delete
<1>4. QED  BY <1>1, <1>2, <1>3

LEMMA ShutdownKeeps == ASSUME ToggleInv, Shutdown PROVE ToggleInv'
BY ToggleAssumption DEF Shutdown, ToggleInv, TypeOK, CooldownRuns, PendingCools, ExecutedStored,
   ShowsLastRequest, Shown, history, spent, States

LEMMA Step == ToggleInv /\ [Next]_vars => ToggleInv'
<1> SUFFICES ASSUME ToggleInv, [Next]_vars PROVE ToggleInv'
  OBVIOUS
<1>1. ASSUME NEW r \in Rules, NEW state \in BOOLEAN, Request(r, state) PROVE ToggleInv'
  BY <1>1, RequestKeeps
<1>2. ASSUME NEW t \in Timers, Elapsed(t) PROVE ToggleInv'
  BY <1>2, ElapsedKeeps
<1>3. CASE UNCHANGED vars
  BY <1>3 DEF vars, ToggleInv, TypeOK, CooldownRuns, PendingCools, ExecutedStored,
     ShowsLastRequest, Shown
<1>4. QED  BY <1>1, <1>2, <1>3, JobEndKeeps, CancelledKeeps, TickKeeps, OthersKeep,
              ShutdownKeeps DEF Next

LEMMA Always == Spec => []ToggleInv
BY Initially, Step, PTL DEF Spec

(* Every variable of the limiter keeps its type; no timer runs longer than *)
(* the interval.                                                           *)
THEOREM ToggleTyped == Spec => []TypeOK
BY Always, PTL DEF ToggleInv

(* A request that waits has a timer that will execute it, however many     *)
(* timers overlapping requests have started for its rule.                  *)
THEOREM NothingWaitsForEver == Spec => []WaitsForATimer
<1>1. ToggleInv => WaitsForATimer
  BY ToggleAssumption
     DEF ToggleInv, TypeOK, CooldownRuns, PendingCools, WaitsForATimer
<1>2. QED  BY Always, <1>1, PTL

(* The switch of a rule always shows what was last asked for.              *)
THEOREM SwitchShowsRequest == Spec => []ShowsLastRequest
BY Always, PTL DEF ToggleInv

----------------------------------------------------------------------------
(* The rate.  Of a rule whose toggles nobody disturbs in their own writes, *)
(* the timer that runs is the one the limiter knows of, none runs during   *)
(* the write, and together with the ticks since the write began it runs    *)
(* for the whole interval.                                                 *)
RateOK(r, handles, running, work, ticks) ==
  /\ \A t \in Timers : running[t] # None /\ running[t].rule = r => handles[r] = t
  /\ work \in Toggles /\ work.rule = r => handles[r] = None
  /\ ticks[r] < Interval =>
       \/ work \in Toggles /\ work.rule = r
       \/ handles[r] # None /\ running[handles[r]].left + ticks[r] >= Interval

RateInv ==
  /\ RateLimitedInTurn
  /\ up => \A r \in Rules \ excepted : RateOK(r, cooldown, timer, job, since)

LEMMA RateInitially == Init => RateInv
BY ToggleAssumption DEF Init, RateInv, RateLimitedInTurn, RateOK

(* A cooldown that starts for a rule with none keeps the rate of each.     *)
LEMMA CooldownKeepsRate ==
  ASSUME ToggleInv, up, NEW r \in Rules, NEW handles, NEW running, NEW work, NEW except,
         TimersOK(handles, running), StartCooldown(r, handles, running),
         \A t \in Timers : r \notin except /\ running[t] # None => running[t].rule # r,
         r \notin except => ~(work \in Toggles /\ work.rule = r),
         \A s \in Rules \ (except \cup {r}) : RateOK(s, handles, running, work, since)
  PROVE  \A s \in Rules \ except : RateOK(s, cooldown', timer', work, since)
<1>1. PICK t \in Timers : /\ running[t] = None
                          /\ cooldown' = [handles EXCEPT ![r] = t]
                          /\ timer' = [running EXCEPT ![t] = Started(r)]
  BY DEF StartCooldown
<1>2. Started(r) # None /\ Started(r).rule = r /\ Started(r).left = Interval /\ t # None
  BY ToggleAssumption DEF Started
<1>3. handles \in [Rules -> Timers \cup {None}]
      /\ running \in [Timers -> [rule : Rules, left : 0..Interval] \cup {None}]
  BY DEF TimersOK
<1>. SUFFICES ASSUME NEW s \in Rules \ except
              PROVE  RateOK(s, cooldown', timer', work, since)
  OBVIOUS
<1>4. CASE s = r
  <2>1. cooldown'[r] = t /\ timer'[t] = Started(r)
    BY <1>1, <1>3
  <2>2. \A q \in Timers : q # t => timer'[q] = running[q]
    BY <1>1, <1>3
  <2>3. since[r] \in 0..Interval /\ Interval \in Nat
    BY ToggleAssumption DEF ToggleInv, TypeOK
  <2>4. Interval + since[r] >= Interval
    BY <2>3
  <2>. QED
    BY <1>2, <1>4, <2>1, <2>2, <2>4 DEF RateOK
<1>5. CASE s # r
  <2>1. cooldown'[s] = handles[s]
    BY <1>1, <1>3, <1>5
  <2>2. \A q \in Timers : q # t => timer'[q] = running[q]
    BY <1>1, <1>3
  <2>3. timer'[t] = Started(r)
    BY <1>1, <1>3
  <2>4. handles[s] # None => handles[s] \in Timers /\ handles[s] # t
    BY <1>1, <1>3 DEF TimersOK
  <2>5. RateOK(s, handles, running, work, since)
    BY <1>5
  <2>. QED
    BY <1>2, <1>5, <2>1, <2>2, <2>3, <2>4, <2>5 DEF RateOK
<1>. QED
  BY <1>4, <1>5

(* Only a rule that is out of its interval, or whose toggle was disturbed  *)
(* in its write, begins a write.                                           *)
LEMMA ExecutionKeepsRate ==
  ASSUME ToggleInv, RateInv, up, NEW r \in Rules, NEW state \in BOOLEAN, NEW handles, NEW running,
         TimersOK(handles, running), handles[r] = None, Execute(r, state, handles, running),
         \A s \in Rules \ excepted : RateOK(s, handles, running, job, since)
  PROVE  /\ hasty' \subseteq excepted'
         /\ \A s \in Rules \ excepted' : RateOK(s, cooldown', timer', job', since')
<1>0. hasty \subseteq excepted /\ excepted \subseteq excepted'
      /\ excepted' \subseteq excepted \cup {r}
  BY DEF Execute, RateInv, RateLimitedInTurn
<1>1. CASE r \in profile /\ linked[r] # state /\ job = None /\ up
  <2>1. /\ job' = [rule |-> r, enabled |-> state] /\ cooldown' = handles /\ timer' = running
        /\ since' = [since EXCEPT ![r] = 0]
        /\ hasty' = IF since[r] < Interval THEN hasty \cup {r} ELSE hasty
    BY <1>1 DEF Execute
  <2>2. job \notin Toggles
    BY <1>1, ToggleAssumption DEF Toggles
  <2>3. r \notin excepted => ~(since[r] < Interval)
    BY <2>2 DEF RateOK
  <2>4. hasty' \subseteq excepted'
    BY <1>0, <2>1, <2>3
  <2>5. ASSUME NEW s \in Rules \ excepted'
        PROVE  RateOK(s, cooldown', timer', job', since')
    <3>1. RateOK(s, handles, running, job, since)
      BY <1>0
    <3>2. CASE s = r
      <4>1. job' \in Toggles /\ job'.rule = r
        BY <2>1 DEF Toggles
      <4>. QED
        BY <2>1, <3>1, <3>2, <4>1 DEF RateOK
    <3>3. CASE s # r
      <4>1. since'[s] = since[s] /\ job'.rule # s
        BY <2>1, <3>3 DEF ToggleInv, TypeOK
      <4>. QED
        BY <2>1, <2>2, <3>1, <4>1 DEF RateOK
    <3>. QED
      BY <3>2, <3>3
  <2>. QED
    BY <2>4, <2>5
<1>2. CASE ~(r \in profile /\ linked[r] # state /\ job = None /\ up)
  <2>1. StartCooldown(r, handles, running) /\ job' = job /\ since' = since /\ hasty' = hasty
    BY <1>2 DEF Execute
  <2>2. r \notin excepted' => ~(job \in Toggles /\ job.rule = r)
    BY DEF Execute
  <2>3. \A t \in Timers : r \notin excepted' /\ running[t] # None => running[t].rule # r
    <3>1. \A t \in Timers : t # None
      BY ToggleAssumption
    <3>. QED
      BY <1>0, <3>1 DEF RateOK
  <2>4. \A s \in Rules \ (excepted' \cup {r}) : RateOK(s, handles, running, job, since)
    BY <1>0
  <2>5. \A s \in Rules \ excepted' : RateOK(s, cooldown', timer', job, since)
    <3>. DEFINE except == excepted'
    <3>1. r \notin except => ~(job \in Toggles /\ job.rule = r)
      BY <2>2
    <3>2. \A t \in Timers : r \notin except /\ running[t] # None => running[t].rule # r
      BY <2>3
    <3>3. \A s \in Rules \ (except \cup {r}) : RateOK(s, handles, running, job, since)
      BY <2>4
    <3>. HIDE DEF except
    <3>4. \A s \in Rules \ except : RateOK(s, cooldown', timer', job, since)
      BY <2>1, <3>1, <3>2, <3>3, CooldownKeepsRate
    <3>. QED
      BY <3>4 DEF except
  <2>. QED
    BY <1>0, <2>1, <2>5
<1>. QED
  BY <1>1, <1>2

LEMMA RequestKeepsRate ==
  ASSUME ToggleInv, RateInv, NEW r \in Rules, NEW state \in BOOLEAN, Request(r, state)
  PROVE  RateInv'
<1>1. up /\ up' = up
  BY DEF Request
<1>2. CASE cooldown[r] # None
  BY <1>1, <1>2 DEF Request, RateInv, RateLimitedInTurn, history
<1>3. CASE cooldown[r] = None
  <2>1. Execute(r, state, cooldown, timer)
    BY <1>3 DEF Request
  <2>2. TimersOK(cooldown, timer)
    BY DEF TimersOK, ToggleInv, TypeOK, CooldownRuns
  <2>3. \A s \in Rules \ excepted : RateOK(s, cooldown, timer, job, since)
    BY <1>1 DEF RateInv
  <2>4. /\ hasty' \subseteq excepted'
        /\ \A s \in Rules \ excepted' : RateOK(s, cooldown', timer', job', since')
    BY <1>1, <1>3, <2>1, <2>2, <2>3, ExecutionKeepsRate
  <2>. QED
    BY <2>4 DEF RateInv, RateLimitedInTurn
<1>. QED
  BY <1>2, <1>3

LEMMA ElapsedKeepsRate ==
  ASSUME ToggleInv, RateInv, NEW t \in Timers, Elapsed(t)
  PROVE  RateInv'
<1> DEFINE r == timer[t].rule
           handles == [cooldown EXCEPT ![r] = None]
           running == [timer EXCEPT ![t] = None]
<1>1. /\ timer[t] # None /\ timer[t] \in [rule : Rules, left : 0..Interval] /\ r \in Rules
      /\ timer[t].left = 0 /\ up' = up /\ t # None
  BY ToggleAssumption DEF Elapsed, ToggleInv, TypeOK
<1>2. /\ cooldown \in [Rules -> Timers \cup {None}]
      /\ timer \in [Timers -> [rule : Rules, left : 0..Interval] \cup {None}]
      /\ since \in [Rules -> 0..Interval] /\ Interval \in Nat
  BY ToggleAssumption DEF ToggleInv, TypeOK
<1>3. \A s \in Rules : s # r => handles[s] = cooldown[s]
  BY <1>1, <1>2
<1>4. handles[r] = None
  BY <1>1, <1>2
<1>5. \A s \in Rules : s # r /\ cooldown[s] # None =>
        /\ cooldown[s] # t /\ cooldown[s] \in Timers
        /\ running[cooldown[s]] = timer[cooldown[s]]
  BY <1>1, <1>2 DEF ToggleInv, CooldownRuns
<1>6. TimersOK(handles, running)
  <2>1. /\ handles \in [Rules -> Timers \cup {None}]
        /\ running \in [Timers -> [rule : Rules, left : 0..Interval] \cup {None}]
    BY <1>1, <1>2
  <2>2. ASSUME NEW s \in Rules, handles[s] # None
        PROVE  running[handles[s]] # None /\ running[handles[s]].rule = s
    BY <1>3, <1>4, <1>5, <2>2 DEF ToggleInv, CooldownRuns
  <2>. QED
    BY <2>1, <2>2 DEF TimersOK
<1>7. \A q \in Timers : running[q] = IF q = t THEN None ELSE timer[q]
  BY <1>2
<1>8. ASSUME up, NEW s \in Rules \ excepted
      PROVE  RateOK(s, handles, running, job, since)
  <2>1. RateOK(s, cooldown, timer, job, since)
    BY <1>8 DEF RateInv
  <2>2. CASE s # r
    BY <1>3, <1>5, <1>7, <2>1, <2>2 DEF RateOK
  <2>3. CASE s = r
    <3>1. cooldown[r] = t
      BY <1>1, <2>1, <2>3 DEF RateOK
    <3>2. ~(job \in Toggles /\ job.rule = r)
      BY <1>1, <2>1, <2>3, <3>1 DEF RateOK
    <3>3. ~(since[r] < Interval)
      <4>1. SUFFICES ASSUME since[r] < Interval PROVE FALSE
        OBVIOUS
      <4>2. timer[t].left + since[r] >= Interval
        BY <2>1, <2>3, <3>1, <3>2, <4>1 DEF RateOK
      <4>3. since[r] \in 0..Interval
        BY <1>1, <1>2
      <4>. QED
        BY <1>1, <1>2, <4>1, <4>2, <4>3
    <3>4. \A q \in Timers : running[q] # None => running[q].rule # r
      BY <1>7, <2>1, <2>3, <3>1 DEF RateOK
    <3>. QED
      BY <1>4, <2>3, <3>2, <3>3, <3>4 DEF RateOK
  <2>. QED
    BY <2>2, <2>3
<1>9. CASE pending[r] \in {None, executed[r]}
  <2>1. cooldown' = handles /\ timer' = running /\ UNCHANGED <<job, history>>
    BY <1>9 DEF Elapsed
  <2>. QED
    BY <1>1, <1>8, <2>1 DEF RateInv, RateLimitedInTurn, history
<1>10. CASE pending[r] \notin {None, executed[r]}
  <2>1. Execute(r, pending[r], handles, running) /\ pending[r] \in BOOLEAN
    BY <1>1, <1>10 DEF Elapsed, ToggleInv, TypeOK, States
  <2>2. CASE up
    <3>. HIDE DEF handles, running, r
    <3>1. /\ hasty' \subseteq excepted'
          /\ \A s \in Rules \ excepted' : RateOK(s, cooldown', timer', job', since')
      BY <1>1, <1>4, <1>6, <1>8, <2>1, <2>2, ExecutionKeepsRate
    <3>. QED
      BY <3>1 DEF RateInv, RateLimitedInTurn
  <2>3. CASE ~up
    BY <1>1, <2>1, <2>3 DEF Execute, RateInv, RateLimitedInTurn
  <2>. QED
    BY <2>2, <2>3
<1>. QED
  BY <1>9, <1>10

LEMMA JobEndKeepsRate == ASSUME ToggleInv, RateInv, JobEnds PROVE RateInv'
<1>1. /\ job \in Toggles /\ job' = None /\ up' = up /\ UNCHANGED history
      /\ StartCooldown(job.rule, cooldown, timer) /\ job.rule \in Rules
  BY DEF JobEnds, Toggles
<1>2. CASE ~up
  BY <1>1, <1>2 DEF RateInv, RateLimitedInTurn, history
<1>3. CASE up
  <2>1. \A r \in Rules \ excepted : RateOK(r, cooldown, timer, job, since)
    BY <1>3 DEF RateInv
  <2>2. TimersOK(cooldown, timer)
    BY DEF TimersOK, ToggleInv, TypeOK, CooldownRuns
  <2>3. None \notin Toggles /\ \A t \in Timers : t # None
    BY ToggleAssumption DEF Toggles
  <2>4. \A r \in Rules \ (excepted \cup {job.rule}) : RateOK(r, cooldown, timer, None, since)
    BY <2>1, <2>3 DEF RateOK
  <2>5. \A t \in Timers : job.rule \notin excepted /\ timer[t] # None => timer[t].rule # job.rule
    BY <1>1, <2>1, <2>3 DEF RateOK
  <2>6. \A r \in Rules \ excepted : RateOK(r, cooldown', timer', None, since)
    BY <1>1, <1>3, <2>2, <2>3, <2>4, <2>5, CooldownKeepsRate
  <2>. QED
    BY <1>1, <2>6 DEF RateInv, RateLimitedInTurn, history
<1>. QED
  BY <1>2, <1>3

LEMMA CancelledKeepsRate == ASSUME ToggleInv, RateInv, CallerCancelled PROVE RateInv'
<1>1. /\ job \in Toggles /\ job' = None /\ excepted' = excepted \cup {job.rule}
      /\ UNCHANGED <<up, cooldown, timer, since, hasty>>
  BY DEF CallerCancelled, limiter
<1>2. None \notin Toggles
  BY ToggleAssumption DEF Toggles
<1>3. ASSUME up, NEW r \in Rules \ excepted'  PROVE RateOK(r, cooldown, timer, None, since)
  <2>1. RateOK(r, cooldown, timer, job, since) /\ r # job.rule
    BY <1>1, <1>3 DEF RateInv
  <2>2. QED  BY <1>2, <2>1 DEF RateOK
<1>4. QED  BY <1>1, <1>3 DEF RateInv, RateLimitedInTurn

LEMMA TickKeepsRate == ASSUME ToggleInv, RateInv, Tick PROVE RateInv'
<1>1. UNCHANGED <<up, job, cooldown, hasty, excepted>>
  BY DEF Tick
<1>2. ASSUME NEW t \in Timers
      PROVE  /\ timer'[t] # None => timer[t] # None
             /\ timer[t] # None => /\ timer'[t] # None /\ timer'[t].rule = timer[t].rule
                                   /\ timer'[t].left = timer[t].left - 1
                                   /\ timer[t].left \in Nat
  <2>1. timer'[t] = IF timer[t] = None THEN None ELSE [timer[t] EXCEPT !.left = @ - 1]
    BY DEF Tick
  <2>2. timer[t] # None => timer[t] \in [rule : Rules, left : 0..Interval]
    BY DEF ToggleInv, TypeOK
  <2>3. CASE timer[t] # None
    <3>1. timer[t].left > 0 /\ timer[t].left - 1 \in 0..Interval /\ timer[t].left \in Nat
      BY <2>2, <2>3, ToggleAssumption DEF Tick
    <3>2. timer'[t] \in [rule : Rules, left : 0..Interval]
          /\ timer'[t].rule = timer[t].rule /\ timer'[t].left = timer[t].left - 1
      BY <2>1, <2>2, <2>3, <3>1
    <3>3. timer'[t] # None
      BY <3>2, ToggleAssumption
    <3>. QED
      BY <2>3, <3>1, <3>2, <3>3
  <2>4. CASE timer[t] = None
    BY <2>1, <2>4
  <2>. QED
    BY <2>3, <2>4
<1>3. ASSUME NEW r \in Rules
      PROVE  /\ since[r] \in Nat
             /\ since'[r] < Interval => since[r] < Interval /\ since'[r] = since[r] + 1
  <2>1. since'[r] = IF since[r] < Interval THEN since[r] + 1 ELSE Interval
    BY DEF Tick
  <2>2. since[r] \in 0..Interval
    BY DEF ToggleInv, TypeOK
  <2>. QED
    BY <2>1, <2>2, ToggleAssumption
<1>4. ASSUME up, NEW r \in Rules \ excepted
      PROVE  RateOK(r, cooldown, timer', job, since')
  <2>1. RateOK(r, cooldown, timer, job, since)
    BY <1>4 DEF RateInv
  <2>2. \A t \in Timers : timer'[t] # None /\ timer'[t].rule = r => cooldown[r] = t
    BY <1>2, <2>1 DEF RateOK
  <2>3. ASSUME since'[r] < Interval, ~(job \in Toggles /\ job.rule = r)
        PROVE  cooldown[r] # None /\ timer'[cooldown[r]].left + since'[r] >= Interval
    <3>1. cooldown[r] # None /\ timer[cooldown[r]].left + since[r] >= Interval
      BY <1>3, <2>1, <2>3 DEF RateOK
    <3>2. cooldown[r] \in Timers /\ timer[cooldown[r]] # None
      BY <3>1 DEF ToggleInv, TypeOK, CooldownRuns
    <3>3. /\ timer'[cooldown[r]].left = timer[cooldown[r]].left - 1
          /\ timer[cooldown[r]].left \in Nat
      BY <1>2, <3>2
    <3>4. since'[r] = since[r] + 1 /\ since[r] \in Nat
      BY <1>3, <2>3
    <3>. QED
      BY <3>1, <3>3, <3>4, ToggleAssumption
  <2>. QED
    BY <2>1, <2>2, <2>3 DEF RateOK
<1>. QED
  BY <1>1, <1>4 DEF RateInv, RateLimitedInTurn

LEMMA OthersKeepRate ==
  ASSUME ToggleInv, RateInv, OtherStarts \/ OtherEnds \/ Shutdown \/ \E r \in Rules : Delete(r)
  PROVE  RateInv'
<1> USE DEF RateInv, RateLimitedInTurn
<1>0. None \notin Toggles /\ Other \notin Toggles
  BY ToggleAssumption DEF Toggles
<1>1. CASE OtherStarts
  BY <1>0, <1>1 DEF OtherStarts, limiter, history, RateOK
<1>2. CASE OtherEnds
  BY <1>0, <1>2 DEF OtherEnds, limiter, history, RateOK
<1>3. CASE Shutdown
  BY <1>3 DEF Shutdown, history
<1>4. ASSUME NEW r \in Rules, Delete(r) PROVE RateInv'
  BY <1>4 DEF Delete, limiter, history
<1>5. QED  BY <1>1, <1>2, <1>3, <1>4

LEMMA RateStep == ToggleInv /\ RateInv /\ [Next]_vars => RateInv'
<1> SUFFICES ASSUME ToggleInv, RateInv, [Next]_vars PROVE RateInv'
  OBVIOUS
<1>1. ASSUME NEW r \in Rules, NEW state \in BOOLEAN, Request(r, state) PROVE RateInv'
  BY <1>1, RequestKeepsRate
<1>2. ASSUME NEW t \in Timers, Elapsed(t) PROVE RateInv'
  BY <1>2, ElapsedKeepsRate
<1>3. CASE UNCHANGED vars
  BY <1>3 DEF vars, RateInv, RateLimitedInTurn
<1>4. QED  BY <1>1, <1>2, <1>3, JobEndKeepsRate, CancelledKeepsRate, TickKeepsRate,
              OthersKeepRate DEF Next

(* E35 and FR-E1: a rule is written at most once in an interval, unless it *)
(* was toggled, or the task of its toggle was cancelled, while a toggle of *)
(* it was writing, with any number of rules, of timers and of requests.    *)
THEOREM RateKeptInTurn == Spec => []RateLimitedInTurn
<1>1. RateInv => RateLimitedInTurn
  BY DEF RateInv
<1>2. QED  BY RateInitially, RateStep, Always, <1>1, PTL DEF Spec

=============================================================================
