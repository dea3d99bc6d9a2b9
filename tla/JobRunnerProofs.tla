-------------------------- MODULE JobRunnerProofs ---------------------------
(***************************************************************************)
(* Theorems about JobRunner, for every set of devices, links and rules,    *)
(* every limit and every number of jobs: its types, and what a stop and a  *)
(* report mean.                                                            *)
(***************************************************************************)
EXTENDS JobRunner, TLAPS

(* A coroutine that waits for an answer or a backoff is on a write of its  *)
(* own device, already counted; one in a backoff has an attempt left.      *)
CursorOK ==
  \A d \in Devices : pc[d] \in {"call", "backoff"} =>
    /\ cur[d] \in WriteOf(d)
    /\ attempts[cur[d]] > 0
    /\ pc[d] = "backoff" => attempts[cur[d]] <= Retries

(* What a job writes is what its plan adds or removes. *)
WritesOK == \A l \in request.writes : request.op[l] \in WriteOps

(* There are device coroutines only while the apply waits for them. *)
AtRest == phase # "work" => \A d \in Devices : pc[d] = "off"

TypeInv == TypeOK /\ CursorOK /\ WritesOK /\ AtRest

(* A plan is a plan, whatever it is made of. *)
LEMMA PlanTyped ==
  ASSUME NEW holds, NEW answers, NEW scope, NEW selected, NEW desired
  PROVE  PlanOf(holds, answers, scope, selected, desired) \in [Links -> PlanOps]
BY DEF PlanOf, BuildPlan, PlanOps

(* A report of a typed job is a typed report. *)
LEMMA ReportTyped ==
  ASSUME TypeOK, NEW req \in RequestType, NEW out \in [Links -> Outcomes],
         NEW why \in Stops, NEW killed \in BOOLEAN
  PROVE  ReportOf(req, out, why, killed) \in ReportType
<1>1. [l \in Links |-> IF req.op[l] # "none" /\ out[l] = "none" THEN "failed" ELSE out[l]]
        \in [Links -> Outcomes]
  BY DEF Outcomes, Results
<1>2. QED  BY <1>1 DEF ReportOf, ReportType, RequestType, TypeOK, Stops

(* What EndJob writes has the right types. *)
LEMMA EndTyped ==
  ASSUME TypeInv, NEW out \in [Links -> Outcomes], NEW why \in Stops, NEW killed \in BOOLEAN,
         EndJob(out, why, killed)
  PROVE  /\ report' \in ReportType
         /\ applied' \in SUBSET Rules
         /\ phase' = "idle" /\ stop' = "none"
         /\ request' \in RequestType /\ request'.writes = {}
         /\ toread' = {}
         /\ pc' = [d \in Devices |-> "off"]
         /\ cur' \in [Devices -> Links \cup {NoLink}]
         /\ attempts' \in [Links -> 0..Retries + 1]
         /\ outcome' \in [Links -> Outcomes]
         /\ verified' = {} /\ sent' = {}
<1> USE RunnerAssumption
<1>1. report' \in ReportType
  BY ReportTyped DEF EndJob, TypeInv, TypeOK
<1>2. applied' \in SUBSET Rules
  BY DEF EndJob, TypeInv, TypeOK, RequestType
<1>3. request' \in RequestType /\ request'.writes = {}
  BY DEF EndJob, NoRequest, RequestType, ScopeType, PlanOps
<1>4. QED  BY <1>1, <1>2, <1>3 DEF EndJob, Outcomes

(* The initial states. *)
LEMMA InitTyped == Init => TypeInv
<1> SUFFICES ASSUME Init PROVE TypeInv  OBVIOUS
<1> USE RunnerAssumption DEF Init, NoJob
<1>1. request \in RequestType /\ request.writes = {}
  BY DEF NoRequest, RequestType, ScopeType, PlanOps
<1>2. CursorOK /\ WritesOK /\ AtRest
  BY <1>1 DEF CursorOK, WritesOK, AtRest
<1>3. TypeOK
  BY <1>1 DEF TypeOK, Seen, Stops, Pcs, Outcomes
<1>4. QED  BY <1>2, <1>3 DEF TypeInv

----------------------------------------------------------------------------
(* The operations of the apply. *)

LEMMA StartTyped ==
  ASSUME TypeInv, NEW scope \in ScopeType, NEW selected \in SUBSET Links,
         NEW desired \in {Stored} \cup SUBSET Links, NEW op \in [Links -> PlanOps],
         StartJob(scope, selected, desired, op)
  PROVE  TypeInv'
<1> DEFINE refused == {l \in Links : op[l] # "none" /\ Refused(l, op[l], selected)}
           asked == [scope |-> scope, selected |-> selected, desired |-> desired,
                     op |-> op, writes |-> Writes(op) \ refused]
           answers == [l \in Links |-> IF l \in refused THEN "blocked" ELSE "none"]
<1> USE RunnerAssumption
<1>1. asked \in RequestType /\ \A l \in asked.writes : asked.op[l] \in WriteOps
  BY DEF RequestType, Writes
<1>2. answers \in [Links -> Outcomes]
  BY DEF Outcomes, Results
<1>3. UNCHANGED <<world, profile, coordinator, shut, stop, coroutines, attempts, verified,
                  sent, disturbances>>
  BY DEF StartJob
<1>4. jobs' \in 0..MaxJobs
  BY DEF StartJob, TypeInv, TypeOK
<1>5. CASE /\ phase' = "reread" /\ request' = asked /\ outcome' = answers
           /\ toread' = {SourceOf[l] : l \in asked.writes} /\ UNCHANGED report
  <2>1. toread' \in SUBSET Devices
    BY <1>1, <1>5, LinkAssumption DEF RequestType
  <2>2. TypeOK'
    BY <1>1, <1>2, <1>3, <1>4, <1>5, <2>1
    DEF TypeInv, TypeOK, world, profile, coordinator, coroutines
  <2>3. \A d \in Devices : pc'[d] = "off"
    BY <1>3 DEF StartJob, TypeInv, AtRest, coroutines
  <2>4. QED  BY <1>1, <1>5, <2>2, <2>3 DEF TypeInv, WritesOK, CursorOK, AtRest
<1>6. CASE /\ report' = ReportOf(asked, answers, "none", FALSE)
           /\ UNCHANGED <<phase, request, outcome, toread>>
  <2>1. report' \in ReportType
    BY <1>1, <1>2, <1>6, ReportTyped DEF TypeInv, Stops
  <2>2. QED  BY <1>3, <1>4, <1>6, <2>1
             DEF TypeInv, TypeOK, CursorOK, WritesOK, AtRest, WriteOf, world, profile,
                 coordinator, coroutines
<1>7. QED  BY <1>5, <1>6 DEF StartJob

LEMMA RequestsTyped == ASSUME TypeInv, Requests PROVE TypeInv'
<1>1. PICK selected \in Selections :
        \/ \E scope \in Scopes : Apply(scope, selected)
        \/ RemoveUnmanaged(selected)
        \/ Rollback(selected)
  BY DEF Requests
<1>2. selected \in SUBSET Links
  BY <1>1, RunnerAssumption
<1>3. ASSUME NEW scope \in Scopes, Apply(scope, selected)  PROVE TypeInv'
  <2>1. scope \in ScopeType
    BY RunnerAssumption DEF ScopeType
  <2>2. QED  BY <1>2, <1>3, <2>1, PlanTyped, StartTyped DEF Apply, PlanNow
<1>4. CASE RemoveUnmanaged(selected)
  <2> DEFINE scope == [rules |-> {}, devices |-> Devices]
             kept == {l \in selected : PlanNow(scope, selected, Stored)[l] = "remove"}
             op == [l \in Links |-> IF l \in kept THEN "remove" ELSE "none"]
  <2>1. scope \in ScopeType
    BY DEF ScopeType
  <2>2. op \in [Links -> PlanOps]
    BY DEF PlanOps
  <2>3. StartJob(scope, selected, Stored, op)
    BY <1>4 DEF RemoveUnmanaged
  <2> HIDE DEF scope, op
  <2>4. QED  BY <1>2, <2>1, <2>2, <2>3, StartTyped
<1>5. CASE Rollback(selected)
  <2> DEFINE scope == [rules |-> {}, devices |-> snap.devices]
  <2>1. snap \in SnapshotType /\ StartJob(scope, selected, snap.managed,
                                         PlanNow(scope, selected, snap.managed))
    BY <1>5 DEF Rollback, TypeInv, TypeOK
  <2>2. scope \in ScopeType /\ snap.managed \in SUBSET Links
    BY <2>1 DEF ScopeType, SnapshotType
  <2> HIDE DEF scope
  <2>3. QED  BY <1>2, <2>1, <2>2, PlanTyped, StartTyped DEF PlanNow
<1>6. QED  BY <1>1, <1>3, <1>4, <1>5

(* Reading a device keeps the cache and the device states typed. *)
LEMMA ReadTyped ==
  ASSUME TypeOK, NEW d \in Devices, Read(d)
  PROVE  /\ copy' \in SUBSET Links
         /\ cache' \in SUBSET Links
         /\ seen' \in [Devices -> Seen]
         /\ foreign' \in SUBSET Devices
<1>1. \A heard : CopyAfter(heard) \in SUBSET Links
  BY DEF TypeOK, CopyAfter
<1>2. \A found \in SUBSET Links : CacheAfter(d, found) \in SUBSET Links
  BY DEF TypeOK, CacheAfter
<1>3. \A answered \in BOOLEAN : SeenAfter(d, answered) \in [Devices -> Seen]
  BY DEF TypeOK, SeenAfter, Seen
<1>4. QED  BY <1>1, <1>2, <1>3 DEF TypeOK, Read, Answered, Unanswered

LEMMA RereadTyped == ASSUME TypeInv, NEW d \in Devices, Reread(d) PROVE TypeInv'
<1>1. Read(d)
  BY DEF Reread
<1>2. TypeOK'
  BY <1>1, ReadTyped DEF Reread, TypeInv, TypeOK, profile, coroutines, ops
<1>3. CursorOK' /\ WritesOK' /\ AtRest'
  BY DEF Reread, TypeInv, CursorOK, WritesOK, AtRest, WriteOf, coroutines, ops
<1>4. QED  BY <1>2, <1>3 DEF TypeInv

(* A step that ends the job, and changes nothing EndJob does not but the   *)
(* cache, what answers and the snapshot.                                   *)
LEMMA EndingTyped ==
  ASSUME TypeInv, NEW out \in [Links -> Outcomes], NEW why \in Stops, NEW killed \in BOOLEAN,
         EndJob(out, why, killed),
         UNCHANGED <<table, air, rules, enabled, shut, jobs, disturbances>>,
         copy' \in SUBSET Links, cache' \in SUBSET Links, seen' \in [Devices -> Seen],
         foreign' \in SUBSET Devices,
         snap' \in SnapshotType \cup {NoSnapshot}
  PROVE  TypeInv'
<1>1. /\ report' \in ReportType
      /\ applied' \in SUBSET Rules
      /\ phase' = "idle" /\ stop' = "none"
      /\ request' \in RequestType /\ request'.writes = {}
      /\ toread' = {}
      /\ pc' = [d \in Devices |-> "off"]
      /\ cur' \in [Devices -> Links \cup {NoLink}]
      /\ attempts' \in [Links -> 0..Retries + 1]
      /\ outcome' \in [Links -> Outcomes]
      /\ verified' = {} /\ sent' = {}
  BY EndTyped
<1>2. TypeOK'
  BY <1>1 DEF TypeInv, TypeOK, Stops, Pcs
<1>3. CursorOK' /\ WritesOK' /\ AtRest'
  BY <1>1 DEF CursorOK, WritesOK, AtRest
<1>4. QED  BY <1>2, <1>3 DEF TypeInv

LEMMA LaunchTyped == ASSUME TypeInv, NEW d \in Devices, Launch(d) PROVE TypeInv'
<1>1. LET stale == StaleDevices(cache', seen')
            live == {SourceOf[l] : l \in request.writes} \ stale
            covered == {e \in live : seen'[e] # "unread"}
            marked == [l \in Links |-> IF l \in request.writes /\ SourceOf[l] \in stale
                                       THEN "stale_plan" ELSE outcome[l]]
        IN
        /\ Read(d)
        /\ snap' = IF covered = {} THEN snap ELSE SnapshotOf(cache', covered)
        /\ \/ /\ live # {}
              /\ phase' = "work"
              /\ toread' = {}
              /\ outcome' = marked
              /\ pc' = [e \in Devices |-> IF e \in live THEN "queued" ELSE "off"]
              /\ UNCHANGED <<request, stop, cur, attempts, verified, sent, report,
                             applied>>
           \/ live = {} /\ EndJob(marked, stop, FALSE)
  BY DEF Launch
<1> DEFINE stale == StaleDevices(cache', seen')
           live == {SourceOf[l] : l \in request.writes} \ stale
           covered == {e \in live : seen'[e] # "unread"}
           marked == [l \in Links |-> IF l \in request.writes /\ SourceOf[l] \in stale
                                      THEN "stale_plan" ELSE outcome[l]]
<1>2. /\ copy' \in SUBSET Links
      /\ cache' \in SUBSET Links
      /\ seen' \in [Devices -> Seen]
      /\ foreign' \in SUBSET Devices
  BY <1>1, ReadTyped DEF TypeInv
<1>3. live \in SUBSET Devices
  BY LinkAssumption DEF TypeInv, TypeOK, RequestType
<1>4. marked \in [Links -> Outcomes]
  BY DEF TypeInv, TypeOK, Outcomes
<1>5. snap' \in SnapshotType \cup {NoSnapshot}
  <2>1. snap' = snap \/ snap' = SnapshotOf(cache', covered)
    BY <1>1
  <2>2. covered \in SUBSET Devices
    BY <1>3
  <2> HIDE DEF covered
  <2>3. SnapshotOf(cache', covered) \in SnapshotType
    BY <1>2, <2>2 DEF SnapshotOf, SnapshotType
  <2>4. QED  BY <2>1, <2>3 DEF TypeInv, TypeOK
<1>6. UNCHANGED <<table, air, rules, enabled, shut, jobs, disturbances>>
  BY DEF Launch, profile
<1>7. CASE /\ phase' = "work" /\ toread' = {} /\ outcome' = marked
           /\ pc' = [e \in Devices |-> IF e \in live THEN "queued" ELSE "off"]
           /\ UNCHANGED <<request, stop, cur, attempts, verified, sent, report, applied>>
  <2>1. pc' \in [Devices -> Pcs] /\ \A e \in Devices : pc'[e] \notin {"call", "backoff"}
    BY <1>7 DEF Pcs
  <2>2. TypeOK'
    BY <1>2, <1>4, <1>5, <1>6, <1>7, <2>1 DEF TypeInv, TypeOK
  <2>3. CursorOK' /\ WritesOK' /\ AtRest'
    BY <1>7, <2>1 DEF TypeInv, CursorOK, WritesOK, AtRest
  <2>4. QED  BY <2>2, <2>3 DEF TypeInv
<1>8. CASE EndJob(marked, stop, FALSE)
  <2>1. stop \in Stops
    BY DEF TypeInv, TypeOK
  <2> HIDE DEF marked
  <2>2. QED  BY <1>2, <1>4, <1>5, <1>6, <1>8, <2>1, EndingTyped
<1>9. QED  BY <1>1, <1>7, <1>8

----------------------------------------------------------------------------
(* The device coroutines. *)

(* Whatever the loop does next keeps what it works with in order, provided *)
(* what is left has not been attempted.                                    *)
LEMMA ProceedTyped ==
  ASSUME TypeInv, NEW d \in Devices, phase = "work",
         NEW out \in [Links -> Outcomes], NEW flying \in SUBSET (Links \X WriteOps),
         Proceed(d, out, Rest(d), flying),
         UNCHANGED <<table, copy, foreign, profile, coordinator, shut, phase, request, stop, toread,
                     verified, report, jobs, disturbances>>
  PROVE  TypeInv'
<1> USE RunnerAssumption
<1>0. Rest(d) \subseteq WriteOf(d) /\ WriteOf(d) \subseteq Links
      /\ (\A l \in WriteOf(d) : l \in request.writes /\ SourceOf[l] = d)
      /\ (\A e \in Devices : WriteOf(e)' = WriteOf(e))
  BY DEF Rest, WriteOf, Of
<1>1. CASE /\ stop = "none"
           /\ \E l \in Rest(d) :
                /\ IsFirst(request.op, Rest(d), l)
                /\ pc' = [pc EXCEPT ![d] = "call"]
                /\ cur' = [cur EXCEPT ![d] = l]
                /\ attempts' = [attempts EXCEPT ![l] = 1]
                /\ sent' = sent \cup {l}
                /\ air' = flying \cup {<<l, request.op[l]>>}
                /\ outcome' = out
  <2>1. PICK l \in Rest(d) :
          /\ pc' = [pc EXCEPT ![d] = "call"]
          /\ cur' = [cur EXCEPT ![d] = l]
          /\ attempts' = [attempts EXCEPT ![l] = 1]
          /\ sent' = sent \cup {l}
          /\ air' = flying \cup {<<l, request.op[l]>>}
          /\ outcome' = out
    BY <1>1
  <2>2. l \in Links /\ l \in WriteOf(d) /\ request.op[l] \in WriteOps
    BY <1>0, <2>1 DEF TypeInv, WritesOK
  <2>3. TypeOK'
    BY <2>1, <2>2 DEF TypeInv, TypeOK, Pcs, profile, coordinator
  <2>4. ASSUME NEW e \in Devices, pc'[e] \in {"call", "backoff"}
        PROVE  /\ cur'[e] \in WriteOf(e)'
               /\ attempts'[cur'[e]] > 0
               /\ pc'[e] = "backoff" => attempts'[cur'[e]] <= Retries
    <3>1. CASE e = d
      BY <1>0, <2>1, <2>2, <3>1 DEF TypeInv, TypeOK
    <3>2. CASE e # d
      <4>1. pc'[e] = pc[e] /\ cur'[e] = cur[e]
        BY <2>1, <3>2 DEF TypeInv, TypeOK
      <4>2. cur[e] \in WriteOf(e) /\ attempts[cur[e]] > 0
            /\ (pc[e] = "backoff" => attempts[cur[e]] <= Retries)
        BY <2>4, <4>1 DEF TypeInv, CursorOK
      <4>3. cur[e] # l /\ cur[e] \in Links
        BY <2>2, <3>2, <4>2 DEF WriteOf, Of
      <4>4. attempts'[cur[e]] = attempts[cur[e]]
        BY <2>1, <4>3 DEF TypeInv, TypeOK
      <4>5. QED  BY <1>0, <4>1, <4>2, <4>4
    <3>3. QED  BY <3>1, <3>2
  <2>5. WritesOK' /\ AtRest'
    BY DEF TypeInv, WritesOK, AtRest
  <2>6. QED  BY <2>3, <2>4, <2>5 DEF TypeInv, CursorOK
<1>2. CASE /\ outcome' = [l \in Links |-> IF l \in Rest(d) THEN stop ELSE out[l]]
           /\ pc' = [pc EXCEPT ![d] = IF \E l \in WriteOf(d) : attempts[l] > 0
                                      THEN "verify" ELSE "done"]
           /\ cur' = [cur EXCEPT ![d] = NoLink]
           /\ air' = flying
           /\ UNCHANGED <<attempts, sent>>
  <2>1. outcome' \in [Links -> Outcomes]
    BY <1>2 DEF TypeInv, TypeOK, Stops, Outcomes
  <2>2. TypeOK'
    BY <1>2, <2>1 DEF TypeInv, TypeOK, Pcs, profile, coordinator
  <2>3. CursorOK'
    BY <1>0, <1>2 DEF TypeInv, TypeOK, CursorOK
  <2>4. WritesOK' /\ AtRest'
    BY DEF TypeInv, WritesOK, AtRest
  <2>5. QED  BY <2>2, <2>3, <2>4 DEF TypeInv
<1>3. QED  BY <1>1, <1>2 DEF Proceed

LEMMA EnterTyped == ASSUME TypeInv, NEW d \in Devices, Enter(d) PROVE TypeInv'
<1>1. phase = "work"
  BY DEF Enter, TypeInv, AtRest
<1>2. outcome \in [Links -> Outcomes] /\ air \in SUBSET (Links \X WriteOps)
  BY DEF TypeInv, TypeOK
<1>3. QED  BY <1>1, <1>2, ProceedTyped DEF Enter

(* A write that was answered or timed out. *)
LEMMA SettleTyped ==
  ASSUME TypeInv, NEW d \in Devices, pc[d] = "call",
         NEW result \in Results, NEW flying \in SUBSET (Links \X WriteOps),
         Settle(d, result, flying),
         UNCHANGED <<table, copy, foreign, profile, coordinator, shut, phase, request, stop, toread,
                     verified, report, jobs, disturbances>>
  PROVE  TypeInv'
<1>1. phase = "work"
  BY DEF TypeInv, AtRest
<1>2. cur[d] \in WriteOf(d) /\ cur[d] \in Links /\ attempts[cur[d]] > 0
  BY DEF TypeInv, CursorOK, WriteOf, Of
<1>3. CASE /\ result = "failed" /\ attempts[cur[d]] <= Retries
           /\ pc' = [pc EXCEPT ![d] = "backoff"]
           /\ air' = flying
           /\ UNCHANGED <<cur, attempts, sent, outcome>>
  <2>1. TypeOK'
    BY <1>3 DEF TypeInv, TypeOK, Pcs, profile, coordinator
  <2>2. CursorOK'
    BY <1>2, <1>3 DEF TypeInv, TypeOK, CursorOK, WriteOf
  <2>3. WritesOK' /\ AtRest'
    BY <1>1 DEF TypeInv, WritesOK, AtRest
  <2>4. QED  BY <2>1, <2>2, <2>3 DEF TypeInv
<1>4. CASE Proceed(d, [outcome EXCEPT ![cur[d]] = result], Rest(d), flying)
  <2>1. [outcome EXCEPT ![cur[d]] = result] \in [Links -> Outcomes]
    BY DEF TypeInv, TypeOK, Outcomes
  <2>2. QED  BY <1>1, <1>4, <2>1, ProceedTyped
<1>5. QED  BY <1>3, <1>4 DEF Settle

LEMMA AnswerTyped ==
  ASSUME TypeInv, NEW d \in Devices, NEW result \in Results, Answer(d, result)
  PROVE  TypeInv'
<1> DEFINE flying == IF result = "pending_wakeup" THEN air
                     ELSE air \ {<<cur[d], request.op[cur[d]]>>}
<1>1. flying \in SUBSET (Links \X WriteOps)
  BY DEF TypeInv, TypeOK
<1>2. pc[d] = "call" /\ Settle(d, result, flying)
  BY DEF Answer
<1> HIDE DEF flying
<1>3. QED  BY <1>1, <1>2, SettleTyped DEF Answer

LEMMA TimeOutTyped == ASSUME TypeInv, NEW d \in Devices, TimeOut(d) PROVE TypeInv'
<1>1. air \in SUBSET (Links \X WriteOps) /\ "failed" \in Results
  BY DEF TypeInv, TypeOK, Results
<1>2. QED  BY <1>1, SettleTyped DEF TimeOut

LEMMA BackoffTyped == ASSUME TypeInv, NEW d \in Devices, BackoffOver(d) PROVE TypeInv'
<1> USE RunnerAssumption
<1>1. phase = "work"
  BY DEF BackoffOver, TypeInv, AtRest
<1>2. /\ cur[d] \in WriteOf(d) /\ cur[d] \in Links
      /\ attempts[cur[d]] > 0 /\ attempts[cur[d]] <= Retries
      /\ request.op[cur[d]] \in WriteOps
  BY DEF BackoffOver, TypeInv, CursorOK, WritesOK, WriteOf, Of
<1>3. CASE /\ pc' = [pc EXCEPT ![d] = "call"]
           /\ attempts' = [attempts EXCEPT ![cur[d]] = @ + 1]
           /\ air' = air \cup {<<cur[d], request.op[cur[d]]>>}
           /\ UNCHANGED <<cur, sent, outcome>>
  <2>1. attempts' \in [Links -> 0..Retries + 1]
    BY <1>2, <1>3 DEF TypeInv, TypeOK
  <2>2. TypeOK'
    BY <1>2, <1>3, <2>1 DEF BackoffOver, TypeInv, TypeOK, Pcs, profile, coordinator
  <2>3. ASSUME NEW e \in Devices, pc'[e] \in {"call", "backoff"}
        PROVE  /\ cur'[e] \in WriteOf(e)'
               /\ attempts'[cur'[e]] > 0
               /\ pc'[e] = "backoff" => attempts'[cur'[e]] <= Retries
    <3>1. cur'[e] = cur[e] /\ WriteOf(e)' = WriteOf(e)
      BY <1>3 DEF BackoffOver, WriteOf
    <3>2. CASE e = d
      BY <1>2, <1>3, <3>1, <3>2 DEF TypeInv, TypeOK
    <3>3. CASE e # d
      <4>1. pc'[e] = pc[e]
        BY <1>3, <3>3 DEF TypeInv, TypeOK
      <4>2. cur[e] \in WriteOf(e) /\ attempts[cur[e]] > 0
            /\ (pc[e] = "backoff" => attempts[cur[e]] <= Retries)
        BY <2>3, <4>1 DEF TypeInv, CursorOK
      <4>3. cur[e] # cur[d] /\ cur[e] \in Links
        BY <1>2, <3>3, <4>2 DEF WriteOf, Of
      <4>4. attempts'[cur[e]] = attempts[cur[e]]
        BY <1>3, <4>3 DEF TypeInv, TypeOK
      <4>5. QED  BY <3>1, <4>1, <4>2, <4>4
    <3>4. QED  BY <3>2, <3>3
  <2>4. WritesOK' /\ AtRest'
    BY <1>1 DEF BackoffOver, TypeInv, WritesOK, AtRest
  <2>5. QED  BY <2>2, <2>3, <2>4 DEF TypeInv, CursorOK
<1>4. CASE Proceed(d, [outcome EXCEPT ![cur[d]] = "failed"], Rest(d), air)
  <2>1. [outcome EXCEPT ![cur[d]] = "failed"] \in [Links -> Outcomes]
        /\ air \in SUBSET (Links \X WriteOps)
    BY DEF TypeInv, TypeOK, Outcomes, Results
  <2>2. UNCHANGED <<table, copy, foreign, profile, coordinator, shut, phase, request, stop, toread,
                    verified, report, jobs, disturbances>>
    BY DEF BackoffOver
  <2>3. QED  BY <1>1, <1>4, <2>1, <2>2, ProceedTyped
<1>5. QED  BY <1>3, <1>4 DEF BackoffOver

LEMMA VerifyTyped == ASSUME TypeInv, NEW d \in Devices, Verify(d) PROVE TypeInv'
<1>1. Read(d)
  BY DEF Verify, Read
<1>2. /\ copy' \in SUBSET Links /\ cache' \in SUBSET Links
      /\ seen' \in [Devices -> Seen] /\ foreign' \in SUBSET Devices
  BY <1>1, ReadTyped DEF TypeInv
<1>3. outcome' \in [Links -> Outcomes] /\ verified' \in SUBSET Links
  BY DEF Verify, Verifiable, WriteOf, Of, TypeInv, TypeOK, Outcomes
<1>4. TypeOK'
  BY <1>2, <1>3 DEF Verify, TypeInv, TypeOK, Pcs, profile
<1>5. CursorOK' /\ WritesOK'
  BY DEF Verify, TypeInv, TypeOK, CursorOK, WritesOK, WriteOf
<1>6. AtRest'
  BY DEF Verify, TypeInv, AtRest
<1>7. QED  BY <1>4, <1>5, <1>6 DEF TypeInv

----------------------------------------------------------------------------
(* The rest of the runner, and everybody else. *)

LEMMA FinishTyped == ASSUME TypeInv, Finish PROVE TypeInv'
<1>1. outcome \in [Links -> Outcomes] /\ stop \in Stops
  BY DEF TypeInv, TypeOK
<1>2. UNCHANGED <<table, copy, air, rules, enabled, shut, jobs, disturbances, cache, seen, foreign,
                  snap>>
  BY DEF Finish, world, profile
<1>3. QED  BY <1>1, <1>2, EndingTyped DEF Finish, TypeInv, TypeOK

LEMMA CancelledTyped == ASSUME TypeInv, TaskCancelled PROVE TypeInv'
<1> DEFINE why == FirstStop("interrupted")
           out == [l \in Links |-> IF l \in NotAttempted THEN why ELSE outcome[l]]
<1>1. why \in Stops /\ out \in [Links -> Outcomes]
  BY DEF TypeInv, TypeOK, FirstStop, Stops, Outcomes
<1>2. EndJob(out, why, TRUE)
  BY DEF TaskCancelled
<1>3. UNCHANGED <<table, copy, air, rules, enabled, shut, jobs, disturbances, cache, seen, foreign,
                  snap>>
  BY DEF TaskCancelled, world, profile
<1> HIDE DEF out, why
<1>4. QED  BY <1>1, <1>2, <1>3, EndingTyped DEF TypeInv, TypeOK

(* Steps that leave the coroutines and the request alone. *)
LEMMA AsideTyped ==
  ASSUME TypeInv, UNCHANGED <<request, pc, cur, attempts, phase>>, TypeOK'
  PROVE  TypeInv'
BY DEF TypeInv, CursorOK, WritesOK, AtRest, WriteOf

LEMMA StopTyped ==
  ASSUME TypeInv, Cancel \/ Shutdown \/ ShutdownReturns
  PROVE  TypeInv'
<1>1. stop' \in Stops /\ shut' \in {"up", "stopping", "down"}
  BY DEF Cancel, Shutdown, ShutdownReturns, TypeInv, TypeOK, FirstStop, Stops, job
<1>2. UNCHANGED <<world, profile, coordinator, phase, request, toread, coroutines, ops,
                  report, jobs, disturbances>>
  BY DEF Cancel, Shutdown, ShutdownReturns, job, coroutines, ops
<1>3. TypeOK'
  BY <1>1, <1>2 DEF TypeInv, TypeOK, world, profile, coordinator, coroutines, ops
<1>4. QED  BY <1>2, <1>3, AsideTyped DEF coroutines, ops

LEMMA WorldTyped ==
  ASSUME TypeInv,
         \/ \E l \in Links, op \in WriteOps : Land(l, op)
         \/ \E d \in Devices : Refresh(d)
         \/ \E l \in Links : EditDevice(l)
         \/ \E r \in Rules : EditRule(r)
  PROVE  TypeInv'
<1> USE RunnerAssumption, LinkAssumption
<1>1. ASSUME NEW l \in Links, NEW op \in WriteOps, Land(l, op)  PROVE TypeOK'
  BY <1>1 DEF Land, Changed, TypeInv, TypeOK, profile, coordinator, job
<1>2. ASSUME NEW d \in Devices, Refresh(d)  PROVE TypeOK'
  <2>1. /\ copy' \in SUBSET Links
        /\ cache' \in SUBSET Links
        /\ seen' \in [Devices -> Seen]
        /\ foreign' \in SUBSET Devices
    BY <1>2, ReadTyped DEF Refresh, TypeInv
  <2>2. disturbances' \in 0..MaxDisturbances
    BY <1>2 DEF Refresh, TypeInv, TypeOK
  <2>3. QED  BY <1>2, <2>1, <2>2 DEF Refresh, TypeInv, TypeOK, profile, job
<1>3. ASSUME NEW l \in Links, EditDevice(l)  PROVE TypeOK'
  <2>1. disturbances' \in 0..MaxDisturbances
    BY <1>3 DEF EditDevice, TypeInv, TypeOK
  <2>2. QED  BY <1>3, <2>1 DEF EditDevice, Changed, TypeInv, TypeOK, profile, coordinator, job
<1>4. ASSUME NEW r \in Rules, EditRule(r)  PROVE TypeOK'
  <2>1. disturbances' \in 0..MaxDisturbances
    BY <1>4 DEF EditRule, TypeInv, TypeOK
  <2>2. QED  BY <1>4, <2>1 DEF EditRule, TypeInv, TypeOK, world, coordinator, job
<1>5. TypeOK'
  BY <1>1, <1>2, <1>3, <1>4
<1>6. UNCHANGED <<request, pc, cur, attempts, phase>>
  BY DEF Land, Refresh, EditDevice, EditRule, job
<1>7. QED  BY <1>5, <1>6, AsideTyped

----------------------------------------------------------------------------
(* Every step keeps the type invariant and what it rests on. *)
LEMMA StepTyped == TypeInv /\ [Next]_vars => TypeInv'
<1> SUFFICES ASSUME TypeInv, [Next]_vars PROVE TypeInv'  OBVIOUS
<1>1. CASE Requests  BY <1>1, RequestsTyped
<1>2. CASE Runner
  <2>1. ASSUME NEW d \in Devices, Reread(d)  PROVE TypeInv'   BY <2>1, RereadTyped
  <2>2. ASSUME NEW d \in Devices, Launch(d)  PROVE TypeInv'   BY <2>2, LaunchTyped
  <2>3. ASSUME NEW d \in Devices, Device(d)  PROVE TypeInv'
    BY <2>3, EnterTyped, AnswerTyped, TimeOutTyped, BackoffTyped, VerifyTyped DEF Device
  <2>4. CASE Finish  BY <2>4, FinishTyped
  <2>5. CASE ShutdownReturns  BY <2>5, StopTyped
  <2>6. QED  BY <1>2, <2>1, <2>2, <2>3, <2>4, <2>5 DEF Runner
<1>3. CASE Others  BY <1>3, CancelledTyped, StopTyped, WorldTyped DEF Others
<1>4. CASE UNCHANGED vars
  <2>1. TypeOK'
    BY <1>4 DEF vars, TypeInv, TypeOK
  <2>2. QED  BY <1>4, <2>1, AsideTyped DEF vars
<1>5. QED  BY <1>1, <1>2, <1>3, <1>4 DEF Next

(* Type correctness: every variable of the apply, the coordinator and the  *)
(* network keeps its type, for all devices, links, rules and limits; in    *)
(* particular no link is ever attempted more than Retries + 1 times.       *)
THEOREM TypeCorrect == Spec => []TypeOK
<1>1. Init => TypeInv  BY InitTyped
<1>2. TypeInv /\ [Next]_vars => TypeInv'  BY StepTyped
<1>3. TypeInv => TypeOK  BY DEF TypeInv
<1>4. QED  BY <1>1, <1>2, <1>3, PTL DEF Spec

----------------------------------------------------------------------------
(***************************************************************************)
(* What a stop and a report mean.                                          *)
(*                                                                         *)
(* The report is written from the outcomes at the end, so what has to be   *)
(* invariant is what the outcomes say while the job runs: a link answered  *)
(* "cancelled" or "interrupted" was never handed to a backend, and the job *)
(* was stopped for that very reason.  That survives the writes still going *)
(* on because the loop only marks links with no attempt, and a link handed *)
(* to a backend has one.                                                   *)
(***************************************************************************)
StopWords == {"cancelled", "interrupted"}

(* Marked links are untouched, and say why the job was stopped. *)
Marks == \A l \in Links : outcome[l] \in StopWords => l \notin sent /\ stop = outcome[l]

(* Whatever was handed to a backend is counted. *)
Counted == \A l \in sent : attempts[l] > 0

StopInv == TypeInv /\ Marks /\ Counted /\ QuietAfterShutdown
           /\ StoppedMeansUntouched /\ StopsAgree

(* Nothing of the job has changed, nor its report. *)
LEMMA StopKept ==
  ASSUME StopInv, TypeInv', UNCHANGED <<outcome, sent, stop, attempts, shut, phase, report>>
  PROVE  StopInv'
BY DEF StopInv, Marks, Counted, QuietAfterShutdown, StoppedMeansUntouched, StopsAgree

(* A report of outcomes that say what they must. *)
LEMMA ReportSays ==
  ASSUME TypeOK, NEW req, NEW out \in [Links -> Outcomes], NEW why, NEW killed,
         \A l \in Links : out[l] \in StopWords => l \notin sent /\ why = out[l],
         report' = ReportOf(req, out, why, killed)
  PROVE  StoppedMeansUntouched' /\ StopsAgree'
<1>1. \A l \in Links : report'.outcome[l] \in StopWords => report'.outcome[l] = out[l]
  BY DEF ReportOf, StopWords
<1>2. report'.sent = sent /\ (why # "none" => report'.status = why)
  BY DEF ReportOf
<1>3. QED  BY <1>1, <1>2 DEF StoppedMeansUntouched, StopsAgree, StopWords

(* The end of a job whose outcomes say what they must. *)
LEMMA EndSays ==
  ASSUME StopInv, TypeInv', NEW out \in [Links -> Outcomes], NEW why, NEW killed,
         \A l \in Links : out[l] \in StopWords => l \notin sent /\ why = out[l],
         EndJob(out, why, killed), shut' = shut
  PROVE  StopInv'
<1>1. StoppedMeansUntouched' /\ StopsAgree'
  BY ReportSays DEF EndJob, StopInv, TypeInv
<1>2. Marks' /\ Counted' /\ QuietAfterShutdown'
  BY DEF EndJob, Marks, Counted, QuietAfterShutdown, StopWords
<1>3. QED  BY <1>1, <1>2 DEF StopInv

LEMMA StartStop ==
  ASSUME StopInv, TypeInv', NEW scope, NEW selected, NEW desired, NEW op,
         StartJob(scope, selected, desired, op)
  PROVE  StopInv'
<1> DEFINE refused == {l \in Links : op[l] # "none" /\ Refused(l, op[l], selected)}
           asked == [scope |-> scope, selected |-> selected, desired |-> desired,
                     op |-> op, writes |-> Writes(op) \ refused]
           answers == [l \in Links |-> IF l \in refused THEN "blocked" ELSE "none"]
<1>1. answers \in [Links -> Outcomes] /\ \A l \in Links : answers[l] \notin StopWords
  BY DEF Outcomes, Results, StopWords
<1>2. shut = "up" /\ UNCHANGED <<shut, stop, attempts, sent>>
  BY DEF StartJob
<1>3. CASE outcome' = answers /\ UNCHANGED report
  BY <1>1, <1>2, <1>3
  DEF StopInv, Marks, Counted, QuietAfterShutdown, StoppedMeansUntouched, StopsAgree
<1>4. CASE report' = ReportOf(asked, answers, "none", FALSE) /\ UNCHANGED <<phase, outcome>>
  <2>1. StoppedMeansUntouched' /\ StopsAgree'
    BY <1>1, <1>4, ReportSays DEF StopInv, TypeInv
  <2>2. QED  BY <1>2, <1>4, <2>1 DEF StopInv, Marks, Counted, QuietAfterShutdown
<1>5. QED  BY <1>3, <1>4 DEF StartJob

LEMMA LaunchStop == ASSUME StopInv, TypeInv', NEW d \in Devices, Launch(d) PROVE StopInv'
<1>1. LET stale == StaleDevices(cache', seen')
            live == {SourceOf[l] : l \in request.writes} \ stale
            marked == [l \in Links |-> IF l \in request.writes /\ SourceOf[l] \in stale
                                       THEN "stale_plan" ELSE outcome[l]]
        IN
        \/ /\ phase' = "work"
           /\ outcome' = marked
           /\ UNCHANGED <<stop, attempts, sent, report>>
        \/ EndJob(marked, stop, FALSE)
  BY DEF Launch
<1> DEFINE stale == StaleDevices(cache', seen')
           marked == [l \in Links |-> IF l \in request.writes /\ SourceOf[l] \in stale
                                      THEN "stale_plan" ELSE outcome[l]]
<1>2. /\ marked \in [Links -> Outcomes]
      /\ \A l \in Links : marked[l] \in StopWords => l \notin sent /\ stop = marked[l]
  BY DEF StopInv, TypeInv, TypeOK, Outcomes, Marks, StopWords
<1>3. shut' = shut /\ phase # "idle"
  BY DEF Launch
<1> HIDE DEF marked
<1>4. CASE phase' = "work" /\ outcome' = marked /\ UNCHANGED <<stop, attempts, sent, report>>
  BY <1>2, <1>3, <1>4
  DEF StopInv, Marks, Counted, QuietAfterShutdown, StoppedMeansUntouched, StopsAgree
<1>5. CASE EndJob(marked, stop, FALSE)
  BY <1>2, <1>3, <1>5, EndSays
<1>6. QED  BY <1>1, <1>4, <1>5 DEF marked

(* The heart of it: the loop hands over only what has no answer, and marks *)
(* only what has no attempt.                                               *)
LEMMA ProceedStop ==
  ASSUME StopInv, TypeInv', NEW d \in Devices, NEW out \in [Links -> Outcomes], NEW flying,
         \A l \in Links : out[l] \in StopWords => out[l] = outcome[l],
         \A l \in Rest(d) : out[l] = outcome[l],
         Proceed(d, out, Rest(d), flying), UNCHANGED <<shut, phase, stop, report>>
  PROVE  StopInv'
<1>1. QuietAfterShutdown' /\ StoppedMeansUntouched' /\ StopsAgree'
  BY DEF StopInv, QuietAfterShutdown, StoppedMeansUntouched, StopsAgree
<1>2. \A l \in Rest(d) : l \in Links /\ outcome[l] = "none" /\ attempts[l] = 0 /\ l \notin sent
  BY DEF Rest, WriteOf, Of, StopInv, Counted
<1>3. CASE \E l \in Rest(d) : /\ attempts' = [attempts EXCEPT ![l] = 1]
                              /\ sent' = sent \cup {l}
                              /\ outcome' = out
  <2>1. PICK l \in Rest(d) : /\ attempts' = [attempts EXCEPT ![l] = 1]
                             /\ sent' = sent \cup {l}
                             /\ outcome' = out
    BY <1>3
  <2>2. Marks'
    BY <1>2, <2>1 DEF StopInv, Marks, StopWords
  <2>3. Counted'
    BY <1>2, <2>1 DEF StopInv, TypeInv, TypeOK, Counted
  <2>4. QED  BY <1>1, <2>2, <2>3 DEF StopInv
<1>4. CASE /\ outcome' = [l \in Links |-> IF l \in Rest(d) THEN stop ELSE out[l]]
           /\ UNCHANGED <<attempts, sent>>
  <2>1. Marks'
    BY <1>2, <1>4 DEF StopInv, Marks
  <2>2. QED  BY <1>1, <1>4, <2>1 DEF StopInv, Counted
<1>5. QED  BY <1>3, <1>4 DEF Proceed

(* A result of a backend is never a stop word, and is for a link already   *)
(* attempted.                                                              *)
LEMMA ResultStop ==
  ASSUME StopInv, NEW d \in Devices, pc[d] \in {"call", "backoff"}, NEW result \in Results,
         NEW out, out = [outcome EXCEPT ![cur[d]] = result]
  PROVE  /\ out \in [Links -> Outcomes]
         /\ \A l \in Links : out[l] \in StopWords => out[l] = outcome[l]
         /\ \A l \in Rest(d) : out[l] = outcome[l]
<1>1. cur[d] \in Links /\ attempts[cur[d]] > 0 /\ outcome \in [Links -> Outcomes]
  BY DEF StopInv, TypeInv, TypeOK, CursorOK, WriteOf, Of
<1>2. out \in [Links -> Outcomes]
  BY <1>1 DEF Outcomes
<1>3. \A l \in Links : out[l] \in StopWords => out[l] = outcome[l]
  BY <1>1 DEF Results, StopWords
<1>4. \A l \in Rest(d) : l # cur[d] /\ l \in Links
  BY <1>1 DEF Rest, WriteOf, Of
<1>5. QED  BY <1>1, <1>2, <1>3, <1>4

LEMMA SettleStop ==
  ASSUME StopInv, TypeInv', NEW d \in Devices, pc[d] = "call", NEW result \in Results,
         NEW flying, Settle(d, result, flying), UNCHANGED <<shut, phase, stop, report>>
  PROVE  StopInv'
<1>1. CASE UNCHANGED <<cur, attempts, sent, outcome>>
  BY <1>1, StopKept
<1>2. CASE Proceed(d, [outcome EXCEPT ![cur[d]] = result], Rest(d), flying)
  BY <1>2, ResultStop, ProceedStop
<1>3. QED  BY <1>1, <1>2 DEF Settle

LEMMA DeviceStop == ASSUME StopInv, TypeInv', NEW d \in Devices, Device(d) PROVE StopInv'
<1>1. CASE Enter(d)
  <2>1. outcome \in [Links -> Outcomes]
    BY DEF StopInv, TypeInv, TypeOK
  <2>2. QED  BY <1>1, <2>1, ProceedStop DEF Enter
<1>2. ASSUME NEW result \in Results, Answer(d, result)  PROVE StopInv'
  BY <1>2, SettleStop DEF Answer
<1>3. CASE TimeOut(d)
  <2>1. "failed" \in Results
    BY DEF Results
  <2>2. QED  BY <1>3, <2>1, SettleStop DEF TimeOut
<1>4. CASE BackoffOver(d)
  <2>1. CASE /\ attempts' = [attempts EXCEPT ![cur[d]] = @ + 1]
             /\ UNCHANGED <<cur, sent, outcome>>
    <3>1. cur[d] \in Links
      BY <1>4 DEF BackoffOver, StopInv, TypeInv, CursorOK, WriteOf, Of
    <3>2. Counted'
      BY <2>1, <3>1 DEF StopInv, TypeInv, TypeOK, Counted
    <3>3. QED  BY <1>4, <2>1, <3>2 DEF BackoffOver, StopInv, Marks, QuietAfterShutdown,
                  StoppedMeansUntouched, StopsAgree
  <2>2. CASE Proceed(d, [outcome EXCEPT ![cur[d]] = "failed"], Rest(d), air)
    <3>1. "failed" \in Results
      BY DEF Results
    <3>2. QED  BY <1>4, <2>2, <3>1, ResultStop, ProceedStop DEF BackoffOver
  <2>3. QED  BY <1>4, <2>1, <2>2 DEF BackoffOver
<1>5. CASE Verify(d)
  <2>1. UNCHANGED <<sent, stop, attempts, shut, phase, report>>
    BY <1>5 DEF Verify
  <2>2. \A l \in Links : outcome'[l] \in StopWords => outcome'[l] = outcome[l]
    BY <1>5 DEF Verify, StopWords
  <2>3. QED  BY <2>1, <2>2 DEF StopInv, Marks, Counted, QuietAfterShutdown,
                StoppedMeansUntouched, StopsAgree
<1>6. QED  BY <1>1, <1>2, <1>3, <1>4, <1>5 DEF Device

LEMMA CancelledStop == ASSUME StopInv, TypeInv', TaskCancelled PROVE StopInv'
<1> DEFINE why == FirstStop("interrupted")
           out == [l \in Links |-> IF l \in NotAttempted THEN why ELSE outcome[l]]
<1>1. out \in [Links -> Outcomes]
  BY DEF StopInv, TypeInv, TypeOK, FirstStop, Stops, Outcomes
<1>2. \A l \in Links : out[l] \in StopWords => l \notin sent /\ why = out[l]
  BY DEF StopInv, Marks, Counted, NotAttempted, FirstStop, StopWords, TypeInv, TypeOK
<1>3. EndJob(out, why, TRUE) /\ shut' = shut
  BY DEF TaskCancelled
<1> HIDE DEF out, why
<1>4. QED  BY <1>1, <1>2, <1>3, EndSays

(* A stop that comes after another changes nothing. *)
LEMMA StopsStop ==
  ASSUME StopInv, TypeInv', Cancel \/ Shutdown \/ ShutdownReturns
  PROVE  StopInv'
<1>1. UNCHANGED <<outcome, sent, attempts, phase, report>>
  BY DEF Cancel, Shutdown, ShutdownReturns, ops, job
<1>2. stop # "none" => stop' = stop
  BY DEF Cancel, Shutdown, ShutdownReturns, FirstStop, job
<1>3. Marks'
  BY <1>1, <1>2 DEF StopInv, Marks, StopWords
<1>4. QuietAfterShutdown'
  BY <1>1 DEF Cancel, Shutdown, ShutdownReturns, StopInv, QuietAfterShutdown
<1>5. QED  BY <1>1, <1>3, <1>4 DEF StopInv, Counted, StoppedMeansUntouched, StopsAgree

LEMMA StopStep == StopInv /\ [Next]_vars => StopInv'
<1> SUFFICES ASSUME StopInv, [Next]_vars PROVE StopInv'  OBVIOUS
<1>1. TypeInv'
  BY StepTyped DEF StopInv
<1>2. CASE Requests
  <2>1. PICK scope, selected, desired, op : StartJob(scope, selected, desired, op)
    BY <1>2 DEF Requests, Apply, RemoveUnmanaged, Rollback
  <2>2. QED  BY <1>1, <2>1, StartStop
<1>3. CASE Runner
  <2>1. ASSUME NEW d \in Devices, Reread(d)  PROVE StopInv'
    <3>1. UNCHANGED <<outcome, sent, stop, attempts, shut, phase, report>>
      BY <2>1 DEF Reread, ops
    <3>2. QED  BY <1>1, <3>1, StopKept
  <2>2. CASE Finish
    <3>1. outcome \in [Links -> Outcomes]
      BY DEF StopInv, TypeInv, TypeOK
    <3>2. QED  BY <1>1, <2>2, <3>1, EndSays DEF Finish, StopInv, Marks
  <2>3. QED  BY <1>1, <1>3, <2>1, <2>2, LaunchStop, DeviceStop, StopsStop DEF Runner
<1>4. CASE Others
  <2>1. CASE \/ \E l \in Links, op \in WriteOps : Land(l, op)
             \/ \E d \in Devices : Refresh(d)
             \/ \E l \in Links : EditDevice(l)
             \/ \E r \in Rules : EditRule(r)
    <3>1. UNCHANGED <<outcome, sent, stop, attempts, shut, phase, report>>
      BY <2>1 DEF Land, Refresh, EditDevice, EditRule, job
    <3>2. QED  BY <1>1, <3>1, StopKept
  <2>2. QED  BY <1>1, <1>4, <2>1, CancelledStop, StopsStop DEF Others
<1>5. CASE UNCHANGED vars
  BY <1>1, <1>5, StopKept DEF vars
<1>6. QED  BY <1>2, <1>3, <1>4, <1>5 DEF Next

LEMMA StopInit == Init => StopInv
BY InitTyped DEF Init, NoJob, StopInv, Marks, Counted, QuietAfterShutdown,
   StoppedMeansUntouched, StopsAgree, StopWords

LEMMA StopAlways == Spec => []StopInv
BY StopInit, StopStep, PTL DEF Spec

(* A link reported "cancelled" or "interrupted" was never handed to a      *)
(* backend, however the stop raced writes, backoffs and the semaphore.     *)
THEOREM StoppedLinksUntouched == Spec => []StoppedMeansUntouched
<1>1. StopInv => StoppedMeansUntouched  BY DEF StopInv
<1>2. QED  BY <1>1, StopAlways, PTL

(* A report gives one reason for stopping, in its status and on its links. *)
THEOREM OneReasonForStopping == Spec => []StopsAgree
<1>1. StopInv => StopsAgree  BY DEF StopInv
<1>2. QED  BY <1>1, StopAlways, PTL

(* Once async_shutdown has returned no job is running and none starts.     *)
THEOREM ShutdownIsFinal == Spec => []QuietAfterShutdown
<1>1. StopInv => QuietAfterShutdown  BY DEF StopInv
<1>2. QED  BY <1>1, StopAlways, PTL

=============================================================================
