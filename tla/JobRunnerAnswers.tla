-------------------------- MODULE JobRunnerAnswers --------------------------
(***************************************************************************)
(* The answers of a job that ended by itself are earned: applied only when *)
(* the verify read confirmed it, failed only after the last retry or a     *)
(* stop.  The inductive invariant says where in the loop a link can be     *)
(* without an answer: not yet reached, or in hand.  From the same          *)
(* invariant follow that the runner implements ApplyContract, and that     *)
(* what did not stick is drift.                                            *)
(***************************************************************************)
EXTENDS JobRunnerProofs, ApplyRefinement

(* Each operation of the plan has its answer as soon as it can have one.   *)
Accounted ==
  phase # "idle" => \A l \in Links : request.op[l] # "none" =>
    /\ l \notin request.writes => outcome[l] = "blocked"
    /\ (l \in request.writes /\ phase = "work" /\ pc[SourceOf[l]] = "off") =>
          outcome[l] = "stale_plan"
    /\ (l \in request.writes /\ pc[SourceOf[l]] \in {"verify", "done"}) => outcome[l] # "none"

(* Only the link in hand is attempted and unanswered. *)
OneInHand ==
  \A l \in request.writes : (outcome[l] = "none" /\ attempts[l] > 0) =>
    pc[SourceOf[l]] \in {"call", "backoff"} /\ cur[SourceOf[l]] = l

(* What "applied" and "failed" stand for while the job runs. *)
Earned ==
  \A l \in Links :
    /\ outcome[l] = "applied" =>
         /\ l \in request.writes /\ attempts[l] > 0 /\ pc[SourceOf[l]] # "off"
         /\ pc[SourceOf[l]] = "done" => l \in verified
    /\ outcome[l] = "failed" => stop # "none" \/ attempts[l] = Retries + 1

Unstarted == phase # "work" => \A l \in Links : attempts[l] = 0

AnswerInv == TypeInv /\ Accounted /\ OneInHand /\ Earned /\ Unstarted /\ AnswersAreEarned

LEMMA WritesHere ==
  ASSUME TypeInv
  PROVE  /\ request.writes \subseteq Links
         /\ \A l \in Links : SourceOf[l] \in Devices
         /\ \A l \in request.writes : request.op[l] # "none"
BY LinkAssumption DEF TypeInv, TypeOK, RequestType, WritesOK, WriteOps

(* Steps that touch no answer, and at most add a reason to stop. *)
LEMMA AnswerKept ==
  ASSUME AnswerInv, TypeInv',
         UNCHANGED <<request, phase, pc, cur, attempts, outcome, verified, report>>,
         stop # "none" => stop' # "none"
  PROVE  AnswerInv'
BY DEF AnswerInv, Accounted, OneInHand, Earned, Unstarted, AnswersAreEarned

(* After a job there is nothing left to say of its links. *)
LEMMA AnswerEnd ==
  ASSUME TypeInv, TypeInv', NEW out \in [Links -> Outcomes], NEW why \in Stops,
         NEW killed \in BOOLEAN, EndJob(out, why, killed),
         killed \/ \A l \in Links :
           /\ out[l] = "none" => request.op[l] = "none"
           /\ out[l] = "applied" => l \in verified
           /\ out[l] = "failed" => why # "none" \/ attempts[l] = Retries + 1
  PROVE  AnswerInv'
<1>1. Accounted' /\ OneInHand' /\ Earned' /\ Unstarted'
  BY DEF EndJob, NoRequest, Accounted, OneInHand, Earned, Unstarted
<1>2. report' = ReportOf(request, out, why, killed)
  BY DEF EndJob
<1>3. /\ report'.killed = killed /\ report'.verified = verified
      /\ report'.attempts = attempts
      /\ why # "none" => report'.status = why
      /\ \A l \in Links : report'.outcome[l] = IF request.op[l] # "none" /\ out[l] = "none"
                                               THEN "failed" ELSE out[l]
  BY <1>2 DEF ReportOf
<1>4. AnswersAreEarned'
  BY <1>3 DEF AnswersAreEarned, Stops
<1>5. QED  BY <1>1, <1>4 DEF AnswerInv

LEMMA AnswerStart ==
  ASSUME AnswerInv, TypeInv', NEW scope, NEW selected, NEW desired, NEW op \in [Links -> PlanOps],
         StartJob(scope, selected, desired, op)
  PROVE  AnswerInv'
<1> DEFINE refused == {l \in Links : op[l] # "none" /\ Refused(l, op[l], selected)}
           asked == [scope |-> scope, selected |-> selected, desired |-> desired,
                     op |-> op, writes |-> Writes(op) \ refused]
           answers == [l \in Links |-> IF l \in refused THEN "blocked" ELSE "none"]
<1>1. /\ phase = "idle" /\ UNCHANGED <<stop, pc, cur, attempts, verified>>
      /\ \A l \in Links : attempts[l] = 0 /\ pc'[SourceOf[l]] = "off"
  BY WritesHere DEF StartJob, coroutines, AnswerInv, Unstarted, TypeInv, AtRest
<1>2. \A l \in Links : op[l] # "none" /\ l \notin asked.writes => answers[l] = "blocked"
  BY DEF Refused, Writes, PlanOps, WriteOps
<1>3. CASE phase' = "reread" /\ request' = asked /\ outcome' = answers /\ UNCHANGED report
  <2>1. Accounted'
    BY <1>1, <1>2, <1>3 DEF Accounted
  <2>2. OneInHand' /\ Earned' /\ Unstarted'
    BY <1>1, <1>3 DEF OneInHand, Earned, Unstarted, Writes
  <2>3. QED  BY <1>3, <2>1, <2>2 DEF AnswerInv, AnswersAreEarned
<1>4. CASE /\ asked.writes = {} /\ report' = ReportOf(asked, answers, "none", FALSE)
           /\ UNCHANGED <<phase, request, outcome>>
  <2>1. Accounted' /\ OneInHand' /\ Earned' /\ Unstarted'
    BY <1>1, <1>4 DEF AnswerInv, Accounted, OneInHand, Earned, Unstarted
  <2>2. \A l \in Links : report'.outcome[l] \in {"blocked", "none"}
    BY <1>2, <1>4 DEF ReportOf
  <2>3. QED  BY <2>1, <2>2 DEF AnswerInv, AnswersAreEarned
<1>5. QED  BY <1>3, <1>4 DEF StartJob

LEMMA AnswerLaunch == ASSUME AnswerInv, TypeInv', NEW d \in Devices, Launch(d) PROVE AnswerInv'
<1>1. LET stale == StaleDevices(cache', seen')
            live == {SourceOf[l] : l \in request.writes} \ stale
            marked == [l \in Links |-> IF l \in request.writes /\ SourceOf[l] \in stale
                                       THEN "stale_plan" ELSE outcome[l]]
        IN
        \/ /\ phase' = "work"
           /\ outcome' = marked
           /\ pc' = [e \in Devices |-> IF e \in live THEN "queued" ELSE "off"]
           /\ UNCHANGED <<request, stop, cur, attempts, verified, sent, report, applied>>
        \/ live = {} /\ EndJob(marked, stop, FALSE)
  BY DEF Launch
<1> DEFINE stale == StaleDevices(cache', seen')
           live == {SourceOf[l] : l \in request.writes} \ stale
           marked == [l \in Links |-> IF l \in request.writes /\ SourceOf[l] \in stale
                                      THEN "stale_plan" ELSE outcome[l]]
<1>2. /\ phase = "reread" /\ \A l \in Links : attempts[l] = 0
      /\ \A l \in Links : pc[SourceOf[l]] = "off" /\ SourceOf[l] \in Devices
  BY WritesHere DEF Launch, AnswerInv, Unstarted, TypeInv, AtRest
<1> HIDE DEF stale
<1>3. \A l \in Links : /\ l \notin request.writes => marked[l] = outcome[l]
                       /\ l \in request.writes => SourceOf[l] \in live \/ marked[l] = "stale_plan"
                       /\ marked[l] \in {outcome[l], "stale_plan"}
  OBVIOUS
<1>4. CASE /\ phase' = "work" /\ outcome' = marked
           /\ pc' = [e \in Devices |-> IF e \in live THEN "queued" ELSE "off"]
           /\ UNCHANGED <<request, stop, cur, attempts, verified, sent, report, applied>>
  <2>1. Accounted'
    BY <1>2, <1>3, <1>4 DEF AnswerInv, Accounted
  <2>2. \A l \in Links : /\ outcome'[l] # "applied"
                         /\ outcome'[l] = "failed" => outcome[l] = "failed"
    BY <1>2, <1>3, <1>4 DEF AnswerInv, Earned
  <2>3. Earned'
    BY <1>4, <2>2 DEF AnswerInv, Earned
  <2>4. OneInHand' /\ Unstarted'
    BY <1>2, <1>4, WritesHere DEF AnswerInv, OneInHand, Unstarted
  <2>5. QED  BY <1>4, <2>1, <2>3, <2>4 DEF AnswerInv, AnswersAreEarned
<1>5. CASE live = {} /\ EndJob(marked, stop, FALSE)
  <2>1. marked \in [Links -> Outcomes] /\ stop \in Stops
    BY DEF AnswerInv, TypeInv, TypeOK, Outcomes
  <2>2. \A l \in Links : /\ marked[l] = "none" => request.op[l] = "none"
                         /\ marked[l] = "applied" => l \in verified
                         /\ marked[l] = "failed" => stop # "none" \/ attempts[l] = Retries + 1
    BY <1>2, <1>3, <1>5 DEF AnswerInv, Accounted, Earned
  <2> HIDE DEF marked
  <2>3. QED  BY <1>5, <2>1, <2>2, AnswerEnd DEF AnswerInv
<1>6. QED  BY <1>1, <1>4, <1>5 DEF stale

(* The loop goes on from a link that has its answer in out, if it had any. *)
LEMMA AnswerProceed ==
  ASSUME AnswerInv, TypeInv', NEW d \in Devices, phase = "work", pc[d] # "off",
         NEW out \in [Links -> Outcomes], NEW flying,
         \A l \in Links : SourceOf[l] # d => out[l] = outcome[l],
         \A l \in WriteOf(d) : /\ out[l] = "none" => l \in Rest(d)
                               /\ out[l] = "applied" => attempts[l] > 0,
         \A l \in Links : out[l] # outcome[l] => l \in request.writes,
         \A l \in Links : out[l] = "failed" => stop # "none" \/ attempts[l] = Retries + 1,
         \A l \in Rest(d) : out[l] = "none",
         Proceed(d, out, Rest(d), flying),
         UNCHANGED <<request, phase, stop, verified, report>>
  PROVE  AnswerInv'
<1>0. /\ Rest(d) \subseteq WriteOf(d)
      /\ \A l \in Rest(d) : outcome[l] = "none" /\ attempts[l] = 0
      /\ \A l \in WriteOf(d) : l \in Links /\ l \in request.writes /\ SourceOf[l] = d
      /\ \A l \in request.writes : SourceOf[l] = d => l \in WriteOf(d)
      /\ \A l \in request.writes : l \in Links /\ SourceOf[l] \in Devices
  BY WritesHere DEF Rest, WriteOf, Of, AnswerInv
<1>t. /\ pc \in [Devices -> Pcs] /\ cur \in [Devices -> Links \cup {NoLink}]
      /\ attempts \in [Links -> 0..Retries + 1]
  BY DEF AnswerInv, TypeInv, TypeOK
<1>1. CASE \E l \in Rest(d) : /\ pc' = [pc EXCEPT ![d] = "call"]
                              /\ cur' = [cur EXCEPT ![d] = l]
                              /\ attempts' = [attempts EXCEPT ![l] = 1]
                              /\ outcome' = out
  <2>1. PICK k \in Rest(d) : /\ pc' = [pc EXCEPT ![d] = "call"]
                             /\ cur' = [cur EXCEPT ![d] = k]
                             /\ attempts' = [attempts EXCEPT ![k] = 1]
                             /\ outcome' = out
    BY <1>1
  <2>2. \A l \in Links : l # k => attempts'[l] = attempts[l]
    BY <1>t, <2>1
  <2>3. \A l \in request.writes : SourceOf[l] # d =>
          /\ pc'[SourceOf[l]] = pc[SourceOf[l]] /\ cur'[SourceOf[l]] = cur[SourceOf[l]]
          /\ attempts'[l] = attempts[l] /\ outcome'[l] = outcome[l]
    BY <1>0, <1>t, <2>1, <2>2
  <2>4. pc'[d] = "call" /\ cur'[d] = k /\ attempts'[k] = 1
    BY <1>0, <1>t, <2>1
  <2>5. Accounted'
    BY <1>0, <2>1, <2>3, <2>4 DEF AnswerInv, Accounted
  <2>6. OneInHand'
    BY <1>0, <2>1, <2>2, <2>3, <2>4 DEF AnswerInv, OneInHand
  <2>7. Earned'
    <3>1. ASSUME NEW l \in Links, out[l] = "applied"
          PROVE  /\ l \in request.writes /\ attempts'[l] > 0 /\ pc'[SourceOf[l]] # "off"
                 /\ pc'[SourceOf[l]] = "done" => l \in verified
      <4>1. l \in request.writes
        BY <3>1 DEF AnswerInv, Earned
      <4>2. CASE SourceOf[l] = d
        BY <1>0, <2>2, <2>4, <3>1, <4>1, <4>2
      <4>3. CASE SourceOf[l] # d
        BY <2>3, <3>1, <4>1, <4>3 DEF AnswerInv, Earned
      <4>4. QED  BY <4>2, <4>3
    <3>2. \A l \in Links : out[l] = "failed" => stop # "none" \/ attempts'[l] = Retries + 1
      BY <2>1, <2>2
    <3>3. QED  BY <2>1, <3>1, <3>2 DEF Earned
  <2>8. QED  BY <2>5, <2>6, <2>7 DEF AnswerInv, Unstarted, AnswersAreEarned
<1>2. CASE /\ stop # "none" \/ Rest(d) = {}
           /\ outcome' = [l \in Links |-> IF l \in Rest(d) THEN stop ELSE out[l]]
           /\ pc' = [pc EXCEPT ![d] = IF \E l \in WriteOf(d) : attempts[l] > 0
                                      THEN "verify" ELSE "done"]
           /\ cur' = [cur EXCEPT ![d] = NoLink]
           /\ UNCHANGED attempts
  <2>1. \A l \in request.writes : SourceOf[l] # d =>
          /\ pc'[SourceOf[l]] = pc[SourceOf[l]] /\ cur'[SourceOf[l]] = cur[SourceOf[l]]
          /\ outcome'[l] = outcome[l]
    BY <1>0, <1>t, <1>2
  <2>2. \A l \in WriteOf(d) : outcome'[l] # "none"
    BY <1>0, <1>2
  <2>3. stop \in Stops /\ \A l \in Links : l \notin Rest(d) => outcome'[l] = out[l]
    BY <1>2 DEF AnswerInv, TypeInv, TypeOK
  <2>4. Accounted'
    BY <1>0, <1>t, <1>2, <2>1, <2>2, <2>3 DEF AnswerInv, Accounted
  <2>5. OneInHand'
    BY <1>0, <1>2, <2>1, <2>2 DEF AnswerInv, OneInHand
  <2>6. Earned'
    <3>1. ASSUME NEW l \in Links, outcome'[l] = "applied"
          PROVE  /\ l \in request.writes /\ attempts'[l] > 0 /\ pc'[SourceOf[l]] # "off"
                 /\ pc'[SourceOf[l]] = "done" => l \in verified
      <4>1. out[l] = "applied" /\ l \notin Rest(d)
        BY <1>2, <2>3, <3>1 DEF Stops
      <4>2. l \in request.writes
        BY <4>1 DEF AnswerInv, Earned
      <4>3. CASE SourceOf[l] = d
        <5>1. l \in WriteOf(d) /\ attempts[l] > 0
          BY <1>0, <4>1, <4>2, <4>3
        <5>2. pc'[d] = "verify"
          BY <1>2, <1>t, <5>1
        <5>3. QED  BY <1>2, <4>2, <4>3, <5>1, <5>2
      <4>4. CASE SourceOf[l] # d
        BY <1>2, <2>1, <3>1, <4>2, <4>4 DEF AnswerInv, Earned
      <4>5. QED  BY <4>3, <4>4
    <3>2. \A l \in Links : outcome'[l] = "failed" => stop # "none" \/ attempts'[l] = Retries + 1
      BY <1>2, <2>3 DEF Stops
    <3>3. QED  BY <3>1, <3>2 DEF Earned
  <2>7. QED  BY <2>4, <2>5, <2>6 DEF AnswerInv, Unstarted, AnswersAreEarned
<1>3. QED  BY <1>1, <1>2 DEF Proceed

(* The link in hand gets a result. *)
LEMMA AnswerResult ==
  ASSUME AnswerInv, TypeInv', NEW d \in Devices, pc[d] \in {"call", "backoff"},
         NEW result \in Results, NEW flying,
         result = "failed" => stop # "none" \/ attempts[cur[d]] = Retries + 1,
         Proceed(d, [outcome EXCEPT ![cur[d]] = result], Rest(d), flying),
         UNCHANGED <<request, phase, stop, verified, report>>
  PROVE  AnswerInv'
<1> DEFINE out == [outcome EXCEPT ![cur[d]] = result]
<1>1. /\ cur[d] \in WriteOf(d) /\ cur[d] \in Links /\ attempts[cur[d]] > 0
      /\ cur[d] \in request.writes /\ SourceOf[cur[d]] = d
      /\ outcome \in [Links -> Outcomes] /\ phase = "work"
      /\ \A l \in WriteOf(d) : l \in Links /\ l \in request.writes /\ SourceOf[l] = d
      /\ attempts \in [Links -> 0..Retries + 1]
  BY DEF AnswerInv, TypeInv, TypeOK, CursorOK, AtRest, WriteOf, Of
<1>2. /\ out \in [Links -> Outcomes] /\ out[cur[d]] = result
      /\ \A l \in Links : l # cur[d] => out[l] = outcome[l]
  BY <1>1 DEF Outcomes
<1>3. result # "none"
  BY DEF Results
<1> HIDE DEF out
<1>4. /\ \A l \in Links : SourceOf[l] # d => out[l] = outcome[l]
      /\ \A l \in Links : out[l] # outcome[l] => l \in request.writes
  BY <1>1, <1>2
<1>5. \A l \in WriteOf(d) : /\ out[l] = "none" => l \in Rest(d)
                            /\ out[l] = "applied" => attempts[l] > 0
  <2>1. ASSUME NEW l \in WriteOf(d), out[l] = "none"  PROVE l \in Rest(d)
    <3>1. l # cur[d] /\ outcome[l] = "none" /\ l \in request.writes /\ SourceOf[l] = d
      BY <1>1, <1>2, <1>3, <2>1
    <3>2. ~(attempts[l] > 0)
      BY <3>1 DEF AnswerInv, OneInHand
    <3>3. QED  BY <1>1, <3>1, <3>2 DEF Rest
  <2>2. ASSUME NEW l \in WriteOf(d), out[l] = "applied"  PROVE attempts[l] > 0
    BY <1>1, <1>2, <2>2 DEF AnswerInv, Earned
  <2>3. QED  BY <2>1, <2>2
<1>6. \A l \in Links : out[l] = "failed" => stop # "none" \/ attempts[l] = Retries + 1
  BY <1>2 DEF AnswerInv, Earned
<1>7. \A l \in Rest(d) : out[l] = "none"
  BY <1>1, <1>2 DEF Rest
<1>8. Proceed(d, out, Rest(d), flying)
  BY DEF out
<1>9. QED  BY <1>1, <1>2, <1>4, <1>5, <1>6, <1>7, <1>8, AnswerProceed

LEMMA AnswerSettle ==
  ASSUME AnswerInv, TypeInv', NEW d \in Devices, pc[d] = "call", NEW result \in Results,
         NEW flying, Settle(d, result, flying),
         UNCHANGED <<request, phase, stop, verified, report>>
  PROVE  AnswerInv'
<1>1. CASE pc' = [pc EXCEPT ![d] = "backoff"] /\ UNCHANGED <<cur, attempts, outcome>>
  <2>1. \A e \in Devices : /\ e # d => pc'[e] = pc[e]
                           /\ e = d => pc'[e] = "backoff" /\ pc[e] = "call"
    BY <1>1 DEF AnswerInv, TypeInv, TypeOK
  <2>2. phase = "work"
    BY DEF AnswerInv, TypeInv, AtRest
  <2>3. Accounted' /\ Unstarted'
    BY <1>1, <2>1, <2>2, WritesHere DEF AnswerInv, Accounted, Unstarted
  <2>4. OneInHand'
    BY <1>1, <2>1, WritesHere DEF AnswerInv, OneInHand
  <2>5. Earned'
    BY <1>1, <2>1, WritesHere DEF AnswerInv, Earned
  <2>6. QED  BY <2>3, <2>4, <2>5 DEF AnswerInv, AnswersAreEarned
<1>2. CASE /\ result # "failed" \/ attempts[cur[d]] > Retries
           /\ Proceed(d, [outcome EXCEPT ![cur[d]] = result], Rest(d), flying)
  <2>1. result = "failed" => attempts[cur[d]] = Retries + 1
    <3>1. cur[d] \in Links /\ attempts \in [Links -> 0..Retries + 1]
      BY DEF AnswerInv, TypeInv, TypeOK, CursorOK, WriteOf, Of
    <3>2. QED  BY <1>2, <3>1, RunnerAssumption
  <2>2. QED  BY <1>2, <2>1, AnswerResult
<1>3. QED  BY <1>1, <1>2 DEF Settle

LEMMA AnswerBackoff == ASSUME AnswerInv, TypeInv', NEW d \in Devices, BackoffOver(d) PROVE AnswerInv'
<1>1. CASE /\ pc' = [pc EXCEPT ![d] = "call"]
           /\ attempts' = [attempts EXCEPT ![cur[d]] = @ + 1]
           /\ UNCHANGED <<cur, sent, outcome>>
           /\ stop = "none"
  <2>1. /\ pc[d] = "backoff" /\ phase = "work"
        /\ cur[d] \in WriteOf(d) /\ cur[d] \in request.writes /\ SourceOf[cur[d]] = d
        /\ attempts[cur[d]] > 0 /\ attempts[cur[d]] <= Retries /\ cur[d] \in Links
        /\ attempts \in [Links -> 0..Retries + 1]
        /\ UNCHANGED <<request, phase, stop, verified, report>>
    BY <1>1 DEF BackoffOver, AnswerInv, TypeInv, TypeOK, CursorOK, AtRest, WriteOf, Of
  <2>2. \A l \in Links : /\ l # cur[d] => attempts'[l] = attempts[l]
                         /\ l = cur[d] => attempts'[l] = attempts[l] + 1
    BY <1>1, <2>1
  <2>3. \A e \in Devices : /\ e # d => pc'[e] = pc[e]
                           /\ e = d => pc'[e] = "call" /\ pc[e] = "backoff"
    BY <1>1, <2>1 DEF AnswerInv, TypeInv, TypeOK
  <2>4. Accounted' /\ Unstarted'
    BY <1>1, <2>1, <2>3, WritesHere DEF AnswerInv, Accounted, Unstarted
  <2>5. OneInHand'
    BY <1>1, <2>1, <2>2, <2>3, WritesHere DEF AnswerInv, OneInHand
  <2>6. Earned'
    <3>1. outcome[cur[d]] # "failed"
      BY <1>1, <2>1, RunnerAssumption DEF AnswerInv, Earned
    <3>2. QED  BY <1>1, <2>1, <2>2, <2>3, <3>1, WritesHere, RunnerAssumption
               DEF AnswerInv, Earned
  <2>7. QED  BY <2>1, <2>4, <2>5, <2>6 DEF AnswerInv, AnswersAreEarned
<1>2. CASE stop # "none" /\ Proceed(d, [outcome EXCEPT ![cur[d]] = "failed"], Rest(d), air)
  <2>1. "failed" \in Results
    BY DEF Results
  <2>2. QED  BY <1>2, <2>1, AnswerResult DEF BackoffOver
<1>3. QED  BY <1>1, <1>2 DEF BackoffOver

LEMMA AnswerVerify == ASSUME AnswerInv, TypeInv', NEW d \in Devices, Verify(d) PROVE AnswerInv'
<1>1. /\ pc[d] = "verify" /\ phase = "work"
      /\ UNCHANGED <<request, phase, stop, cur, attempts, report>>
  BY DEF Verify, AnswerInv, TypeInv, AtRest
<1>2. \A e \in Devices : /\ e # d => pc'[e] = pc[e]
                         /\ e = d => pc'[e] = "done" /\ pc[e] = "verify"
  BY DEF Verify, AnswerInv, TypeInv, TypeOK
<1>3. /\ verified \subseteq verified'
      /\ \A l \in Links : /\ outcome'[l] = outcome[l] \/ outcome'[l] \in {"unverified", "unconfirmed"}
                          /\ (outcome'[l] = "applied" /\ l \in Verifiable(d)) => l \in verified'
                          /\ l \notin request.writes \/ SourceOf[l] # d => outcome'[l] = outcome[l]
  BY DEF Verify, Verifiable, WriteOf, Of, AnswerInv, TypeInv, TypeOK
<1>4. Accounted' /\ Unstarted'
  BY <1>1, <1>2, <1>3, WritesHere DEF AnswerInv, Accounted, Unstarted
<1>5. OneInHand'
  BY <1>1, <1>2, <1>3, WritesHere DEF AnswerInv, OneInHand
<1>6. Earned'
  <2>1. ASSUME NEW l \in Links, outcome'[l] = "applied"
        PROVE  /\ l \in request.writes /\ attempts[l] > 0 /\ pc'[SourceOf[l]] # "off"
               /\ pc'[SourceOf[l]] = "done" => l \in verified'
    <3>1. /\ outcome[l] = "applied" /\ l \in request.writes /\ attempts[l] > 0
          /\ pc[SourceOf[l]] # "off" /\ (pc[SourceOf[l]] = "done" => l \in verified)
      BY <1>3, <2>1 DEF AnswerInv, Earned
    <3>2. SourceOf[l] = d => l \in Verifiable(d)
      BY <3>1 DEF Verifiable, WriteOf, Of
    <3>3. QED  BY <1>2, <1>3, <2>1, <3>1, <3>2, WritesHere DEF AnswerInv
  <2>2. QED  BY <1>1, <1>3, <2>1 DEF AnswerInv, Earned
<1>7. QED  BY <1>1, <1>4, <1>5, <1>6 DEF AnswerInv, AnswersAreEarned

LEMMA AnswerStep == AnswerInv /\ [Next]_vars => AnswerInv'
<1> SUFFICES ASSUME AnswerInv, [Next]_vars PROVE AnswerInv'  OBVIOUS
<1>1. TypeInv /\ TypeInv'
  BY StepTyped DEF AnswerInv
<1>t. outcome \in [Links -> Outcomes] /\ stop \in Stops
  BY <1>1 DEF TypeInv, TypeOK
<1>2. CASE Requests
  <2>1. \E scope, selected, desired : \E op \in [Links -> PlanOps] :
          StartJob(scope, selected, desired, op)
    <3>1. ASSUME NEW selected, RemoveUnmanaged(selected)
          PROVE  \E scope, desired : \E op \in [Links -> PlanOps] :
                   StartJob(scope, selected, desired, op)
      <4> DEFINE everything == [rules |-> {}, devices |-> Devices]
                 kept == {l \in selected : PlanNow(everything, selected, Stored)[l] = "remove"}
                 op == [l \in Links |-> IF l \in kept THEN "remove" ELSE "none"]
      <4>1. StartJob(everything, selected, Stored, op)
        BY <3>1 DEF RemoveUnmanaged
      <4>2. op \in [Links -> PlanOps]
        BY DEF PlanOps
      <4>3. QED  BY <4>1, <4>2
    <3>2. ASSUME NEW scope, NEW selected, NEW desired
          PROVE  PlanNow(scope, selected, desired) \in [Links -> PlanOps]
      BY PlanTyped DEF PlanNow
    <3>3. QED  BY <1>2, <3>1, <3>2 DEF Requests, Apply, Rollback
  <2>2. QED  BY <1>1, <2>1, AnswerStart
<1>3. ASSUME NEW d \in Devices, Enter(d)  PROVE AnswerInv'
  <2>1. phase = "work" /\ pc[d] = "queued" /\ UNCHANGED <<request, phase, stop, verified, report>>
    BY <1>1, <1>3 DEF Enter, TypeInv, AtRest
  <2>2. \A l \in WriteOf(d) : /\ outcome[l] = "none" => l \in Rest(d)
                              /\ outcome[l] = "applied" => attempts[l] > 0
    <3>1. \A l \in WriteOf(d) : l \in Links /\ l \in request.writes /\ SourceOf[l] = d
                                /\ attempts[l] \in Nat
      BY <1>1, RunnerAssumption DEF WriteOf, Of, TypeInv, TypeOK
    <3>2. QED  BY <2>1, <3>1 DEF Rest, AnswerInv, OneInHand, Earned
  <2>3. /\ \A l \in Links : outcome[l] = "failed" => stop # "none" \/ attempts[l] = Retries + 1
        /\ \A l \in Rest(d) : outcome[l] = "none"
    BY DEF Rest, AnswerInv, Earned
  <2>4. Proceed(d, outcome, Rest(d), air)
    BY <1>3 DEF Enter
  <2>5. QED  BY <1>1, <1>t, <2>1, <2>2, <2>3, <2>4, AnswerProceed
<1>4. ASSUME NEW d \in Devices, NEW result \in Results, Answer(d, result)  PROVE AnswerInv'
  BY <1>1, <1>4, AnswerSettle DEF Answer
<1>5. ASSUME NEW d \in Devices, TimeOut(d)  PROVE AnswerInv'
  <2>1. "failed" \in Results
    BY DEF Results
  <2>2. QED  BY <1>1, <1>5, <2>1, AnswerSettle DEF TimeOut
<1>6. CASE Finish
  <2>1. \A l \in Links : /\ outcome[l] = "none" => request.op[l] = "none"
                         /\ outcome[l] = "applied" => l \in verified
                         /\ outcome[l] = "failed" => stop # "none" \/ attempts[l] = Retries + 1
    BY <1>1, <1>6, WritesHere DEF Finish, AnswerInv, Accounted, Earned
  <2>2. QED  BY <1>1, <1>t, <1>6, <2>1, AnswerEnd DEF Finish
<1>7. CASE TaskCancelled
  <2>1. FirstStop("interrupted") \in Stops
    BY <1>t DEF FirstStop, Stops
  <2>2. \A l \in Links : (IF l \in NotAttempted THEN FirstStop("interrupted") ELSE outcome[l])
                           \in Outcomes
    BY <1>t, <2>1 DEF Stops, Outcomes
  <2>3. QED  BY <1>1, <1>7, <2>1, <2>2, AnswerEnd DEF TaskCancelled
<1>8. CASE \/ Cancel \/ Shutdown \/ ShutdownReturns
           \/ \E d \in Devices : Reread(d)
           \/ \E l \in Links, op \in WriteOps : Land(l, op)
           \/ \E d \in Devices : Refresh(d)
           \/ \E l \in Links : EditDevice(l)
           \/ \E r \in Rules : EditRule(r)
           \/ UNCHANGED vars
  <2>1. UNCHANGED <<request, phase, pc, cur, attempts, outcome, verified, report>>
        /\ (stop # "none" => stop' # "none")
    BY <1>8 DEF Cancel, Shutdown, ShutdownReturns, Reread, Land, Refresh, EditDevice, EditRule,
                vars, FirstStop, job, ops, coroutines
  <2>2. QED  BY <1>1, <2>1, AnswerKept
<1>9. QED  BY <1>1, <1>2, <1>3, <1>4, <1>5, <1>6, <1>7, <1>8, AnswerLaunch, AnswerBackoff,
              AnswerVerify DEF Next, Runner, Others, Device

(* A job that ended by itself reports a link applied only if the verify    *)
(* read confirmed it, and failed only after the last retry or a stop.      *)
THEOREM AnswersEarned == Spec => []AnswersAreEarned
<1>1. Init => AnswerInv
  BY InitTyped DEF Init, NoJob, NoRequest, AnswerInv, Accounted, OneInHand, Earned, Unstarted,
                   AnswersAreEarned
<1>2. AnswerInv => AnswersAreEarned  BY DEF AnswerInv
<1>3. QED  BY <1>1, <1>2, AnswerStep, PTL DEF Spec

----------------------------------------------------------------------------
(* The refinement of ApplyContract.  The report is exact because of what   *)
(* the outcomes say while the job runs: a link has an attempt if and only  *)
(* if it was handed over, and every outcome tells which.                   *)

Tried == {"applied", "pending_wakeup", "failed", "unverified", "unconfirmed"}

(* What an outcome says of a link that has or has not been attempted. *)
Tells(out) ==
  \A l \in Links : /\ out[l] \in Tried => attempts[l] > 0
                   /\ out[l] \in Unsent => attempts[l] = 0

SentInv ==
  /\ sent \subseteq request.writes
  /\ \A l \in Links : l \in sent <=> attempts[l] > 0
  /\ Tells(outcome)
  /\ phase = "idle" => stop = "none"

ContractInv == AnswerInv /\ SentInv

(* Nothing the contract speaks of has changed. *)
LEMMA Stutters ==
  ASSUME UNCHANGED <<report, sent, shut>>, phase' = "idle" <=> phase = "idle",
         stop' = "none" <=> stop = "none"
  PROVE  UNCHANGED Contract!vars
BY DEF Contract!vars, VerdictOf

(* A report is exact if every operation has an outcome that tells, or was  *)
(* attempted: the report calls those nobody answered failed.               *)
LEMMA ReportExact ==
  ASSUME TypeInv, NEW req \in RequestType, NEW out \in [Links -> Outcomes],
         NEW why \in Stops, NEW killed \in BOOLEAN, NEW handed \in SUBSET Links,
         Tells(out), \A l \in handed : req.op[l] # "none",
         \A l \in Links : l \in handed <=> attempts[l] > 0,
         \A l \in Links : req.op[l] # "none" /\ out[l] = "none" => attempts[l] > 0,
         report' = ReportOf(req, out, why, killed)
  PROVE  Contract!Exact([l \in Links |-> VerdictOf(report, l)]', handed)
<1>1. report' # NoReport
  BY ReportTyped, ReportAssumption DEF TypeInv
<1>2. /\ report'.op = req.op /\ report'.attempts = attempts
      /\ \A l \in Links : req.op[l] # "none" =>
           report'.outcome[l] = IF out[l] = "none" THEN "failed" ELSE out[l]
  BY DEF ReportOf
<1>3. ASSUME NEW l \in Links
      PROVE  /\ VerdictOf(report', l) \in {"none", "untouched", "attempted", "confirmed"}
             /\ VerdictOf(report', l) \in {"attempted", "confirmed"} <=> l \in handed
  <2>1. CASE req.op[l] = "none"
    BY <1>1, <1>2, <2>1 DEF VerdictOf
  <2>2. CASE req.op[l] # "none"
    <3>1. out[l] \in Tried \cup Unsent \cup {"blocked", "none"}
      BY DEF Tried, Unsent, Outcomes, Results
    <3>2. attempts[l] > 0 <=> ~(out[l] \in Unsent \/ (out[l] = "blocked" /\ attempts[l] = 0))
      <4>1. attempts[l] \in Nat
        BY RunnerAssumption DEF TypeInv, TypeOK
      <4>2. QED  BY <2>2, <3>1, <4>1 DEF Tells, Tried, Unsent
    <3>3. VerdictOf(report', l) = IF ~(attempts[l] > 0) THEN "untouched"
                                  ELSE IF l \in report'.verified THEN "confirmed" ELSE "attempted"
      BY <1>1, <1>2, <2>2, <3>1, <3>2 DEF VerdictOf, Unsent
    <3>4. QED  BY <3>3
  <2>3. QED  BY <2>1, <2>2
<1>4. QED  BY <1>3 DEF Contract!Exact, Contract!Verdicts, VerdictOf

LEMMA EndCloses ==
  ASSUME ContractInv, NEW out \in [Links -> Outcomes], NEW why \in Stops, NEW killed \in BOOLEAN,
         EndJob(out, why, killed), phase # "idle", shut' = shut, Tells(out),
         \A l \in Links : request.op[l] # "none" /\ out[l] = "none" => attempts[l] > 0
  PROVE  SentInv' /\ Contract!Next
<1>1. report' = ReportOf(request, out, why, killed) /\ request \in RequestType /\ sent \in SUBSET Links
  BY DEF EndJob, ContractInv, AnswerInv, TypeInv, TypeOK
<1>2. /\ \A l \in sent : request.op[l] # "none"
      /\ \A l \in Links : l \in sent <=> attempts[l] > 0
  BY WritesHere DEF ContractInv, AnswerInv, SentInv
<1>3. Contract!Exact([l \in Links |-> VerdictOf(report, l)]', sent)
  BY <1>1, <1>2, ReportExact DEF ContractInv, AnswerInv
<1>4. Contract!Close
  <2>1. phase' = "idle" /\ stop' = "none" /\ sent' = {}
    BY DEF EndJob
  <2>2. QED  BY <1>3, <2>1 DEF Contract!Close
<1>5. SentInv'
  BY DEF EndJob, SentInv, Tells, Tried, Unsent
<1>6. QED  BY <1>4, <1>5 DEF Contract!Next

LEMMA SentStart ==
  ASSUME ContractInv, NEW scope \in ScopeType, NEW selected \in SUBSET Links,
         NEW desired \in {Stored} \cup SUBSET Links, NEW op \in [Links -> PlanOps],
         StartJob(scope, selected, desired, op)
  PROVE  SentInv' /\ Contract!Next
<1> DEFINE refused == {l \in Links : op[l] # "none" /\ Refused(l, op[l], selected)}
           asked == [scope |-> scope, selected |-> selected, desired |-> desired,
                     op |-> op, writes |-> Writes(op) \ refused]
           answers == [l \in Links |-> IF l \in refused THEN "blocked" ELSE "none"]
<1>1. /\ shut = "up" /\ phase = "idle" /\ UNCHANGED <<shut, stop, attempts, sent>>
      /\ stop = "none" /\ \A l \in Links : attempts[l] = 0 /\ l \notin sent
      /\ sent = {}
  <2>1. \A l \in Links : attempts[l] = 0 /\ ~(attempts[l] > 0)
    BY DEF StartJob, ContractInv, AnswerInv, Unstarted
  <2>2. sent \subseteq Links
    BY DEF ContractInv, AnswerInv, TypeInv, TypeOK
  <2>3. QED  BY <2>1, <2>2 DEF StartJob, ContractInv, SentInv
<1>2. answers \in [Links -> Outcomes] /\ Tells(answers)
  BY DEF Outcomes, Results, Tells, Tried, Unsent
<1>3. CASE phase' = "reread" /\ request' = asked /\ outcome' = answers /\ UNCHANGED report
  <2>1. SentInv'
    BY <1>1, <1>2, <1>3 DEF SentInv, Tells
  <2>2. Contract!Begin
    BY <1>1, <1>3 DEF Contract!Begin, VerdictOf
  <2>3. QED  BY <2>1, <2>2 DEF Contract!Next
<1>4. CASE /\ asked.writes = {} /\ report' = ReportOf(asked, answers, "none", FALSE)
           /\ UNCHANGED <<phase, request, outcome>>
  <2>1. SentInv'
    BY <1>1, <1>4 DEF ContractInv, SentInv, Tells
  <2>2. \A l \in Links : op[l] # "none" => answers[l] # "none"
    BY <1>4 DEF Refused, Writes, PlanOps, WriteOps
  <2>3. asked \in RequestType /\ "none" \in Stops
    BY DEF RequestType, Writes, Stops
  <2>4. \A l \in Links : l \in {} <=> attempts[l] > 0
    BY <1>1
  <2> HIDE DEF answers
  <2>5. Contract!Exact([l \in Links |-> VerdictOf(report, l)]', {})
    BY <1>2, <1>4, <2>2, <2>3, <2>4, ReportExact DEF ContractInv, AnswerInv
  <2>6. Contract!Refuse
    BY <1>1, <1>4, <2>5 DEF Contract!Refuse
  <2>7. QED  BY <2>1, <2>6 DEF Contract!Next
<1>5. QED  BY <1>3, <1>4 DEF StartJob

LEMMA SentLaunch ==
  ASSUME ContractInv, NEW d \in Devices, Launch(d)
  PROVE  SentInv' /\ [Contract!Next]_(Contract!vars)
<1>1. LET stale == StaleDevices(cache', seen')
            live == {SourceOf[l] : l \in request.writes} \ stale
            marked == [l \in Links |-> IF l \in request.writes /\ SourceOf[l] \in stale
                                       THEN "stale_plan" ELSE outcome[l]]
        IN
        \/ /\ phase' = "work"
           /\ outcome' = marked
           /\ UNCHANGED <<request, stop, attempts, sent, report>>
        \/ live = {} /\ EndJob(marked, stop, FALSE)
  BY DEF Launch
<1> DEFINE stale == StaleDevices(cache', seen')
           live == {SourceOf[l] : l \in request.writes} \ stale
           marked == [l \in Links |-> IF l \in request.writes /\ SourceOf[l] \in stale
                                      THEN "stale_plan" ELSE outcome[l]]
<1>2. phase = "reread" /\ shut' = shut /\ \A l \in Links : attempts[l] = 0
  BY DEF Launch, ContractInv, AnswerInv, Unstarted
<1> HIDE DEF stale
<1>3. /\ marked \in [Links -> Outcomes] /\ stop \in Stops
      /\ \A l \in Links : marked[l] \in {outcome[l], "stale_plan"}
  BY DEF ContractInv, AnswerInv, TypeInv, TypeOK, Outcomes
<1>4. Tells(marked)
  BY <1>2, <1>3 DEF ContractInv, SentInv, Tells, Tried, Unsent
<1>5. CASE phase' = "work" /\ outcome' = marked /\ UNCHANGED <<request, stop, attempts, sent, report>>
  <2>1. SentInv'
    BY <1>4, <1>5 DEF ContractInv, SentInv, Tells
  <2>2. UNCHANGED Contract!vars
    BY <1>2, <1>5, Stutters
  <2>3. QED  BY <2>1, <2>2
<1>6. CASE live = {} /\ EndJob(marked, stop, FALSE)
  <2>1. \A l \in Links : request.op[l] # "none" => marked[l] # "none"
    BY <1>2, <1>6 DEF ContractInv, AnswerInv, Accounted
  <2> HIDE DEF marked
  <2>2. QED  BY <1>2, <1>3, <1>4, <1>6, <2>1, EndCloses
<1>7. QED  BY <1>1, <1>5, <1>6 DEF stale

(* The loop goes on: one link more is handed over, or the rest is marked.  *)
LEMMA SentProceed ==
  ASSUME ContractInv, NEW d \in Devices, phase = "work", NEW out \in [Links -> Outcomes],
         NEW flying, Tells(out), \A l \in Rest(d) : out[l] = "none",
         Proceed(d, out, Rest(d), flying),
         UNCHANGED <<request, phase, stop, report, shut>>
  PROVE  SentInv' /\ [Contract!Next]_(Contract!vars)
<1>1. /\ \A l \in Rest(d) : l \in Links /\ l \in request.writes /\ attempts[l] = 0
      /\ attempts \in [Links -> 0..Retries + 1] /\ stop \in Stops
  BY WritesHere DEF Rest, WriteOf, ContractInv, AnswerInv, TypeInv, TypeOK
<1>2. CASE /\ stop = "none"
           /\ \E l \in Rest(d) : /\ attempts' = [attempts EXCEPT ![l] = 1]
                                 /\ sent' = sent \cup {l}
                                 /\ outcome' = out
  <2>1. PICK k \in Rest(d) : /\ attempts' = [attempts EXCEPT ![k] = 1]
                             /\ sent' = sent \cup {k}
                             /\ outcome' = out
    BY <1>2
  <2>2. \A l \in Links : /\ l # k => attempts'[l] = attempts[l]
                         /\ l = k => attempts'[l] = 1 /\ out[l] = "none"
    BY <1>1, <2>1
  <2>3. SentInv'
    BY <1>1, <1>2, <2>1, <2>2 DEF ContractInv, SentInv, Tells, Tried, Unsent
  <2>4. Contract!Touch(k)
    BY <1>2, <2>1 DEF Contract!Touch, VerdictOf
  <2>5. QED  BY <1>1, <2>1, <2>3, <2>4 DEF Contract!Next
<1>3. CASE /\ stop # "none" \/ Rest(d) = {}
           /\ outcome' = [l \in Links |-> IF l \in Rest(d) THEN stop ELSE out[l]]
           /\ UNCHANGED <<attempts, sent>>
  <2>1. Tells(outcome')
    BY <1>1, <1>3 DEF Tells, Tried, Unsent, Stops
  <2>2. SentInv'
    BY <1>3, <2>1 DEF ContractInv, SentInv, Tells
  <2>3. UNCHANGED Contract!vars
    BY <1>3, Stutters
  <2>4. QED  BY <2>2, <2>3
<1>4. QED  BY <1>2, <1>3 DEF Proceed

(* The link in hand gets a result. *)
LEMMA SentResult ==
  ASSUME ContractInv, NEW d \in Devices, pc[d] \in {"call", "backoff"},
         NEW result \in Results, NEW flying,
         Proceed(d, [outcome EXCEPT ![cur[d]] = result], Rest(d), flying),
         UNCHANGED <<request, phase, stop, report, shut>>
  PROVE  SentInv' /\ [Contract!Next]_(Contract!vars)
<1> DEFINE out == [outcome EXCEPT ![cur[d]] = result]
<1>1. /\ cur[d] \in Links /\ attempts[cur[d]] > 0 /\ phase = "work"
      /\ outcome \in [Links -> Outcomes] /\ attempts \in [Links -> 0..Retries + 1]
  BY DEF ContractInv, AnswerInv, TypeInv, TypeOK, CursorOK, AtRest, WriteOf, Of
<1>2. /\ out \in [Links -> Outcomes] /\ out[cur[d]] = result
      /\ \A l \in Links : l # cur[d] => out[l] = outcome[l]
  BY <1>1 DEF Outcomes
<1>3. Proceed(d, out, Rest(d), flying)
  OBVIOUS
<1> HIDE DEF out
<1>4. Tells(out)
  BY <1>1, <1>2 DEF ContractInv, SentInv, Tells, Unsent, Results
<1>5. \A l \in Rest(d) : out[l] = "none"
  <2>1. \A l \in Rest(d) : l \in Links /\ outcome[l] = "none" /\ attempts[l] = 0
    BY DEF Rest, WriteOf, Of
  <2>2. QED  BY <1>1, <1>2, <2>1
<1>6. QED  BY <1>1, <1>2, <1>3, <1>4, <1>5, SentProceed

LEMMA SentBackoff ==
  ASSUME ContractInv, NEW d \in Devices, BackoffOver(d)
  PROVE  SentInv' /\ [Contract!Next]_(Contract!vars)
<1>1. CASE /\ stop = "none"
           /\ attempts' = [attempts EXCEPT ![cur[d]] = @ + 1]
           /\ UNCHANGED <<cur, sent, outcome>>
  <2>1. /\ cur[d] \in Links /\ attempts[cur[d]] > 0 /\ attempts \in [Links -> 0..Retries + 1]
        /\ UNCHANGED <<request, phase, stop, report, shut>>
    BY <1>1 DEF BackoffOver, ContractInv, AnswerInv, TypeInv, TypeOK, CursorOK, WriteOf, Of
  <2>2. \A l \in Links : /\ attempts'[l] > 0 <=> attempts[l] > 0
                         /\ attempts'[l] = 0 <=> attempts[l] = 0
    BY <1>1, <2>1, RunnerAssumption
  <2>3. SentInv'
    BY <1>1, <2>1, <2>2 DEF ContractInv, SentInv, Tells
  <2>4. UNCHANGED Contract!vars
    BY <1>1, <2>1, Stutters
  <2>5. QED  BY <2>3, <2>4
<1>2. CASE Proceed(d, [outcome EXCEPT ![cur[d]] = "failed"], Rest(d), air)
  <2>1. "failed" \in Results
    BY DEF Results
  <2>2. QED  BY <1>2, <2>1, SentResult DEF BackoffOver
<1>3. QED  BY <1>1, <1>2 DEF BackoffOver

LEMMA SentVerify ==
  ASSUME ContractInv, NEW d \in Devices, Verify(d)
  PROVE  SentInv' /\ [Contract!Next]_(Contract!vars)
<1>1. UNCHANGED <<request, phase, stop, attempts, sent, report, shut>>
  BY DEF Verify
<1>2. \A l \in Links :
        \/ outcome'[l] = outcome[l]
        \/ outcome[l] = "applied" /\ outcome'[l] \in {"unverified", "unconfirmed"}
  <2>1. \/ outcome' = [l \in Links |-> IF l \in Verifiable(d) THEN "unconfirmed" ELSE outcome[l]]
        \/ \E deep \in BOOLEAN :
             outcome' = [l \in Links |->
                          IF l \notin Verifiable(d) THEN outcome[l]
                          ELSE IF ~AsWanted(l, cache') THEN "unverified"
                          ELSE IF ~deep THEN "unconfirmed" ELSE outcome[l]]
    BY DEF Verify
  <2>2. \A l \in Verifiable(d) : outcome[l] = "applied"
    BY DEF Verifiable
  <2>3. QED  BY <2>1, <2>2
<1>3. SentInv'
  BY <1>1, <1>2 DEF ContractInv, SentInv, Tells, Tried, Unsent
<1>4. UNCHANGED Contract!vars
  BY <1>1, Stutters
<1>5. QED  BY <1>3, <1>4

(* The runner goes down: at once, or when its job is over. *)
LEMMA SentShutdown ==
  ASSUME ContractInv, Shutdown \/ ShutdownReturns \/ Cancel
  PROVE  SentInv' /\ [Contract!Next]_(Contract!vars)
<1>1. UNCHANGED <<request, phase, sent, attempts, outcome, report>>
  BY DEF Shutdown, ShutdownReturns, Cancel, job, ops
<1>2. phase = "idle" => stop = "none"
  BY DEF ContractInv, SentInv
<1>3. CASE Shutdown
  <2>1. phase = "idle" => stop' = "none"
    BY <1>2, <1>3 DEF Shutdown
  <2>2. phase # "idle" => stop' # "none"
    BY <1>3 DEF Shutdown, FirstStop
  <2>3. SentInv'
    BY <1>1, <2>1 DEF ContractInv, SentInv, Tells
  <2>4. Contract!GoDown
    BY <1>1, <1>3, <2>1, <2>2 DEF Shutdown, Contract!GoDown, VerdictOf
  <2>5. QED  BY <2>3, <2>4 DEF Contract!Next
<1>4. CASE ShutdownReturns
  <2>1. stop' = stop
    BY <1>4 DEF ShutdownReturns, job
  <2>2. SentInv'
    BY <1>1, <2>1 DEF ContractInv, SentInv, Tells
  <2>3. Contract!Down
    BY <1>1, <1>4, <2>1 DEF ShutdownReturns, Contract!Down, VerdictOf
  <2>4. QED  BY <2>2, <2>3 DEF Contract!Next
<1>5. CASE Cancel
  <2>1. phase # "idle" /\ stop' # "none" /\ shut' = shut
    BY <1>5 DEF Cancel, FirstStop
  <2>2. SentInv'
    BY <1>1, <2>1 DEF ContractInv, SentInv, Tells
  <2>3. Contract!Stop
    BY <1>1, <2>1 DEF Contract!Stop, VerdictOf
  <2>4. QED  BY <2>2, <2>3 DEF Contract!Next
<1>6. QED  BY <1>3, <1>4, <1>5

LEMMA SentStep ==
  ASSUME ContractInv, [Next]_vars
  PROVE  SentInv' /\ [Contract!Next]_(Contract!vars)
<1>t. /\ TypeInv /\ outcome \in [Links -> Outcomes] /\ stop \in Stops
      /\ Tells(outcome) /\ (phase = "idle" => stop = "none")
  BY DEF ContractInv, AnswerInv, TypeInv, TypeOK, SentInv
<1>1. CASE Requests
  <2>1. ASSUME NEW selected \in Selections, RemoveUnmanaged(selected)
        PROVE  SentInv' /\ Contract!Next
    <3> DEFINE everything == [rules |-> {}, devices |-> Devices]
               kept == {l \in selected : PlanNow(everything, selected, Stored)[l] = "remove"}
               op == [l \in Links |-> IF l \in kept THEN "remove" ELSE "none"]
    <3>1. StartJob(everything, selected, Stored, op)
      BY <2>1 DEF RemoveUnmanaged
    <3>2. op \in [Links -> PlanOps] /\ selected \in SUBSET Links /\ everything \in ScopeType
      BY RunnerAssumption DEF PlanOps, ScopeType
    <3>3. QED  BY <3>1, <3>2, SentStart
  <2>2. ASSUME NEW selected \in Selections, NEW scope \in Scopes, Apply(scope, selected)
        PROVE  SentInv' /\ Contract!Next
    <3>1. /\ PlanNow(scope, selected, Stored) \in [Links -> PlanOps]
          /\ selected \in SUBSET Links /\ scope \in ScopeType
      BY PlanTyped, RunnerAssumption DEF PlanNow, ScopeType
    <3>2. QED  BY <2>2, <3>1, SentStart DEF Apply
  <2>3. ASSUME NEW selected \in Selections, Rollback(selected)
        PROVE  SentInv' /\ Contract!Next
    <3> DEFINE scope == [rules |-> {}, devices |-> snap.devices]
    <3>1. snap.devices \in SUBSET Devices /\ snap.managed \in SUBSET Links
      BY <1>t, <2>3 DEF Rollback, TypeInv, TypeOK, SnapshotType
    <3>2. /\ PlanNow(scope, selected, snap.managed) \in [Links -> PlanOps]
          /\ selected \in SUBSET Links /\ scope \in ScopeType
      BY <3>1, PlanTyped, RunnerAssumption DEF PlanNow, ScopeType
    <3>3. QED  BY <2>3, <3>1, <3>2, SentStart DEF Rollback
  <2>4. QED  BY <1>1, <2>1, <2>2, <2>3 DEF Requests
<1>2. ASSUME NEW d \in Devices, Enter(d)  PROVE SentInv' /\ [Contract!Next]_(Contract!vars)
  <2>1. /\ phase = "work" /\ UNCHANGED <<request, phase, stop, report, shut>>
        /\ \A l \in Rest(d) : outcome[l] = "none"
    BY <1>t, <1>2 DEF Enter, TypeInv, AtRest, Rest
  <2>2. QED  BY <1>t, <1>2, <2>1, SentProceed DEF Enter
<1>3. ASSUME NEW d \in Devices, NEW result \in Results, NEW flying, pc[d] = "call",
             Settle(d, result, flying), UNCHANGED <<request, phase, stop, report, shut>>
      PROVE  SentInv' /\ [Contract!Next]_(Contract!vars)
  <2>1. CASE UNCHANGED <<attempts, sent, outcome>>
    <3>1. SentInv'
      BY <1>3, <2>1 DEF ContractInv, SentInv, Tells
    <3>2. UNCHANGED Contract!vars
      BY <1>3, <2>1, Stutters
    <3>3. QED  BY <3>1, <3>2
  <2>2. CASE Proceed(d, [outcome EXCEPT ![cur[d]] = result], Rest(d), flying)
    BY <1>3, <2>2, SentResult
  <2>3. QED  BY <1>3, <2>1, <2>2 DEF Settle
<1>4. ASSUME NEW d \in Devices, NEW result \in Results, Answer(d, result)
      PROVE  SentInv' /\ [Contract!Next]_(Contract!vars)
  BY <1>3, <1>4 DEF Answer
<1>5. ASSUME NEW d \in Devices, TimeOut(d)  PROVE SentInv' /\ [Contract!Next]_(Contract!vars)
  <2>1. "failed" \in Results
    BY DEF Results
  <2>2. QED  BY <1>3, <1>5, <2>1 DEF TimeOut
<1>6. CASE Finish
  <2>1. \A l \in Links : request.op[l] # "none" => outcome[l] # "none"
    BY <1>6, WritesHere DEF Finish, ContractInv, AnswerInv, Accounted
  <2>2. QED  BY <1>t, <1>6, <2>1, EndCloses DEF Finish
<1>7. CASE TaskCancelled
  <2> DEFINE out == [l \in Links |-> IF l \in NotAttempted THEN FirstStop("interrupted")
                                     ELSE outcome[l]]
  <2>1. /\ FirstStop("interrupted") \in Stops \ {"none"}
        /\ out \in [Links -> Outcomes]
    BY <1>t DEF FirstStop, Stops, Outcomes
  <2>2. \A l \in NotAttempted : attempts[l] = 0
    BY DEF NotAttempted
  <2>3. Tells(out)
    BY <1>t, <2>1, <2>2 DEF Tells, Tried, Unsent, Stops
  <2>4. \A l \in Links : request.op[l] # "none" /\ out[l] = "none" => attempts[l] > 0
    <3>1. attempts \in [Links -> 0..Retries + 1]
      BY <1>t DEF TypeInv, TypeOK
    <3>2. QED  BY <1>t, <2>1, <3>1, RunnerAssumption DEF NotAttempted
  <2>5. EndJob(out, FirstStop("interrupted"), TRUE) /\ phase # "idle" /\ shut' = shut
    BY <1>7 DEF TaskCancelled
  <2> HIDE DEF out
  <2>6. QED  BY <2>1, <2>3, <2>4, <2>5, EndCloses
<1>8. CASE \/ \E d \in Devices : Reread(d) \/ Refresh(d)
           \/ \E l \in Links, op \in WriteOps : Land(l, op)
           \/ \E l \in Links : EditDevice(l)
           \/ \E r \in Rules : EditRule(r)
           \/ UNCHANGED vars
  <2>1. UNCHANGED <<request, phase, stop, attempts, outcome, sent, report, shut>>
    BY <1>8 DEF Reread, Refresh, Land, EditDevice, EditRule, vars, job, ops
  <2>2. SentInv'
    BY <2>1 DEF ContractInv, SentInv, Tells
  <2>3. UNCHANGED Contract!vars
    BY <2>1, Stutters
  <2>4. QED  BY <2>2, <2>3
<1>9. QED  BY <1>1, <1>2, <1>4, <1>5, <1>6, <1>7, <1>8, SentLaunch, SentBackoff, SentVerify,
              SentShutdown DEF Next, Runner, Others, Device

(* The runner keeps the contract: one job at a time, nothing sent after a  *)
(* stop, none started when it goes down, and a report that says of every   *)
(* link exactly whether it was handed to a backend.                        *)
THEOREM RunnerKeepsContract == Spec => KeepsContract
<1>1. Init => AnswerInv
  BY InitTyped DEF Init, NoJob, NoRequest, AnswerInv, Accounted, OneInHand, Earned, Unstarted,
                   AnswersAreEarned
<1>2. Init => SentInv
  BY RunnerAssumption DEF Init, NoJob, SentInv, Tells, Tried, Unsent
<1>3. Init => Contract!Init
  BY DEF Init, NoJob, Contract!Init, VerdictOf
<1>4. ContractInv /\ [Next]_vars => ContractInv'
  BY AnswerStep, SentStep DEF ContractInv
<1>5. ContractInv /\ [Next]_vars => [Contract!Next]_(Contract!vars)
  BY SentStep
<1>6. Init => ContractInv
  BY <1>1, <1>2 DEF ContractInv
<1>7. QED  BY <1>3, <1>4, <1>5, <1>6, PTL DEF Spec, KeepsContract, Contract!Spec

----------------------------------------------------------------------------
(* A link that did not stick: only what was sent can be unverified, so the *)
(* end of the job counts its rule among those that have been applied.      *)
LEMMA UnverifiedWasWritten ==
  ASSUME ContractInv, NEW out, NEW why \in Stops, NEW killed, EndJob(out, why, killed),
         NEW l \in Links, report'.outcome[l] = "unverified",
         out[l] = "unverified" => outcome[l] = "unverified",
         RuleOf[l] # NoRule
  PROVE  RuleOf[l] \in applied'
<1>1. report'.outcome[l] = IF request.op[l] # "none" /\ out[l] = "none" THEN "failed" ELSE out[l]
  BY DEF EndJob, ReportOf
<1>2. out[l] = "unverified"
  BY <1>1
<1>3. l \in request.writes
  BY <1>2 DEF ContractInv, SentInv, Tells, Tried
<1>4. QED  BY <1>2, <1>3 DEF EndJob, AppliedAtLeastOnce

(* Every step that ends a job is an EndJob that makes no answer unverified.*)
LEMMA JobEndsSo ==
  ASSUME TypeInv, Next, phase # "idle", phase' = "idle"
  PROVE  /\ UNCHANGED <<rules, enabled>>
         /\ \E out, killed : \E why \in Stops :
              /\ EndJob(out, why, killed)
              /\ \A l \in Links : out[l] = "unverified" => outcome[l] = "unverified"
<1>1. stop \in Stops
  BY DEF TypeInv, TypeOK
<1>2. ASSUME NEW d \in Devices, Launch(d)
      PROVE  /\ UNCHANGED <<rules, enabled>>
             /\ \E out : /\ EndJob(out, stop, FALSE)
                         /\ \A l \in Links : out[l] = "unverified" => outcome[l] = "unverified"
  <2>1. PICK S : EndJob([l \in Links |-> IF l \in request.writes /\ SourceOf[l] \in S
                                         THEN "stale_plan" ELSE outcome[l]], stop, FALSE)
    BY <1>2 DEF Launch
  <2> DEFINE marked == [l \in Links |-> IF l \in request.writes /\ SourceOf[l] \in S
                                        THEN "stale_plan" ELSE outcome[l]]
  <2>2. \A l \in Links : marked[l] = "unverified" => outcome[l] = "unverified"
    OBVIOUS
  <2>3. EndJob(marked, stop, FALSE)
    BY <2>1
  <2> HIDE DEF marked
  <2>4. QED  BY <1>2, <2>2, <2>3 DEF Launch, profile
<1>3. CASE Finish
  BY <1>1, <1>3 DEF Finish, profile
<1>4. CASE TaskCancelled
  <2> DEFINE why == FirstStop("interrupted")
             out == [l \in Links |-> IF l \in NotAttempted THEN why ELSE outcome[l]]
  <2>1. why \in Stops
    BY <1>1 DEF FirstStop, Stops
  <2>2. \A l \in Links : out[l] = "unverified" => outcome[l] = "unverified"
    BY <2>1 DEF Stops
  <2>3. EndJob(out, why, TRUE) /\ UNCHANGED <<rules, enabled>>
    BY <1>4 DEF TaskCancelled, profile
  <2> HIDE DEF out, why
  <2>4. QED  BY <2>1, <2>2, <2>3
<1>5. ~Requests
  <2>1. ASSUME NEW scope, NEW selected, NEW desired, NEW op,
               StartJob(scope, selected, desired, op)
        PROVE  FALSE
    BY <2>1 DEF StartJob
  <2>2. QED  BY <2>1 DEF Requests, Apply, RemoveUnmanaged, Rollback
<1>6. ASSUME NEW d \in Devices  PROVE ~Reread(d) /\ ~Device(d)
  BY DEF Reread, Device, Enter, Answer, TimeOut, BackoffOver, Verify
<1>7. CASE Others
  <2>1. TaskCancelled
    BY <1>7 DEF Others, Cancel, Shutdown, Land, Refresh, EditDevice, EditRule, job
  <2>2. QED  BY <1>4, <2>1
<1>8. ~ShutdownReturns
  BY DEF ShutdownReturns
<1>9. QED  BY <1>1, <1>2, <1>3, <1>5, <1>6, <1>7, <1>8 DEF Next, Runner

(* A link that was written and did not stick leaves its rule in drift (or  *)
(* disabled, or unknown because a device of it does not answer), whichever *)
(* way the job ended, on its own, at the re-read or killed: never pending  *)
(* again, never in sync (_finish, coordinator._rule_state).                *)
THEOREM DriftAfterUnverified == Spec => UnverifiedIsDrift
<1> DEFINE Drifting ==
      (phase # "idle" /\ phase' = "idle") =>
         \A l \in Links \ cache' :
           (report'.outcome[l] = "unverified" /\ RuleOf[l] \in rules') =>
              RuleState(RuleOf[l])' \in {"drift", "disabled", "unknown"}
<1>1. ContractInv /\ [Next]_vars => [Drifting]_vars
  <2> SUFFICES ASSUME ContractInv, Next, phase # "idle", phase' = "idle",
                      NEW l \in Links \ cache', report'.outcome[l] = "unverified",
                      RuleOf[l] \in rules'
               PROVE  RuleState(RuleOf[l])' \in {"drift", "disabled", "unknown"}
    BY DEF vars
  <2>1. TypeInv
    BY DEF ContractInv, AnswerInv
  <2>2. PICK out, killed : \E why \in Stops :
          /\ EndJob(out, why, killed)
          /\ \A k \in Links : out[k] = "unverified" => outcome[k] = "unverified"
    BY <2>1, JobEndsSo
  <2>3. RuleOf[l] # NoRule
    <3>1. RuleOf[l] \in rules
      BY <2>1, JobEndsSo
    <3>2. QED  BY <2>1, <3>1, RunnerAssumption DEF TypeInv, TypeOK
  <2>4. RuleOf[l] \in applied'
    BY <2>2, <2>3, UnverifiedWasWritten
  <2>5. l \in LinksOf(RuleOf[l])
    BY DEF LinksOf
  <2>6. QED  BY <2>4, <2>5 DEF RuleState
<1>2. Init => ContractInv
  <2>1. Init => AnswerInv
    BY InitTyped DEF Init, NoJob, NoRequest, AnswerInv, Accounted, OneInHand, Earned, Unstarted,
                     AnswersAreEarned
  <2>2. Init => SentInv
    BY RunnerAssumption DEF Init, NoJob, SentInv, Tells, Tried, Unsent
  <2>3. QED  BY <2>1, <2>2 DEF ContractInv
<1>3. ContractInv /\ [Next]_vars => ContractInv'
  BY AnswerStep, SentStep DEF ContractInv
<1>4. QED  BY <1>1, <1>2, <1>3, PTL DEF Spec, UnverifiedIsDrift

=============================================================================
