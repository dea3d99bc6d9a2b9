----------------------------- MODULE ZigbeeProofs -----------------------------
(***************************************************************************)
(* Theorems about the Zigbee adapter, for every network, every set of      *)
(* links and every bound: what is reported as applied was carried out, and *)
(* is there until it is asked to be removed; a read that is said to be     *)
(* verified shows the link as it is; and every variable keeps its type.    *)
(***************************************************************************)
EXTENDS Zigbee, FiniteSetTheorems, TLAPS

(***************************************************************************)
(* Zigbee: an answer speaks of a request that was carried out.             *)
(*                                                                         *)
(* An answer says only the number of its transaction, and numbers start    *)
(* again with every backend object.  While no object was started with      *)
(* requests of another still out, all requests are of the present object,  *)
(* so an answer that says "ok" in the stream is of a request of its own    *)
(* that the bridge has carried out; and whoever waits has asked nothing    *)
(* that was not carried out but what it waits for.                         *)
(***************************************************************************)
Asking == {"bind", "unbind", "create", "join", "leave", "drop"}

Numbers == Nat \X Nat   \* a backend object and a transaction of it

WorkType ==
  [step : Asking \cup {"idle", "done", "reading", "read"}, link : ZLinks \cup {None},
   adding : BOOLEAN, via : ZGroups \cup {None}, no : Nat,
   result : {"none", "applied", "present", "blocked", "raised", "failed", "wakeup"},
   asked : SUBSET Numbers, verified : BOOLEAN]

PastType ==
  [trouble : Nat, reloads : Nat, promised : SUBSET (ZLinks \cup {None}),
   carried : SUBSET Numbers, together : SUBSET Nodes,
   strayed : BOOLEAN, crowded : BOOLEAN, reused : BOOLEAN]

WorkTyped ==
  /\ work \in [Nodes -> WorkType] /\ past \in PastType /\ number \in Nat
  /\ online \in BOOLEAN
  /\ \A q \in calls : q.no \in Nat /\ q.epoch \in Nat
  /\ \A n \in Nodes : work[n].step \in Asking => work[n].result = "none"

(* Every request that is out is of this backend object. *)
OwnCalls == \A q \in calls : q.epoch = past.reloads

(* Every "ok" on its way is of a request that was carried out. *)
True(messages) ==
  \A m \in messages : m.topic = "answer" /\ m.ok => <<past.reloads, m.no>> \in past.carried

TrueStream == \E messages : stream \in Seq(messages) /\ True(messages)

(* Who waits has asked nothing else that was not carried out. *)
AskedInTurn ==
  \A n \in Nodes :
    /\ work[n].step \in Asking =>
         work[n].asked \subseteq past.carried \cup {<<past.reloads, work[n].no>>}
    /\ work[n].result = "applied" => work[n].asked \subseteq past.carried

(* Nobody waits for an adapter that is down, and nothing comes of it. *)
DownIsQuiet ==
  adapter = "down" => stream = <<>> /\ \A n \in Nodes : work[n].step \notin Asking

ZigbeeInv == WorkTyped /\ DownIsQuiet /\ (~past.reused => OwnCalls /\ TrueStream /\ AskedInTurn)

(* Nothing has been asked for yet.                                         *)
LEMMA ZigbeeStart == ZigbeeInit => ZigbeeInv
<1> SUFFICES ASSUME ZigbeeInit PROVE ZigbeeInv  OBVIOUS
<1>1. WorkTyped
  BY DEF ZigbeeInit, WorkTyped, WorkType, PastType, Resting, Asking
<1>2. OwnCalls /\ AskedInTurn /\ DownIsQuiet
  BY DEF ZigbeeInit, OwnCalls, AskedInTurn, DownIsQuiet, Resting, Asking
<1>3. stream \in Seq({}) /\ True({})
  BY DEF ZigbeeInit, True
<1>4. QED  BY <1>1, <1>2, <1>3 DEF ZigbeeInv, TrueStream

(* A step of one device's coroutine, which leaves the bridge alone.        *)
(* Asking next what it has not asked before, or ending.                    *)
LEMMA NextRequest ==
  ASSUME ZigbeeInv, NEW n \in Nodes, NEW w \in WorkType, NEW step \in Asking, NEW who, NEW to,
         Ask(n, w, step, who, to), w.result = "none",
         ~past.reused => w.asked \subseteq past.carried,
         past' \in PastType, past'.reloads = past.reloads, past'.carried = past.carried,
         past'.reused = past.reused, adapter # "down", UNCHANGED <<adapter, online>>,
         stream' = stream \/ (stream # <<>> /\ stream' = Tail(stream))
  PROVE  ZigbeeInv'
<1> DEFINE q == [step |-> step, who |-> who, to |-> to, no |-> number + 1,
                 epoch |-> past.reloads]
           new == [w EXCEPT !.step = step, !.no = q.no, !.asked = @ \cup {<<q.epoch, q.no>>}]
<1>1. calls' = calls \cup {q} /\ number' = number + 1 /\ work' = [work EXCEPT ![n] = new]
  BY DEF Ask
<1>2. number \in Nat /\ past.reloads \in Nat /\ work \in [Nodes -> WorkType] /\ past \in PastType
  BY DEF ZigbeeInv, WorkTyped, PastType
<1>3. <<past.reloads, number + 1>> \in Numbers
  BY <1>2 DEF Numbers
<1>4. new \in WorkType
  <2>1. w.asked \cup {<<q.epoch, q.no>>} \in SUBSET Numbers
    BY <1>3 DEF WorkType
  <2>2. q.no \in Nat
    BY <1>2
  <2>3. \A no \in Nat, asked \in SUBSET Numbers :
          [w EXCEPT !.step = step, !.no = no, !.asked = asked] \in WorkType
    BY DEF WorkType
  <2> HIDE DEF q
  <2>4. QED  BY <2>1, <2>2, <2>3
<1>5. new.result = "none" /\ new.asked = w.asked \cup {<<past.reloads, number + 1>>}
       /\ new.no = number + 1
  BY DEF WorkType
<1>6. WorkTyped'
  <2>1. work' \in [Nodes -> WorkType] /\ number' \in Nat
    BY <1>1, <1>2, <1>4
  <2>2. \A c \in calls' : c.no \in Nat /\ c.epoch \in Nat
    BY <1>1, <1>2 DEF ZigbeeInv, WorkTyped
  <2>3. \A m \in Nodes : work'[m].step \in Asking => work'[m].result = "none"
    <3> HIDE DEF new
    <3>1. QED  BY <1>1, <1>2, <1>5 DEF ZigbeeInv, WorkTyped
  <2>4. online' \in BOOLEAN
    BY DEF ZigbeeInv, WorkTyped
  <2>5. QED  BY <2>1, <2>2, <2>3, <2>4 DEF WorkTyped
<1>7. ASSUME ~past.reused  PROVE OwnCalls' /\ TrueStream' /\ AskedInTurn'
  <2>1. OwnCalls'
    BY <1>1, <1>7 DEF ZigbeeInv, OwnCalls
  <2>2. TrueStream'
    <3>1. PICK messages : stream \in Seq(messages) /\ True(messages)
      BY <1>7 DEF ZigbeeInv, TrueStream
    <3>2. stream' \in Seq(messages)
      BY <3>1
    <3>3. True(messages)'
      BY <3>1 DEF True
    <3>4. QED  BY <3>2, <3>3 DEF TrueStream
  <2>3. ASSUME NEW m \in Nodes
        PROVE  /\ work'[m].step \in Asking =>
                    work'[m].asked \subseteq past'.carried \cup {<<past'.reloads, work'[m].no>>}
               /\ work'[m].result = "applied" => work'[m].asked \subseteq past'.carried
    <3> HIDE DEF new
    <3>1. CASE m = n
      <4>1. work'[m] = new
        BY <1>1, <1>2, <3>1
      <4>2. QED  BY <1>5, <1>7, <4>1
    <3>2. CASE m # n
      <4>1. work'[m] = work[m]
        BY <1>1, <1>2, <3>2
      <4>2. QED  BY <1>7, <4>1 DEF ZigbeeInv, AskedInTurn
    <3>3. QED  BY <3>1, <3>2
  <2>4. QED  BY <2>1, <2>2, <2>3 DEF AskedInTurn
<1>8. QED  BY <1>6, <1>7 DEF ZigbeeInv, DownIsQuiet

(* A write that is over has asked for nothing that was not carried out.    *)
LEMMA WriteEnds ==
  ASSUME ZigbeeInv, NEW n \in Nodes, NEW w \in WorkType,
         NEW result \in {"applied", "present", "blocked", "raised", "failed", "wakeup"},
         FinishWrite(n, w, result),
         ~past.reused /\ result = "applied" => w.asked \subseteq past.carried,
         past' \in PastType, past'.reloads = past.reloads, past'.carried = past.carried,
         past'.reused = past.reused, adapter # "down", UNCHANGED <<adapter, online>>,
         stream' = stream \/ (stream # <<>> /\ stream' = Tail(stream))
  PROVE  ZigbeeInv'
<1> DEFINE new == [w EXCEPT !.step = "done", !.no = 0, !.result = result]
<1>1. UNCHANGED <<calls, number>> /\ work' = [work EXCEPT ![n] = new]
  BY DEF FinishWrite
<1>2. work \in [Nodes -> WorkType]
  BY DEF ZigbeeInv, WorkTyped
<1>3. new \in WorkType /\ new.step = "done" /\ new.result = result /\ new.asked = w.asked
  BY DEF WorkType
<1> HIDE DEF new
<1>4. WorkTyped'
  BY <1>1, <1>2, <1>3 DEF ZigbeeInv, WorkTyped, Asking
<1>5. ASSUME ~past.reused  PROVE OwnCalls' /\ TrueStream' /\ AskedInTurn'
  <2>1. OwnCalls'
    BY <1>1, <1>5 DEF ZigbeeInv, OwnCalls
  <2>2. TrueStream'
    <3>1. PICK messages : stream \in Seq(messages) /\ True(messages)
      BY <1>5 DEF ZigbeeInv, TrueStream
    <3>2. stream' \in Seq(messages)
      BY <3>1
    <3>3. True(messages)'
      BY <3>1 DEF True
    <3>4. QED  BY <3>2, <3>3 DEF TrueStream
  <2>3. \A m \in Nodes : work'[m] = IF m = n THEN new ELSE work[m]
    BY <1>1, <1>2
  <2>4. AskedInTurn'
    BY <1>3, <1>5, <2>3 DEF ZigbeeInv, AskedInTurn, Asking
  <2>5. QED  BY <2>1, <2>2, <2>4
<1>6. QED  BY <1>4, <1>5 DEF ZigbeeInv, DownIsQuiet

(* Nothing that is asked or said changes but what is carried out and read. *)
LEMMA NothingAsked ==
  ASSUME ZigbeeInv, calls' \subseteq calls, number' \in Nat,
         work' \in [Nodes -> WorkType], past' \in PastType,
         past'.reloads = past.reloads, past'.reused = past.reused,
         past.carried \subseteq past'.carried, ~past.reused => TrueStream', DownIsQuiet', online' \in BOOLEAN,
         \A n \in Nodes :
           /\ work'[n].step \in Asking => work'[n] = work[n]
           /\ work'[n].result = "applied" => work'[n].asked = work[n].asked
                                              /\ work[n].result = "applied"
  PROVE  ZigbeeInv'
<1>1. WorkTyped'
  BY DEF ZigbeeInv, WorkTyped
<1>2. ASSUME ~past.reused  PROVE OwnCalls' /\ AskedInTurn'
  <2>1. OwnCalls'
    BY <1>2 DEF ZigbeeInv, OwnCalls
  <2>2. \A n \in Nodes :
          /\ work[n].step \in Asking =>
               work[n].asked \subseteq past.carried \cup {<<past.reloads, work[n].no>>}
          /\ work[n].result = "applied" => work[n].asked \subseteq past.carried
    BY <1>2 DEF ZigbeeInv, AskedInTurn
  <2>3. AskedInTurn'
    BY <2>2 DEF AskedInTurn
  <2>4. QED  BY <2>1, <2>3
<1>3. QED  BY <1>1, <1>2 DEF ZigbeeInv

(* What is left of the stream says what it said. *)
LEMMA StreamRead ==
  ASSUME TrueStream, past'.reloads = past.reloads, past.carried \subseteq past'.carried,
         stream' = stream \/ (stream # <<>> /\ stream' = Tail(stream))
  PROVE  TrueStream'
<1>1. PICK messages : stream \in Seq(messages) /\ True(messages)
  BY DEF TrueStream
<1>2. stream' \in Seq(messages)
  BY <1>1
<1>3. True(messages)'
  BY <1>1 DEF True
<1>4. QED  BY <1>2, <1>3 DEF TrueStream

(* One answer and up to two lists are published. *)
LEMMA StreamGrows ==
  ASSUME TrueStream, past'.reloads = past.reloads, past.carried \subseteq past'.carried,
         NEW q, NEW ok \in BOOLEAN, ok => <<past.reloads, q.no>> \in past'.carried,
         NEW one, NEW two, one.topic # "answer", two.topic # "answer",
         NEW more \in Seq({Answer(q, ok), one, two}),
         stream' = Streamed(more)
  PROVE  TrueStream'
<1>1. PICK messages : stream \in Seq(messages) /\ True(messages)
  BY DEF TrueStream
<1> DEFINE all == messages \cup {Answer(q, ok), one, two}
<1>2. stream \in Seq(all) /\ more \in Seq(all)
  BY <1>1
<1>3. stream' \in Seq(all)
  BY <1>2 DEF Streamed
<1>4. True(all)'
  <2>1. \A m \in all : m.topic = "answer" /\ m.ok => <<past'.reloads, m.no>> \in past'.carried
    BY <1>1 DEF True, Answer
  <2>2. QED  BY <2>1 DEF True
<1>5. QED  BY <1>3, <1>4 DEF TrueStream

(* What is noted of a result.                                              *)
LEMMA PromisedTyped ==
  ASSUME NEW w \in WorkType, NEW result, NEW h \in PastType
  PROVE  /\ Promised(w, result, h) \in PastType
         /\ Promised(w, result, h).reloads = h.reloads
         /\ Promised(w, result, h).carried = h.carried
         /\ Promised(w, result, h).reused = h.reused
BY DEF Promised, PastType, WorkType

(* What is noted of a write that starts.                                   *)
LEMMA StartedTyped ==
  ASSUME ZigbeeInv, NEW l \in ZLinks, NEW adding
  PROVE  /\ Started(l, adding) \in PastType
         /\ Started(l, adding).reloads = past.reloads
         /\ Started(l, adding).carried = past.carried
         /\ Started(l, adding).reused = past.reused
<1>1. past \in PastType
  BY DEF ZigbeeInv, WorkTyped
<1>2. ControlNode[LinkControl[l]] \in Nodes
  BY ZigbeeAssumption
<1>3. Others(ControlNode[LinkControl[l]]) \subseteq Nodes
  BY DEF Others
<1> DEFINE n == ControlNode[LinkControl[l]]
           alone == calls = {} /\ stream = <<>> /\ Others(n) = {}
           together == Others(n) \cup IF alone THEN past.together \ {n}
                                      ELSE past.together \cup {n}
           crowded == past.crowded \/ Meets(l)
           promised == IF adding THEN past.promised ELSE past.promised \ TakenAlong(l)
<1>4. together \subseteq Nodes /\ crowded \in BOOLEAN /\ promised \subseteq ZLinks \cup {None}
  BY <1>1, <1>2, <1>3 DEF PastType
<1>5. Started(l, adding) = [past EXCEPT !.trouble = @ + 1, !.together = together,
                                        !.crowded = crowded, !.promised = promised]
  BY DEF Started
<1> HIDE DEF together, crowded, promised
<1>6. past.trouble + 1 \in Nat
  BY <1>1 DEF PastType
<1>7. QED  BY <1>1, <1>4, <1>5, <1>6 DEF PastType

(* A write up to its first request.                                        *)
LEMMA WriteKeeps ==
  ASSUME ZigbeeInv, NEW l \in ZLinks, NEW adding \in BOOLEAN, WriteLink(l, adding)
  PROVE  ZigbeeInv'
<1> DEFINE n == ControlNode[LinkControl[l]]
           w == [Resting EXCEPT !.link = l, !.adding = adding]
           h == Started(l, adding)
<1>1. n \in Nodes
  BY ZigbeeAssumption
<1>2. w \in WorkType /\ w.result = "none" /\ w.asked = {} /\ w.link = l
  BY DEF Resting, WorkType
<1>3. /\ h \in PastType
      /\ h.reloads = past.reloads /\ h.carried = past.carried /\ h.reused = past.reused
  BY StartedTyped
<1>4. UNCHANGED stream
  BY DEF WriteLink
<1>a. adapter # "down" /\ UNCHANGED <<adapter, online>>
  BY DEF WriteLink
<1>5. ASSUME NEW result \in {"blocked", "raised", "present"},
             FinishWrite(n, w, result), past' = Promised(w, result, h)
      PROVE  ZigbeeInv'
  <2> HIDE DEF n, w, h
  <2>1. /\ past' \in PastType /\ past'.reloads = past.reloads
        /\ past'.carried = past.carried /\ past'.reused = past.reused
    BY <1>2, <1>3, <1>5, PromisedTyped
  <2>2. QED  BY <1>1, <1>2, <1>4, <1>a, <1>5, <2>1, WriteEnds
<1>6. ASSUME past' = h, PutOn(n, w)  PROVE ZigbeeInv'
  <2> HIDE DEF n, w, h
  <2>1. \E step \in Asking : \E who, to : Ask(n, w, step, who, to)
    BY <1>6 DEF PutOn, AskStale, JoinGroup, Asking
  <2>2. QED  BY <1>1, <1>2, <1>3, <1>4, <1>a, <1>6, <2>1, NextRequest
<1>7. ASSUME past' = h, TakeOff(n, w)  PROVE ZigbeeInv'
  <2>1. CASE \E who, to : Ask(n, w, "unbind", who, to)
    <3> HIDE DEF n, w, h
    <3>1. "unbind" \in Asking
      BY DEF Asking
    <3>2. QED  BY <1>1, <1>2, <1>3, <1>4, <1>a, <1>7, <2>1, <3>1, NextRequest
  <2>2. CASE \E g \in GroupHolding(copy, l) :
               \E who, to : Ask(n, [w EXCEPT !.via = g], "leave", who, to)
    <3>1. PICK g \in GroupHolding(copy, l) :
            \E who, to : Ask(n, [w EXCEPT !.via = g], "leave", who, to)
      BY <2>2
    <3>2. g \in ZGroups
      BY DEF GroupHolding, ZGroups
    <3> DEFINE v == [w EXCEPT !.via = g]
    <3> HIDE DEF w
    <3>3. v \in WorkType /\ v.result = "none" /\ v.asked = {}
      BY <1>2, <3>2 DEF WorkType
    <3>4. "leave" \in Asking
      BY DEF Asking
    <3> HIDE DEF n, h, v
    <3>5. \E who, to : Ask(n, v, "leave", who, to)
      BY <3>1 DEF v
    <3>6. QED  BY <1>1, <1>3, <1>4, <1>a, <1>7, <3>3, <3>4, <3>5, NextRequest
  <2>3. QED  BY <1>2, <1>7, <2>1, <2>2 DEF TakeOff, AskStale
<1>8. \/ \E result \in {"blocked", "raised", "present"} :
            FinishWrite(n, w, result) /\ past' = Promised(w, result, h)
      \/ past' = h /\ (PutOn(n, w) \/ TakeOff(n, w))
  BY DEF WriteLink
<1>9. QED  BY <1>5, <1>6, <1>7, <1>8

(* An answer that is delivered, in turn with the request it is of. *)
LEMMA AnswerKeeps ==
  ASSUME ZigbeeInv, NEW n \in Nodes, NEW m, Answered(n, m),
         m.no = work[n].no, ~past.reused /\ m.ok => <<past.reloads, m.no>> \in past.carried,
         stream # <<>>, stream' = Tail(stream), UNCHANGED <<adapter, online>>
  PROVE  ZigbeeInv'
<1> DEFINE w == work[n]
<1>1. w \in WorkType /\ past \in PastType
  BY DEF ZigbeeInv, WorkTyped
<1>a. adapter # "down"
  BY DEF ZigbeeInv, DownIsQuiet
<1>2. w.step \in Asking
  BY DEF Answered, BindAnswered, GroupStepFailed, Created, Joined, Left, Dropped, Asking
<1>3. w.result = "none" /\ (~past.reused /\ m.ok => w.asked \subseteq past.carried)
  BY <1>2 DEF ZigbeeInv, WorkTyped, AskedInTurn
<1>4. ASSUME NEW result \in {"applied", "failed", "wakeup"},
             result = "applied" => m.ok, FinishWrite(n, w, result),
             past' = past \/ past' = Promised(w, result, past)
      PROVE  ZigbeeInv'
  <2> HIDE DEF w
  <2>1. /\ past' \in PastType /\ past'.reloads = past.reloads
        /\ past'.carried = past.carried /\ past'.reused = past.reused
    BY <1>1, <1>4, PromisedTyped
  <2>2. QED  BY <1>1, <1>a, <1>3, <1>4, <2>1, WriteEnds
<1>5. ASSUME NEW step \in Asking, NEW who, NEW to, Ask(n, w, step, who, to), m.ok,
             UNCHANGED past
      PROVE  ZigbeeInv'
  <2> HIDE DEF w
  <2>1. QED  BY <1>1, <1>a, <1>3, <1>5, NextRequest
<1>6. \/ \E result \in {"applied", "failed", "wakeup"} :
            /\ result = "applied" => m.ok
            /\ FinishWrite(n, w, result)
            /\ past' = past \/ past' = Promised(w, result, past)
      \/ \E step \in Asking : \E who, to :
            Ask(n, w, step, who, to) /\ m.ok /\ UNCHANGED past
  <2>1. CASE BindAnswered(n, w, m.ok)
    BY <2>1 DEF BindAnswered
  <2>2. CASE GroupStepFailed(n, w, m.ok)
    BY <2>2 DEF GroupStepFailed
  <2>3. CASE Created(n, w, m.ok)
    BY <2>3 DEF Created, JoinGroup, AskStale, Asking
  <2>4. CASE Joined(n, w, m.ok)
    BY <2>4 DEF Joined, AskStale, Asking
  <2>5. CASE Left(n, w, m.ok)
    BY <2>5 DEF Left, AskStale, Asking
  <2>6. CASE Dropped(n, w, m.ok)
    BY <2>6 DEF Dropped
  <2>7. QED  BY <2>1, <2>2, <2>3, <2>4, <2>5, <2>6 DEF Answered
<1>7. QED  BY <1>4, <1>5, <1>6

(* An answer is delivered, whether anybody waits for it or not.            *)
LEMMA ResponseKeeps == ASSUME ZigbeeInv, OnResponse PROVE ZigbeeInv'
<1> DEFINE m == Head(stream)
<1>1. /\ stream # <<>> /\ m.topic = "answer" /\ stream' = Tail(stream)
      /\ UNCHANGED <<adapter, online>>
  BY DEF OnResponse
<1>2. ~past.reused /\ m.ok => <<past.reloads, m.no>> \in past.carried
  <2>1. SUFFICES ASSUME ~past.reused, m.ok  PROVE <<past.reloads, m.no>> \in past.carried
    OBVIOUS
  <2>2. PICK messages : stream \in Seq(messages) /\ True(messages)
    BY <2>1 DEF ZigbeeInv, TrueStream
  <2>3. m \in messages
    BY <1>1, <2>2
  <2>4. QED  BY <1>1, <2>1, <2>2, <2>3 DEF True
<1>3. CASE UNCHANGED <<stale, number, calls, work, past>>
  <2>1. ~past.reused => TrueStream'
    BY <1>1, <1>3, StreamRead DEF ZigbeeInv
  <2>2. DownIsQuiet'
    BY <1>1 DEF ZigbeeInv, DownIsQuiet
  <2>3. QED  BY <1>1, <1>3, <2>1, <2>2, NothingAsked DEF ZigbeeInv, WorkTyped
<1>4. ASSUME NEW n \in Awaiting(m.no), Answered(n, m)  PROVE ZigbeeInv'
  <2>1. n \in Nodes /\ m.no = work[n].no
    BY <1>4 DEF Awaiting
  <2> HIDE DEF m
  <2>2. QED  BY <1>1, <1>2, <1>4, <2>1, AnswerKeeps
<1>5. QED  BY <1>3, <1>4 DEF OnResponse

(* Too late: whatever becomes of the request, nothing more is said of it.  *)
LEMMA NoAnswerKeeps == ASSUME ZigbeeInv, NEW n \in Nodes, NoAnswer(n) PROVE ZigbeeInv'
<1> DEFINE result == IF work[n].step \in {"bind", "unbind"} /\ n \in Asleep
                     THEN "wakeup" ELSE "failed"
           new == [work[n] EXCEPT !.step = "done", !.no = 0, !.result = result]
<1>1. work \in [Nodes -> WorkType] /\ past \in PastType
  BY DEF ZigbeeInv, WorkTyped
<1>2. work' = [work EXCEPT ![n] = new] /\ calls' \subseteq calls /\ UNCHANGED <<number, stream, online>>
  BY DEF NoAnswer
<1>3. new \in WorkType /\ new.step = "done" /\ new.result # "applied"
  BY <1>1 DEF WorkType
<1>4. /\ past' \in PastType /\ past'.reloads = past.reloads
      /\ past'.carried = past.carried /\ past'.reused = past.reused
  <2> DEFINE late == past.strayed \/ <<past.reloads, work[n].no>> \in past.carried
  <2>1. late \in BOOLEAN /\ past.trouble + 1 \in Nat /\ past.together \cup {n} \subseteq Nodes
    BY <1>1 DEF PastType
  <2>2. past' = [past EXCEPT !.trouble = @ + 1, !.together = @ \cup {n}, !.strayed = late]
    BY <1>1 DEF NoAnswer, OneMore, PastType
  <2> HIDE DEF late
  <2>3. QED  BY <1>1, <2>1, <2>2 DEF PastType
<1>5. ~past.reused => TrueStream'
  BY <1>2, <1>4, StreamRead DEF ZigbeeInv
<1>6. DownIsQuiet'
  BY DEF NoAnswer, DownIsQuiet
<1> HIDE DEF new
<1>7. QED  BY <1>1, <1>2, <1>3, <1>4, <1>5, <1>6, NothingAsked DEF ZigbeeInv, WorkTyped, Asking

(* What was asked for is carried out, and the answer says so truly. *)
LEMMA BridgeKeeps ==
  ASSUME ZigbeeInv, NEW q \in calls, BridgeCarries(q) \/ BridgeRefuses(q)
  PROVE  ZigbeeInv'
<1>1. /\ past \in PastType /\ q.no \in Nat /\ q.epoch \in Nat
      /\ ~past.reused => q.epoch = past.reloads
  BY DEF ZigbeeInv, WorkTyped, OwnCalls
<1>2. calls' \subseteq calls /\ UNCHANGED <<number, work, online>>
  BY DEF BridgeCarries, BridgeRefuses
<1>a. DownIsQuiet'
  BY DEF BridgeCarries, BridgeRefuses, Streamed, ZigbeeInv, DownIsQuiet
<1>3. CASE BridgeCarries(q)
  <2> DEFINE awaited == q.epoch = past.reloads /\ Awaiting(q.no) # {}
             s == Carried(air, q)
  <2>1. past' = [past EXCEPT !.carried = @ \cup {<<q.epoch, q.no>>},
                             !.strayed = @ \/ ~awaited]
    BY <1>3 DEF BridgeCarries
  <2>2. <<q.epoch, q.no>> \in Numbers
    BY <1>1 DEF Numbers
  <2> DEFINE late == past.strayed \/ ~awaited
  <2>3. late \in BOOLEAN
    OBVIOUS
  <2>4. past' = [past EXCEPT !.carried = @ \cup {<<q.epoch, q.no>>}, !.strayed = late]
    BY <1>1, <2>1 DEF PastType
  <2> HIDE DEF late
  <2>5. /\ past' \in PastType /\ past'.reloads = past.reloads /\ past'.reused = past.reused
        /\ past'.carried = past.carried \cup {<<q.epoch, q.no>>}
    BY <1>1, <2>2, <2>3, <2>4 DEF PastType
  <2>6. ASSUME ~past.reused  PROVE TrueStream'
    <3> DEFINE more == IF stateFirst THEN Append(Republished(s, q), Answer(q, TRUE))
                       ELSE <<Answer(q, TRUE)>> \o Republished(s, q)
               answer == Answer(q, TRUE)
               devices == DeviceList(s)
               groups == GroupList(s)
    <3>1. stream' = Streamed(more)
      BY <1>3 DEF BridgeCarries
    <3>2. devices.topic # "answer" /\ groups.topic # "answer"
      BY DEF DeviceList, GroupList
    <3> HIDE DEF devices, groups, answer
    <3> DEFINE all == {answer, devices, groups}
    <3>3. <<answer>> \in Seq(all) /\ <<devices>> \in Seq(all) /\ <<groups>> \in Seq(all)
          /\ <<groups, devices>> \in Seq(all) /\ answer \in all
      OBVIOUS
    <3>4. more \in Seq(all)
      <4> DEFINE lists == Republished(s, q)
      <4>1. lists \in {<<devices>>, <<groups, devices>>, <<groups>>}
        BY DEF Republished, devices, groups
      <4>2. lists \in Seq(all)
        <5> HIDE DEF all, lists
        <5>1. QED  BY <3>3, <4>1, Zenon
      <4>3. more = Append(lists, answer) \/ more = <<answer>> \o lists
        BY DEF answer
      <4>4. Append(lists, answer) \in Seq(all) /\ <<answer>> \o lists \in Seq(all)
        <5> HIDE DEF all, lists
        <5>1. QED  BY <3>3, <4>2
      <4> HIDE DEF all, lists, more
      <4>5. QED  BY <4>3, <4>4, Zenon
    <3>5. <<past.reloads, q.no>> \in past'.carried
      BY <1>1, <2>5, <2>6
    <3> HIDE DEF more
    <3>6. QED  BY <2>5, <2>6, <3>1, <3>2, <3>4, <3>5, StreamGrows DEF answer, ZigbeeInv
  <2>7. QED  BY <1>2, <1>a, <2>5, <2>6, NothingAsked DEF ZigbeeInv, WorkTyped, Asking
<1>4. CASE BridgeRefuses(q)
  <2>1. /\ past' \in PastType /\ past'.reloads = past.reloads
        /\ past'.carried = past.carried /\ past'.reused = past.reused
    BY <1>1, <1>4 DEF BridgeRefuses, OneMore, PastType
  <2>2. ASSUME ~past.reused  PROVE TrueStream'
    <3> DEFINE other == [topic |-> "groups"]
    <3>1. stream' = Streamed(<<Answer(q, FALSE)>>) /\ other.topic # "answer"
      BY <1>4 DEF BridgeRefuses
    <3>2. <<Answer(q, FALSE)>> \in Seq({Answer(q, FALSE), other, other})
      OBVIOUS
    <3> HIDE DEF other
    <3>3. QED  BY <2>1, <2>2, <3>1, <3>2, StreamGrows DEF ZigbeeInv
  <2>3. QED  BY <1>2, <1>a, <2>1, <2>2, NothingAsked DEF ZigbeeInv, WorkTyped, Asking
<1>5. QED  BY <1>3, <1>4

(* Reading, and the topics the bridge retains, answer nobody. *)
LEMMA ReadsKeep ==
  ASSUME ZigbeeInv, StateArrives \/ OnState \/ (\E n \in Nodes : ReadBack(n) \/ ReadTimesOut(n))
  PROVE  ZigbeeInv'
<1>1. work \in [Nodes -> WorkType] /\ past \in PastType /\ online \in BOOLEAN
  BY DEF ZigbeeInv, WorkTyped
<1>2. UNCHANGED <<number, calls>> /\ (stream' = stream \/ (stream # <<>> /\ stream' = Tail(stream)))
  BY DEF StateArrives, OnState, ReadBack, ReadTimesOut
<1>3. /\ past' \in PastType /\ past'.reloads = past.reloads
      /\ past'.carried = past.carried /\ past'.reused = past.reused
  <2>1. past' \in {past, OneMore}
    BY DEF StateArrives, OnState, ReadBack, ReadTimesOut
  <2>2. /\ OneMore \in PastType /\ OneMore.reloads = past.reloads
        /\ OneMore.carried = past.carried /\ OneMore.reused = past.reused
    BY <1>1 DEF OneMore, PastType
  <2>3. QED  BY <1>1, <2>1, <2>2
<1>4. ~past.reused => TrueStream'
  BY <1>2, <1>3, StreamRead DEF ZigbeeInv
<1>5. /\ work' \in [Nodes -> WorkType]
      /\ \A n \in Nodes : \/ work'[n] = work[n]
                          \/ /\ work'[n].step \notin Asking
                             /\ work'[n].result = work[n].result
                             /\ work'[n].asked = work[n].asked
  <2>1. ASSUME NEW n \in Nodes, NEW step \in {"reading", "read"}, NEW verified \in BOOLEAN
        PROVE  LET new == [work[n] EXCEPT !.step = step, !.verified = verified]
               IN  /\ new \in WorkType /\ new.step \notin Asking
                   /\ new.result = work[n].result /\ new.asked = work[n].asked
    <3>1. work[n] \in WorkType
      BY <1>1
    <3>2. QED  BY <3>1 DEF WorkType, Asking
  <2>2. ASSUME NEW n \in Nodes, NEW step \in {"reading", "read"}
        PROVE  LET new == [work[n] EXCEPT !.step = step]
               IN  /\ new \in WorkType /\ new.step \notin Asking
                   /\ new.result = work[n].result /\ new.asked = work[n].asked
    <3>1. work[n] \in WorkType
      BY <1>1
    <3>2. QED  BY <3>1 DEF WorkType, Asking
  <2>3. CASE StateArrives
    <3>1. \A n \in Nodes : \/ work'[n] = work[n]
                           \/ work'[n] = [work[n] EXCEPT !.step = "read", !.verified = TRUE]
      BY <2>3 DEF StateArrives, Woken
    <3>2. work' = [n \in Nodes |-> work'[n]]
      BY <2>3 DEF StateArrives, Woken
    <3>3. QED  BY <1>1, <2>1, <3>1, <3>2
  <2>4. ASSUME NEW n \in Nodes, NEW new \in WorkType, work' = [work EXCEPT ![n] = new],
               new.step \notin Asking, new.result = work[n].result, new.asked = work[n].asked
        PROVE  /\ work' \in [Nodes -> WorkType]
               /\ \A m \in Nodes : \/ work'[m] = work[m]
                                   \/ /\ work'[m].step \notin Asking
                                      /\ work'[m].result = work[m].result
                                      /\ work'[m].asked = work[m].asked
    <3>1. \A m \in Nodes : work'[m] = IF m = n THEN new ELSE work[m]
      BY <1>1, <2>4
    <3>2. work' \in [Nodes -> WorkType]
      BY <1>1, <2>4
    <3>3. QED  BY <2>4, <3>1, <3>2
  <2>5. ASSUME NEW n \in Nodes, ReadBack(n) \/ ReadTimesOut(n)
        PROVE  /\ work' \in [Nodes -> WorkType]
               /\ \A m \in Nodes : \/ work'[m] = work[m]
                                   \/ /\ work'[m].step \notin Asking
                                      /\ work'[m].result = work[m].result
                                      /\ work'[m].asked = work[m].asked
    <3> DEFINE waits == [work[n] EXCEPT !.step = "reading"]
               shown == [work[n] EXCEPT !.step = "read", !.verified = online]
               given == [work[n] EXCEPT !.step = "read"]
    <3>1. CASE work' = [work EXCEPT ![n] = waits]
      BY <2>2, <2>4, <3>1
    <3>2. CASE work' = [work EXCEPT ![n] = given]
      BY <2>2, <2>4, <3>2
    <3>3. CASE work' = [work EXCEPT ![n] = shown]
      BY <1>1, <2>1, <2>4, <3>3
    <3>4. CASE ReadTimesOut(n)
      BY <3>2, <3>4 DEF ReadTimesOut
    <3>5. CASE ReadBack(n)
      BY <3>1, <3>3, <3>5 DEF ReadBack
    <3>6. QED  BY <2>5, <3>4, <3>5
  <2>6. CASE OnState
    BY <1>1, <2>6 DEF OnState
  <2>7. QED  BY <1>1, <2>3, <2>5, <2>6
<1>6. DownIsQuiet'
  BY <1>5 DEF StateArrives, OnState, ReadBack, ReadTimesOut, ZigbeeInv, DownIsQuiet
<1>7. online' \in BOOLEAN
  BY DEF StateArrives, OnState, ReadBack, ReadTimesOut, ZigbeeInv, WorkTyped
<1>8. QED  BY <1>2, <1>3, <1>4, <1>5, <1>6, <1>7, NothingAsked DEF ZigbeeInv, WorkTyped

(* A new backend object begins with no requests, or in confusion. *)
LEMMA SetupKeeps == ASSUME ZigbeeInv, AsyncStart \/ AsyncStop PROVE ZigbeeInv'
<1>1. /\ past \in PastType /\ work \in [Nodes -> WorkType] /\ number \in Nat
      /\ online \in BOOLEAN
  BY DEF ZigbeeInv, WorkTyped
<1>2. CASE AsyncStop
  <2>1. Resting \in WorkType /\ Resting.step \notin Asking /\ Resting.result = "none"
    BY DEF Resting, WorkType, Asking
  <2>2. /\ past' \in PastType /\ past'.reloads = past.reloads
        /\ past'.carried = past.carried /\ past'.reused = past.reused
    BY <1>1, <1>2 DEF AsyncStop, OneMore, PastType
  <2>3. stream' \in Seq({}) /\ True({})'
    BY <1>2 DEF AsyncStop, True
  <2>4. TrueStream'
    BY <2>3 DEF TrueStream
  <2>5. \A n \in Nodes : work'[n] = Resting
    BY <1>2 DEF AsyncStop
  <2>6. work' \in [Nodes -> WorkType]
    BY <1>2, <2>1 DEF AsyncStop
  <2>7. UNCHANGED <<number, calls, online>>
    BY <1>2 DEF AsyncStop
  <2>8. DownIsQuiet'
    BY <1>2, <2>1, <2>5 DEF AsyncStop, DownIsQuiet
  <2>9. QED  BY <1>1, <2>1, <2>2, <2>4, <2>5, <2>6, <2>7, <2>8, NothingAsked
<1>3. CASE AsyncStart
  <2> DEFINE reused == past.reused \/ calls # {}
  <2>1. past' = [past EXCEPT !.reloads = @ + 1, !.reused = reused, !.promised = {}]
    BY <1>1, <1>3 DEF AsyncStart, PastType
  <2>2. /\ past' \in PastType /\ past'.carried = past.carried
        /\ past'.reused = (past.reused \/ calls # {})
    <3>1. reused \in BOOLEAN /\ past.reloads + 1 \in Nat
      BY <1>1 DEF PastType
    <3> HIDE DEF reused
    <3>2. past' \in PastType /\ past'.carried = past.carried /\ past'.reused = reused
      BY <1>1, <2>1, <3>1 DEF PastType
    <3>3. QED  BY <3>2 DEF reused
  <2>3. WorkTyped'
    BY <1>3, <2>2 DEF AsyncStart, ZigbeeInv, WorkTyped
  <2>4. ASSUME ~past'.reused  PROVE OwnCalls' /\ TrueStream' /\ AskedInTurn'
    <3>1. ~past.reused /\ calls = {} /\ UNCHANGED <<calls, work>>
      BY <1>3, <2>2, <2>4 DEF AsyncStart
    <3>2. AskedInTurn'
      BY <1>3, <2>2, <3>1 DEF AsyncStart, ZigbeeInv, DownIsQuiet, AskedInTurn
    <3>3. OwnCalls'
      BY <3>1 DEF OwnCalls
    <3>4. TrueStream'
      <4> DEFINE groups == GroupList(air)
                 devices == DeviceList(air)
      <4>1. groups.topic # "answer" /\ devices.topic # "answer"
        BY DEF GroupList, DeviceList
      <4>2. stream' = <<groups, devices>>
        BY <1>3 DEF AsyncStart
      <4> HIDE DEF groups, devices
      <4>3. stream' \in Seq({groups, devices})
        BY <4>2
      <4>4. \A m \in {groups, devices} : m.topic # "answer"
        BY <4>1
      <4>5. \E messages : stream' \in Seq(messages) /\ \A m \in messages : m.topic # "answer"
        <5> HIDE <4>1
        <5>1. QED  BY <4>3, <4>4
      <4>6. QED  BY <4>5 DEF TrueStream, True
    <3>5. QED  BY <3>2, <3>3, <3>4
  <2>5. DownIsQuiet'
    BY <1>3 DEF AsyncStart, DownIsQuiet
  <2>6. QED  BY <2>3, <2>4, <2>5 DEF ZigbeeInv
<1>4. QED  BY <1>2, <1>3

(* No step breaks the invariant.                                           *)
LEMMA ZigbeeStep == ZigbeeInv /\ [ZigbeeNext]_zigbeeVars => ZigbeeInv'
<1> SUFFICES ASSUME ZigbeeInv, [ZigbeeNext]_zigbeeVars PROVE ZigbeeInv'  OBVIOUS
<1>1. CASE UNCHANGED zigbeeVars
  BY <1>1 DEF zigbeeVars, ZigbeeInv, WorkTyped, DownIsQuiet, OwnCalls, TrueStream, True,
     AskedInTurn
<1>2. CASE ZigbeeNext
  BY <1>2, WriteKeeps, NoAnswerKeeps, BridgeKeeps, ResponseKeeps, ReadsKeep, SetupKeeps
  DEF ZigbeeNext
<1>3. QED  BY <1>1, <1>2

(* What a write is reported to have applied the bridge has carried out,    *)
(* every request of it, as long as the entry was never set up with         *)
(* requests of an earlier set-up still out (_on_response).                 *)
THEOREM AppliedWasCarriedOut == ZigbeeSpec => []AnswersAreTheirOwn
<1>1. ZigbeeInv => AnswersAreTheirOwn
  BY DEF ZigbeeInv, AskedInTurn, AnswersAreTheirOwn
<1>2. QED  BY <1>1, ZigbeeStart, ZigbeeStep, PTL DEF ZigbeeSpec

-----------------------------------------------------------------------------
(***************************************************************************)
(* Zigbee: what was promised is kept.  The adapter decides by its copy of  *)
(* the network, which lags behind; so the invariant relates the network to *)
(* every list of it that is still on its way.  Whoever is at work and whose *)
(* answer is further back accounts for what a list does not show yet       *)
(* (BoundShown, MembersShown); as the bridge publishes its lists before the *)
(* answer, the copy is right about what was asked for once the answer is   *)
(* read (StateFirst).  As long as writes do not meet, nobody else is at work *)
(* in a managed group somebody is at work in (Apart), and what is asked for *)
(* spares every link that was promised (Spares): with it the network carries *)
(* what was promised whatever is carried out next (Kept).                  *)
(***************************************************************************)
AtWork(n) == work[n].step \in Asking
Done(n) == <<past.reloads, work[n].no>> \in past.carried
Says(m) == m.topic = "answer"

(* Requests, answers and who waits go by the number of the transaction.    *)
CallsNumbered ==
  /\ \A q \in calls : 1 <= q.no /\ q.no <= number /\ <<past.reloads, q.no>> \notin past.carried
  /\ \A q, r \in calls : q.no = r.no => q = r
  /\ \A p \in past.carried : p[1] <= past.reloads /\ (p[1] = past.reloads => p[2] <= number)

AnswersNumbered ==
  \A i \in 1..Len(stream) : Says(stream[i]) =>
    /\ stream[i].no \in Nat /\ stream[i].no <= number
    /\ \A q \in calls : q.no # stream[i].no
    /\ \A j \in 1..Len(stream) : Says(stream[j]) /\ stream[i].no = stream[j].no => i = j

WorkNumbered ==
  \A n \in Nodes :
    IF AtWork(n)
    THEN /\ 1 <= work[n].no /\ work[n].no <= number
         /\ \A m \in Nodes : AtWork(m) /\ work[n].no = work[m].no => n = m
    ELSE work[n].no = 0

(* What a coroutine is at, and what it has asked for.                      *)
OwnLink(n, w) ==
  /\ w.link \in ZLinks /\ ControlNode[LinkControl[w.link]] = n
  /\ w.adding <=> w.step \in {"bind", "create", "join"}
  /\ w.step \in {"create", "join"} => LinkGroup[w.link] \in Managed /\ LinkTarget[w.link] \notin ZGroups
  /\ w.step \in {"leave", "drop"} => w.via \in Managed

AtOwnLink == \A n \in Nodes : AtWork(n) => OwnLink(n, work[n])

IsFor(q, w) ==
  /\ q.step = w.step
  /\ w.step \in {"bind", "unbind"} => q.who = LinkControl[w.link]
  /\ w.step \in {"create", "join"} => q.who = LinkGroup[w.link]
  /\ w.step \in {"leave", "drop"} => q.who = w.via
  /\ w.step \in {"unbind", "join", "leave"} => q.to = LinkTarget[w.link]
  /\ w.step = "bind" =>
       \/ q.to = LinkTarget[w.link]
       \/ /\ q.to = LinkGroup[w.link] /\ q.to \in Managed /\ LinkTarget[w.link] \notin ZGroups
          /\ LinkTarget[w.link] \in Members(air, q.to)

Asked == \A n \in Nodes, q \in calls : AtWork(n) /\ q.no = work[n].no => IsFor(q, work[n])

(* n is told, at j, that its request is carried out.                       *)
TellsAt(n, j) ==
  AtWork(n) /\ j \in 1..Len(stream) /\ Says(stream[j]) /\ stream[j].ok /\ stream[j].no = work[n].no
Due(n, i) == \E j \in 1..Len(stream) : j > i /\ TellsAt(n, j)

ToBeSeen(n) == IF work[n].step \in {"bind", "unbind", "drop"} THEN "devices" ELSE "groups"
StateFirst ==
  \A n \in Nodes, j \in 1..Len(stream) : TellsAt(n, j) /\ j > 1 => stream[j - 1].topic = ToBeSeen(n)

(* What the copy shows now, at 0, and what it will show.                   *)
Shown(i) == IF i = 0 THEN copy ELSE stream[i]
Shows(i, topic) == i = 0 \/ (i \in 1..Len(stream) /\ stream[i].topic = topic)

Unbinds(n, b) ==
  \/ work[n].step = "unbind" /\ b = <<LinkControl[work[n].link], LinkTarget[work[n].link]>>
  \/ work[n].step = "drop" /\ b[2] = work[n].via

BoundShown ==
  \A i \in 0..Len(stream) : Shows(i, "devices") =>
    \A b \in Shown(i).bound : b \in air.bound \/ \E n \in Nodes : Unbinds(n, b) /\ Due(n, i + 1)

GroupOf(n) == IF work[n].step = "join" THEN LinkGroup[work[n].link] ELSE work[n].via
Regroups(n, g) == work[n].step \in {"join", "leave"} /\ GroupOf(n) = g

MembersShown ==
  \A i \in 0..Len(stream) : Shows(i, "groups") =>
    \A g \in Managed : \/ Members(Shown(i), g) = Members(air, g)
                       \/ \E n \in Nodes : Regroups(n, g) /\ Due(n, i + 1)

SeenEmpty(g) == \A i \in 0..Len(stream) : Shows(i, "groups") => Members(Shown(i), g) = {}
DroppedEmpty ==
  \A n \in Nodes : work[n].step = "drop" => Members(air, work[n].via) = {} /\ SeenEmpty(work[n].via)

(* Nobody else is at work in a group that somebody is at work in.          *)
InPlay(n) == Touches(work[n].link) \cup {work[n].via}
Apart == \A n, m \in Nodes : AtWork(n) /\ AtWork(m) /\ n # m => InPlay(n) \cap InPlay(m) \cap Managed = {}

(* What is asked for spares what has been promised.                        *)
Spares(w, k) ==
  /\ w.step = "unbind" /\ LinkControl[k] = LinkControl[w.link] =>
       LinkTarget[k] # LinkTarget[w.link] /\ LinkTarget[w.link] \notin ZGroups
  /\ w.step \in {"leave", "drop"} => LinkTarget[k] # w.via
  /\ w.step = "leave" /\ LinkTarget[k] = LinkTarget[w.link] => w.via \notin Bound(air, LinkControl[k])

Safe(k) == k \in ZLinks /\ IsPresent(air, k) /\ \A n \in Nodes : Spares(work[n], k)

Adds ==
  \A n \in Nodes : Done(n) =>
    /\ work[n].step = "join" => LinkTarget[work[n].link] \in Members(air, LinkGroup[work[n].link])
    /\ work[n].step = "bind" => IsPresent(air, work[n].link)

Kept == \A k \in past.promised : Safe(k)

Starting ==
  adapter = "starting" =>
    /\ calls = {} /\ \A n \in Nodes : ~AtWork(n)
    /\ \/ stream = <<GroupList(air), DeviceList(air)>>
       \/ stream = <<DeviceList(air)>> /\ copy.groups = air.groups

Near == adapter = "up" => StateFirst /\ BoundShown /\ MembersShown /\ DroppedEmpty

Shaped(s) == s = [bound |-> s.bound, groups |-> s.groups]
Shapes == Shaped(air) /\ Shaped(copy) /\ adapter \in {"down", "starting", "up"}

Numbered == CallsNumbered /\ AnswersNumbered /\ WorkNumbered
Tidy == Numbered /\ AtOwnLink /\ Asked /\ Apart /\ Adds /\ Kept
Clear == stateFirst /\ ~past.strayed /\ ~past.crowded /\ ~past.reused

Sound == Shapes /\ Tidy /\ Starting /\ Near

PromiseInv == Clear => Sound

(* Carried by the network: bound itself, or a member of a managed group that is. *)
LEMMA PresentMeans ==
  ASSUME NEW s, NEW l \in ZLinks
  PROVE  IsPresent(s, l) <=>
           \/ <<LinkControl[l], LinkTarget[l]>> \in s.bound
           \/ /\ LinkTarget[l] \notin ZGroups
              /\ \E g \in Managed : <<LinkControl[l], g>> \in s.bound /\ LinkTarget[l] \in Members(s, g)
<1> DEFINE c == LinkControl[l]
           t == LinkTarget[l]
<1>1. t \in Ends /\ \A g \in Managed : g \in Ends /\ g \in ZGroups
  BY ZigbeeAssumption DEF Ends, ZGroups
<1>2. CASE t \in ZGroups
  BY <1>1, <1>2 DEF IsPresent, Bound
<1>3. CASE t \notin ZGroups
  <2>1. ASSUME NEW e \in Ends
        PROVE  t \in TargetsOf(s, e) <=> e = t \/ (e \in Managed /\ t \in Members(s, e))
    BY <1>1, <1>3 DEF TargetsOf, ZGroups
  <2>2. IsPresent(s, l) <=> \E e \in Ends : <<c, e>> \in s.bound /\ t \in TargetsOf(s, e)
    BY <1>3 DEF IsPresent, Drives, Bound
  <2> HIDE DEF c, t
  <2>3. IsPresent(s, l) <=> \/ <<c, t>> \in s.bound
                            \/ \E g \in Managed : <<c, g>> \in s.bound /\ t \in Members(s, g)
    BY <1>1, <2>1, <2>2
  <2>4. QED  BY <1>3, <2>3 DEF c, t
<1>4. QED  BY <1>2, <1>3

(* What a request does to the bindings and to the members of groups. *)
LEMMA CarriedMeans ==
  ASSUME NEW q, Shaped(air), Possible(q), q.step \in Asking
  PROVE  LET s == Carried(air, q) IN
         /\ Shaped(s)
         /\ s.bound = CASE q.step = "bind" -> air.bound \cup {<<q.who, q.to>>}
                        [] q.step = "unbind" -> air.bound \ {<<q.who, q.to>>}
                        [] q.step = "drop" -> {b \in air.bound : b[2] # q.who}
                        [] OTHER -> air.bound
         /\ \A g : Members(s, g) =
              IF g = q.who /\ q.step \in {"join", "leave", "drop"}
              THEN CASE q.step = "join" -> Members(air, g) \cup {q.to}
                     [] q.step = "leave" -> Members(air, g) \ {q.to}
                     [] OTHER -> {}
              ELSE Members(air, g)
<1> DEFINE s == Carried(air, q)
           given(members) == [g \in DOMAIN air.groups \cup {q.who} |->
                               IF g = q.who THEN members ELSE air.groups[g]]
<1>1. air = [bound |-> air.bound, groups |-> air.groups]
  BY DEF Shaped
<1>2. ASSUME NEW x  PROVE /\ [air EXCEPT !.bound = x] = [bound |-> x, groups |-> air.groups]
                          /\ [air EXCEPT !.groups = x] = [bound |-> air.bound, groups |-> x]
  BY <1>1
<1>3. CASE q.step = "bind"
  <2>1. s = [bound |-> air.bound \cup {<<q.who, q.to>>}, groups |-> air.groups]
    BY <1>2, <1>3 DEF Carried
  <2>2. QED  BY <1>3, <2>1 DEF Shaped, Members
<1>4. CASE q.step = "unbind"
  <2>1. s = [bound |-> air.bound \ {<<q.who, q.to>>}, groups |-> air.groups]
    BY <1>2, <1>4 DEF Carried
  <2>2. QED  BY <1>4, <2>1 DEF Shaped, Members
<1>5. CASE q.step = "create"
  <2>1. s = [bound |-> air.bound, groups |-> given({})]
    BY <1>2, <1>5 DEF Carried
  <2>2. q.who \notin DOMAIN air.groups
    BY <1>5 DEF Possible
  <2>3. QED  BY <1>5, <2>1, <2>2 DEF Shaped, Members
<1> DEFINE joined == Members(air, q.who) \cup {q.to}
           rest == Members(air, q.who) \ {q.to}
<1>a. ASSUME NEW x
      PROVE  /\ DOMAIN given(x) = DOMAIN air.groups \cup {q.who} /\ given(x)[q.who] = x
             /\ \A g \in DOMAIN air.groups : g # q.who => given(x)[g] = air.groups[g]
  OBVIOUS
<1>b. ASSUME NEW x, s = [bound |-> air.bound, groups |-> given(x)]
      PROVE  /\ Shaped(s) /\ s.bound = air.bound
             /\ \A g : Members(s, g) = IF g = q.who THEN x ELSE Members(air, g)
  <2> HIDE DEF s, given
  <2>1. s.bound = air.bound /\ s.groups = given(x) /\ Shaped(s)
    BY <1>b DEF Shaped
  <2>2. ASSUME NEW g  PROVE Members(s, g) = IF g = q.who THEN x ELSE Members(air, g)
    BY <1>a, <2>1 DEF Members
  <2>3. QED  BY <2>1, <2>2
<1>6. CASE q.step = "join"
  <2>1. s = [bound |-> air.bound, groups |-> given(joined)]
    BY <1>2, <1>6 DEF Carried
  <2>2. /\ Shaped(s) /\ s.bound = air.bound
        /\ \A g : Members(s, g) = IF g = q.who THEN joined ELSE Members(air, g)
    BY <1>b, <2>1
  <2>3. QED  BY <1>6, <2>2
<1>7. CASE q.step = "leave"
  <2>1. s = [bound |-> air.bound, groups |-> given(rest)]
    BY <1>2, <1>7 DEF Carried
  <2>2. /\ Shaped(s) /\ s.bound = air.bound
        /\ \A g : Members(s, g) = IF g = q.who THEN rest ELSE Members(air, g)
    BY <1>b, <2>1
  <2>3. QED  BY <1>7, <2>2
<1>8. CASE q.step = "drop"
  <2>1. s = [bound |-> {b \in air.bound : b[2] # q.who},
             groups |-> Restrict(air.groups, DOMAIN air.groups \ {q.who})]
    BY <1>8 DEF Carried
  <2>2. s.groups = [g \in DOMAIN air.groups \ {q.who} |-> air.groups[g]]
    BY <2>1 DEF Restrict
  <2>3. QED  BY <1>8, <2>1, <2>2 DEF Shaped, Members
<1>9. QED  BY <1>3, <1>4, <1>5, <1>6, <1>7, <1>8 DEF Asking

-----------------------------------------------------------------------------
(***************************************************************************)
(* What a read of the stream, and who stops waiting, leave as it is.       *)
(***************************************************************************)
IsStream == \E messages : stream \in Seq(messages)

(* The stream as it was, or without its head. *)
Popped == stream # <<>> /\ stream' = Tail(stream)
MayPop == stream' = stream \/ Popped

(* What is left of the stream, by index.                                   *)
LEMMA PopMeans ==
  ASSUME IsStream, Popped
  PROVE  /\ IsStream' /\ Len(stream) \in Nat /\ Len(stream) >= 1
         /\ Len(stream') = Len(stream) - 1 /\ Head(stream) = stream[1]
         /\ \A i \in 1..Len(stream') : i + 1 \in 1..Len(stream) /\ stream'[i] = stream[i + 1]
<1>1. PICK messages : stream \in Seq(messages)
  BY DEF IsStream
<1>2. stream' \in Seq(messages)
  BY <1>1 DEF Popped
<1>3. Len(stream) >= 1 /\ Len(stream) \in Nat /\ Len(stream') = Len(stream) - 1
  BY <1>1 DEF Popped
<1>4. \A i \in 1..Len(stream') : stream'[i] = stream[i + 1]
  BY <1>1 DEF Popped
<1>5. QED  BY <1>1, <1>2, <1>3, <1>4 DEF IsStream, Popped

(* Coroutines stay at what they are at or stop, and nothing new is said.   *)
Rests(n) == work'[n] = work[n] \/ (work'[n].step \notin Asking /\ work'[n].no = 0)

(* Requests that are left keep their numbers,                              *)
LEMMA CallsKeep ==
  ASSUME CallsNumbered, calls' \subseteq calls, number' = number,
         past'.carried = past.carried, past'.reloads = past.reloads
  PROVE  CallsNumbered'
BY DEF CallsNumbered

(* and so do answers,                                                      *)
LEMMA AnswersKeep ==
  ASSUME AnswersNumbered, IsStream, MayPop, calls' \subseteq calls, number' = number
  PROVE  AnswersNumbered'
<1>1. CASE stream' = stream
  BY <1>1 DEF AnswersNumbered
<1>2. CASE Popped
  <2>1. /\ Len(stream) \in Nat /\ Len(stream') = Len(stream) - 1
        /\ \A i \in 1..Len(stream') : i + 1 \in 1..Len(stream) /\ stream'[i] = stream[i + 1]
    BY <1>2, PopMeans
  <2>2. ASSUME NEW i \in 1..Len(stream'), Says(stream'[i])
        PROVE  /\ stream'[i].no \in Nat /\ stream'[i].no <= number
               /\ \A q \in calls : q.no # stream'[i].no
               /\ \A j \in 1..Len(stream') :
                    Says(stream'[j]) /\ stream'[i].no = stream'[j].no => i + 1 = j + 1
    BY <2>1, <2>2 DEF AnswersNumbered
  <2>3. \A i, j \in 1..Len(stream') : i + 1 = j + 1 => i = j
    BY <2>1
  <2>4. QED  BY <2>2, <2>3 DEF AnswersNumbered, Says
<1>3. QED  BY <1>1, <1>2 DEF MayPop

(* and who waits.                                                          *)
LEMMA WorkKeeps ==
  ASSUME WorkNumbered, number' = number, \A n \in Nodes : Rests(n)
  PROVE  WorkNumbered'
BY DEF WorkNumbered, Rests, AtWork

(* A request takes a number of its own. *)
LEMMA AskNumbers ==
  ASSUME Numbered, number \in Nat, IsStream, MayPop, NEW n \in Nodes, NEW q,
         q.no = number + 1, calls' = calls \cup {q}, number' = number + 1,
         past'.carried = past.carried, past'.reloads = past.reloads,
         \A m \in Nodes : m # n => work'[m] = work[m],
         work'[n].step \in Asking, work'[n].no = number + 1,
         \A c \in calls : c.no \in Nat, \A m \in Nodes : work[m].no \in Nat,
         past.carried \subseteq Numbers
  PROVE  Numbered' /\ <<past.reloads, number + 1>> \notin past.carried
<1>1. \A p \in past.carried : p[1] = past.reloads => p[2] <= number /\ p[2] \in Nat
  BY DEF Numbered, CallsNumbered, Numbers
<1>2. <<past.reloads, number + 1>> \notin past.carried
  BY <1>1
<1>3. CallsNumbered'
  <2>1. ASSUME NEW c \in calls'
        PROVE  1 <= c.no /\ c.no <= number' /\ <<past'.reloads, c.no>> \notin past'.carried
    <3>1. CASE c \in calls
      BY <3>1 DEF Numbered, CallsNumbered
    <3>2. CASE c = q
      BY <1>2, <3>2
    <3>3. QED  BY <2>1, <3>1, <3>2
  <2>2. \A c, d \in calls' : c.no = d.no => c = d
    <3>1. ASSUME NEW c \in calls  PROVE c.no # q.no
      <4>1. c.no <= number /\ c.no \in Nat
        BY DEF Numbered, CallsNumbered
      <4>2. QED  BY <4>1
    <3>2. QED  BY <3>1 DEF Numbered, CallsNumbered
  <2>3. ASSUME NEW p \in past'.carried
        PROVE  p[1] <= past'.reloads /\ (p[1] = past'.reloads => p[2] <= number')
    BY <1>1 DEF Numbered, CallsNumbered
  <2>4. QED  BY <2>1, <2>2, <2>3 DEF CallsNumbered
<1>4. AnswersNumbered'
  <2>1. AnswersNumbered /\ \A i \in 1..Len(stream) : Says(stream[i]) => stream[i].no # q.no
    BY DEF Numbered, AnswersNumbered
  <2>2. CASE stream' = stream
    <3>1. \A i \in 1..Len(stream) : Says(stream[i]) => stream[i].no <= number + 1
      BY <2>1 DEF AnswersNumbered
    <3>2. QED  BY <2>1, <2>2, <3>1 DEF AnswersNumbered, Says
  <2>3. CASE Popped
    <3>1. /\ Len(stream) \in Nat /\ Len(stream') = Len(stream) - 1
          /\ \A i \in 1..Len(stream') : i + 1 \in 1..Len(stream) /\ stream'[i] = stream[i + 1]
      BY <2>3, PopMeans
    <3>2. ASSUME NEW i \in 1..Len(stream'), Says(stream'[i])
          PROVE  /\ stream'[i].no \in Nat /\ stream'[i].no <= number /\ stream'[i].no # q.no
                 /\ \A c \in calls : c.no # stream'[i].no
                 /\ \A j \in 1..Len(stream') :
                      Says(stream'[j]) /\ stream'[i].no = stream'[j].no => i + 1 = j + 1
      <4>1. i + 1 \in 1..Len(stream) /\ stream'[i] = stream[i + 1] /\ Says(stream[i + 1])
        BY <3>1, <3>2
      <4>2. /\ stream[i + 1].no \in Nat /\ stream[i + 1].no <= number
            /\ stream[i + 1].no # q.no /\ \A c \in calls : c.no # stream[i + 1].no
            /\ \A k \in 1..Len(stream) : Says(stream[k]) /\ stream[i + 1].no = stream[k].no => i + 1 = k
        BY <2>1, <4>1 DEF AnswersNumbered
      <4>3. QED  BY <3>1, <4>1, <4>2
    <3>3. \A i, j \in 1..Len(stream') : i + 1 = j + 1 => i = j
      BY <3>1
    <3>4. \A i \in 1..Len(stream') : Says(stream'[i]) => stream'[i].no <= number + 1
      BY <3>2
    <3>5. ASSUME NEW i \in 1..Len(stream'), Says(stream'[i])
          PROVE  /\ stream'[i].no \in Nat /\ stream'[i].no <= number'
                 /\ \A c \in calls' : c.no # stream'[i].no
                 /\ \A j \in 1..Len(stream') :
                      Says(stream'[j]) /\ stream'[i].no = stream'[j].no => i = j
      <4>1. stream'[i].no <= number'
        BY <3>4, <3>5
      <4>2. \A c \in calls' : c.no # stream'[i].no
        BY <3>2, <3>5
      <4>3. \A j \in 1..Len(stream') : Says(stream'[j]) /\ stream'[i].no = stream'[j].no => i = j
        BY <3>2, <3>3, <3>5
      <4>4. QED  BY <3>2, <3>5, <4>1, <4>2, <4>3
    <3>6. QED  BY <3>5 DEF AnswersNumbered, Says
  <2>4. QED  BY <2>2, <2>3 DEF MayPop
<1>5. WorkNumbered'
  BY DEF Numbered, WorkNumbered, AtWork
<1>6. QED  BY <1>2, <1>3, <1>4, <1>5 DEF Numbered

(* The stream and the network stay as they are; who changed what it is at  *)
(* has no answer on its way, before or after.                              *)
Quiet(n) == \A j \in 1..Len(stream) : ~TellsAt(n, j)

(* A step that sends and delivers nothing.                                 *)
LEMMA ViewsStay ==
  ASSUME StateFirst, BoundShown, MembersShown, UNCHANGED <<stream, air, copy>>,
         \A n \in Nodes : work'[n] = work[n] \/ (Quiet(n) /\ Quiet(n)')
  PROVE  StateFirst' /\ BoundShown' /\ MembersShown'
<1>1. \A n \in Nodes, j \in 1..Len(stream) :
        TellsAt(n, j) => work'[n] = work[n] /\ TellsAt(n, j)'
  BY DEF Quiet, TellsAt, AtWork
<1>2. \A n \in Nodes, j \in 1..Len(stream) :
        TellsAt(n, j)' => work'[n] = work[n] /\ TellsAt(n, j)
  BY DEF Quiet, TellsAt, AtWork
<1>3. \A n \in Nodes : \A i : Due(n, i) => work'[n] = work[n] /\ Due(n, i)'
  BY <1>1 DEF Due
<1>4. StateFirst'
  BY <1>2 DEF StateFirst, ToBeSeen
<1>5. BoundShown'
  BY <1>3 DEF BoundShown, Shows, Shown, Unbinds
<1>6. MembersShown'
  BY <1>3 DEF MembersShown, Shows, Shown, Members, Regroups, GroupOf
<1>7. QED  BY <1>4, <1>5, <1>6

(* An answer is read: whose it was has no other on its way. *)
LEMMA ViewsAfterAnswer ==
  ASSUME StateFirst, BoundShown, MembersShown, IsStream, Popped, Says(Head(stream)),
         UNCHANGED <<air, copy>>,
         \A n \in Nodes : \/ work'[n] = work[n]
                          \/ /\ \A j \in 1..Len(stream) : TellsAt(n, j) => j = 1
                             /\ Quiet(n)'
  PROVE  StateFirst' /\ BoundShown' /\ MembersShown'
<1> DEFINE new == stream'
<1>1. /\ Len(stream) \in Nat /\ Len(stream) >= 1 /\ Len(new) = Len(stream) - 1
      /\ Head(stream) = stream[1]
      /\ \A i \in 1..Len(new) : i + 1 \in 1..Len(stream) /\ new[i] = stream[i + 1]
  BY PopMeans
<1>2. ASSUME NEW n \in Nodes, NEW j \in 1..Len(stream), TellsAt(n, j), j > 1
      PROVE  work'[n] = work[n] /\ TellsAt(n, j - 1)'
  <2>1. j - 1 \in 1..Len(new) /\ new[j - 1] = stream[j] /\ j # 1
    BY <1>1, <1>2
  <2>2. work'[n] = work[n]
    BY <1>2, <2>1
  <2>3. QED  BY <1>2, <2>1, <2>2 DEF TellsAt, AtWork
<1>3. \A n \in Nodes, j \in 1..Len(new) :
        TellsAt(n, j)' => work'[n] = work[n] /\ TellsAt(n, j + 1)
  BY <1>1 DEF TellsAt, AtWork, Quiet
<1>4. \A n \in Nodes : ~TellsAt(n, 2)
  <2>1. SUFFICES ASSUME NEW n \in Nodes, TellsAt(n, 2)  PROVE FALSE
    OBVIOUS
  <2>2. 2 \in 1..Len(stream) /\ 2 > 1 /\ 2 - 1 = 1
    BY <1>1, <2>1 DEF TellsAt
  <2>3. stream[1].topic = ToBeSeen(n)
    BY <2>1, <2>2 DEF StateFirst
  <2>4. QED  BY <1>1, <2>3 DEF Says, ToBeSeen
<1>5. \A n \in Nodes, i \in Nat : Due(n, i + 1) => work'[n] = work[n] /\ Due(n, i)'
  BY <1>1, <1>2 DEF Due
<1>6. \A n \in Nodes : Due(n, 1) => work'[n] = work[n] /\ Due(n, 1)'
  BY <1>1, <1>2, <1>4 DEF Due
<1>7. StateFirst'
  BY <1>1, <1>3 DEF StateFirst, ToBeSeen
<1>8. BoundShown'
  <2>1. ASSUME NEW i \in 0..Len(new), Shows(i, "devices")', NEW b \in Shown(i)'.bound
        PROVE  b \in air.bound \/ \E n \in Nodes : Unbinds(n, b)' /\ Due(n, i + 1)'
    <3>1. CASE i = 0
      <4>1. b \in air.bound \/ \E n \in Nodes : Unbinds(n, b) /\ Due(n, 1)
        BY <1>1, <2>1, <3>1 DEF BoundShown, Shows, Shown
      <4>2. QED  BY <1>6, <3>1, <4>1 DEF Unbinds
    <3>2. CASE i # 0
      <4>1. i + 1 \in 1..Len(stream) /\ new[i] = stream[i + 1] /\ i + 1 # 0
        BY <1>1, <2>1, <3>2
      <4>2. Shows(i + 1, "devices") /\ b \in Shown(i + 1).bound
        BY <2>1, <3>2, <4>1 DEF Shows, Shown
      <4>3. b \in air.bound \/ \E n \in Nodes : Unbinds(n, b) /\ Due(n, i + 1 + 1)
        BY <1>1, <4>1, <4>2 DEF BoundShown
      <4>4. QED  BY <1>5, <2>1, <4>3 DEF Unbinds
    <3>3. QED  BY <3>1, <3>2
  <2>2. QED  BY <2>1 DEF BoundShown
<1>9. MembersShown'
  <2>1. ASSUME NEW i \in 0..Len(new), Shows(i, "groups")', NEW g \in Managed
        PROVE  \/ Members(Shown(i), g)' = Members(air, g)
               \/ \E n \in Nodes : Regroups(n, g)' /\ Due(n, i + 1)'
    <3>1. CASE i = 0
      <4>1. \/ Members(copy, g) = Members(air, g)
            \/ \E n \in Nodes : Regroups(n, g) /\ Due(n, 1)
        BY <1>1, <2>1, <3>1 DEF MembersShown, Shows, Shown
      <4>2. Members(Shown(i), g)' = Members(copy, g)
        BY <3>1 DEF Shown, Members
      <4>3. QED  BY <1>6, <3>1, <4>1, <4>2 DEF Regroups, GroupOf
    <3>2. CASE i # 0
      <4>1. i + 1 \in 1..Len(stream) /\ new[i] = stream[i + 1] /\ i + 1 # 0
        BY <1>1, <2>1, <3>2
      <4>2. Shows(i + 1, "groups") /\ Members(Shown(i), g)' = Members(Shown(i + 1), g)
        BY <2>1, <3>2, <4>1 DEF Shows, Shown, Members
      <4>3. \/ Members(Shown(i + 1), g) = Members(air, g)
            \/ \E n \in Nodes : Regroups(n, g) /\ Due(n, i + 1 + 1)
        BY <1>1, <4>1, <4>2 DEF MembersShown
      <4>4. QED  BY <1>5, <2>1, <4>2, <4>3 DEF Regroups, GroupOf
    <3>3. QED  BY <3>1, <3>2
  <2>2. QED  BY <2>1 DEF MembersShown
<1>10. QED  BY <1>7, <1>8, <1>9

(* A state is read: what was due after it still is.                        *)
LEMMA ViewsAfterState ==
  ASSUME StateFirst, BoundShown, MembersShown, IsStream, Shaped(copy), StateArrives,
         \A n \in Nodes : work'[n] = work[n] \/ (~AtWork(n) /\ ~AtWork(n)')
  PROVE  StateFirst' /\ BoundShown' /\ MembersShown' /\ Shaped(copy)'
<1> DEFINE new == stream'
           m == stream[1]
<1>1. Popped /\ air' = air /\ Head(stream).topic \in {"devices", "groups"}
  BY DEF StateArrives, Popped
<1>2. /\ Len(stream) \in Nat /\ Len(stream) >= 1 /\ Len(new) = Len(stream) - 1
      /\ Head(stream) = stream[1]
      /\ \A i \in 1..Len(new) : i + 1 \in 1..Len(stream) /\ new[i] = stream[i + 1]
  BY <1>1, PopMeans
<1>3. /\ copy'.bound = IF m.topic = "devices" THEN m.bound ELSE copy.bound
      /\ copy'.groups = IF m.topic = "groups" THEN m.groups ELSE copy.groups
      /\ Shaped(copy)'
  BY <1>1, <1>2 DEF StateArrives, Shaped
<1>4. ASSUME NEW n \in Nodes, NEW j \in 1..Len(stream), TellsAt(n, j), j > 1
      PROVE  work'[n] = work[n] /\ j - 1 \in 1..Len(new) /\ TellsAt(n, j - 1)'
  <2>1. j - 1 \in 1..Len(new) /\ new[j - 1] = stream[j]
    BY <1>2, <1>4
  <2>2. work'[n] = work[n]
    BY <1>4 DEF TellsAt
  <2>3. QED  BY <1>4, <2>1, <2>2 DEF TellsAt, AtWork
<1>5. \A n \in Nodes, j \in 1..Len(new) :
        TellsAt(n, j)' => work'[n] = work[n] /\ TellsAt(n, j + 1)
  BY <1>2 DEF TellsAt, AtWork
<1>6. \A n \in Nodes : \A i \in Nat : Due(n, i + 1) => work'[n] = work[n] /\ Due(n, i)'
  <2>1. SUFFICES ASSUME NEW n \in Nodes, NEW i \in Nat, NEW j \in 1..Len(stream),
                        j > i + 1, TellsAt(n, j)
                 PROVE  work'[n] = work[n] /\ Due(n, i)'
    BY DEF Due
  <2>2. j > 1 /\ j - 1 > i
    BY <2>1
  <2>3. QED  BY <1>4, <2>1, <2>2 DEF Due
<1>7. ASSUME NEW n \in Nodes, Due(n, 1), ToBeSeen(n) # m.topic
      PROVE  work'[n] = work[n] /\ Due(n, 1)'
  <2>1. PICK j \in 1..Len(stream) : j > 1 /\ TellsAt(n, j)
    BY <1>7 DEF Due
  <2>2. stream[j - 1].topic = ToBeSeen(n)
    BY <2>1 DEF StateFirst
  <2>3. j # 2
    BY <1>7, <2>2
  <2>4. j - 1 > 1
    BY <2>1, <2>3
  <2>5. QED  BY <1>4, <2>1, <2>4 DEF Due
<1>8. StateFirst'
  BY <1>2, <1>5 DEF StateFirst, ToBeSeen
<1>9. BoundShown'
  <2>1. ASSUME NEW i \in 0..Len(new), Shows(i, "devices")', NEW b \in Shown(i)'.bound
        PROVE  b \in air.bound \/ \E n \in Nodes : Unbinds(n, b)' /\ Due(n, i + 1)'
    <3>1. CASE i = 0 /\ m.topic # "devices"
      <4>1. b \in copy.bound
        BY <1>3, <2>1, <3>1 DEF Shown
      <4>2. b \in air.bound \/ \E n \in Nodes : Unbinds(n, b) /\ Due(n, 0 + 1)
        BY <1>2, <4>1 DEF BoundShown, Shows, Shown
      <4>3. \A n \in Nodes : Unbinds(n, b) => ToBeSeen(n) # m.topic
        BY <3>1 DEF Unbinds, ToBeSeen
      <4>4. \A n \in Nodes : Unbinds(n, b) /\ Due(n, 1) => Unbinds(n, b)' /\ Due(n, 1)'
        BY <1>7, <4>3 DEF Unbinds
      <4>5. QED  BY <3>1, <4>2, <4>4
    <3>2. CASE i # 0 \/ m.topic = "devices"
      <4>1. i + 1 \in 1..Len(stream) /\ i + 1 # 0 /\ i + 1 \in 0..Len(stream) /\ i \in Nat
        BY <1>2, <2>1, <3>2
      <4>2. Shows(i + 1, "devices") /\ b \in Shown(i + 1).bound
        <5>1. CASE i = 0
          <6>1. b \in m.bound /\ m.topic = "devices" /\ i + 1 = 1
            BY <1>3, <2>1, <3>2, <5>1 DEF Shown
          <6>2. QED  BY <4>1, <6>1 DEF Shows, Shown
        <5>2. CASE i # 0
          BY <1>2, <2>1, <4>1, <5>2 DEF Shows, Shown
        <5>3. QED  BY <5>1, <5>2
      <4>3. b \in air.bound \/ \E n \in Nodes : Unbinds(n, b) /\ Due(n, i + 1 + 1)
        BY <4>1, <4>2 DEF BoundShown
      <4>4. \A n \in Nodes : Unbinds(n, b) /\ Due(n, i + 1 + 1) => Unbinds(n, b)' /\ Due(n, i + 1)'
        BY <1>6, <4>1 DEF Unbinds
      <4>5. QED  BY <4>3, <4>4
    <3>3. QED  BY <3>1, <3>2
  <2>2. QED  BY <1>1, <2>1 DEF BoundShown
<1>10. MembersShown'
  <2>1. ASSUME NEW i \in 0..Len(new), Shows(i, "groups")', NEW g \in Managed
        PROVE  \/ Members(Shown(i), g)' = Members(air, g)
               \/ \E n \in Nodes : Regroups(n, g)' /\ Due(n, i + 1)'
    <3>1. CASE i = 0 /\ m.topic # "groups"
      <4>1. Members(Shown(i), g)' = Members(copy, g)
        BY <1>3, <2>1, <3>1 DEF Shown, Members
      <4>2. \/ Members(copy, g) = Members(air, g)
            \/ \E n \in Nodes : Regroups(n, g) /\ Due(n, 0 + 1)
        BY <1>2 DEF MembersShown, Shows, Shown
      <4>3. \A n \in Nodes : Regroups(n, g) => ToBeSeen(n) # m.topic
        BY <1>1, <1>2, <3>1 DEF Regroups, ToBeSeen
      <4>4. \A n \in Nodes : Regroups(n, g) /\ Due(n, 1) => Regroups(n, g)' /\ Due(n, 1)'
        BY <1>7, <4>3 DEF Regroups, GroupOf
      <4>5. QED  BY <3>1, <4>1, <4>2, <4>4
    <3>2. CASE i # 0 \/ m.topic = "groups"
      <4>1. i + 1 \in 1..Len(stream) /\ i + 1 # 0 /\ i + 1 \in 0..Len(stream) /\ i \in Nat
        BY <1>2, <2>1, <3>2
      <4>2. Shows(i + 1, "groups") /\ Members(Shown(i), g)' = Members(Shown(i + 1), g)
        <5>1. CASE i = 0
          <6>1. m.topic = "groups" /\ i + 1 = 1 /\ copy'.groups = m.groups
            BY <1>3, <3>2, <5>1
          <6>2. QED  BY <4>1, <5>1, <6>1 DEF Shows, Shown, Members
        <5>2. CASE i # 0
          BY <1>2, <2>1, <4>1, <5>2 DEF Shows, Shown, Members
        <5>3. QED  BY <5>1, <5>2
      <4>3. \/ Members(Shown(i + 1), g) = Members(air, g)
            \/ \E n \in Nodes : Regroups(n, g) /\ Due(n, i + 1 + 1)
        BY <4>1, <4>2 DEF MembersShown
      <4>4. \A n \in Nodes :
              Regroups(n, g) /\ Due(n, i + 1 + 1) => Regroups(n, g)' /\ Due(n, i + 1)'
        BY <1>6, <4>1 DEF Regroups, GroupOf
      <4>5. QED  BY <4>2, <4>3, <4>4
    <3>3. QED  BY <3>1, <3>2
  <2>2. QED  BY <1>1, <2>1 DEF MembersShown
<1>11. QED  BY <1>3, <1>8, <1>9, <1>10

(* A group that is seen empty stays so while nobody joins it. *)
LEMMA EmptyStays ==
  ASSUME NEW g, SeenEmpty(g), IsStream, Popped, Shaped(copy),
         \/ UNCHANGED copy
         \/ copy' = IF Head(stream).topic = "devices" THEN [copy EXCEPT !.bound = Head(stream).bound]
                    ELSE [copy EXCEPT !.groups = Head(stream).groups],
         Head(stream).topic \in {"devices", "groups"} \/ UNCHANGED copy
  PROVE  SeenEmpty(g)'
<1>1. /\ Len(stream) \in Nat /\ Len(stream) >= 1 /\ Len(stream') = Len(stream) - 1
      /\ Head(stream) = stream[1]
      /\ \A i \in 1..Len(stream') : i + 1 \in 1..Len(stream) /\ stream'[i] = stream[i + 1]
  BY PopMeans
<1>2. Members(copy, g) = {}
  BY <1>1 DEF SeenEmpty, Shows, Shown
<1>3. Members(copy', g) = {}
  <2>1. CASE copy' = copy
    BY <1>2, <2>1
  <2>2. CASE Head(stream).topic = "devices" /\ copy' = [copy EXCEPT !.bound = Head(stream).bound]
    <3>1. copy'.groups = copy.groups
      BY <2>2 DEF Shaped
    <3>2. QED  BY <1>2, <3>1 DEF Members
  <2>3. CASE Head(stream).topic = "groups" /\ copy' = [copy EXCEPT !.groups = Head(stream).groups]
    <3>1. copy'.groups = stream[1].groups
      BY <1>1, <2>3 DEF Shaped
    <3>2. Members(stream[1], g) = {}
      BY <1>1, <2>3 DEF SeenEmpty, Shows, Shown
    <3>3. QED  BY <3>1, <3>2 DEF Members
  <2>4. QED  BY <2>1, <2>2, <2>3
<1>4. ASSUME NEW i \in 1..Len(stream'), stream'[i].topic = "groups"
      PROVE  Members(stream'[i], g) = {}
  <2>1. i + 1 \in 0..Len(stream) /\ i + 1 # 0
    BY <1>1
  <2>2. QED  BY <1>1, <1>4, <2>1 DEF SeenEmpty, Shows, Shown
<1>5. ASSUME NEW i \in 0..Len(stream'), Shows(i, "groups")'  PROVE Members(Shown(i)', g) = {}
  BY <1>3, <1>4, <1>5 DEF Shows, Shown
<1>6. QED  BY <1>5 DEF SeenEmpty

(* A longer stream, by index.                                              *)
LEMMA GrowMeans ==
  ASSUME IsStream, NEW S, NEW more \in Seq(S), stream' = stream \o more
  PROVE  /\ IsStream' /\ Len(stream) \in Nat /\ Len(more) \in Nat
         /\ Len(stream') = Len(stream) + Len(more)
         /\ \A i \in 1..Len(stream) : stream'[i] = stream[i]
         /\ \A k \in 1..Len(more) : stream'[Len(stream) + k] = more[k]
         /\ \A i \in 1..Len(stream') : i \in 1..Len(stream)
                                       \/ (i - Len(stream) \in 1..Len(more) /\ stream'[i] = more[i - Len(stream)])
<1>1. PICK messages : stream \in Seq(messages)
  BY DEF IsStream
<1>2. stream \in Seq(messages \cup S) /\ more \in Seq(messages \cup S)
  BY <1>1
<1>3. stream' \in Seq(messages \cup S)
  BY <1>2
<1>4. Len(stream) \in Nat /\ Len(more) \in Nat /\ Len(stream') = Len(stream) + Len(more)
  BY <1>2
<1>5. \A i \in 1..Len(stream') :
        stream'[i] = IF i <= Len(stream) THEN stream[i] ELSE more[i - Len(stream)]
  BY <1>2
<1>6. \A i \in 1..Len(stream) : i \in 1..Len(stream') /\ stream'[i] = stream[i]
  BY <1>4, <1>5
<1>7. ASSUME NEW k \in 1..Len(more)  PROVE stream'[Len(stream) + k] = more[k]
  <2>1. Len(stream) + k \in 1..Len(stream') /\ ~(Len(stream) + k <= Len(stream))
        /\ (Len(stream) + k) - Len(stream) = k
    BY <1>4
  <2>2. QED  BY <1>5, <2>1
<1>8. \A i \in 1..Len(stream') : i \in 1..Len(stream)
                                 \/ (i - Len(stream) \in 1..Len(more) /\ stream'[i] = more[i - Len(stream)])
  BY <1>4, <1>5
<1>9. QED  BY <1>3, <1>4, <1>6, <1>7, <1>8 DEF IsStream

(* The answer to a request takes its number along. *)
LEMMA AnsweredNumbers ==
  ASSUME Numbered, IsStream, NEW q \in calls, q.no \in Nat, past.reloads \in Nat,
         calls' = calls \ {q},
         UNCHANGED <<number, work>>, past'.reloads = past.reloads,
         past'.carried \subseteq past.carried \cup {<<past.reloads, q.no>>},
         NEW S, NEW more \in Seq(S), stream' = stream \o more,
         \A k \in 1..Len(more) : Says(more[k]) => k = Len(more) /\ more[k].no = q.no
  PROVE  Numbered'
<1>1. \A c \in calls' : c \in calls /\ c.no # q.no
  BY DEF Numbered, CallsNumbered
<1>2. 1 <= q.no /\ q.no <= number
  BY DEF Numbered, CallsNumbered
<1>3. CallsNumbered'
  <2>1. \A c \in calls' : 1 <= c.no /\ c.no <= number' /\ <<past'.reloads, c.no>> \notin past'.carried
    BY <1>1 DEF Numbered, CallsNumbered
  <2>2. \A c, d \in calls' : c.no = d.no => c = d
    BY <1>1 DEF Numbered, CallsNumbered
  <2>3. \A p \in past'.carried : p[1] <= past'.reloads /\ (p[1] = past'.reloads => p[2] <= number')
    <3>1. ASSUME NEW p \in past'.carried
          PROVE  p[1] <= past'.reloads /\ (p[1] = past'.reloads => p[2] <= number')
      <4>1. CASE p \in past.carried
        BY <4>1 DEF Numbered, CallsNumbered
      <4>2. CASE p = <<past.reloads, q.no>>
        <5>1. p[1] = past.reloads /\ p[2] = q.no /\ past.reloads <= past.reloads
          BY <4>2
        <5>2. QED  BY <1>2, <5>1
      <4>3. QED  BY <4>1, <4>2
    <3>2. QED  BY <3>1
  <2>4. QED  BY <2>1, <2>2, <2>3 DEF CallsNumbered
<1>4. /\ Len(stream) \in Nat /\ Len(more) \in Nat /\ Len(stream') = Len(stream) + Len(more)
      /\ \A i \in 1..Len(stream) : stream'[i] = stream[i]
      /\ \A i \in 1..Len(stream') : i \in 1..Len(stream)
                                    \/ (i - Len(stream) \in 1..Len(more) /\ stream'[i] = more[i - Len(stream)])
  BY GrowMeans
<1>5. \A i \in 1..Len(stream) : Says(stream[i]) => stream[i].no # q.no
  BY DEF Numbered, AnswersNumbered
<1>6. ASSUME NEW i \in 1..Len(stream'), Says(stream'[i])
      PROVE  \/ i \in 1..Len(stream) /\ stream'[i] = stream[i] /\ Says(stream[i])
             \/ i = Len(stream') /\ stream'[i].no = q.no
  <2>1. CASE i \in 1..Len(stream)
    BY <1>4, <1>6, <2>1
  <2>2. CASE i - Len(stream) \in 1..Len(more) /\ stream'[i] = more[i - Len(stream)]
    <3>1. i - Len(stream) = Len(more) /\ stream'[i].no = q.no
      BY <1>6, <2>2
    <3>2. QED  BY <1>4, <3>1
  <2>3. QED  BY <1>4, <2>1, <2>2
<1>7. AnswersNumbered'
  <2>1. ASSUME NEW i \in 1..Len(stream'), Says(stream'[i])
        PROVE  /\ stream'[i].no \in Nat /\ stream'[i].no <= number'
               /\ \A c \in calls' : c.no # stream'[i].no
               /\ \A j \in 1..Len(stream') :
                    Says(stream'[j]) /\ stream'[i].no = stream'[j].no => i = j
    <3>1. CASE i \in 1..Len(stream) /\ stream'[i] = stream[i] /\ Says(stream[i])
      BY <1>1, <1>5, <1>6, <3>1 DEF Numbered, AnswersNumbered
    <3>2. CASE i = Len(stream') /\ stream'[i].no = q.no
      BY <1>1, <1>2, <1>5, <1>6, <3>2
    <3>3. QED  BY <1>6, <2>1, <3>1, <3>2
  <2>2. QED  BY <2>1 DEF AnswersNumbered, Says
<1>8. WorkNumbered'
  BY DEF Numbered, WorkNumbered, AtWork
<1>9. QED  BY <1>3, <1>7, <1>8 DEF Numbered

(* A refusal shows nothing and tells nobody of success. *)
LEMMA ViewsAfterRefusal ==
  ASSUME StateFirst, BoundShown, MembersShown, DroppedEmpty, IsStream, NEW a, Says(a), ~a.ok,
         stream' = stream \o <<a>>, UNCHANGED <<air, copy, work>>
  PROVE  StateFirst' /\ BoundShown' /\ MembersShown' /\ DroppedEmpty'
<1>1. /\ Len(stream) \in Nat /\ Len(stream') = Len(stream) + 1
      /\ \A i \in 1..Len(stream) : stream'[i] = stream[i]
      /\ stream'[Len(stream) + 1] = a
  <2>1. <<a>> \in Seq({a}) /\ Len(<<a>>) = 1 /\ <<a>>[1] = a
    OBVIOUS
  <2>2. QED  BY <2>1, GrowMeans
<1>2. \A i \in 1..Len(stream') : i \in 1..Len(stream) \/ i = Len(stream) + 1
  BY <1>1
<1>3. \A n \in Nodes, j \in 1..Len(stream) : TellsAt(n, j) => j \in 1..Len(stream') /\ TellsAt(n, j)'
  BY <1>1 DEF TellsAt, AtWork
<1>4. \A n \in Nodes, j \in 1..Len(stream') : TellsAt(n, j)' => j \in 1..Len(stream) /\ TellsAt(n, j)
  BY <1>1, <1>2 DEF TellsAt, AtWork
<1>5. \A n \in Nodes : \A i : Due(n, i) => Due(n, i)'
  BY <1>3 DEF Due
<1>6. a.topic # "devices" /\ a.topic # "groups"
  BY DEF Says
<1>7. \A i \in 0..Len(stream') : \A topic \in {"devices", "groups"} :
        Shows(i, topic)' => i \in 0..Len(stream) /\ Shows(i, topic) /\ Shown(i)' = Shown(i)
  BY <1>1, <1>2, <1>6 DEF Shows, Shown
<1>8. StateFirst'
  <2>1. ASSUME NEW n \in Nodes, NEW j \in 1..Len(stream'), TellsAt(n, j)', j > 1
        PROVE  stream'[j - 1].topic = ToBeSeen(n)'
    <3>1. j \in 1..Len(stream) /\ TellsAt(n, j) /\ j - 1 \in 1..Len(stream)
      BY <1>1, <1>4, <2>1
    <3>2. QED  BY <1>1, <2>1, <3>1 DEF StateFirst, ToBeSeen
  <2>2. QED  BY <2>1 DEF StateFirst
<1>9. BoundShown'
  BY <1>5, <1>7 DEF BoundShown, Unbinds
<1>10. MembersShown'
  BY <1>5, <1>7 DEF MembersShown, Members, Regroups, GroupOf
<1>11. DroppedEmpty'
  BY <1>7 DEF DroppedEmpty, SeenEmpty
<1>12. QED  BY <1>8, <1>9, <1>10, <1>11

(* A request is carried out, and somebody waits for it.                    *)
Carries(q, n) ==
  /\ q \in calls /\ n \in Nodes /\ AtWork(n) /\ work[n].no = q.no
  /\ Possible(q) /\ IsFor(q, work[n])
  /\ air' = Carried(air, q)
  /\ calls' = calls \ {q}
  /\ past' = [past EXCEPT !.carried = @ \cup {<<past.reloads, q.no>>}]
  /\ UNCHANGED <<copy, work, adapter, number>>

Published(q) ==
  stream' = stream \o Append(Republished(air', q), Answer(q, TRUE))

(* One more element, by index.                                             *)
LEMMA AppendMeans ==
  ASSUME NEW S, NEW s \in Seq(S), NEW e \in S
  PROVE  /\ Append(s, e) \in Seq(S) /\ Len(Append(s, e)) = Len(s) + 1
         /\ \A i \in 1..Len(s) : Append(s, e)[i] = s[i]
         /\ Append(s, e)[Len(s) + 1] = e
OBVIOUS

(* What is published of a request: a list or two, then the answer.         *)
LEMMA RepublishedMeans ==
  ASSUME NEW q, q.step \in Asking, NEW s
  PROVE  LET more == Append(Republished(s, q), Answer(q, TRUE)) IN
         /\ \E S : more \in Seq(S)
         /\ Len(more) \in {2, 3} /\ more[Len(more)] = Answer(q, TRUE)
         /\ \A k \in 1..Len(more) - 1 : more[k] \in {DeviceList(s), GroupList(s)}
         /\ more[Len(more) - 1] = IF q.step \in {"bind", "unbind", "drop"} THEN DeviceList(s)
                                  ELSE GroupList(s)
<1> DEFINE answer == Answer(q, TRUE)
           devices == DeviceList(s)
           groups == GroupList(s)
           lists == Republished(s, q)
           final == IF q.step \in {"bind", "unbind", "drop"} THEN devices ELSE groups
           all == {answer, devices, groups}
<1>1. lists = IF q.step \in {"bind", "unbind"} THEN <<devices>>
              ELSE IF q.step = "drop" THEN <<groups, devices>> ELSE <<groups>>
  BY DEF Republished, Asking
<1> HIDE DEF answer, devices, groups
<1>2. /\ lists \in Seq(all) /\ Len(lists) \in {1, 2} /\ lists[Len(lists)] = final
      /\ \A i \in 1..Len(lists) : lists[i] \in {devices, groups}
  <2> HIDE DEF lists
  <2>1. CASE lists = <<devices>> /\ final = devices
    BY <2>1
  <2>2. CASE lists = <<groups>> /\ final = groups
    BY <2>2
  <2>3. CASE lists = <<groups, devices>> /\ final = devices
    BY <2>3
  <2>4. QED  BY <1>1, <2>1, <2>2, <2>3
<1> DEFINE more == Append(lists, answer)
<1> HIDE DEF lists, final
<1>3. /\ more \in Seq(all) /\ Len(more) = Len(lists) + 1 /\ more[Len(lists) + 1] = answer
      /\ \A i \in 1..Len(lists) : more[i] = lists[i]
  BY <1>2, AppendMeans
<1> HIDE DEF all, more
<1>4. Len(more) \in {2, 3} /\ Len(more) - 1 = Len(lists) /\ Len(lists) \in 1..Len(lists)
  BY <1>2, <1>3
<1>5. /\ \E S : more \in Seq(S)
      /\ Len(more) \in {2, 3} /\ more[Len(more)] = answer
      /\ \A k \in 1..Len(more) - 1 : more[k] \in {devices, groups}
      /\ more[Len(more) - 1] = final
  BY <1>2, <1>3, <1>4
<1>6. QED  BY <1>5, Zenon DEF more, lists, answer, devices, groups, final

(* Until its answer is read, who waits makes up for what the copy misses.  *)
LEMMA ViewsAfterCarrying ==
  ASSUME NEW q, NEW n, Carries(q, n), Published(q), IsStream, Shaped(air), Numbered,
         StateFirst, BoundShown, MembersShown, DroppedEmpty,
         \A m \in Nodes : AtWork(m) => OwnLink(m, work[m]), Apart
  PROVE  StateFirst' /\ BoundShown' /\ MembersShown' /\ DroppedEmpty'
<1> DEFINE more == Append(Republished(air', q), Answer(q, TRUE))
           w == work[n]
<1>1. q.step \in Asking /\ q.step = w.step /\ n \in Nodes /\ AtWork(n) /\ w.no = q.no
  BY DEF Carries, IsFor, AtWork
<1>2. /\ \E S : more \in Seq(S)
      /\ Len(more) \in {2, 3} /\ more[Len(more)] = Answer(q, TRUE)
      /\ \A k \in 1..Len(more) - 1 : more[k] \in {DeviceList(air'), GroupList(air')}
      /\ more[Len(more) - 1] = IF q.step \in {"bind", "unbind", "drop"} THEN DeviceList(air')
                               ELSE GroupList(air')
  BY <1>1, RepublishedMeans
<1>3. stream' = stream \o more
  BY DEF Published
<1> HIDE DEF more
<1>4. /\ IsStream' /\ Len(stream) \in Nat /\ Len(more) \in Nat
      /\ Len(stream') = Len(stream) + Len(more)
      /\ \A i \in 1..Len(stream) : stream'[i] = stream[i]
      /\ \A k \in 1..Len(more) : stream'[Len(stream) + k] = more[k]
      /\ \A i \in 1..Len(stream') : i \in 1..Len(stream)
                                    \/ (i - Len(stream) \in 1..Len(more) /\ stream'[i] = more[i - Len(stream)])
  BY <1>2, <1>3, GrowMeans
<1>5. PICK last \in 1..Len(stream') :
        /\ last = Len(stream) + Len(more) /\ last > Len(stream) + 1
        /\ stream'[last] = Answer(q, TRUE) /\ stream'[last - 1].topic = ToBeSeen(n)
  <2> DEFINE k == Len(stream')
  <2>1. /\ k = Len(stream) + Len(more) /\ k > Len(stream) + 1 /\ k \in 1..Len(stream')
        /\ k - 1 = Len(stream) + (Len(more) - 1)
        /\ Len(more) \in 1..Len(more) /\ Len(more) - 1 \in 1..Len(more)
    <3>1. ASSUME NEW x \in Nat, NEW y \in {2, 3}
          PROVE  /\ x + y > x + 1 /\ x + y \in 1..(x + y) /\ (x + y) - 1 = x + (y - 1)
                 /\ y \in 1..y /\ y - 1 \in 1..y
      OBVIOUS
    <3>2. /\ Len(stream) \in Nat /\ Len(more) \in {2, 3}
          /\ k = Len(stream) + Len(more) /\ Len(stream') = k
      BY <1>2, <1>4
    <3> HIDE DEF k
    <3>3. QED  BY <3>1, <3>2
  <2>2. stream'[Len(stream) + Len(more)] = more[Len(more)]
    BY <1>4, <2>1
  <2>3. stream'[Len(stream) + (Len(more) - 1)] = more[Len(more) - 1]
    BY <1>4, <2>1
  <2>4. stream'[k] = Answer(q, TRUE) /\ stream'[k - 1] = more[Len(more) - 1]
    BY <1>2, <2>1, <2>2, <2>3
  <2>5. stream'[k - 1].topic = ToBeSeen(n)
    BY <1>1, <1>2, <2>4 DEF DeviceList, GroupList, ToBeSeen, Asking
  <2> HIDE DEF k
  <2>6. QED  BY <2>1, <2>4, <2>5
<1>6. UNCHANGED <<work, copy>>
  BY DEF Carries
<1>7. TellsAt(n, last)'
  BY <1>1, <1>5, <1>6 DEF TellsAt, AtWork, Answer, Says
<1>8. \A m \in Nodes, j \in 1..Len(stream) : TellsAt(m, j) => j \in 1..Len(stream') /\ TellsAt(m, j)'
  BY <1>2, <1>4, <1>6 DEF TellsAt, AtWork
<1>9. ASSUME NEW m \in Nodes, NEW j \in 1..Len(stream'), TellsAt(m, j)'
      PROVE  (j \in 1..Len(stream) /\ TellsAt(m, j)) \/ (j = last /\ m = n)
  <2>1. CASE j \in 1..Len(stream)
    BY <1>4, <1>6, <1>9, <2>1 DEF TellsAt, AtWork
  <2>2. CASE j - Len(stream) \in 1..Len(more) /\ stream'[j] = more[j - Len(stream)]
    <3>1. j - Len(stream) = Len(more)
      <4>1. SUFFICES ASSUME j - Len(stream) \in 1..Len(more) - 1  PROVE FALSE
        BY <1>4, <2>2
      <4>2. stream'[j] \in {DeviceList(air'), GroupList(air')}
        BY <1>2, <2>2, <4>1
      <4>3. QED  BY <1>9, <4>2 DEF TellsAt, Says, DeviceList, GroupList
    <3>2. j = last
      BY <1>4, <1>5, <3>1
    <3>3. work[m].no = q.no /\ AtWork(m)
      BY <1>5, <1>6, <1>9, <3>2 DEF TellsAt, AtWork, Answer
    <3>4. m = n
      BY <1>1, <3>3 DEF Numbered, WorkNumbered
    <3>5. QED  BY <3>2, <3>4
  <2>3. QED  BY <1>4, <2>1, <2>2
<1>10. \A m \in Nodes : \A i : Due(m, i) => Due(m, i)'
  BY <1>8 DEF Due
<1>11. \A i \in 0..Len(stream) : Due(n, i + 1)'
  <2>1. \A i \in 0..Len(stream) : last > i + 1
    BY <1>4, <1>5
  <2>2. QED  BY <1>5, <1>7, <2>1 DEF Due
<1>12. ASSUME NEW i \in 0..Len(stream')
       PROVE  \/ /\ i \in 0..Len(stream) /\ Shown(i)' = Shown(i)
                 /\ \A topic : Shows(i, topic)' => Shows(i, topic)
              \/ /\ i # 0 /\ Shown(i)' = stream'[i]
                 /\ Says(stream'[i]) \/ stream'[i] \in {DeviceList(air'), GroupList(air')}
  <2>1. CASE i = 0
    BY <1>4, <1>6, <2>1 DEF Shown, Shows
  <2>2. CASE i # 0 /\ i \in 1..Len(stream)
    BY <1>4, <1>6, <2>2 DEF Shown, Shows
  <2>3. CASE i # 0 /\ i - Len(stream) \in 1..Len(more) /\ stream'[i] = more[i - Len(stream)]
    <3>1. CASE i - Len(stream) = Len(more)
      BY <1>2, <2>3, <3>1 DEF Shown, Says, Answer
    <3>2. CASE i - Len(stream) \in 1..Len(more) - 1
      BY <1>2, <2>3, <3>2 DEF Shown
    <3>3. QED  BY <1>4, <2>3, <3>1, <3>2
  <2>4. i = 0 \/ i \in 1..Len(stream')
    BY <1>4
  <2>5. QED  BY <1>4, <2>1, <2>2, <2>3, <2>4
<1>13. /\ air'.bound = CASE q.step = "bind" -> air.bound \cup {<<q.who, q.to>>}
                         [] q.step = "unbind" -> air.bound \ {<<q.who, q.to>>}
                         [] q.step = "drop" -> {b \in air.bound : b[2] # q.who}
                         [] OTHER -> air.bound
       /\ \A g : Members(air', g) =
               IF g = q.who /\ q.step \in {"join", "leave", "drop"}
               THEN CASE q.step = "join" -> Members(air, g) \cup {q.to}
                      [] q.step = "leave" -> Members(air, g) \ {q.to}
                      [] OTHER -> {}
               ELSE Members(air, g)
  <2>1. air' = Carried(air, q) /\ Possible(q)
    BY DEF Carries
  <2>2. QED  BY <1>1, <2>1, CarriedMeans
<1>14. IsFor(q, w)
  BY DEF Carries
<1>15. StateFirst'
  <2>1. ASSUME NEW m \in Nodes, NEW j \in 1..Len(stream'), TellsAt(m, j)', j > 1
        PROVE  stream'[j - 1].topic = ToBeSeen(m)'
    <3>1. CASE j \in 1..Len(stream) /\ TellsAt(m, j)
      <4>1. j - 1 \in 1..Len(stream)
        BY <1>4, <2>1, <3>1
      <4>2. QED  BY <1>4, <1>6, <2>1, <3>1, <4>1 DEF StateFirst, ToBeSeen
    <3>2. CASE j = last /\ m = n
      BY <1>5, <1>6, <3>2 DEF ToBeSeen
    <3>3. QED  BY <1>9, <2>1, <3>1, <3>2
  <2>2. QED  BY <2>1 DEF StateFirst
<1>16. BoundShown'
  <2>1. ASSUME NEW i \in 0..Len(stream'), Shows(i, "devices")', NEW b \in Shown(i)'.bound
        PROVE  b \in air'.bound \/ \E m \in Nodes : Unbinds(m, b)' /\ Due(m, i + 1)'
    <3>1. CASE i \in 0..Len(stream) /\ Shown(i)' = Shown(i) /\ Shows(i, "devices")
      <4>1. b \in air.bound \/ \E m \in Nodes : Unbinds(m, b) /\ Due(m, i + 1)
        BY <2>1, <3>1 DEF BoundShown
      <4>2. b \in air.bound => b \in air'.bound \/ Unbinds(n, b)
        BY <1>1, <1>13, <1>14 DEF IsFor, Unbinds, Asking
      <4>3. \A m \in Nodes : Unbinds(m, b) => Unbinds(m, b)'
        BY <1>6 DEF Unbinds
      <4>4. QED  BY <1>1, <1>10, <1>11, <3>1, <4>1, <4>2, <4>3
    <3>2. CASE i # 0 /\ Shown(i)' = stream'[i]
               /\ (Says(stream'[i]) \/ stream'[i] \in {DeviceList(air'), GroupList(air')})
      <4>1. stream'[i] = DeviceList(air')
        BY <2>1, <3>2 DEF Shows, Says, GroupList
      <4>2. QED  BY <2>1, <3>2, <4>1 DEF DeviceList
    <3>3. QED  BY <1>12, <2>1, <3>1, <3>2
  <2>2. QED  BY <2>1 DEF BoundShown
<1>17. ASSUME NEW m \in Nodes, work[m].step = "drop"  PROVE Members(air', work[m].via) = {}
  <2>1. Members(air, work[m].via) = {} /\ work[m].via \in Managed /\ AtWork(m)
    BY <1>17 DEF DroppedEmpty, AtWork, Asking, OwnLink
  <2>2. ASSUME q.step = "join"  PROVE q.who # work[m].via
    <3>1. m # n /\ q.who = LinkGroup[w.link] /\ q.who \in Managed
      BY <1>1, <1>14, <1>17, <2>2 DEF IsFor, OwnLink
    <3>2. q.who \in InPlay(n)
      BY <3>1 DEF InPlay, Touches
    <3>3. work[m].via \in InPlay(m)
      BY DEF InPlay
    <3>4. InPlay(n) \cap InPlay(m) \cap Managed = {}
      BY <1>1, <2>1, <3>1 DEF Apart
    <3>5. QED  BY <3>1, <3>2, <3>3, <3>4
  <2>3. QED  BY <1>13, <2>1, <2>2
<1>18. MembersShown'
  <2>1. ASSUME NEW i \in 0..Len(stream'), Shows(i, "groups")', NEW g \in Managed
        PROVE  \/ Members(Shown(i)', g) = Members(air', g)
               \/ \E m \in Nodes : Regroups(m, g)' /\ Due(m, i + 1)'
    <3>1. CASE i \in 0..Len(stream) /\ Shown(i)' = Shown(i) /\ Shows(i, "groups")
      <4>1. \/ Members(Shown(i), g) = Members(air, g)
            \/ \E m \in Nodes : Regroups(m, g) /\ Due(m, i + 1)
        BY <3>1 DEF MembersShown
      <4>2. Members(air', g) = Members(air, g) \/ Regroups(n, g)
        <5>1. CASE q.step \in {"join", "leave"} /\ g = q.who
          BY <1>1, <1>14, <5>1 DEF IsFor, Regroups, GroupOf
        <5>2. CASE q.step = "drop" /\ g = q.who
          BY <1>1, <1>13, <1>14, <5>2 DEF IsFor, DroppedEmpty
        <5>3. CASE ~(g = q.who /\ q.step \in {"join", "leave", "drop"})
          BY <1>13, <5>3
        <5>4. QED  BY <5>1, <5>2, <5>3
      <4>3. \A m \in Nodes : Regroups(m, g) => Regroups(m, g)'
        BY <1>6 DEF Regroups, GroupOf
      <4>4. QED  BY <1>1, <1>10, <1>11, <3>1, <4>1, <4>2, <4>3
    <3>2. CASE i # 0 /\ Shown(i)' = stream'[i]
               /\ (Says(stream'[i]) \/ stream'[i] \in {DeviceList(air'), GroupList(air')})
      <4>1. stream'[i] = GroupList(air')
        BY <2>1, <3>2 DEF Shows, Says, DeviceList
      <4>2. QED  BY <3>2, <4>1 DEF GroupList, Members
    <3>3. QED  BY <1>12, <2>1, <3>1, <3>2
  <2>2. QED  BY <2>1 DEF MembersShown
<1>19. DroppedEmpty'
  <2>1. ASSUME NEW m \in Nodes, work[m].step = "drop", NEW i \in 0..Len(stream'), Shows(i, "groups")'
        PROVE  Members(Shown(i)', work[m].via) = {}
    <3>1. CASE i \in 0..Len(stream) /\ Shown(i)' = Shown(i) /\ Shows(i, "groups")
      BY <2>1, <3>1 DEF DroppedEmpty, SeenEmpty
    <3>2. CASE i # 0 /\ Shown(i)' = stream'[i]
               /\ (Says(stream'[i]) \/ stream'[i] \in {DeviceList(air'), GroupList(air')})
      <4>1. stream'[i] = GroupList(air')
        BY <2>1, <3>2 DEF Shows, Says, DeviceList
      <4>2. Members(Shown(i)', work[m].via) = Members(air', work[m].via)
        BY <3>2, <4>1 DEF GroupList, Members
      <4>3. QED  BY <1>17, <2>1, <4>2
    <3>3. QED  BY <1>12, <2>1, <3>1, <3>2
  <2>2. QED  BY <1>6, <1>17, <2>1 DEF DroppedEmpty, SeenEmpty
<1>20. QED  BY <1>15, <1>16, <1>18, <1>19

(* Two at work spare each other's links. *)
LEMMA OthersSpared ==
  ASSUME AtOwnLink, Apart, NEW n \in Nodes, NEW m \in Nodes, n # m, AtWork(n), AtWork(m)
  PROVE  Spares(work[n], work[m].link)
<1> DEFINE w == work[n]
           k == work[m].link
<1>1. /\ w.link \in ZLinks /\ ControlNode[LinkControl[w.link]] = n
      /\ w.step \in {"leave", "drop"} => w.via \in Managed
      /\ k \in ZLinks /\ ControlNode[LinkControl[k]] = m
  BY DEF AtOwnLink, OwnLink
<1>2. LinkControl[k] # LinkControl[w.link]
  BY <1>1
<1>3. \A g \in Managed : g = LinkTarget[k] \/ g \in Bound(air, LinkControl[k]) => g \in InPlay(m)
  BY DEF InPlay, Touches
<1>4. w.via \in InPlay(n)
  BY DEF InPlay
<1>5. InPlay(n) \cap InPlay(m) \cap Managed = {}
  BY DEF Apart
<1>6. QED  BY <1>1, <1>2, <1>3, <1>4, <1>5 DEF Spares

(* The network after a request that somebody waits for.                    *)
LEMMA AirAfter ==
  ASSUME NEW q, NEW n, Carries(q, n), Shaped(air)
  PROVE  /\ Shaped(air)'
         /\ air'.bound = CASE q.step = "bind" -> air.bound \cup {<<q.who, q.to>>}
                           [] q.step = "unbind" -> air.bound \ {<<q.who, q.to>>}
                           [] q.step = "drop" -> {b \in air.bound : b[2] # q.who}
                           [] OTHER -> air.bound
         /\ \A g : Members(air', g) =
                 IF g = q.who /\ q.step \in {"join", "leave", "drop"}
                 THEN CASE q.step = "join" -> Members(air, g) \cup {q.to}
                        [] q.step = "leave" -> Members(air, g) \ {q.to}
                        [] OTHER -> {}
                 ELSE Members(air, g)
         /\ q.step \in Asking /\ q.step = work[n].step
<1>1. q.step \in Asking /\ q.step = work[n].step /\ Possible(q) /\ air' = Carried(air, q)
  BY DEF Carries, IsFor, AtWork
<1>2. Shaped(air') <=> Shaped(air)'
  BY DEF Shaped
<1>3. QED  BY <1>1, <1>2, CarriedMeans

(* What is spared is still there. *)
LEMMA SparedIsPresent ==
  ASSUME NEW q, NEW n, Carries(q, n), Shaped(air), OwnLink(n, work[n]),
         work[n].step = "drop" => Members(air, work[n].via) = {},
         NEW k \in ZLinks, IsPresent(air, k), Spares(work[n], k)
  PROVE  IsPresent(air', k)
<1> DEFINE w == work[n]
           c == LinkControl[k]
           t == LinkTarget[k]
<1>1. /\ air'.bound = CASE q.step = "bind" -> air.bound \cup {<<q.who, q.to>>}
                        [] q.step = "unbind" -> air.bound \ {<<q.who, q.to>>}
                        [] q.step = "drop" -> {b \in air.bound : b[2] # q.who}
                        [] OTHER -> air.bound
      /\ \A g : Members(air', g) =
              IF g = q.who /\ q.step \in {"join", "leave", "drop"}
              THEN CASE q.step = "join" -> Members(air, g) \cup {q.to}
                     [] q.step = "leave" -> Members(air, g) \ {q.to}
                     [] OTHER -> {}
              ELSE Members(air, g)
      /\ q.step \in Asking /\ q.step = w.step
  BY AirAfter
<1>2. IsFor(q, w)
  BY DEF Carries
<1>3. CASE <<c, t>> \in air.bound
  <2>1. <<c, t>> \in air'.bound
    BY <1>1, <1>2, <1>3 DEF IsFor, Spares, Asking
  <2>2. QED  BY <2>1, PresentMeans
<1>4. ASSUME NEW g \in Managed, t \notin ZGroups, <<c, g>> \in air.bound, t \in Members(air, g)
      PROVE  IsPresent(air', k)
  <2>1. g \in ZGroups /\ g \in Ends /\ g \in Bound(air, c)
    BY <1>4 DEF ZGroups, Ends, Bound
  <2>2. <<c, g>> \in air'.bound
    <3>1. CASE q.step = "unbind"
      BY <1>1, <1>2, <1>4, <2>1, <3>1 DEF IsFor, Spares
    <3>2. CASE q.step = "drop"
      BY <1>1, <1>2, <1>4, <2>1, <3>2 DEF IsFor
    <3>3. CASE q.step \notin {"unbind", "drop"}
      BY <1>1, <1>4, <3>3 DEF Asking
    <3>4. QED  BY <3>1, <3>2, <3>3
  <2>3. t \in Members(air', g)
    <3>1. CASE q.step = "leave" /\ g = q.who
      BY <1>1, <1>2, <1>4, <2>1, <3>1 DEF IsFor, Spares
    <3>2. CASE q.step = "drop" /\ g = q.who
      BY <1>1, <1>2, <1>4, <3>2 DEF IsFor
    <3>3. CASE q.step = "join" /\ g = q.who
      BY <1>1, <1>4, <3>3
    <3>4. CASE ~(g = q.who /\ q.step \in {"join", "leave", "drop"})
      BY <1>1, <1>4, <3>4
    <3>5. QED  BY <3>1, <3>2, <3>3, <3>4
  <2>4. QED  BY <1>4, <2>2, <2>3, PresentMeans
<1>5. QED  BY <1>3, <1>4, PresentMeans

(* What is bound anew was in play. *)
LEMMA NewlyBound ==
  ASSUME NEW q, NEW n, Carries(q, n), Shaped(air), OwnLink(n, work[n]),
         NEW c, NEW g \in Managed, g \in Bound(air', c), g \notin Bound(air, c)
  PROVE  /\ work[n].step = "bind" /\ c = LinkControl[work[n].link] /\ g \in InPlay(n)
         /\ g \in {LinkTarget[work[n].link], LinkGroup[work[n].link]}
<1>1. /\ air'.bound = CASE q.step = "bind" -> air.bound \cup {<<q.who, q.to>>}
                        [] q.step = "unbind" -> air.bound \ {<<q.who, q.to>>}
                        [] q.step = "drop" -> {b \in air.bound : b[2] # q.who}
                        [] OTHER -> air.bound
      /\ q.step \in Asking /\ q.step = work[n].step
  BY AirAfter
<1>2. <<c, g>> \in air'.bound /\ <<c, g>> \notin air.bound
  BY DEF Bound
<1>3. q.step = "bind" /\ c = q.who /\ g = q.to
  BY <1>1, <1>2 DEF Asking
<1>4. IsFor(q, work[n])
  BY DEF Carries
<1>5. QED  BY <1>1, <1>3, <1>4 DEF IsFor, InPlay, Touches

(* What is asked for and promised, after a request is carried out.         *)
LEMMA CarryingKeeps ==
  ASSUME NEW q, NEW n, Carries(q, n), Shaped(air), Numbered, AtOwnLink, Asked, Apart, Adds, Kept,
         DroppedEmpty, past \in PastType
  PROVE  AtOwnLink' /\ Asked' /\ Apart' /\ Adds' /\ Kept'
<1> DEFINE w == work[n]
<1>1. n \in Nodes /\ AtWork(n) /\ OwnLink(n, w) /\ IsFor(q, w) /\ w.no = q.no /\ UNCHANGED work
      /\ q \in calls
  BY DEF Carries, AtOwnLink
<1>2. /\ air'.bound = CASE q.step = "bind" -> air.bound \cup {<<q.who, q.to>>}
                        [] q.step = "unbind" -> air.bound \ {<<q.who, q.to>>}
                        [] q.step = "drop" -> {b \in air.bound : b[2] # q.who}
                        [] OTHER -> air.bound
      /\ \A g : Members(air', g) =
              IF g = q.who /\ q.step \in {"join", "leave", "drop"}
              THEN CASE q.step = "join" -> Members(air, g) \cup {q.to}
                     [] q.step = "leave" -> Members(air, g) \ {q.to}
                     [] OTHER -> {}
              ELSE Members(air, g)
      /\ q.step \in Asking /\ q.step = w.step
  BY AirAfter
<1>3. /\ past'.carried = past.carried \cup {<<past.reloads, q.no>>}
      /\ past'.reloads = past.reloads /\ past'.promised = past.promised
  <2>1. past' = [past EXCEPT !.carried = @ \cup {<<past.reloads, q.no>>}]
    BY DEF Carries
  <2>2. QED  BY <2>1 DEF PastType
<1>4. w.step = "drop" => Members(air, w.via) = {}
  BY <1>1 DEF DroppedEmpty
<1>5. ASSUME NEW m \in Nodes, AtWork(m), m # n, NEW g \in Managed, g \in InPlay(n)
      PROVE  g \notin InPlay(m)
  BY <1>1, <1>5 DEF Apart
<1>6. AtOwnLink'
  BY <1>1 DEF AtOwnLink, OwnLink, AtWork
<1>7. ASSUME NEW m \in Nodes, AtWork(m), NEW g \in Managed, LinkGroup[work[m].link] = g,
             NEW t, t \in Members(air, g), m # n \/ w.step \in {"join", "create", "bind"}
      PROVE  t \in Members(air', g)
  <2>1. g \in InPlay(m)
    BY <1>7 DEF InPlay, Touches
  <2>2. CASE m # n /\ w.step \in {"leave", "drop"}
    <3>1. w.via \in InPlay(n) /\ w.via \in Managed /\ q.who = w.via
      BY <1>1, <2>2 DEF InPlay, OwnLink, IsFor
    <3>2. g # q.who
      BY <1>5, <1>7, <2>1, <2>2, <3>1
    <3>3. QED  BY <1>2, <1>7, <3>2
  <2>3. CASE w.step \notin {"leave", "drop"}
    BY <1>2, <1>7, <2>3
  <2>4. QED  BY <1>7, <2>2, <2>3
<1>8. Asked'
  <2>1. ASSUME NEW m \in Nodes, NEW c \in calls', AtWork(m), c.no = work[m].no
        PROVE  IsFor(c, work[m])'
    <3>1. c \in calls /\ c # q /\ IsFor(c, work[m])
      BY <2>1 DEF Carries, Asked
    <3>2. m # n
      BY <1>1, <2>1, <3>1 DEF Numbered, CallsNumbered
    <3>3. c.step = "bind" /\ c.to = LinkGroup[work[m].link] /\ c.to \in Managed
            /\ LinkTarget[work[m].link] \in Members(air, c.to)
          => LinkTarget[work[m].link] \in Members(air', c.to)
      BY <1>7, <2>1, <3>2
    <3>4. QED  BY <1>1, <3>1, <3>3 DEF IsFor
  <2>2. QED  BY <1>1, <2>1 DEF Asked, AtWork
<1>9. ASSUME NEW m \in Nodes, AtWork(m), NEW g \in Managed, g \in InPlay(m)'
      PROVE  g \in InPlay(m)
  <2>1. OwnLink(m, work[m])
    BY <1>9 DEF AtOwnLink
  <2>2. CASE g \in Bound(air', LinkControl[work[m].link]) /\ g \notin Bound(air, LinkControl[work[m].link])
    <3>1. LinkControl[work[m].link] = LinkControl[w.link] /\ g \in InPlay(n)
      BY <1>1, <2>2, NewlyBound
    <3>2. m = n
      BY <1>1, <2>1, <3>1 DEF OwnLink
    <3>3. QED  BY <3>1, <3>2
  <2>3. CASE ~(g \in Bound(air', LinkControl[work[m].link]) /\ g \notin Bound(air, LinkControl[work[m].link]))
    BY <1>1, <1>9, <2>3 DEF InPlay, Touches, Bound
  <2>4. QED  BY <2>2, <2>3
<1>10. Apart'
  BY <1>1, <1>9 DEF Apart, AtWork
<1>11. Adds'
  <2>1. ASSUME NEW m \in Nodes, Done(m)', work[m].step = "join"
        PROVE  LinkTarget[work[m].link] \in Members(air', LinkGroup[work[m].link])
    <3>1. CASE m = n
      BY <1>1, <1>2, <2>1, <3>1 DEF IsFor
    <3>2. CASE m # n
      <4>1. AtWork(m) /\ LinkGroup[work[m].link] \in Managed
        BY <2>1 DEF AtWork, Asking, AtOwnLink, OwnLink
      <4>2. work[m].no # q.no
        BY <1>1, <3>2, <4>1 DEF Numbered, WorkNumbered
      <4>3. Done(m)
        BY <1>1, <1>3, <2>1, <4>2 DEF Done
      <4>4. QED  BY <1>7, <2>1, <3>2, <4>1, <4>3 DEF Adds
    <3>3. QED  BY <3>1, <3>2
  <2>2. ASSUME NEW m \in Nodes, Done(m)', work[m].step = "bind"
        PROVE  IsPresent(air', work[m].link)
    <3>1. AtWork(m) /\ work[m].link \in ZLinks
      BY <2>2 DEF AtWork, Asking, AtOwnLink, OwnLink
    <3>2. CASE m = n
      <4>1. air'.bound = air.bound \cup {<<LinkControl[w.link], q.to>>}
            /\ \A g : Members(air', g) = Members(air, g)
        BY <1>1, <1>2, <2>2, <3>2 DEF IsFor
      <4>2. CASE q.to = LinkTarget[w.link]
        BY <3>1, <3>2, <4>1, <4>2, PresentMeans
      <4>3. CASE q.to # LinkTarget[w.link]
        <5>1. q.to \in Managed /\ LinkTarget[w.link] \notin ZGroups
              /\ LinkTarget[w.link] \in Members(air, q.to)
          BY <1>1, <2>2, <3>2, <4>3 DEF IsFor
        <5>2. QED  BY <3>1, <3>2, <4>1, <5>1, PresentMeans
      <4>4. QED  BY <4>2, <4>3
    <3>3. CASE m # n
      <4>1. work[m].no # q.no
        BY <1>1, <3>1, <3>3 DEF Numbered, WorkNumbered
      <4>2. IsPresent(air, work[m].link)
        BY <1>1, <1>3, <2>2, <4>1 DEF Done, Adds
      <4>3. Spares(w, work[m].link)
        BY <1>1, <3>1, <3>3, OthersSpared
      <4>4. QED  BY <1>1, <1>4, <3>1, <4>2, <4>3, SparedIsPresent
    <3>4. QED  BY <3>2, <3>3
  <2>3. QED  BY <1>1, <2>1, <2>2 DEF Adds
<1>12. Kept'
  <2>1. ASSUME NEW k \in past.promised
        PROVE  k \in ZLinks /\ IsPresent(air', k) /\ \A m \in Nodes : Spares(work[m], k)'
    <3>1. k \in ZLinks /\ IsPresent(air, k) /\ \A m \in Nodes : Spares(work[m], k)
      BY <2>1 DEF Kept, Safe
    <3>2. IsPresent(air', k)
      BY <1>1, <1>4, <3>1, SparedIsPresent
    <3>3. ASSUME NEW m \in Nodes  PROVE Spares(work[m], k)'
      <4>1. ASSUME work[m].step = "leave", work[m].via \in Bound(air', LinkControl[k]),
                   work[m].via \notin Bound(air, LinkControl[k])
            PROVE  FALSE
        <5>1. AtWork(m) /\ work[m].via \in Managed
          BY <4>1 DEF AtWork, Asking, AtOwnLink, OwnLink
        <5>2. work[m].via \in InPlay(n) /\ w.step = "bind"
          BY <1>1, <4>1, <5>1, NewlyBound
        <5>3. m # n /\ work[m].via \in InPlay(m)
          BY <4>1, <5>2 DEF InPlay
        <5>4. QED  BY <1>5, <5>1, <5>2, <5>3
      <4>2. Spares(work[m], k)
        BY <3>1
      <4>3. QED  BY <1>1, <4>1, <4>2 DEF Spares, Bound
    <3>4. QED  BY <3>1, <3>2, <3>3
  <2>2. QED  BY <1>1, <1>3, <2>1 DEF Kept, Safe, Spares
<1>13. QED  BY <1>6, <1>8, <1>10, <1>11, <1>12

(* Nobody asks for anything: what is true stays true. *)
LEMMA RestingKeeps ==
  ASSUME Tidy, IsStream, MayPop, calls' \subseteq calls, number' = number, air' = air,
         past'.carried = past.carried, past'.reloads = past.reloads,
         \A n \in Nodes : Rests(n),
         \A k \in past'.promised :
           \/ k \in past.promised
           \/ /\ k \in ZLinks /\ IsPresent(air, k)
              /\ \A n \in Nodes : AtWork(n) /\ work'[n] = work[n] => Spares(work[n], k)
  PROVE  Tidy'
<1>1. Numbered'
  BY CallsKeep, AnswersKeep, WorkKeeps DEF Tidy, Numbered
<1>2. \A n \in Nodes : AtWork(n)' => AtWork(n) /\ work'[n] = work[n]
  BY DEF Rests, AtWork
<1>3. AtOwnLink'
  BY <1>2 DEF Tidy, AtOwnLink, OwnLink
<1>4. Asked'
  <2>1. ASSUME NEW n \in Nodes, NEW q \in calls', AtWork(n)', q.no = work'[n].no
        PROVE  IsFor(q, work[n])' /\ work'[n] = work[n]
    BY <1>2, <2>1 DEF Tidy, Asked, IsFor
  <2>2. QED  BY <2>1 DEF Asked, IsFor
<1>5. Apart'
  BY <1>2 DEF Tidy, Apart, InPlay, Touches
<1>6. Adds'
  <2>1. ASSUME NEW n \in Nodes, Done(n)', work'[n].step \in {"join", "bind"}
        PROVE  work'[n] = work[n] /\ Done(n)
    BY <2>1 DEF Rests, Asking, Done
  <2>2. ASSUME NEW n \in Nodes, Done(n)'
        PROVE  /\ work'[n].step = "join" =>
                    LinkTarget[work'[n].link] \in Members(air, LinkGroup[work'[n].link])
               /\ work'[n].step = "bind" => IsPresent(air, work'[n].link)
    BY <2>1, <2>2 DEF Tidy, Adds
  <2>3. QED  BY <2>2 DEF Adds
<1>7. Kept'
  <2>1. ASSUME NEW k \in past'.promised
        PROVE  k \in ZLinks /\ IsPresent(air, k) /\ \A n \in Nodes : Spares(work'[n], k)
    <3>1. k \in ZLinks /\ IsPresent(air, k)
          /\ \A n \in Nodes : AtWork(n) /\ work'[n] = work[n] => Spares(work[n], k)
      BY <2>1 DEF Tidy, Kept, Safe
    <3>2. ASSUME NEW n \in Nodes  PROVE Spares(work'[n], k)
      <4>1. CASE work'[n].step \in Asking
        BY <1>2, <3>1, <4>1 DEF AtWork
      <4>2. CASE work'[n].step \notin Asking
        BY <4>2 DEF Spares, Asking
      <4>3. QED  BY <4>1, <4>2
    <3>3. QED  BY <3>1, <3>2
  <2>2. ASSUME NEW k \in past'.promised  PROVE IsPresent(air, k)' /\ \A m \in Nodes : Spares(work[m], k)'
    <3>1. IsPresent(air, k)'
      BY <2>1
    <3>2. ASSUME NEW m \in Nodes  PROVE Spares(work[m], k)'
      <4>1. Spares(work'[m], k)
        BY <2>1
      <4>2. QED  BY <4>1 DEF Spares, Bound
    <3>3. QED  BY <3>1, <3>2
  <2>3. QED  BY <2>1, <2>2 DEF Kept, Safe
<1>8. QED  BY <1>1, <1>3, <1>4, <1>5, <1>6, <1>7 DEF Tidy

(* A coroutine asks for what spares the promises, with a number of its own. *)
LEMMA AskingKeeps ==
  ASSUME Tidy, ZigbeeInv, IsStream, MayPop, NEW n \in Nodes, NEW w, NEW q,
         q.no = number + 1, calls' = calls \cup {q}, number' = number + 1, air' = air,
         past'.carried = past.carried, past'.reloads = past.reloads,
         \A m \in Nodes : m # n => work'[m] = work[m],
         work'[n] = w, w.step \in Asking, w.no = number + 1, OwnLink(n, w), IsFor(q, w),
         \A m \in Nodes, g \in Managed :
           m # n /\ AtWork(m) /\ g \in Touches(w.link) \cup {w.via} => g \notin InPlay(m),
         \A k \in past'.promised : k \in past.promised /\ Spares(w, k)
  PROVE  Tidy' /\ Quiet(n)'
<1>1. /\ number \in Nat /\ past.carried \subseteq Numbers
      /\ \A c \in calls : c.no \in Nat
  BY DEF ZigbeeInv, WorkTyped, PastType, WorkType
<1>2. Numbered' /\ <<past.reloads, number + 1>> \notin past.carried
  <2>1. \A m \in Nodes : work[m].no \in Nat
    BY DEF ZigbeeInv, WorkTyped, WorkType
  <2>2. QED  BY <1>1, <2>1, AskNumbers DEF Tidy
<1>3. AtOwnLink'
  BY DEF Tidy, AtOwnLink, OwnLink, AtWork
<1>4. Asked'
  <2>1. ASSUME NEW m \in Nodes, NEW c \in calls', AtWork(m)', c.no = work'[m].no
        PROVE  IsFor(c, work'[m])
    <3>1. CASE m = n
      <4>1. ASSUME NEW d \in calls  PROVE d.no # number + 1
        <5>1. d.no \in Nat /\ d.no <= number
          BY <1>1 DEF Tidy, Numbered, CallsNumbered
        <5>2. QED  BY <1>1, <5>1
      <4>2. c = q
        BY <2>1, <3>1, <4>1
      <4>3. QED  BY <3>1, <4>2
    <3>2. CASE m # n
      <4>1. AtWork(m) /\ work'[m] = work[m] /\ work[m].no # number + 1
        BY <1>1, <2>1, <3>2 DEF AtWork, Tidy, Numbered, WorkNumbered
      <4>2. c \in calls
        BY <2>1, <4>1
      <4>3. QED  BY <2>1, <4>1, <4>2 DEF Tidy, Asked
    <3>3. QED  BY <3>1, <3>2
  <2>2. QED  BY <2>1 DEF Asked, IsFor
<1>5. Apart'
  <2>1. ASSUME NEW m \in Nodes, NEW o \in Nodes, AtWork(m)', AtWork(o)', m # o,
               NEW g \in Managed, g \in InPlay(m)', g \in InPlay(o)'
        PROVE  FALSE
    <3>1. InPlay(n)' = Touches(w.link) \cup {w.via}
      BY DEF InPlay, Touches, Bound
    <3>2. \A p \in Nodes : p # n => InPlay(p)' = InPlay(p) /\ (AtWork(p)' <=> AtWork(p))
      BY DEF InPlay, Touches, Bound, AtWork
    <3>3. CASE m = n
      BY <2>1, <3>1, <3>2, <3>3
    <3>4. CASE o = n
      BY <2>1, <3>1, <3>2, <3>4
    <3>5. CASE m # n /\ o # n
      BY <2>1, <3>2, <3>5 DEF Tidy, Apart
    <3>6. QED  BY <3>3, <3>4, <3>5
  <2>2. QED  BY <2>1 DEF Apart
<1>6. Adds'
  <2>1. ~Done(n)'
    BY <1>2 DEF Done
  <2>2. ASSUME NEW m \in Nodes, Done(m)'
        PROVE  /\ work'[m].step = "join" =>
                    LinkTarget[work'[m].link] \in Members(air, LinkGroup[work'[m].link])
               /\ work'[m].step = "bind" => IsPresent(air, work'[m].link)
    BY <2>1, <2>2 DEF Tidy, Adds, Done
  <2>3. QED  BY <2>2 DEF Adds
<1>7. Kept'
  <2>1. ASSUME NEW k \in past'.promised
        PROVE  k \in ZLinks /\ IsPresent(air, k) /\ \A m \in Nodes : Spares(work'[m], k)
    BY <2>1 DEF Tidy, Kept, Safe
  <2>2. ASSUME NEW k \in past'.promised  PROVE IsPresent(air, k)' /\ \A m \in Nodes : Spares(work[m], k)'
    <3>1. IsPresent(air, k)'
      BY <2>1
    <3>2. ASSUME NEW m \in Nodes  PROVE Spares(work[m], k)'
      <4>1. Spares(work'[m], k)
        BY <2>1
      <4>2. QED  BY <4>1 DEF Spares, Bound
    <3>3. QED  BY <3>1, <3>2
  <2>3. QED  BY <2>1, <2>2 DEF Kept, Safe
<1>8. Quiet(n)'
  <2>1. ASSUME NEW j \in 1..Len(stream'), Says(stream'[j])  PROVE stream'[j].no # number + 1
    <3>1. CASE stream' = stream
      BY <1>1, <2>1, <3>1 DEF Tidy, Numbered, AnswersNumbered
    <3>2. CASE Popped
      <4>1. j + 1 \in 1..Len(stream) /\ stream'[j] = stream[j + 1]
        BY <3>2, PopMeans
      <4>2. QED  BY <1>1, <2>1, <4>1 DEF Tidy, Numbered, AnswersNumbered
    <3>3. QED  BY <3>1, <3>2 DEF MayPop
  <2>2. QED  BY <2>1 DEF Quiet, TellsAt, Says
<1>9. QED  BY <1>2, <1>3, <1>4, <1>5, <1>6, <1>7, <1>8 DEF Tidy

(* Who is at work of an adapter: nobody but of one that is up.             *)
LEMMA AtWorkUp == ASSUME ZigbeeInv, Starting, Shapes, NEW n \in Nodes, AtWork(n)
                  PROVE adapter = "up"
BY DEF ZigbeeInv, DownIsQuiet, Starting, AtWork, Shapes

(* The types, as the steps below use them.                                 *)
LEMMA TypesAtHand ==
  ASSUME ZigbeeInv
  PROVE  /\ past \in PastType /\ work \in [Nodes -> WorkType] /\ number \in Nat
         /\ Clear => IsStream
         /\ OneMore.carried = past.carried /\ OneMore.reloads = past.reloads
         /\ OneMore.promised = past.promised /\ OneMore.strayed = past.strayed
         /\ OneMore.crowded = past.crowded /\ OneMore.reused = past.reused
<1>1. past \in PastType /\ work \in [Nodes -> WorkType] /\ number \in Nat
  BY DEF ZigbeeInv, WorkTyped
<1>2. Clear => IsStream
  BY DEF Clear, ZigbeeInv, TrueStream, IsStream
<1>3. QED  BY <1>1, <1>2 DEF OneMore, PastType

(* A step in which nobody asks for anything and nothing is delivered.      *)
LEMMA RestStep ==
  ASSUME ZigbeeInv, Sound, Clear, UNCHANGED <<air, copy, adapter, number, stream>>, calls' \subseteq calls,
         past'.carried = past.carried, past'.reloads = past.reloads,
         \A n \in Nodes : Rests(n) /\ (work'[n] = work[n] \/ Quiet(n)),
         \A k \in past'.promised :
           \/ k \in past.promised
           \/ /\ k \in ZLinks /\ IsPresent(air, k)
              /\ \A n \in Nodes : AtWork(n) /\ work'[n] = work[n] => Spares(work[n], k)
  PROVE  Sound'
<1>1. Tidy'
  BY RestingKeeps, TypesAtHand DEF Sound, MayPop
<1>2. Shapes'
  BY DEF Sound, Shapes, Shaped
<1>3. Starting'
  BY DEF Sound, Starting, Rests, AtWork
<1>4. Near'
  <2>1. SUFFICES ASSUME adapter = "up"
                 PROVE  StateFirst' /\ BoundShown' /\ MembersShown' /\ DroppedEmpty'
    BY DEF Near
  <2>2. StateFirst /\ BoundShown /\ MembersShown /\ DroppedEmpty
    BY <2>1 DEF Sound, Near
  <2>3. \A n \in Nodes : work'[n] = work[n] \/ (Quiet(n) /\ Quiet(n)')
    BY DEF Rests, Quiet, TellsAt, AtWork
  <2>4. StateFirst' /\ BoundShown' /\ MembersShown'
    BY <2>2, <2>3, ViewsStay
  <2>5. DroppedEmpty'
    BY <2>2 DEF DroppedEmpty, SeenEmpty, Shows, Shown, Rests, Asking
  <2>6. QED  BY <2>4, <2>5
<1>5. QED  BY <1>1, <1>2, <1>3, <1>4 DEF Sound

(* Who is not at work is told nothing.                                     *)
LEMMA NotAtWorkIsQuiet == ASSUME NEW n, ~AtWork(n) PROVE Quiet(n)
BY DEF Quiet, TellsAt

(* Reading back concerns nobody who is at work. *)
LEMMA ReadingKeepsPromises ==
  ASSUME ZigbeeInv, PromiseInv, OnState \/ \E n \in Nodes : ReadBack(n) \/ ReadTimesOut(n)
  PROVE  PromiseInv'
<1>1. UNCHANGED <<air, copy, adapter, number, stream, calls, stateFirst>>
  BY DEF OnState, ReadBack, ReadTimesOut
<1>2. past' \in {past, OneMore}
  BY DEF OnState, ReadBack, ReadTimesOut
<1>3. /\ past'.carried = past.carried /\ past'.reloads = past.reloads
      /\ past'.promised = past.promised /\ (Clear' => Clear)
  BY <1>1, <1>2, TypesAtHand DEF Clear
<1>4. ASSUME Clear  PROVE \A n \in Nodes : Rests(n) /\ (work'[n] = work[n] \/ Quiet(n))
  <2>1. WorkNumbered /\ work \in [Nodes -> WorkType]
    BY <1>4, TypesAtHand DEF PromiseInv, Sound, Tidy, Numbered
  <2>2. CASE OnState
    BY <2>2 DEF OnState, Rests
  <2>3. ASSUME NEW n \in Nodes, work[n].step \in {"done", "reading"}, NEW new,
               work' = [work EXCEPT ![n] = new], new.step \notin Asking, new.no = work[n].no
        PROVE  \A m \in Nodes : Rests(m) /\ (work'[m] = work[m] \/ Quiet(m))
    <3>1. work[n].no = 0 /\ ~AtWork(n)
      BY <2>1, <2>3 DEF WorkNumbered, AtWork, Asking
    <3>2. \A m \in Nodes : work'[m] = IF m = n THEN new ELSE work[m]
      BY <2>1, <2>3
    <3>3. QED  BY <2>3, <3>1, <3>2, NotAtWorkIsQuiet DEF Rests
  <2>4. ASSUME NEW n \in Nodes, ReadBack(n) \/ ReadTimesOut(n)
        PROVE  /\ work[n].step \in {"done", "reading"}
               /\ \E new : /\ work' = [work EXCEPT ![n] = new]
                           /\ new.step \notin Asking /\ new.no = work[n].no
    <3> DEFINE waits == [work[n] EXCEPT !.step = "reading"]
               shown == [work[n] EXCEPT !.step = "read", !.verified = online]
               given == [work[n] EXCEPT !.step = "read"]
    <3>1. work[n] \in WorkType
      BY <2>1
    <3>2. \A new \in {waits, shown, given} : new.step \notin Asking /\ new.no = work[n].no
      BY <3>1 DEF WorkType, Asking
    <3>3. \E new \in {waits, shown, given} : work' = [work EXCEPT ![n] = new]
      BY <2>4 DEF ReadBack, ReadTimesOut
    <3>4. work[n].step \in {"done", "reading"}
      BY <2>4 DEF ReadBack, ReadTimesOut
    <3> HIDE DEF waits, shown, given
    <3>5. QED  BY <3>2, <3>3, <3>4
  <2>5. QED  BY <2>2, <2>3, <2>4
<1>5. Clear => Sound'
  BY <1>1, <1>3, <1>4, RestStep DEF PromiseInv, Sound
<1>6. QED  BY <1>3, <1>5 DEF PromiseInv, Sound

(* Who gives up is not told of success any more, or past.strayed says so. *)
LEMMA NoAnswerKeepsPromises ==
  ASSUME ZigbeeInv, PromiseInv, NEW n \in Nodes, NoAnswer(n)  PROVE PromiseInv'
<1> DEFINE result == IF work[n].step \in {"bind", "unbind"} /\ n \in Asleep THEN "wakeup" ELSE "failed"
           new == [work[n] EXCEPT !.step = "done", !.no = 0, !.result = result]
           late == past.strayed \/ <<past.reloads, work[n].no>> \in past.carried
<1>1. /\ UNCHANGED <<air, copy, adapter, number, stream, stateFirst>> /\ calls' \subseteq calls
      /\ work' = [work EXCEPT ![n] = new]
  BY DEF NoAnswer
<1>2. past \in PastType /\ work \in [Nodes -> WorkType]
  BY TypesAtHand
<1>3. new.step = "done" /\ new.no = 0
  BY <1>2 DEF WorkType
<1>4. /\ past'.carried = past.carried /\ past'.reloads = past.reloads /\ past'.promised = past.promised
      /\ past'.strayed = late /\ past'.crowded = past.crowded /\ past'.reused = past.reused
  <2>1. past' = [past EXCEPT !.trouble = @ + 1, !.together = @ \cup {n}, !.strayed = late]
    BY <1>2 DEF NoAnswer, OneMore, PastType
  <2> HIDE DEF late
  <2>2. QED  BY <1>2, <2>1 DEF PastType
<1>5. SUFFICES ASSUME Clear'  PROVE Sound'
  BY DEF PromiseInv, Sound
<1>6. Clear /\ <<past.reloads, work[n].no>> \notin past.carried
  BY <1>1, <1>4, <1>5 DEF Clear
<1>7. Quiet(n)
  <2>1. PICK messages : stream \in Seq(messages) /\ True(messages)
    BY <1>6 DEF Clear, ZigbeeInv, TrueStream
  <2>2. \A j \in 1..Len(stream) : stream[j] \in messages
    BY <2>1
  <2>3. QED  BY <1>6, <2>1, <2>2 DEF Quiet, TellsAt, Says, True
<1> HIDE DEF new
<1>8. \A m \in Nodes : Rests(m) /\ (work'[m] = work[m] \/ Quiet(m))
  <2>1. \A m \in Nodes : work'[m] = IF m = n THEN new ELSE work[m]
    BY <1>1, <1>2
  <2>2. QED  BY <1>3, <1>7, <2>1 DEF Rests, Asking
<1>9. QED  BY <1>1, <1>4, <1>6, <1>8, RestStep DEF PromiseInv, Sound

(* A refusal. *)
LEMMA RefusalKeepsPromises ==
  ASSUME ZigbeeInv, PromiseInv, NEW q \in calls, BridgeRefuses(q)  PROVE PromiseInv'
<1>1. /\ UNCHANGED <<air, copy, adapter, number, work, stateFirst>> /\ calls' = calls \ {q}
      /\ past' = OneMore /\ stream' = Streamed(<<Answer(q, FALSE)>>)
  BY DEF BridgeRefuses
<1>2. /\ past'.carried = past.carried /\ past'.reloads = past.reloads
      /\ past'.promised = past.promised /\ (Clear' => Clear)
  BY <1>1, TypesAtHand DEF Clear
<1>3. SUFFICES ASSUME Clear'  PROVE Sound'
  BY DEF PromiseInv, Sound
<1>4. Sound /\ IsStream /\ Clear /\ calls # {} /\ past \in PastType
  BY <1>2, <1>3, TypesAtHand DEF PromiseInv, Sound
<1>5. CASE adapter = "down"
  <2>1. stream' = stream
    BY <1>1, <1>5 DEF Streamed
  <2>2. \A n \in Nodes : Rests(n) /\ (work'[n] = work[n] \/ Quiet(n))
    BY <1>1 DEF Rests
  <2>3. QED  BY <1>1, <1>2, <1>4, <2>1, <2>2, RestStep
<1>6. CASE adapter = "up"
  <2> DEFINE a == Answer(q, FALSE)
  <2>1. stream' = stream \o <<a>>
    BY <1>1, <1>6 DEF Streamed
  <2>2. Says(a) /\ ~a.ok /\ a.no = q.no
    BY DEF Answer, Says
  <2> HIDE DEF a
  <2>3. Numbered'
    <3>1. <<a>> \in Seq({a}) /\ Len(<<a>>) = 1 /\ <<a>>[1] = a
      OBVIOUS
    <3>2. q.no \in Nat /\ past.reloads \in Nat
      BY <1>4 DEF ZigbeeInv, WorkTyped, PastType
    <3>3. \A k \in 1..Len(<<a>>) : k = Len(<<a>>) /\ <<a>>[k].no = q.no
      BY <2>2, <3>1
    <3>4. QED  BY <1>1, <1>2, <1>4, <2>1, <3>1, <3>2, <3>3, AnsweredNumbers DEF Sound, Tidy
  <2>4. Tidy'
    BY <1>1, <1>2, <1>4, <2>3
    DEF Sound, Tidy, AtOwnLink, OwnLink, Asked, IsFor, Apart, InPlay, Touches, Adds, Done, Kept, Safe,
        Spares, AtWork
  <2>5. StateFirst' /\ BoundShown' /\ MembersShown' /\ DroppedEmpty'
    BY <1>1, <1>4, <1>6, <2>1, <2>2, ViewsAfterRefusal DEF Sound, Near
  <2>6. Shapes' /\ Starting'
    BY <1>1, <1>4, <1>6 DEF Sound, Shapes, Shaped, Starting
  <2>7. QED  BY <2>4, <2>5, <2>6 DEF Sound, Near
<1>7. adapter # "starting"
  BY <1>4 DEF Sound, Starting
<1>8. QED  BY <1>4, <1>5, <1>6, <1>7 DEF Sound, Shapes

(* A request is carried out for who waits, or past.strayed says so. *)
LEMMA CarryingKeepsPromises ==
  ASSUME ZigbeeInv, PromiseInv, NEW q \in calls, BridgeCarries(q)  PROVE PromiseInv'
<1> DEFINE awaited == q.epoch = past.reloads /\ Awaiting(q.no) # {}
           late == past.strayed \/ ~awaited
<1>1. /\ UNCHANGED <<copy, adapter, number, work, stateFirst>> /\ calls' = calls \ {q}
      /\ air' = Carried(air, q) /\ Possible(q)
      /\ stateFirst => stream' = Streamed(Append(Republished(air', q), Answer(q, TRUE)))
  BY DEF BridgeCarries
<1>2. past \in PastType /\ work \in [Nodes -> WorkType] /\ q.no \in Nat
  BY TypesAtHand DEF ZigbeeInv, WorkTyped
<1>3. past' = [past EXCEPT !.carried = @ \cup {<<q.epoch, q.no>>}, !.strayed = late]
  BY <1>2 DEF BridgeCarries, PastType
<1>4. /\ past'.strayed = late /\ past'.crowded = past.crowded /\ past'.reused = past.reused
      /\ past'.carried = past.carried \cup {<<q.epoch, q.no>>} /\ past'.reloads = past.reloads
  <2> HIDE DEF late
  <2>1. QED  BY <1>2, <1>3 DEF PastType
<1>5. SUFFICES ASSUME Clear'  PROVE Sound'
  BY DEF PromiseInv, Sound
<1>6. Clear /\ awaited
  BY <1>1, <1>4, <1>5 DEF Clear
<1>7. Sound /\ IsStream /\ stateFirst
  BY <1>6, TypesAtHand DEF PromiseInv, Sound, Clear
<1>8. PICK n \in Nodes : Busy(n) /\ work[n].no = q.no
  BY <1>6 DEF Awaiting
<1>9. AtWork(n)
  <2>1. 1 <= q.no
    BY <1>7 DEF Sound, Tidy, Numbered, CallsNumbered
  <2>2. QED  BY <1>2, <1>7, <1>8, <2>1 DEF Sound, Tidy, Numbered, WorkNumbered
<1>10. adapter = "up"
  BY <1>7, <1>9, AtWorkUp DEF Sound
<1>11. Carries(q, n)
  <2>1. past' = [past EXCEPT !.carried = @ \cup {<<past.reloads, q.no>>}]
    <3>1. q.epoch = past.reloads /\ past.strayed = FALSE
      BY <1>6, <1>7, <1>2 DEF Clear, PastType
    <3>2. late = past.strayed
      BY <1>6, <3>1
    <3> HIDE DEF late
    <3>3. QED  BY <1>2, <1>3, <3>1, <3>2 DEF PastType
  <2>2. IsFor(q, work[n])
    BY <1>7, <1>8, <1>9 DEF Sound, Tidy, Asked
  <2>3. QED  BY <1>1, <1>8, <1>9, <2>1, <2>2 DEF Carries
<1>12. Published(q)
  BY <1>1, <1>7, <1>10 DEF Streamed, Published
<1>13. StateFirst /\ BoundShown /\ MembersShown /\ DroppedEmpty
  BY <1>7, <1>10 DEF Sound, Near
<1>14. AtOwnLink' /\ Asked' /\ Apart' /\ Adds' /\ Kept'
  BY <1>2, <1>7, <1>11, <1>13, CarryingKeeps DEF Sound, Tidy, Shapes
<1>15. StateFirst' /\ BoundShown' /\ MembersShown' /\ DroppedEmpty'
  BY <1>7, <1>11, <1>12, <1>13, ViewsAfterCarrying DEF Sound, Tidy, Shapes, AtOwnLink
<1>16. Numbered'
  <2> DEFINE more == Append(Republished(air', q), Answer(q, TRUE))
  <2>1. q.step \in Asking
    BY <1>9, <1>11 DEF Carries, IsFor, AtWork
  <2>2. /\ \E S : more \in Seq(S)
        /\ Len(more) \in {2, 3} /\ more[Len(more)] = Answer(q, TRUE)
        /\ \A k \in 1..Len(more) - 1 : more[k] \in {DeviceList(air'), GroupList(air')}
    BY <2>1, RepublishedMeans
  <2>3. stream' = stream \o more
    BY <1>12 DEF Published
  <2> HIDE DEF more
  <2>4. ASSUME NEW k \in 1..Len(more), Says(more[k])  PROVE k = Len(more) /\ more[k].no = q.no
    <3>1. CASE k \in 1..Len(more) - 1
      BY <2>2, <2>4, <3>1 DEF Says, DeviceList, GroupList
    <3>2. CASE k = Len(more)
      BY <2>2, <3>2 DEF Answer
    <3>3. QED  BY <2>2, <3>1, <3>2
  <2>5. past.reloads \in Nat /\ past'.carried \subseteq past.carried \cup {<<past.reloads, q.no>>}
    BY <1>2, <1>4, <1>6 DEF PastType
  <2>6. QED  BY <1>1, <1>2, <1>4, <1>7, <2>2, <2>3, <2>4, <2>5, AnsweredNumbers DEF Sound, Tidy
<1>17. Shapes' /\ Starting'
  BY <1>1, <1>7, <1>10, <1>11, AirAfter DEF Sound, Shapes, Shaped, Starting
<1>18. QED  BY <1>14, <1>15, <1>16, <1>17 DEF Sound, Tidy, Near

(* What the copy shows of a network that nobody writes to is what it is. *)
LEMMA StateKeepsPromises == ASSUME ZigbeeInv, PromiseInv, StateArrives PROVE PromiseInv'
<1>1. /\ UNCHANGED <<air, number, calls, stateFirst, past>> /\ Popped
      /\ Head(stream).topic \in {"devices", "groups"}
      /\ copy' = (IF Head(stream).topic = "devices" THEN [copy EXCEPT !.bound = Head(stream).bound]
                  ELSE [copy EXCEPT !.groups = Head(stream).groups])
      /\ adapter' = (IF Head(stream).topic = "devices" THEN "up" ELSE adapter)
  BY DEF StateArrives, Popped
<1>2. SUFFICES ASSUME Clear'  PROVE Sound'
  BY DEF PromiseInv, Sound
<1>3. Clear /\ Sound /\ IsStream /\ work \in [Nodes -> WorkType]
  BY <1>1, <1>2, TypesAtHand DEF Clear, PromiseInv, Sound
<1>4. ASSUME NEW n \in Nodes
      PROVE  Rests(n) /\ (work'[n] = work[n] \/ (~AtWork(n) /\ ~AtWork(n)'))
  <2>1. work'[n] = IF work[n].step = "reading" THEN [work[n] EXCEPT !.step = "read", !.verified = TRUE]
                   ELSE work[n]
    BY DEF StateArrives, Woken
  <2>2. CASE work[n].step = "reading"
    <3>1. work[n].no = 0
      BY <1>3, <2>2 DEF Sound, Tidy, Numbered, WorkNumbered, AtWork, Asking
    <3>2. work[n] \in WorkType
      BY <1>3
    <3>3. work'[n].step = "read" /\ work'[n].no = 0
      BY <2>1, <2>2, <3>1, <3>2 DEF WorkType
    <3>4. QED  BY <2>2, <3>3 DEF Rests, AtWork, Asking
  <2>3. CASE work[n].step # "reading"
    BY <2>1, <2>3 DEF Rests
  <2>4. QED  BY <2>2, <2>3
<1>5. Tidy'
  BY <1>1, <1>3, <1>4, RestingKeeps DEF Sound, MayPop
<1>6. CASE adapter = "up"
  <2>1. StateFirst /\ BoundShown /\ MembersShown /\ DroppedEmpty /\ Shaped(copy)
    BY <1>3, <1>6 DEF Sound, Near, Shapes
  <2>2. StateFirst' /\ BoundShown' /\ MembersShown' /\ Shaped(copy)'
    BY <1>3, <1>4, <2>1, ViewsAfterState
  <2>3. ASSUME NEW g, SeenEmpty(g)
        PROVE  \A i \in 0..Len(stream') : Shows(i, "groups")' => Members(Shown(i)', g) = {}
    <3>1. SeenEmpty(g)'
      BY <1>1, <1>3, <2>1, <2>3, EmptyStays
    <3>2. QED  BY <3>1 DEF SeenEmpty
  <2>4. ASSUME NEW n \in Nodes, work'[n].step = "drop"
        PROVE  /\ Members(air', work'[n].via) = {}
               /\ \A i \in 0..Len(stream') :
                    Shows(i, "groups")' => Members(Shown(i)', work'[n].via) = {}
    <3>1. work'[n] = work[n]
      BY <1>4, <2>4 DEF AtWork, Asking
    <3>2. Members(air, work[n].via) = {} /\ SeenEmpty(work[n].via)
      BY <2>1, <2>4, <3>1 DEF DroppedEmpty
    <3>3. QED  BY <1>1, <2>3, <3>1, <3>2
  <2>a. DroppedEmpty'
    BY <2>4 DEF DroppedEmpty, SeenEmpty
  <2>5. Shapes' /\ Starting'
    BY <1>1, <1>3, <1>6, <2>2 DEF Sound, Shapes, Shaped, Starting
  <2>6. QED  BY <1>5, <2>2, <2>a, <2>5 DEF Sound, Near
<1>7. CASE adapter = "starting"
  <2>1. calls = {} /\ (\A n \in Nodes : ~AtWork(n)) /\ Shaped(copy) /\ Shaped(air)
    BY <1>3, <1>7 DEF Sound, Starting, Shapes
  <2>2. \A n \in Nodes : ~AtWork(n)'
    BY <1>4, <2>1 DEF AtWork, Rests
  <2> DEFINE groups == GroupList(air)
             devices == DeviceList(air)
  <2>3. /\ groups.topic = "groups" /\ groups.groups = air.groups
        /\ devices.topic = "devices" /\ devices.bound = air.bound
    BY DEF GroupList, DeviceList
  <2>4. stream = <<groups, devices>> \/ (stream = <<devices>> /\ copy.groups = air.groups)
    BY <1>3, <1>7 DEF Sound, Starting
  <2> HIDE DEF groups, devices
  <2>5. CASE stream = <<groups, devices>>
    <3>1. Head(stream) = groups /\ stream' = <<devices>>
      BY <1>1, <2>5 DEF Popped
    <3>2. copy' = [copy EXCEPT !.groups = air.groups] /\ adapter' = "starting"
      BY <1>1, <1>7, <2>3, <3>1
    <3>3. copy'.groups = air.groups /\ Shaped(copy)'
      BY <2>1, <3>2 DEF Shaped
    <3>4. stream' = <<DeviceList(air')>>
      BY <1>1, <3>1 DEF devices
    <3>5. Starting'
      BY <1>1, <2>1, <2>2, <3>3, <3>4 DEF Starting
    <3>6. Shapes' /\ Near'
      BY <1>1, <2>1, <3>2, <3>3 DEF Shapes, Near, Shaped
    <3>7. QED  BY <1>5, <3>5, <3>6 DEF Sound
  <2>6. CASE stream = <<devices>> /\ copy.groups = air.groups
    <3>1. Head(stream) = devices /\ stream' = <<>>
      BY <1>1, <2>6 DEF Popped
    <3>2. copy' = [copy EXCEPT !.bound = air.bound] /\ adapter' = "up"
      BY <1>1, <2>3, <3>1
    <3>3. copy'.groups = air.groups /\ copy'.bound = air.bound /\ Shaped(copy)'
      BY <2>1, <2>6, <3>2 DEF Shaped
    <3>4. Len(stream') = 0 /\ Shown(0)' = copy'
      BY <3>1 DEF Shown
    <3>5. StateFirst' /\ BoundShown' /\ DroppedEmpty'
      <4>1. StateFirst'
        BY <3>4 DEF StateFirst
      <4>2. BoundShown'
        <5>1. \A i \in 0..Len(stream') : i = 0
          BY <3>4
        <5>2. QED  BY <1>1, <3>3, <5>1 DEF BoundShown, Shown
      <4>3. DroppedEmpty'
        BY <2>2 DEF DroppedEmpty, AtWork, Asking
      <4>4. QED  BY <4>1, <4>2, <4>3
    <3>6. MembersShown'
      <4>1. \A g : Members(copy', g) = Members(air', g)
        BY <1>1, <3>3 DEF Members
      <4>2. QED  BY <3>4, <4>1 DEF MembersShown
    <3>7. Shapes' /\ Starting' /\ Near'
      BY <1>1, <2>1, <3>2, <3>3, <3>5, <3>6 DEF Shapes, Starting, Near, Shaped
    <3>8. QED  BY <1>5, <3>7 DEF Sound
  <2>7. QED  BY <2>4, <2>5, <2>6
<1>8. adapter # "down"
  BY <1>1 DEF ZigbeeInv, DownIsQuiet, Popped
<1>9. QED  BY <1>3, <1>6, <1>7, <1>8 DEF Sound, Shapes

(* A set-up promises nothing yet, and an unload asks for nothing more. *)
LEMMA SetupKeepsPromises == ASSUME ZigbeeInv, PromiseInv, AsyncStart \/ AsyncStop PROVE PromiseInv'
<1>1. past \in PastType /\ work \in [Nodes -> WorkType] /\ number \in Nat
  BY TypesAtHand
<1>2. CASE AsyncStop
  <2>1. /\ UNCHANGED <<air, copy, number, calls, stateFirst>> /\ adapter' = "down" /\ stream' = <<>>
        /\ past' = OneMore /\ \A n \in Nodes : work'[n] = Resting
    BY <1>2 DEF AsyncStop
  <2>2. /\ past'.carried = past.carried /\ past'.reloads = past.reloads
        /\ past'.promised = past.promised /\ (Clear' => Clear)
    BY <2>1, TypesAtHand DEF Clear
  <2>3. SUFFICES ASSUME Clear'  PROVE Sound'
    BY DEF PromiseInv, Sound
  <2>4. Sound
    BY <2>2, <2>3 DEF PromiseInv, Sound
  <2>5. \A n \in Nodes : work'[n].step \notin Asking /\ work'[n].no = 0 /\ work'[n].step = "idle"
    BY <2>1 DEF Resting, Asking
  <2>6. Numbered'
    <3>1. CallsNumbered'
      BY <2>1, <2>2, <2>4, CallsKeep DEF Sound, Tidy, Numbered
    <3>2. AnswersNumbered'
      BY <2>1 DEF AnswersNumbered
    <3>3. WorkNumbered'
      BY <2>5 DEF WorkNumbered, AtWork
    <3>4. QED  BY <3>1, <3>2, <3>3 DEF Numbered
  <2>7. AtOwnLink' /\ Asked' /\ Apart' /\ Adds'
    BY <2>5 DEF AtOwnLink, Asked, Apart, Adds, AtWork, Asking
  <2>8. Kept'
    <3>1. ASSUME NEW k \in past.promised
          PROVE  k \in ZLinks /\ IsPresent(air', k) /\ \A n \in Nodes : Spares(work[n], k)'
      <4>1. k \in ZLinks /\ IsPresent(air, k)
        BY <2>4, <3>1 DEF Sound, Tidy, Kept, Safe
      <4>2. \A n \in Nodes : Spares(work[n], k)'
        BY <2>5 DEF Spares
      <4>3. QED  BY <2>1, <4>1, <4>2
    <3>2. QED  BY <2>2, <3>1 DEF Kept, Safe
  <2>9. Shapes' /\ Starting' /\ Near'
    BY <2>1, <2>4 DEF Sound, Shapes, Shaped, Starting, Near
  <2>10. QED  BY <2>6, <2>7, <2>8, <2>9 DEF Sound, Tidy
<1>3. CASE AsyncStart
  <2> DEFINE again == past.reused \/ calls # {}
  <2>1. /\ UNCHANGED <<air, calls, work, stateFirst>> /\ adapter = "down" /\ adapter' = "starting"
        /\ copy' = Empty /\ number' = 0 /\ stream' = <<GroupList(air), DeviceList(air)>>
        /\ past' = [past EXCEPT !.reloads = @ + 1, !.reused = again, !.promised = {}]
    BY <1>1, <1>3 DEF AsyncStart, PastType
  <2>2. /\ past'.carried = past.carried /\ past'.reloads = past.reloads + 1 /\ past'.promised = {}
        /\ past'.strayed = past.strayed /\ past'.crowded = past.crowded /\ past'.reused = again
    <3> HIDE DEF again
    <3>1. QED  BY <1>1, <2>1 DEF PastType
  <2>3. SUFFICES ASSUME Clear'  PROVE Sound'
    BY DEF PromiseInv, Sound
  <2>4. Sound /\ calls = {}
    BY <2>1, <2>2, <2>3 DEF Clear, PromiseInv, Sound
  <2>5. \A n \in Nodes : work[n].step \notin Asking /\ work[n].no = 0
    BY <2>1, <2>4 DEF ZigbeeInv, DownIsQuiet, Sound, Tidy, Numbered, WorkNumbered, AtWork
  <2>6. Numbered'
    <3>1. CallsNumbered'
      <4>1. past.reloads \in Nat /\ past.carried \subseteq Nat \X Nat
        BY <1>1 DEF PastType, Numbers
      <4>2. ASSUME NEW p \in past.carried  PROVE p[1] <= past.reloads + 1 /\ p[1] # past.reloads + 1
        <5>1. p[1] \in Nat /\ p[1] <= past.reloads
          BY <2>4, <4>1 DEF Sound, Tidy, Numbered, CallsNumbered
        <5>2. QED  BY <4>1, <5>1
      <4>3. QED  BY <2>1, <2>2, <2>4, <4>2 DEF CallsNumbered
    <3>2. AnswersNumbered'
      <4> DEFINE groups == GroupList(air)
                 devices == DeviceList(air)
      <4>1. ~Says(groups) /\ ~Says(devices)
        BY DEF GroupList, DeviceList, Says
      <4> HIDE DEF groups, devices
      <4>2. stream' = <<groups, devices>>
        BY <2>1 DEF groups, devices
      <4>3. \A i \in 1..Len(stream') : stream'[i] \in {groups, devices}
        BY <4>2
      <4>4. QED  BY <4>1, <4>3 DEF AnswersNumbered, Says
    <3>3. WorkNumbered'
      BY <2>1, <2>5 DEF WorkNumbered, AtWork
    <3>4. QED  BY <3>1, <3>2, <3>3 DEF Numbered
  <2>7. AtOwnLink' /\ Asked' /\ Apart' /\ Adds'
    BY <2>1, <2>5 DEF AtOwnLink, Asked, Apart, Adds, AtWork, Asking
  <2>8. Kept'
    BY <2>2 DEF Kept
  <2>9. Shapes'
    BY <2>1, <2>4 DEF Sound, Shapes, Shaped, Empty
  <2>10. Starting' /\ Near'
    BY <2>1, <2>4, <2>5 DEF Starting, Near, AtWork
  <2>11. QED  BY <2>6, <2>7, <2>8, <2>9, <2>10 DEF Sound, Tidy
<1>4. QED  BY <1>2, <1>3

(* Nothing is promised yet.                                                *)
LEMMA PromisesStart == ZigbeeInit => PromiseInv
<1> SUFFICES ASSUME ZigbeeInit PROVE Shapes /\ Tidy /\ Starting /\ Near
  BY DEF PromiseInv, Sound
<1>1. /\ stream = <<>> /\ calls = {} /\ copy = Empty /\ adapter = "down" /\ air \in Networks
      /\ past.carried = {} /\ past.promised = {}
      /\ \A n \in Nodes : work[n].step = "idle" /\ work[n].no = 0
  BY ZigbeeAssumption DEF ZigbeeInit, Resting
<1>2. Shapes
  BY <1>1 DEF Shapes, Shaped, Empty, Networks
<1>3. Numbered
  BY <1>1 DEF Numbered, CallsNumbered, AnswersNumbered, WorkNumbered, AtWork, Asking
<1>4. AtOwnLink /\ Asked /\ Apart /\ Adds /\ Kept
  BY <1>1 DEF AtOwnLink, Asked, Apart, Adds, Kept, AtWork, Asking
<1>5. Starting /\ Near
  BY <1>1 DEF Starting, Near
<1>6. QED  BY <1>2, <1>3, <1>4, <1>5 DEF Tidy

(* Where nobody else writes, the copy is right.                            *)
LEMMA CopyIsRight ==
  ASSUME Sound, IsStream, adapter = "up", NEW l \in ZLinks, ~AtWork(ControlNode[LinkControl[l]]), ~Meets(l)
  PROVE  /\ \A e : /\ <<LinkControl[l], e>> \in copy.bound
                   /\ e = LinkTarget[l] \/ (e \in Managed /\ Members(copy, e) # {})
                   => <<LinkControl[l], e>> \in air.bound
         /\ \A g \in Managed : <<LinkControl[l], g>> \in air.bound => Members(copy, g) = Members(air, g)
<1> DEFINE c == LinkControl[l]
<1>1. /\ AtOwnLink /\ BoundShown /\ MembersShown /\ DroppedEmpty
  BY DEF Sound, Tidy, Near
<1>2. ASSUME NEW m \in Nodes, AtWork(m), NEW g \in Managed, g \in Touches(l)
      PROVE  g # work[m].via /\ g # LinkGroup[work[m].link]
  <2>1. Requesting(m)
    BY <1>2 DEF AtWork, Requesting, Asking
  <2>2. g = LinkGroup[work[m].link] => g \in Touches(work[m].link)
    BY <1>2 DEF Touches
  <2>3. QED  BY <1>2, <2>1, <2>2 DEF Meets
<1>3. 0 \in 0..Len(stream) /\ Shows(0, "devices") /\ Shows(0, "groups") /\ Shown(0) = copy
  BY DEF Shows, Shown, IsStream
<1>4. ASSUME NEW e, <<c, e>> \in copy.bound,
             e = LinkTarget[l] \/ (e \in Managed /\ Members(copy, e) # {})
      PROVE  <<c, e>> \in air.bound
  <2>1. SUFFICES ASSUME NEW m \in Nodes, Unbinds(m, <<c, e>>), AtWork(m)  PROVE FALSE
    BY <1>1, <1>3, <1>4 DEF BoundShown, Due, TellsAt
  <2>2. OwnLink(m, work[m])
    BY <1>1, <2>1 DEF AtOwnLink
  <2>3. CASE work[m].step = "unbind"
    BY <2>1, <2>2, <2>3 DEF Unbinds, OwnLink
  <2>4. CASE work[m].step = "drop"
    <3>1. e = work[m].via /\ e \in Managed
      BY <2>1, <2>2, <2>4 DEF Unbinds, OwnLink
    <3>2. Members(copy, e) = {}
      BY <1>1, <1>3, <2>4, <3>1 DEF DroppedEmpty, SeenEmpty
    <3>3. e = LinkTarget[l] /\ e \in Touches(l)
      BY <1>4, <3>1, <3>2 DEF Touches
    <3>4. QED  BY <1>2, <2>1, <3>1, <3>3
  <2>5. QED  BY <2>1, <2>3, <2>4 DEF Unbinds
<1>5. ASSUME NEW g \in Managed, <<c, g>> \in air.bound  PROVE Members(copy, g) = Members(air, g)
  <2>1. g \in Touches(l)
    BY <1>5 DEF Touches, Bound, Ends, ZGroups
  <2>2. SUFFICES ASSUME NEW m \in Nodes, Regroups(m, g), AtWork(m)  PROVE FALSE
    BY <1>1, <1>3 DEF MembersShown, Due, TellsAt
  <2>3. QED  BY <1>2, <2>1, <2>2 DEF Regroups, GroupOf
<1>6. QED  BY <1>4, <1>5

(* A link that is seen to be there is there. *)
LEMMA SeenIsPresent ==
  ASSUME Sound, IsStream, adapter = "up", NEW l \in ZLinks, ~AtWork(ControlNode[LinkControl[l]]), ~Meets(l),
         IsPresent(copy, l)
  PROVE  IsPresent(air, l)
<1> DEFINE c == LinkControl[l]
           t == LinkTarget[l]
<1>1. /\ \A e : /\ <<c, e>> \in copy.bound
                /\ e = t \/ (e \in Managed /\ Members(copy, e) # {})
                => <<c, e>> \in air.bound
      /\ \A g \in Managed : <<c, g>> \in air.bound => Members(copy, g) = Members(air, g)
  BY CopyIsRight
<1>2. CASE <<c, t>> \in copy.bound
  BY <1>1, <1>2, PresentMeans
<1>3. ASSUME NEW g \in Managed, t \notin ZGroups, <<c, g>> \in copy.bound, t \in Members(copy, g)
      PROVE  IsPresent(air, l)
  <2>1. <<c, g>> \in air.bound
    BY <1>1, <1>3
  <2>2. t \in Members(air, g)
    BY <1>1, <1>3, <2>1
  <2>3. QED  BY <1>3, <2>1, <2>2, PresentMeans
<1>4. QED  BY <1>2, <1>3, PresentMeans

(* Who is at work elsewhere spares it. *)
LEMMA WorkSpares ==
  ASSUME AtOwnLink, NEW l \in ZLinks, ~AtWork(ControlNode[LinkControl[l]]), ~Meets(l),
         NEW m \in Nodes, AtWork(m)
  PROVE  Spares(work[m], l)
<1>1. OwnLink(m, work[m])
  BY DEF AtOwnLink
<1>2. LinkControl[l] # LinkControl[work[m].link]
  BY <1>1 DEF OwnLink
<1>3. Requesting(m)
  BY DEF AtWork, Requesting, Asking
<1>4. \A g \in Managed : g \in Touches(l) => g # work[m].via
  BY <1>3 DEF Meets
<1>5. \A g \in Managed : g = LinkTarget[l] \/ g \in Bound(air, LinkControl[l]) => g \in Touches(l)
  BY DEF Touches
<1>6. QED  BY <1>1, <1>2, <1>4, <1>5 DEF Spares, OwnLink

(* The first request of a write.                                           *)
LEMMA FirstRequest ==
  ASSUME ZigbeeInv, Sound, Clear, adapter = "up", NEW l \in ZLinks,
         NEW n \in Nodes, n = ControlNode[LinkControl[l]], ~AtWork(n), ~Meets(l),
         NEW step \in {"bind", "create", "join", "unbind", "leave"}, NEW who, NEW to,
         NEW w, {"step", "no", "link", "adding", "via", "asked"} \subseteq DOMAIN w,
         w.link = l, w.adding <=> step \in {"bind", "create", "join"},
         w.via \in Managed \cup {None}, w.via \in Managed => w.via \in Touches(l),
         Ask(n, w, step, who, to),
         step \in {"create", "join"} =>
           LinkGroup[l] \in Managed /\ LinkTarget[l] \notin ZGroups /\ who = LinkGroup[l],
         step = "leave" => w.via \in Managed /\ who = w.via,
         step \in {"bind", "unbind"} => who = LinkControl[l],
         step # "create" => to = LinkTarget[l],
         UNCHANGED <<air, copy, adapter, stream>>,
         past'.carried = past.carried, past'.reloads = past.reloads,
         \A k \in past'.promised :
           k \in past.promised /\ (step \in {"unbind", "leave"} => k \notin TakenAlong(l))
  PROVE  Sound'
<1> DEFINE q == [step |-> step, who |-> who, to |-> to, no |-> number + 1, epoch |-> past.reloads]
           new == [w EXCEPT !.step = step, !.no = q.no, !.asked = @ \cup {<<q.epoch, q.no>>}]
<1>1. calls' = calls \cup {q} /\ number' = number + 1 /\ work' = [work EXCEPT ![n] = new]
  BY DEF Ask
<1>2. q.step = step /\ q.who = who /\ q.to = to /\ q.no = number + 1
  OBVIOUS
<1>3. /\ new.step = step /\ new.link = l /\ new.via = w.via /\ new.no = number + 1
      /\ new.adding = w.adding
  OBVIOUS
<1>4. work \in [Nodes -> WorkType] /\ IsStream /\ Tidy
  BY TypesAtHand DEF Sound
<1> HIDE DEF q, new
<1>5. work'[n] = new /\ \A m \in Nodes : m # n => work'[m] = work[m]
  BY <1>1, <1>4
<1>6. OwnLink(n, new)
  BY <1>3 DEF OwnLink
<1>7. IsFor(q, new)
  BY <1>2, <1>3 DEF IsFor
<1>8. ASSUME NEW m \in Nodes, NEW g \in Managed, m # n, AtWork(m), g \in Touches(l) \cup {w.via}
      PROVE  g \notin InPlay(m)
  <2>1. g \in Touches(l) /\ Requesting(m)
    BY <1>8 DEF AtWork, Requesting, Asking
  <2>2. QED  BY <2>1 DEF InPlay, Meets
<1>9. ASSUME NEW k \in past'.promised  PROVE k \in past.promised /\ Spares(new, k)
  <2>1. k \in past.promised /\ k \in ZLinks
    BY <1>4, <1>9 DEF Tidy, Kept, Safe
  <2>2. CASE step \notin {"unbind", "leave"}
    BY <1>3, <2>1, <2>2 DEF Spares
  <2>3. CASE step \in {"unbind", "leave"}
    <3>1. k \notin TakenAlong(l)
      BY <1>9, <2>3
    <3>2. /\ LinkTarget[k] \notin Managed /\ LinkTarget[k] # LinkTarget[l]
          /\ LinkTarget[l] \in ZGroups => LinkControl[k] # LinkControl[l]
      BY <2>1, <3>1 DEF TakenAlong
    <3>3. QED  BY <1>3, <2>1, <2>3, <3>2 DEF Spares
  <2>4. QED  BY <2>2, <2>3
<1>10. Tidy' /\ Quiet(n)'
  BY <1>1, <1>2, <1>3, <1>4, <1>5, <1>6, <1>7, <1>8, <1>9, AskingKeeps DEF MayPop, Asking
<1>11. StateFirst' /\ BoundShown' /\ MembersShown'
  <2>1. \A m \in Nodes : work'[m] = work[m] \/ (Quiet(m) /\ Quiet(m)')
    BY <1>5, <1>10, NotAtWorkIsQuiet
  <2>2. QED  BY <2>1, ViewsStay DEF Sound, Near
<1>12. DroppedEmpty'
  <2>1. \A m \in Nodes : work'[m].step = "drop" => work'[m] = work[m]
    BY <1>3, <1>5
  <2>2. DroppedEmpty
    BY DEF Sound, Near
  <2>3. QED  BY <2>1, <2>2 DEF DroppedEmpty, SeenEmpty, Shows, Shown
<1>13. Shapes' /\ Starting'
  BY DEF Sound, Shapes, Shaped, Starting
<1>14. QED  BY <1>10, <1>11, <1>12, <1>13 DEF Sound, Near

(* A write up to its first request.                                        *)
LEMMA WriteKeepsPromises ==
  ASSUME ZigbeeInv, PromiseInv, NEW l \in ZLinks, NEW adding \in BOOLEAN, WriteLink(l, adding)
  PROVE  PromiseInv'
<1> DEFINE n == ControlNode[LinkControl[l]]
           w == [Resting EXCEPT !.link = l, !.adding = adding]
           h == Started(l, adding)
<1>1. /\ adapter = "up" /\ ~Busy(n) /\ n \in Nodes
      /\ UNCHANGED <<air, copy, adapter, stream, stateFirst>>
  BY ZigbeeAssumption DEF WriteLink
<1>2. past \in PastType /\ work \in [Nodes -> WorkType]
  BY TypesAtHand
<1>3. /\ h \in PastType /\ h.reloads = past.reloads /\ h.carried = past.carried /\ h.reused = past.reused
  BY StartedTyped
<1>4. /\ h.strayed = past.strayed /\ h.crowded = (past.crowded \/ Meets(l))
      /\ h.promised = IF adding THEN past.promised ELSE past.promised \ TakenAlong(l)
  <2> DEFINE alone == calls = {} /\ stream = <<>> /\ Others(n) = {}
             together == Others(n) \cup IF alone THEN past.together \ {n} ELSE past.together \cup {n}
             crowded == past.crowded \/ Meets(l)
             promised == IF adding THEN past.promised ELSE past.promised \ TakenAlong(l)
  <2>1. h = [past EXCEPT !.trouble = @ + 1, !.together = together, !.crowded = crowded,
                         !.promised = promised]
    BY DEF Started
  <2> HIDE DEF h, together, crowded, promised
  <2>2. h.strayed = past.strayed /\ h.crowded = crowded /\ h.promised = promised
    BY <1>2, <2>1 DEF PastType
  <2>3. QED  BY <2>2 DEF crowded, promised
<1>5. ~AtWork(n)
  BY <1>1 DEF Busy, AtWork, Asking
<1> HIDE DEF h
<1>6. ASSUME past' = h \/ past' = [h EXCEPT !.promised = @ \cup {l}]
      PROVE  /\ past'.carried = past.carried /\ past'.reloads = past.reloads
             /\ Clear' => Clear /\ ~Meets(l) /\ Sound /\ IsStream
  <2>1. /\ past'.carried = h.carried /\ past'.reloads = h.reloads /\ past'.strayed = h.strayed
        /\ past'.crowded = h.crowded /\ past'.reused = h.reused
    BY <1>3, <1>6 DEF PastType
  <2>2. Clear' => Clear /\ ~Meets(l)
    BY <1>1, <1>3, <1>4, <2>1 DEF Clear
  <2>3. QED  BY <1>3, <2>1, <2>2, TypesAtHand DEF PromiseInv, Sound
<1>7. ASSUME NEW result, FinishWrite(n, w, result),
             \/ past' = h
             \/ past' = [h EXCEPT !.promised = @ \cup {l}] /\ IsPresent(copy, l)
      PROVE  PromiseInv'
  <2>1. SUFFICES ASSUME Clear'  PROVE Sound'
    BY DEF PromiseInv, Sound
  <2>2. /\ past'.carried = past.carried /\ past'.reloads = past.reloads
        /\ Clear /\ ~Meets(l) /\ Sound /\ IsStream
    BY <1>6, <1>7, <2>1
  <2> DEFINE new == [w EXCEPT !.step = "done", !.no = 0, !.result = result]
  <2>3. work' = [work EXCEPT ![n] = new] /\ UNCHANGED <<calls, number>>
    BY <1>7 DEF FinishWrite
  <2>4. new.step = "done" /\ new.no = 0
    BY DEF Resting
  <2> HIDE DEF new
  <2>5. \A m \in Nodes : m # n => work'[m] = work[m]
    BY <1>2, <2>3
  <2>6. work'[n] = new
    BY <1>1, <1>2, <2>3
  <2>7. \A m \in Nodes : Rests(m) /\ (work'[m] = work[m] \/ Quiet(m))
    BY <1>5, <2>4, <2>5, <2>6, NotAtWorkIsQuiet DEF Rests, Asking
  <2>8. ASSUME NEW k \in past'.promised
        PROVE  \/ k \in past.promised
               \/ /\ k \in ZLinks /\ IsPresent(air, k)
                  /\ \A m \in Nodes : AtWork(m) /\ work'[m] = work[m] => Spares(work[m], k)
    <3>1. CASE k \in h.promised
      BY <1>4, <3>1
    <3>2. CASE k \notin h.promised
      <4>1. k = l /\ IsPresent(copy, l)
        BY <1>3, <1>7, <2>8, <3>2 DEF PastType
      <4>2. IsPresent(air, l)
        BY <1>1, <1>5, <2>2, <4>1, SeenIsPresent
      <4>3. \A m \in Nodes : AtWork(m) => Spares(work[m], l)
        BY <1>5, <2>2, WorkSpares DEF Sound, Tidy
      <4>4. QED  BY <4>1, <4>2, <4>3
    <3>3. QED  BY <3>1, <3>2
  <2>9. QED  BY <1>1, <2>2, <2>3, <2>7, <2>8, RestStep
<1>8. ASSUME NEW v, {"step", "no", "link", "adding", "via", "asked"} \subseteq DOMAIN v,
             v.link = l, v.adding <=> adding,
             v.via \in Managed \cup {None}, NEW who, NEW to,
             NEW step \in {"bind", "create", "join", "unbind", "leave"},
             Ask(n, v, step, who, to),
             past' = h, adding <=> step \in {"bind", "create", "join"},
             step \in {"create", "join"} =>
               LinkGroup[l] \in Managed /\ LinkTarget[l] \notin ZGroups /\ who = LinkGroup[l],
             step = "leave" =>
               /\ v.via \in Managed /\ who = v.via
               /\ <<LinkControl[l], v.via>> \in copy.bound /\ Members(copy, v.via) # {},
             step # "leave" => v.via = None,
             step \in {"bind", "unbind"} => who = LinkControl[l],
             step # "create" => to = LinkTarget[l]
      PROVE  PromiseInv'
  <2>1. SUFFICES ASSUME Clear'  PROVE Sound'
    BY DEF PromiseInv, Sound
  <2>2. /\ past'.carried = past.carried /\ past'.reloads = past.reloads
        /\ Clear /\ ~Meets(l) /\ Sound /\ IsStream
    BY <1>6, <1>8, <2>1
  <2>3. v.via \in Managed => v.via \in Touches(l)
    <3>1. SUFFICES ASSUME v.via \in Managed  PROVE v.via \in Touches(l)
      OBVIOUS
    <3>2. step = "leave"
      BY <1>8, <3>1, ZigbeeAssumption DEF ZGroups
    <3>3. <<LinkControl[l], v.via>> \in air.bound
      BY <1>1, <1>5, <1>8, <2>2, <3>1, <3>2, CopyIsRight
    <3>4. QED  BY <3>1, <3>3 DEF Touches, Bound, Ends, ZGroups
  <2>4. \A k \in past'.promised :
          k \in past.promised /\ (step \in {"unbind", "leave"} => k \notin TakenAlong(l))
    BY <1>4, <1>8
  <2>5. v.adding <=> step \in {"bind", "create", "join"}
    BY <1>8
  <2>6. step = "leave" => v.via \in Managed /\ who = v.via
    BY <1>8
  <2> HIDE DEF n
  <2>7. n = ControlNode[LinkControl[l]] /\ UNCHANGED <<air, copy, adapter, stream>>
    BY <1>1 DEF n
  <2>8. QED
    BY <1>1, <1>5, <1>8, <2>2, <2>3, <2>4, <2>5, <2>6, <2>7, FirstRequest
<1>9. /\ {"step", "no", "link", "adding", "via", "asked"} \subseteq DOMAIN w
      /\ w.link = l /\ (w.adding <=> adding) /\ w.via = None
  BY DEF Resting
<1>10. ASSUME adding, PutOn(n, w), past' = h  PROVE PromiseInv'
  <2> DEFINE g == GroupFor(copy, l)
  <2>1. w.link = l
    BY DEF Resting
  <2>2. g # None => g = LinkGroup[l] /\ LinkGroup[l] \in Managed /\ LinkTarget[l] \notin ZGroups
    BY ZigbeeAssumption DEF GroupFor
  <2>3. \/ Ask(n, w, "bind", LinkControl[l], LinkTarget[l])
        \/ LinkGroup[l] \in Managed /\ LinkTarget[l] \notin ZGroups
           /\ (\/ Ask(n, w, "join", LinkGroup[l], LinkTarget[l])
               \/ Ask(n, w, "create", LinkGroup[l], LinkGroup[l]))
    BY <1>10, <2>1, <2>2 DEF PutOn, JoinGroup, AskStale
  <2> HIDE DEF w
  <2>4. CASE Ask(n, w, "bind", LinkControl[l], LinkTarget[l])
    BY <1>8, <1>9, <1>10, <2>4
  <2>5. CASE LinkGroup[l] \in Managed /\ LinkTarget[l] \notin ZGroups
             /\ Ask(n, w, "join", LinkGroup[l], LinkTarget[l])
    BY <1>8, <1>9, <1>10, <2>5
  <2>6. CASE LinkGroup[l] \in Managed /\ LinkTarget[l] \notin ZGroups
             /\ Ask(n, w, "create", LinkGroup[l], LinkGroup[l])
    BY <1>8, <1>9, <1>10, <2>6
  <2>7. QED  BY <2>3, <2>4, <2>5, <2>6
<1>11. ASSUME ~adding, TakeOff(n, w), past' = h  PROVE PromiseInv'
  <2>1. w.link = l
    BY DEF Resting
  <2>2. \/ Ask(n, w, "unbind", LinkControl[l], LinkTarget[l])
        \/ \E g \in GroupHolding(copy, l) : Ask(n, [w EXCEPT !.via = g], "leave", g, LinkTarget[l])
    BY <1>11, <2>1 DEF TakeOff, AskStale
  <2>3. CASE Ask(n, w, "unbind", LinkControl[l], LinkTarget[l])
    <3> HIDE DEF w
    <3>1. QED  BY <1>8, <1>9, <1>11, <2>3
  <2>4. ASSUME NEW g \in GroupHolding(copy, l), Ask(n, [w EXCEPT !.via = g], "leave", g, LinkTarget[l])
        PROVE  PromiseInv'
    <3>1. g \in Managed /\ <<LinkControl[l], g>> \in copy.bound /\ Members(copy, g) # {}
      BY <2>4 DEF GroupHolding, Bound
    <3> DEFINE v == [w EXCEPT !.via = g]
    <3>2. /\ {"step", "no", "link", "adding", "via", "asked"} \subseteq DOMAIN v
          /\ v.link = l /\ (v.adding <=> adding) /\ v.via = g
      BY DEF Resting
    <3>3. Ask(n, v, "leave", g, LinkTarget[l])
      BY <2>4
    <3> HIDE DEF v
    <3>4. QED  BY <1>8, <1>11, <3>1, <3>2, <3>3
  <2>5. QED  BY <2>2, <2>3, <2>4
<1>12. ASSUME NEW result, FinishWrite(n, w, result), past' = Promised(w, result, h),
              result # "applied", result = "present" /\ adding => IsPresent(copy, l)
       PROVE  PromiseInv'
  <2>1. w.link = l /\ w.adding = adding
    BY DEF Resting
  <2>2. \/ past' = h
        \/ past' = [h EXCEPT !.promised = @ \cup {l}] /\ IsPresent(copy, l)
    BY <1>12, <2>1 DEF Promised
  <2>3. QED  BY <1>7, <1>12, <2>2
<1>13. \/ \E result \in {"blocked", "raised", "present"} :
            /\ FinishWrite(n, w, result) /\ past' = Promised(w, result, h)
            /\ result = "present" => IsPresent(copy, l) = adding
       \/ past' = h /\ IF adding THEN PutOn(n, w) ELSE TakeOff(n, w)
  BY DEF WriteLink, h
<1>14. QED  BY <1>10, <1>11, <1>12, <1>13

(* An answer is delivered. *)
Delivered == Popped /\ Says(Head(stream)) /\ UNCHANGED <<air, copy, adapter>>

(* Whose answer is delivered is told nothing else. *)
LEMMA ToldOnce ==
  ASSUME Numbered, IsStream, Delivered, NEW n \in Nodes, Head(stream).no = work[n].no
  PROVE  \A j \in 1..Len(stream) : TellsAt(n, j) => j = 1
<1>1. Len(stream) \in Nat /\ Len(stream) >= 1 /\ Head(stream) = stream[1]
  BY PopMeans DEF Delivered
<1>2. 1 \in 1..Len(stream) /\ Says(stream[1])
  BY <1>1 DEF Delivered
<1>3. QED  BY <1>1, <1>2 DEF Numbered, AnswersNumbered, TellsAt

(* The lists, after an answer is read.                                     *)
LEMMA AnswerLeavesNear ==
  ASSUME Sound, Near, adapter = "up", IsStream, Delivered,
         \A n \in Nodes : \/ work'[n] = work[n]
                          \/ /\ \A j \in 1..Len(stream) : TellsAt(n, j) => j = 1
                             /\ Quiet(n)'
                             /\ work'[n].step = "drop" =>
                                  Members(air, work'[n].via) = {} /\ SeenEmpty(work'[n].via)
  PROVE  Near' /\ Shapes' /\ Starting'
<1>1. StateFirst /\ BoundShown /\ MembersShown /\ DroppedEmpty /\ Shaped(copy)
  BY DEF Sound, Near, Shapes
<1>2. StateFirst' /\ BoundShown' /\ MembersShown'
  BY <1>1, ViewsAfterAnswer DEF Delivered
<1>3. ASSUME NEW g, SeenEmpty(g)
      PROVE  \A i \in 0..Len(stream') : Shows(i, "groups")' => Members(Shown(i)', g) = {}
  <2>1. SeenEmpty(g)'
    BY <1>1, <1>3, EmptyStays DEF Delivered
  <2>2. QED  BY <2>1 DEF SeenEmpty
<1>4. ASSUME NEW n \in Nodes, work'[n].step = "drop"
      PROVE  /\ Members(air', work'[n].via) = {}
             /\ \A i \in 0..Len(stream') :
                  Shows(i, "groups")' => Members(Shown(i)', work'[n].via) = {}
  <2>1. Members(air, work'[n].via) = {} /\ SeenEmpty(work'[n].via)
    BY <1>1, <1>4 DEF DroppedEmpty
  <2>2. QED  BY <1>3, <2>1 DEF Delivered
<1>5. DroppedEmpty'
  BY <1>4 DEF DroppedEmpty, SeenEmpty
<1>6. Shapes' /\ Starting'
  BY DEF Sound, Shapes, Shaped, Starting, Delivered
<1>7. QED  BY <1>2, <1>5, <1>6 DEF Near

(* The answer ends a write. *)
LEMMA FinishKeepsPromises ==
  ASSUME ZigbeeInv, Sound, Clear, adapter = "up", Delivered, NEW n \in Nodes, AtWork(n),
         Head(stream).no = work[n].no, NEW result, FinishWrite(n, work[n], result),
         \/ past' = past
         \/ /\ past' = [past EXCEPT !.promised = @ \cup {work[n].link}]
            /\ IsPresent(air, work[n].link)
  PROVE  Sound'
<1> DEFINE new == [work[n] EXCEPT !.step = "done", !.no = 0, !.result = result]
<1>1. past \in PastType /\ work \in [Nodes -> WorkType] /\ IsStream /\ Tidy
  BY TypesAtHand DEF Sound
<1>2. work' = [work EXCEPT ![n] = new] /\ UNCHANGED <<calls, number>>
  BY DEF FinishWrite
<1>3. new.step = "done" /\ new.no = 0
  BY <1>1 DEF WorkType
<1> HIDE DEF new
<1>4. work'[n] = new /\ \A m \in Nodes : m # n => work'[m] = work[m]
  BY <1>1, <1>2
<1>5. \A m \in Nodes : Rests(m)
  BY <1>3, <1>4 DEF Rests, Asking
<1>6. /\ past'.carried = past.carried /\ past'.reloads = past.reloads
      /\ \/ past'.promised = past.promised
         \/ /\ past'.promised = past.promised \cup {work[n].link}
            /\ IsPresent(air, work[n].link)
  BY <1>1 DEF PastType
<1>7. /\ work[n].link \in ZLinks
      /\ \A m \in Nodes : AtWork(m) /\ m # n => Spares(work[m], work[n].link)
  BY <1>1, OthersSpared DEF Tidy, AtOwnLink, OwnLink
<1>8. work'[n] # work[n]
  BY <1>3, <1>4 DEF AtWork, Asking
<1>9. Tidy'
  <2>1. ASSUME NEW k \in past'.promised
        PROVE  \/ k \in past.promised
               \/ /\ k \in ZLinks /\ IsPresent(air, k)
                  /\ \A m \in Nodes : AtWork(m) /\ work'[m] = work[m] => Spares(work[m], k)
    BY <1>6, <1>7, <1>8
  <2>2. MayPop /\ calls' \subseteq calls /\ number' = number /\ air' = air
    BY <1>2 DEF MayPop, Delivered
  <2>3. QED  BY <1>1, <1>5, <1>6, <2>1, <2>2, RestingKeeps
<1>10. Quiet(n)' /\ work'[n].step # "drop"
  BY <1>3, <1>4 DEF Quiet, TellsAt, AtWork, Asking
<1>11. \A j \in 1..Len(stream) : TellsAt(n, j) => j = 1
  BY <1>1, ToldOnce DEF Tidy
<1>12. Near' /\ Shapes' /\ Starting'
  BY <1>1, <1>4, <1>10, <1>11, AnswerLeavesNear DEF Sound
<1>13. QED  BY <1>9, <1>12 DEF Sound

(* The answer leads to the next request of the write. *)
LEMMA AskKeepsPromises ==
  ASSUME ZigbeeInv, Sound, Clear, adapter = "up", Delivered, NEW n \in Nodes, AtWork(n),
         Head(stream).no = work[n].no, UNCHANGED past,
         NEW step \in Asking, NEW who, NEW to, Ask(n, work[n], step, who, to),
         OwnLink(n, [work[n] EXCEPT !.step = step]),
         IsFor([step |-> step, who |-> who, to |-> to], [work[n] EXCEPT !.step = step]),
         step # "unbind" /\ step # "leave",
         step = "drop" => work[n].step = "leave" /\ Members(air, work[n].via) = {} /\ SeenEmpty(work[n].via)
  PROVE  Sound'
<1> DEFINE q == [step |-> step, who |-> who, to |-> to, no |-> number + 1, epoch |-> past.reloads]
           new == [work[n] EXCEPT !.step = step, !.no = q.no, !.asked = @ \cup {<<q.epoch, q.no>>}]
           seen == [work[n] EXCEPT !.step = step]
           said == [step |-> step, who |-> who, to |-> to]
<1>1. past \in PastType /\ work \in [Nodes -> WorkType] /\ IsStream /\ Tidy
  BY TypesAtHand DEF Sound
<1>2. work' = [work EXCEPT ![n] = new] /\ calls' = calls \cup {q} /\ number' = number + 1
  BY DEF Ask
<1>3. /\ new.step = step /\ new.no = number + 1 /\ new.link = work[n].link
      /\ new.adding = work[n].adding /\ new.via = work[n].via
      /\ seen.step = step /\ seen.link = work[n].link
      /\ seen.adding = work[n].adding /\ seen.via = work[n].via
  BY <1>1 DEF WorkType
<1>4. q.no = number + 1 /\ q.step = step /\ q.who = who /\ q.to = to
      /\ said.step = step /\ said.who = who /\ said.to = to
  OBVIOUS
<1>5. OwnLink(n, seen) /\ IsFor(said, seen)
  OBVIOUS
<1> HIDE DEF new, q, seen, said
<1>6. work'[n] = new /\ \A m \in Nodes : m # n => work'[m] = work[m]
  BY <1>1, <1>2
<1>7. OwnLink(n, new)
  BY <1>3, <1>5 DEF OwnLink
<1>8. IsFor(q, new)
  BY <1>3, <1>4, <1>5 DEF IsFor
<1>9. \A m \in Nodes, g \in Managed :
        m # n /\ AtWork(m) /\ g \in Touches(new.link) \cup {new.via} => g \notin InPlay(m)
  BY <1>1, <1>3 DEF Tidy, Apart, InPlay
<1>10. \A k \in past'.promised : k \in past.promised /\ Spares(new, k)
  <2>1. ASSUME NEW k \in past.promised  PROVE Spares(new, k)
    <3>1. Spares(work[n], k)
      BY <1>1 DEF Tidy, Kept, Safe
    <3>2. QED  BY <1>3, <3>1 DEF Spares
  <2>2. QED  BY <2>1
<1>11. Tidy' /\ Quiet(n)'
  <2>1. MayPop /\ air' = air /\ past'.carried = past.carried /\ past'.reloads = past.reloads
    BY DEF MayPop, Delivered
  <2>2. QED  BY <1>1, <1>2, <1>3, <1>4, <1>6, <1>7, <1>8, <1>9, <1>10, <2>1, AskingKeeps
<1>12. \A j \in 1..Len(stream) : TellsAt(n, j) => j = 1
  BY <1>1, ToldOnce DEF Tidy
<1>13. Near' /\ Shapes' /\ Starting'
  BY <1>1, <1>3, <1>6, <1>11, <1>12, AnswerLeavesNear DEF Sound
<1>14. QED  BY <1>11, <1>13 DEF Sound

(* The control is bound to the group that the copy shows it bound to. *)
LEMMA GroupIsBound ==
  ASSUME Sound, IsStream, adapter = "up", NEW n \in Nodes, AtWork(n), work[n].step = "join",
         LinkGroup[work[n].link] \in Bound(copy, LinkControl[work[n].link])
  PROVE  <<LinkControl[work[n].link], LinkGroup[work[n].link]>> \in air.bound
<1> DEFINE c == LinkControl[work[n].link]
           g == LinkGroup[work[n].link]
<1>1. AtOwnLink /\ Apart /\ BoundShown
  BY DEF Sound, Tidy, Near
<1>2. OwnLink(n, work[n]) /\ g \in InPlay(n) /\ g \in Managed
  BY <1>1 DEF AtOwnLink, OwnLink, InPlay, Touches
<1>3. 0 \in 0..Len(stream) /\ Shows(0, "devices") /\ Shown(0) = copy /\ <<c, g>> \in copy.bound
  <2>1. <<c, g>> \in copy.bound
    BY DEF Bound
  <2>2. 0 \in 0..Len(stream)
    BY DEF IsStream
  <2>3. QED  BY <2>1, <2>2 DEF Shows, Shown
<1>4. SUFFICES ASSUME NEW m \in Nodes, Unbinds(m, <<c, g>>), AtWork(m)  PROVE FALSE
  <2>1. <<c, g>> \in air.bound \/ \E m \in Nodes : Unbinds(m, <<c, g>>) /\ Due(m, 0 + 1)
    <3> HIDE DEF c, g
    <3>1. QED  BY <1>1, <1>3 DEF BoundShown
  <2>2. \A m \in Nodes : Due(m, 0 + 1) => AtWork(m)
    BY DEF Due, TellsAt
  <2>3. QED  BY <2>1, <2>2
<1>5. OwnLink(m, work[m])
  BY <1>1, <1>4 DEF AtOwnLink
<1>6. m # n
  BY <1>4 DEF Unbinds
<1>7. CASE work[m].step = "unbind"
  <2>1. LinkControl[work[m].link] = c
    BY <1>4, <1>7 DEF Unbinds
  <2>2. ControlNode[LinkControl[work[m].link]] = m /\ ControlNode[c] = n
    BY <1>2, <1>5 DEF OwnLink
  <2>3. QED  BY <1>6, <2>1, <2>2
<1>8. CASE work[m].step = "drop"
  <2>1. g \in InPlay(m)
    BY <1>4, <1>8 DEF Unbinds, InPlay
  <2>2. QED  BY <1>1, <1>2, <1>4, <1>6, <2>1 DEF Apart
<1>9. QED  BY <1>4, <1>7, <1>8 DEF Unbinds

(* The group that the copy shows empty is, and everybody sees it so.       *)
LEMMA GroupIsEmpty ==
  ASSUME Sound, IsStream, adapter = "up", NEW n \in Nodes, AtWork(n), work[n].step = "leave",
         \A j \in 1..Len(stream) : TellsAt(n, j) => j = 1,
         Members(copy, work[n].via) = {}
  PROVE  Members(air, work[n].via) = {} /\ SeenEmpty(work[n].via)
<1> DEFINE g == work[n].via
<1>1. AtOwnLink /\ Apart /\ MembersShown
  BY DEF Sound, Tidy, Near
<1>2. g \in Managed /\ g \in InPlay(n)
  BY <1>1 DEF AtOwnLink, OwnLink, InPlay
<1>3. ASSUME NEW i \in 0..Len(stream), Shows(i, "groups")  PROVE Members(Shown(i), g) = Members(air, g)
  <2>1. SUFFICES ASSUME NEW m \in Nodes, Regroups(m, g), Due(m, i + 1)  PROVE FALSE
    BY <1>1, <1>2, <1>3 DEF MembersShown
  <2>2. AtWork(m)
    BY <2>1 DEF Due, TellsAt
  <2>3. CASE m = n
    <3>1. PICK j \in 1..Len(stream) : j > i + 1 /\ TellsAt(m, j)
      BY <2>1 DEF Due
    <3>2. j = 1
      BY <2>3, <3>1
    <3>3. QED  BY <3>1, <3>2
  <2>4. CASE m # n
    <3>1. g \in InPlay(m)
      BY <1>2, <2>1 DEF Regroups, GroupOf, InPlay, Touches
    <3>2. QED  BY <1>1, <1>2, <2>2, <2>4, <3>1 DEF Apart
  <2>5. QED  BY <2>3, <2>4
<1>4. 0 \in 0..Len(stream) /\ Shows(0, "groups") /\ Shown(0) = copy
  BY DEF Shows, Shown, IsStream
<1>5. Members(air, g) = {}
  BY <1>3, <1>4
<1>6. QED  BY <1>3, <1>5 DEF SeenEmpty

(* What follows from an answer is as promised. *)
LEMMA AnswerKeepsPromises ==
  ASSUME ZigbeeInv, Sound, Clear, adapter = "up", Delivered, NEW n \in Nodes,
         Head(stream).no = work[n].no, Answered(n, Head(stream))
  PROVE  Sound'
<1> DEFINE m == Head(stream)
           w == work[n]
<1>1. past \in PastType /\ w \in WorkType /\ IsStream /\ Tidy /\ AtOwnLink
  BY TypesAtHand DEF Sound, Tidy
<1>2. AtWork(n) /\ OwnLink(n, w)
  BY <1>1 DEF AtWork, AtOwnLink, Answered, BindAnswered, GroupStepFailed, Created, Joined, Left, Dropped,
     Asking
<1>3. m.ok => Done(n)
  <2>1. SUFFICES ASSUME m.ok  PROVE Done(n)
    OBVIOUS
  <2>2. PICK messages : stream \in Seq(messages) /\ True(messages)
    BY DEF Clear, ZigbeeInv, TrueStream
  <2>3. m \in messages
    BY <2>2 DEF Delivered, Popped
  <2>4. QED  BY <2>1, <2>2, <2>3 DEF True, Says, Delivered, Done
<1>4. \A j \in 1..Len(stream) : TellsAt(n, j) => j = 1
  BY <1>1, ToldOnce DEF Tidy
<1>5. Adds
  BY <1>1 DEF Tidy
<1> HIDE DEF m
<1>6. ASSUME NEW result, FinishWrite(n, w, result),
             \/ past' = past
             \/ past' = Promised(w, result, past) /\ (w.adding => result # "present")
                /\ (w.adding /\ result = "applied" => IsPresent(air, w.link))
      PROVE  Sound'
  <2>1. \/ past' = past
        \/ past' = [past EXCEPT !.promised = @ \cup {w.link}] /\ IsPresent(air, w.link)
    BY <1>6 DEF Promised
  <2>2. QED  BY <1>2, <1>6, <2>1, FinishKeepsPromises
<1>7. CASE BindAnswered(n, w, m.ok)
  <2>1. PICK result \in {"applied", "failed", "wakeup"} :
          /\ FinishWrite(n, w, result) /\ past' = Promised(w, result, past)
          /\ result = "applied" => m.ok
    BY <1>7 DEF BindAnswered
  <2>2. w.adding /\ result = "applied" => IsPresent(air, w.link)
    BY <1>2, <1>3, <1>5, <1>7, <2>1 DEF BindAnswered, OwnLink, Adds
  <2>3. QED  BY <1>6, <2>1, <2>2
<1>8. CASE GroupStepFailed(n, w, m.ok)
  BY <1>6, <1>8 DEF GroupStepFailed
<1>9. CASE Dropped(n, w, m.ok)
  BY <1>6, <1>9 DEF Dropped
<1>10. CASE Created(n, w, m.ok)
  <2>1. CASE ~m.ok
    BY <1>6, <1>10, <2>1 DEF Created
  <2>2. CASE m.ok
    <3>1. /\ w.step = "create" /\ UNCHANGED past
          /\ Ask(n, w, "join", LinkGroup[w.link], LinkTarget[w.link])
      BY <1>10, <2>2 DEF Created, JoinGroup, AskStale
    <3> DEFINE seen == [w EXCEPT !.step = "join"]
               q == [step |-> "join", who |-> LinkGroup[w.link], to |-> LinkTarget[w.link]]
    <3>2. /\ seen.step = "join" /\ seen.link = w.link /\ seen.adding = w.adding /\ seen.via = w.via
          /\ q.step = "join" /\ q.who = LinkGroup[w.link] /\ q.to = LinkTarget[w.link]
      BY <1>1 DEF WorkType
    <3>3. OwnLink(n, seen) /\ IsFor(q, seen)
      <4> HIDE DEF seen, q
      <4>1. QED  BY <1>2, <3>1, <3>2 DEF OwnLink, IsFor
    <3>4. QED  BY <1>2, <3>1, <3>3, AskKeepsPromises DEF Asking
  <2>3. QED  BY <2>1, <2>2
<1>11. CASE Joined(n, w, m.ok)
  <2> DEFINE g == LinkGroup[w.link]
             c == LinkControl[w.link]
  <2>1. w.step = "join" /\ LinkTarget[w.link] \in Members(air, g)
        /\ g \in Managed /\ LinkTarget[w.link] \notin ZGroups /\ w.link \in ZLinks /\ w.adding
    BY <1>2, <1>3, <1>5, <1>11 DEF Joined, Adds, OwnLink
  <2>2. CASE FinishWrite(n, w, "applied") /\ past' = Promised(w, "applied", past) /\ g \in Bound(copy, c)
    <3>1. <<c, g>> \in air.bound
      BY <1>1, <1>2, <2>1, <2>2, GroupIsBound
    <3>2. IsPresent(air, w.link)
      BY <2>1, <3>1, PresentMeans
    <3>3. QED  BY <1>6, <2>2, <3>2
  <2>3. CASE Ask(n, w, "bind", c, g) /\ UNCHANGED past
    <3> DEFINE seen == [w EXCEPT !.step = "bind"]
               q == [step |-> "bind", who |-> c, to |-> g]
    <3>2. /\ seen.step = "bind" /\ seen.link = w.link /\ seen.adding = w.adding /\ seen.via = w.via
          /\ q.step = "bind" /\ q.who = c /\ q.to = g
      BY <1>1 DEF WorkType
    <3>3. OwnLink(n, seen) /\ IsFor(q, seen)
      <4> HIDE DEF seen, q
      <4>1. QED  BY <1>2, <2>1, <3>2 DEF OwnLink, IsFor
    <3>4. QED  BY <1>2, <2>3, <3>3, AskKeepsPromises DEF Asking
  <2>4. QED  BY <1>11, <2>2, <2>3 DEF Joined, AskStale
<1>12. CASE Left(n, w, m.ok)
  <2>1. CASE FinishWrite(n, w, "applied") /\ UNCHANGED past
    BY <1>6, <2>1
  <2>2. CASE Ask(n, w, "drop", w.via, w.via) /\ UNCHANGED past /\ Members(copy, w.via) = {}
    <3>1. w.step = "leave" /\ w.via \in Managed /\ ~w.adding
      BY <1>2, <1>12 DEF Left, OwnLink
    <3>2. Members(air, w.via) = {} /\ SeenEmpty(w.via)
      BY <1>1, <1>2, <1>4, <2>2, <3>1, GroupIsEmpty
    <3> DEFINE seen == [w EXCEPT !.step = "drop"]
               q == [step |-> "drop", who |-> w.via, to |-> w.via]
    <3>3. /\ seen.step = "drop" /\ seen.link = w.link /\ seen.adding = w.adding /\ seen.via = w.via
          /\ q.step = "drop" /\ q.who = w.via /\ q.to = w.via
      BY <1>1 DEF WorkType
    <3>4. OwnLink(n, seen) /\ IsFor(q, seen)
      <4> HIDE DEF seen, q
      <4>1. QED  BY <1>2, <3>1, <3>3 DEF OwnLink, IsFor
    <3>5. QED  BY <1>2, <2>2, <3>1, <3>2, <3>4, AskKeepsPromises DEF Asking
  <2>3. QED  BY <1>12, <2>1, <2>2 DEF Left, AskStale
<1>13. QED
  <2>1. Answered(n, m)
    BY DEF m
  <2>2. QED  BY <1>7, <1>8, <1>9, <1>10, <1>11, <1>12, <2>1 DEF Answered

(* An answer is delivered, whether anybody waits for it or not.            *)
LEMMA ResponseKeepsPromises == ASSUME ZigbeeInv, PromiseInv, OnResponse PROVE PromiseInv'
<1>1. Delivered /\ UNCHANGED stateFirst
  BY DEF OnResponse, Delivered, Popped, Says
<1>2. SUFFICES ASSUME Clear'  PROVE Sound'
  BY DEF PromiseInv, Sound
<1>3. past \in PastType
  BY TypesAtHand
<1>4. past'.strayed = past.strayed /\ past'.crowded = past.crowded /\ past'.reused = past.reused
  <2>1. \/ past' = past \/ \E k : past' = [past EXCEPT !.promised = @ \cup {k}]
    BY DEF OnResponse, Answered, BindAnswered, GroupStepFailed, Created, Joined, Left, Dropped, Promised
  <2>2. QED  BY <1>3, <2>1 DEF PastType
<1>5. Clear /\ Sound /\ IsStream
  BY <1>1, <1>2, <1>4, TypesAtHand DEF Clear, PromiseInv, Sound
<1>6. adapter = "up"
  <2>1. adapter # "down"
    BY <1>1 DEF Delivered, Popped, ZigbeeInv, DownIsQuiet
  <2>2. adapter # "starting"
    BY <1>1, <1>5 DEF Sound, Starting, Delivered, Says, GroupList, DeviceList
  <2>3. QED  BY <1>5, <2>1, <2>2 DEF Sound, Shapes
<1>7. CASE UNCHANGED <<number, calls, work, past>>
  <2>1. Tidy'
    <3>1. MayPop /\ calls' \subseteq calls /\ number' = number /\ air' = air
      BY <1>1, <1>7 DEF MayPop, Delivered
    <3>2. past'.carried = past.carried /\ past'.reloads = past.reloads
      BY <1>7
    <3>3. \A n \in Nodes : Rests(n)
      BY <1>7 DEF Rests
    <3>4. QED  BY <1>5, <1>7, <3>1, <3>2, <3>3, RestingKeeps DEF Sound
  <2>2. Near' /\ Shapes' /\ Starting'
    BY <1>1, <1>5, <1>6, <1>7, AnswerLeavesNear DEF Sound
  <2>3. QED  BY <2>1, <2>2 DEF Sound
<1>8. ASSUME NEW n \in Awaiting(Head(stream).no), Answered(n, Head(stream))  PROVE Sound'
  <2>1. n \in Nodes /\ Head(stream).no = work[n].no
    BY <1>8 DEF Awaiting
  <2>2. QED  BY <1>1, <1>5, <1>6, <1>8, <2>1, AnswerKeepsPromises
<1>9. QED  BY <1>7, <1>8 DEF OnResponse

(* No step breaks the invariant.                                           *)
LEMMA PromiseStep == ZigbeeInv /\ PromiseInv /\ [ZigbeeNext]_zigbeeVars => PromiseInv'
<1> SUFFICES ASSUME ZigbeeInv, PromiseInv, [ZigbeeNext]_zigbeeVars PROVE PromiseInv'  OBVIOUS
<1>1. CASE UNCHANGED zigbeeVars
  <2>1. UNCHANGED <<air, copy, adapter, number, calls, stream, work, stateFirst, past>>
    BY <1>1 DEF zigbeeVars
  <2>2. \A n \in Nodes : Rests(n) /\ work'[n] = work[n]
    BY <2>1 DEF Rests
  <2>3. (Clear' <=> Clear) /\ past'.carried = past.carried /\ past'.reloads = past.reloads
    BY <2>1 DEF Clear
  <2>4. QED  BY <2>1, <2>2, <2>3, RestStep DEF PromiseInv, Sound
<1>2. CASE ZigbeeNext
  BY <1>2, WriteKeepsPromises, NoAnswerKeepsPromises, ReadingKeepsPromises, CarryingKeepsPromises,
     RefusalKeepsPromises, StateKeepsPromises, ResponseKeepsPromises, SetupKeepsPromises
  DEF ZigbeeNext
<1>3. QED  BY <1>1, <1>2

(* _bind and what follows it: what is promised is kept, given a bridge that *)
(* republishes before it answers, writes that do not meet in a group, and   *)
(* no request that is carried out too late.                                *)
THEOREM PromisesAreKept == ZigbeeSpec => []PromisesKept
<1>1. PromiseInv => PromisesKept
  BY DEF PromiseInv, Clear, Sound, Tidy, Kept, Safe, PromisesKept
<1>2. QED  BY <1>1, ZigbeeStart, ZigbeeStep, PromisesStart, PromiseStep, PTL DEF ZigbeeSpec

-----------------------------------------------------------------------------
(***************************************************************************)
(* Zigbee: a verified read shows the link as it is.  The newest list of    *)
(* each topic, whether it was read or is on its way, shows the network     *)
(* (UpToDate).  A device that had the bridge to itself from its write on   *)
(* has one request out at most.  If the bridge publishes first, nothing is *)
(* on its way any more when the answer was read (AnswersLast); if it       *)
(* answers first, what it publishes of the one request is, and the flag    *)
(* says so until it is read (AnswersFirst).                                *)
(***************************************************************************)
(* The newest list of a topic: the last in the stream, or else the copy.   *)
Newest(i, topic) ==
  Shows(i, topic) /\ \A j \in 1..Len(stream) : j > i => stream[j].topic # topic

UpToDate ==
  \A i \in 0..Len(stream) :
    /\ Newest(i, "devices") => Shown(i).bound = air.bound
    /\ Newest(i, "groups") => Shown(i).groups = air.groups

(* A coroutine whose write, or the read after it, is not over, and which   *)
(* had the bridge to itself from the write on.                             *)
Engaged(n) == work[n].step \notin {"idle", "read"}
Alone(n) == Engaged(n) /\ n \notin past.together

(* What a coroutine has asked so far is asked of this backend object.      *)
AskedSoFar ==
  \A n \in Nodes :
    /\ work[n].asked \subseteq {past.reloads} \X (1..number)
    /\ adapter = "down" => work[n].asked = {}
    /\ AtWork(n) => work[n].asked # {}
    /\ Engaged(n) => adapter = "up"
    /\ work[n].step # "read" => ~work[n].verified

(* One request is out at most, and while it is, nothing is on its way.     *)
OneCall == (\A q, r \in calls : q = r) /\ (calls # {} => stream = <<>>)

(* A bridge that answers last: with the answer everything is read.         *)
AnswersLast(n) ==
  IF AtWork(n)
  THEN OneCall /\ \A i \in 1..Len(stream) : Says(stream[i]) => i = Len(stream)
  ELSE calls = {} /\ stream = <<>>

(* A bridge that answers first: what it publishes of the one request is on *)
(* its way, and known to be.                                               *)
AnswersFirst(n) ==
  IF AtWork(n)
  THEN /\ OneCall /\ work[n].step # "drop"
       /\ \A q \in calls : q.no = work[n].no /\ q.step # "drop"
       /\ work[n].step # "create" => stale
       /\ stream # <<>> =>
            /\ Says(stream[1]) /\ stream[1].no = work[n].no
            /\ Len(stream) <= IF stream[1].ok THEN 2 ELSE 1
            /\ \A i \in 1..Len(stream) : i > 1 => ~Says(stream[i])
  ELSE /\ calls = {} /\ Len(stream) <= 1
       /\ \A i \in 1..Len(stream) : ~Says(stream[i])
       /\ stream # <<>> /\ work[n].step = "done" => stale

ToItself(n) ==
  /\ \A m \in Nodes : Engaged(m) => m = n
  /\ stateFirst => AnswersLast(n)
  /\ ~stateFirst /\ (\E x \in work[n].asked : work[n].asked = {x}) => AnswersFirst(n)

(* The newest lists, read or not, show the network.                        *)
Views ==
  /\ Shaped(air) /\ Shaped(copy) /\ IsStream
  /\ \A q \in calls : q.step \in Asking
  /\ adapter # "down" => UpToDate

InTurn == \A n \in Nodes : Alone(n) => ToItself(n)

ViewInv == Views /\ AskedSoFar /\ InTurn

(* Nothing was published, or heard: what was newest is newest.             *)
LEMMA NewestStays ==
  ASSUME UpToDate, UNCHANGED <<stream, copy, air>>
  PROVE  UpToDate'
BY DEF UpToDate, Newest, Shows, Shown

(* An answer was read: it says nothing of the network.                     *)
LEMMA NewestAfterAnswer ==
  ASSUME UpToDate, IsStream, Popped, Says(Head(stream)), UNCHANGED <<copy, air>>
  PROVE  UpToDate'
<1>1. /\ Len(stream) \in Nat /\ Len(stream) >= 1 /\ Len(stream') = Len(stream) - 1
      /\ stream[1].topic = "answer"
      /\ \A i \in 1..Len(stream') : i + 1 \in 1..Len(stream) /\ stream'[i] = stream[i + 1]
  BY PopMeans DEF Says
<1>2. ASSUME NEW i \in 0..Len(stream'), NEW topic \in {"devices", "groups"}, Newest(i, topic)'
      PROVE  \E k \in 0..Len(stream) : Newest(k, topic) /\ Shown(k) = Shown(i)'
  <2>1. \A j \in 1..Len(stream) : j > 1 => j - 1 \in 1..Len(stream') /\ stream'[j - 1] = stream[j]
    BY <1>1
  <2>2. \A j \in 1..Len(stream') : j > i => stream'[j].topic # topic
    BY <1>2 DEF Newest
  <2>3. CASE i = 0
    <3>1. \A j \in 1..Len(stream) : stream[j].topic # topic
      <4>1. SUFFICES ASSUME NEW j \in 1..Len(stream)  PROVE stream[j].topic # topic
        OBVIOUS
      <4>2. CASE j = 1
        BY <1>1, <4>2
      <4>3. CASE j > 1
        <5>1. j - 1 > 0
          BY <1>1, <4>3
        <5>2. QED  BY <2>1, <2>2, <2>3, <4>3, <5>1
      <4>4. QED  BY <1>1, <4>2, <4>3
    <3>2. Newest(0, topic) /\ Shown(0) = Shown(i)'
      BY <2>3, <3>1 DEF Newest, Shows, Shown
    <3>3. QED  BY <1>1, <3>2
  <2>4. CASE i > 0
    <3>1. i + 1 \in 1..Len(stream) /\ stream'[i] = stream[i + 1] /\ stream'[i].topic = topic /\ i # 0 /\ i + 1 # 0
      BY <1>1, <1>2, <2>4 DEF Newest, Shows
    <3>2. ASSUME NEW j \in 1..Len(stream), j > i + 1  PROVE stream[j].topic # topic
      <4>1. j > 1 /\ j - 1 > i
        BY <1>1, <2>4, <3>2
      <4>2. QED  BY <2>1, <2>2, <4>1
    <3>3. Newest(i + 1, topic) /\ Shown(i + 1) = Shown(i)'
      BY <3>1, <3>2 DEF Newest, Shows, Shown
    <3>4. QED  BY <1>1, <3>1, <3>3
  <2>5. QED  BY <1>1, <2>3, <2>4
<1>3. QED  BY <1>2 DEF UpToDate

(* A list was read: what it said is now in the copy.                       *)
LEMMA NewestAfterState ==
  ASSUME UpToDate, IsStream, Popped, Shaped(copy), UNCHANGED air, NEW topic \in {"devices", "groups"},
         Head(stream).topic = topic,
         copy' = IF topic = "devices" THEN [copy EXCEPT !.bound = Head(stream).bound]
                 ELSE [copy EXCEPT !.groups = Head(stream).groups]
  PROVE  UpToDate' /\ Shaped(copy)'
<1>1. /\ Len(stream) \in Nat /\ Len(stream) >= 1 /\ Len(stream') = Len(stream) - 1
      /\ Head(stream) = stream[1]
      /\ \A i \in 1..Len(stream') : i + 1 \in 1..Len(stream) /\ stream'[i] = stream[i + 1]
  BY PopMeans
<1>2. \A j \in 1..Len(stream) : j > 1 => j - 1 \in 1..Len(stream') /\ stream'[j - 1] = stream[j]
  BY <1>1
<1>3. /\ Shaped(copy)'
      /\ copy'.bound = (IF topic = "devices" THEN stream[1].bound ELSE copy.bound)
      /\ copy'.groups = (IF topic = "groups" THEN stream[1].groups ELSE copy.groups)
  BY <1>1 DEF Shaped
<1>4. ASSUME NEW i \in 0..Len(stream'), NEW t \in {"devices", "groups"}, Newest(i, t)'
      PROVE  \E k \in 0..Len(stream) : /\ Newest(k, t)
                                       /\ t = "devices" => Shown(k).bound = Shown(i)'.bound
                                       /\ t = "groups" => Shown(k).groups = Shown(i)'.groups
  <2>1. \A j \in 1..Len(stream') : j > i => stream'[j].topic # t
    BY <1>4 DEF Newest
  <2>2. ASSUME NEW j \in 1..Len(stream), j > i + 1  PROVE stream[j].topic # t
    <3>1. j > 1 /\ j - 1 > i
      BY <1>1, <2>2
    <3>2. QED  BY <1>2, <2>1, <3>1
  <2>3. CASE i = 0 /\ t = topic
    <3>1. Newest(1, t)
      <4>1. \A j \in 1..Len(stream) : j > 1 => stream[j].topic # t
        BY <2>2, <2>3
      <4>2. 1 \in 1..Len(stream) /\ stream[1].topic = t
        BY <1>1, <2>3
      <4>3. QED  BY <4>1, <4>2 DEF Newest, Shows
    <3>2. QED  BY <1>1, <1>3, <2>3, <3>1 DEF Shown
  <2>4. CASE i = 0 /\ t # topic
    <3>1. Newest(0, t)
      <4>1. ASSUME NEW j \in 1..Len(stream)  PROVE stream[j].topic # t
        <5>1. CASE j = 1
          BY <1>1, <2>4, <5>1
        <5>2. CASE j > 1
          BY <2>2, <2>4, <5>2
        <5>3. QED  BY <1>1, <5>1, <5>2
      <4>2. QED  BY <4>1 DEF Newest, Shows
    <3>2. QED  BY <1>1, <1>3, <2>4, <3>1 DEF Shown
  <2>5. CASE i > 0
    <3>1. i + 1 \in 1..Len(stream) /\ stream'[i] = stream[i + 1] /\ stream'[i].topic = t /\ i # 0 /\ i + 1 # 0
      BY <1>1, <1>4, <2>5 DEF Newest, Shows
    <3>2. Newest(i + 1, t) /\ Shown(i + 1) = Shown(i)'
      BY <2>2, <3>1 DEF Newest, Shows, Shown
    <3>3. QED  BY <1>1, <3>1, <3>2
  <2>6. QED  BY <1>1, <2>3, <2>4, <2>5
<1>5. UpToDate'
  BY <1>4 DEF UpToDate
<1>6. QED  BY <1>3, <1>5

(* The bridge has published what the network has become.                   *)
LEMMA NewestAfterCarrying ==
  ASSUME UpToDate, IsStream, UNCHANGED copy, NEW S, NEW more \in Seq(S), stream' = stream \o more,
         \A k \in 1..Len(more) : /\ more[k].topic = "devices" => more[k].bound = air'.bound
                                 /\ more[k].topic = "groups" => more[k].groups = air'.groups,
         air'.bound = air.bound \/ \E k \in 1..Len(more) : more[k].topic = "devices",
         air'.groups = air.groups \/ \E k \in 1..Len(more) : more[k].topic = "groups"
  PROVE  UpToDate'
<1>1. /\ Len(stream) \in Nat /\ Len(more) \in Nat /\ Len(stream') = Len(stream) + Len(more)
      /\ \A i \in 1..Len(stream) : stream'[i] = stream[i]
      /\ \A k \in 1..Len(more) : stream'[Len(stream) + k] = more[k]
      /\ \A i \in 1..Len(stream') : i \in 1..Len(stream)
                                    \/ (i - Len(stream) \in 1..Len(more) /\ stream'[i] = more[i - Len(stream)])
  BY GrowMeans
<1>2. ASSUME NEW i \in 0..Len(stream'), NEW t \in {"devices", "groups"}, Newest(i, t)'
      PROVE  \/ /\ i \in 0..Len(stream) /\ Newest(i, t) /\ Shown(i)' = Shown(i)
                /\ \A k \in 1..Len(more) : more[k].topic # t
             \/ \E k \in 1..Len(more) : Shown(i)' = more[k] /\ more[k].topic = t
  <2>1. \A j \in 1..Len(stream') : j > i => stream'[j].topic # t
    BY <1>2 DEF Newest
  <2>2. CASE i \in 0..Len(stream)
    <3>1. \A k \in 1..Len(more) : more[k].topic # t
      <4>1. SUFFICES ASSUME NEW k \in 1..Len(more)  PROVE more[k].topic # t
        OBVIOUS
      <4>2. Len(stream) + k \in 1..Len(stream') /\ Len(stream) + k > i
        BY <1>1, <2>2
      <4>3. QED  BY <1>1, <2>1, <4>2
    <3>2. \A j \in 1..Len(stream) : j > i => stream[j].topic # t
      <4>1. \A j \in 1..Len(stream) : j \in 1..Len(stream')
        BY <1>1
      <4>2. QED  BY <1>1, <2>1, <4>1
    <3>3. Shows(i, t) /\ Shown(i)' = Shown(i)
      <4>1. CASE i = 0
        BY <4>1 DEF Shows, Shown
      <4>2. CASE i # 0
        <5>1. i \in 1..Len(stream)
          BY <1>1, <2>2, <4>2
        <5>2. stream'[i].topic = t
          BY <1>2, <4>2 DEF Newest, Shows
        <5>3. QED  BY <1>1, <4>2, <5>1, <5>2 DEF Shows, Shown
      <4>3. QED  BY <4>1, <4>2
    <3>4. QED  BY <2>2, <3>1, <3>2, <3>3 DEF Newest
  <2>3. CASE i \notin 0..Len(stream)
    <3>1. i # 0 /\ i - Len(stream) \in 1..Len(more) /\ stream'[i] = more[i - Len(stream)]
      BY <1>1, <2>3
    <3>2. stream'[i].topic = t
      BY <1>2, <3>1 DEF Newest, Shows
    <3>3. QED  BY <3>1, <3>2 DEF Shown
  <2>4. QED  BY <2>2, <2>3
<1>3. QED  BY <1>2 DEF UpToDate

(* With no list on its way, the copy is the network.                       *)
LEMMA CopyIsAir ==
  ASSUME UpToDate, Shaped(copy), Shaped(air), stream = <<>>
  PROVE  copy = air
<1>1. Newest(0, "devices") /\ Newest(0, "groups") /\ Shown(0) = copy /\ 0 \in 0..Len(stream)
  BY DEF Newest, Shows, Shown
<1>2. QED  BY <1>1 DEF UpToDate, Shaped

(* What the bridge publishes of a request it carries out, or refuses.      *)
LEMMA CarryingPublishes ==
  ASSUME NEW q, q.step \in Asking, Shaped(air), adapter # "down", BridgeCarries(q)
  PROVE  /\ Shaped(air)'
         /\ \E S : \E more \in Seq(S) :
              /\ stream' = stream \o more
              /\ \A k \in 1..Len(more) : /\ more[k].topic = "devices" => more[k].bound = air'.bound
                                         /\ more[k].topic = "groups" => more[k].groups = air'.groups
              /\ air'.bound = air.bound \/ \E k \in 1..Len(more) : more[k].topic = "devices"
              /\ air'.groups = air.groups \/ \E k \in 1..Len(more) : more[k].topic = "groups"
              /\ stateFirst => \A k \in 1..Len(more) : Says(more[k]) => k = Len(more)
              /\ ~stateFirst /\ q.step # "drop" =>
                   Len(more) = 2 /\ more[1] = Answer(q, TRUE) /\ ~Says(more[2])
<1> DEFINE s == Carried(air, q)
           answer == Answer(q, TRUE)
           devices == DeviceList(s)
           groups == GroupList(s)
           all == {answer, devices, groups}
           lists == Republished(s, q)
           more == IF stateFirst THEN Append(lists, answer) ELSE <<answer>> \o lists
<1>1. /\ air' = s /\ stream' = stream \o more /\ Possible(q)
  BY DEF BridgeCarries, Streamed
<1>2. /\ Shaped(s)
      /\ q.step \notin {"bind", "unbind", "drop"} => s.bound = air.bound
  BY <1>1, CarriedMeans
<1>3. q.step \in {"bind", "unbind"} => s.groups = air.groups
  BY DEF Carried, Shaped
<1>4. /\ answer.topic = "answer"
      /\ devices.topic = "devices" /\ devices.bound = s.bound
      /\ groups.topic = "groups" /\ groups.groups = s.groups
  BY DEF Answer, DeviceList, GroupList
<1>5. lists = IF q.step \in {"bind", "unbind"} THEN <<devices>>
              ELSE IF q.step = "drop" THEN <<groups, devices>> ELSE <<groups>>
  BY DEF Republished, Asking
<1> HIDE DEF answer, devices, groups, s
<1>6. /\ lists \in Seq(all) /\ Len(lists) \in {1, 2} /\ (q.step # "drop" => Len(lists) = 1)
      /\ \A k \in 1..Len(lists) : lists[k] \in {devices, groups}
      /\ q.step \in {"bind", "unbind", "drop"} => lists[Len(lists)] = devices
      /\ q.step \notin {"bind", "unbind"} => lists[1] = groups
  <2> HIDE DEF lists
  <2>1. CASE q.step \in {"bind", "unbind"}
    <3>1. lists = <<devices>>
      BY <1>5, <2>1
    <3>2. QED  BY <2>1, <3>1
  <2>2. CASE q.step = "drop"
    <3>1. lists = <<groups, devices>>
      BY <1>5, <2>2
    <3>2. QED  BY <2>2, <3>1
  <2>3. CASE q.step \notin {"bind", "unbind", "drop"}
    <3>1. lists = <<groups>>
      BY <1>5, <2>3
    <3>2. QED  BY <2>3, <3>1
  <2>4. QED  BY <2>1, <2>2, <2>3
<1> HIDE DEF lists
<1>7. /\ more \in Seq(all) /\ Len(more) = Len(lists) + 1
      /\ IF stateFirst THEN /\ more[Len(more)] = answer
                            /\ \A k \in 1..Len(lists) : more[k] = lists[k]
         ELSE more[1] = answer /\ \A k \in 1..Len(lists) : more[k + 1] = lists[k]
  <2>1. CASE stateFirst
    BY <1>6, <2>1, AppendMeans
  <2>2. CASE ~stateFirst
    <3>1. <<answer>> \in Seq(all) /\ Len(<<answer>>) = 1 /\ <<answer>>[1] = answer
      OBVIOUS
    <3> DEFINE first == <<answer>>
    <3> HIDE DEF first, all
    <3>2. /\ first \o lists \in Seq(all) /\ Len(first \o lists) = Len(lists) + 1
          /\ \A i \in 1..Len(lists) + 1 :
               (first \o lists)[i] = IF i <= 1 THEN first[i] ELSE lists[i - 1]
      BY <1>6, <3>1 DEF first
    <3>3. QED  BY <1>6, <2>2, <3>1, <3>2 DEF first
  <2>3. QED  BY <2>1, <2>2
<1> DEFINE Right(seq) ==
      /\ \A k \in 1..Len(seq) : /\ seq[k].topic = "devices" => seq[k].bound = s.bound
                                /\ seq[k].topic = "groups" => seq[k].groups = s.groups
      /\ s.bound = air.bound \/ \E k \in 1..Len(seq) : seq[k].topic = "devices"
      /\ s.groups = air.groups \/ \E k \in 1..Len(seq) : seq[k].topic = "groups"
      /\ stateFirst => \A k \in 1..Len(seq) : Says(seq[k]) => k = Len(seq)
      /\ ~stateFirst /\ q.step # "drop" => Len(seq) = 2 /\ seq[1] = answer /\ ~Says(seq[2])
<1>8. Right(more)
  <2> HIDE DEF more
  <2>1. \A k \in 1..Len(more) :
          more[k] = IF stateFirst THEN IF k = Len(more) THEN answer ELSE lists[k]
                    ELSE IF k = 1 THEN answer ELSE lists[k - 1]
    BY <1>6, <1>7
  <2>2. \A k \in 1..Len(more) :
          IF k = (IF stateFirst THEN Len(more) ELSE 1) THEN more[k] = answer
          ELSE more[k] \in {devices, groups}
    BY <1>6, <1>7, <2>1
  <2>3. \E k \in 1..Len(more) : more[k] = lists[1]
    BY <1>6, <1>7
  <2>4. \E k \in 1..Len(more) : more[k] = lists[Len(lists)]
    BY <1>6, <1>7
  <2>5. s.bound = air.bound \/ \E k \in 1..Len(more) : more[k].topic = "devices"
    BY <1>2, <1>4, <1>6, <2>4
  <2>6. s.groups = air.groups \/ \E k \in 1..Len(more) : more[k].topic = "groups"
    BY <1>3, <1>4, <1>6, <2>3
  <2>7. /\ stateFirst => \A k \in 1..Len(more) : Says(more[k]) => k = Len(more)
        /\ ~stateFirst /\ q.step # "drop" => Len(more) = 2 /\ more[1] = answer /\ ~Says(more[2])
    BY <1>4, <1>6, <1>7, <2>2 DEF Says
  <2>8. \A k \in 1..Len(more) : /\ more[k].topic = "devices" => more[k].bound = s.bound
                                /\ more[k].topic = "groups" => more[k].groups = s.groups
    BY <1>4, <2>2
  <2>9. QED  BY <2>5, <2>6, <2>7, <2>8
<1> HIDE DEF more, all
<1>9. /\ stream' = stream \o more /\ more \in Seq(all) /\ air' = s /\ Shaped(s)
  BY <1>1, <1>2, <1>7
<1>10. QED  BY <1>8, <1>9 DEF answer

(* Nothing is published of a request that is refused but the answer. *)
LEMMA RefusalPublishes ==
  ASSUME NEW q, adapter # "down", BridgeRefuses(q)
  PROVE  /\ UNCHANGED air /\ stream' = stream \o <<Answer(q, FALSE)>>
         /\ Says(Answer(q, FALSE)) /\ ~Answer(q, FALSE).ok /\ Answer(q, FALSE).no = q.no
BY DEF BridgeRefuses, Streamed, Says, Answer

(* A write starts: it ends at once, or asks for something.                 *)
LEMMA WriteBegins ==
  ASSUME ZigbeeInv, NEW l \in ZLinks, NEW adding \in BOOLEAN, WriteLink(l, adding)
  PROVE  LET n == ControlNode[LinkControl[l]] IN
         /\ n \in Nodes
         /\ past'.reloads = past.reloads
         /\ past'.together = Others(n) \cup IF calls = {} /\ stream = <<>> /\ Others(n) = {}
                                            THEN past.together \ {n} ELSE past.together \cup {n}
         /\ \E w \in WorkType :
              /\ ~w.verified /\ work' = [work EXCEPT ![n] = w]
              /\ \/ /\ w.step = "done" /\ w.asked = {} /\ UNCHANGED <<calls, number>>
                 \/ /\ w.step \in Asking \ {"drop"} /\ w.no = number + 1
                    /\ w.asked = {<<past.reloads, number + 1>>} /\ number' = number + 1
                    /\ w.step # "create" => stale'
                    /\ \E q : calls' = calls \cup {q} /\ q.step = w.step /\ q.no = number + 1
<1> DEFINE n == ControlNode[LinkControl[l]]
           w == [Resting EXCEPT !.link = l, !.adding = adding]
           h == Started(l, adding)
           others == Others(n) \cup IF calls = {} /\ stream = <<>> /\ Others(n) = {}
                                    THEN past.together \ {n} ELSE past.together \cup {n}
<1>1. n \in Nodes
  BY ZigbeeAssumption
<1>2. w \in WorkType /\ w.asked = {} /\ ~w.verified
  BY DEF Resting, WorkType
<1>3. h \in PastType /\ h.reloads = past.reloads /\ h.together = others
  <2>1. past \in PastType
    BY DEF ZigbeeInv, WorkTyped
  <2>2. h \in PastType /\ h.reloads = past.reloads
    BY StartedTyped
  <2>3. h.together = others
    BY <2>1 DEF Started, PastType
  <2>4. QED  BY <2>2, <2>3
<1>4. number \in Nat /\ past.reloads \in Nat
  BY DEF ZigbeeInv, WorkTyped, PastType
<1>5. ASSUME NEW result \in {"blocked", "raised", "present"},
             FinishWrite(n, w, result), past' = Promised(w, result, h)
      PROVE  /\ past'.reloads = past.reloads /\ past'.together = others
             /\ UNCHANGED <<calls, number>>
             /\ \E v \in WorkType : ~v.verified /\ work' = [work EXCEPT ![n] = v] /\ v.step = "done" /\ v.asked = {}
  <2> DEFINE v == [w EXCEPT !.step = "done", !.no = 0, !.result = result]
  <2> HIDE DEF n, h, others, w
  <2>1. v \in WorkType /\ v.step = "done" /\ v.asked = {} /\ ~v.verified
    BY <1>2 DEF WorkType
  <2>2. past'.reloads = past.reloads /\ past'.together = others
    BY <1>3, <1>5 DEF Promised, PastType
  <2>3. work' = [work EXCEPT ![n] = v] /\ UNCHANGED <<calls, number>>
    BY <1>5 DEF FinishWrite
  <2>4. QED  BY <2>1, <2>2, <2>3
<1>6. ASSUME NEW u \in WorkType, u.asked = {}, ~u.verified, NEW step \in Asking \ {"drop"}, NEW who, NEW to,
             Ask(n, u, step, who, to)
      PROVE  \E v \in WorkType :
               /\ ~v.verified /\ work' = [work EXCEPT ![n] = v]
               /\ v.step = step /\ v.no = number + 1 /\ v.asked = {<<past.reloads, number + 1>>}
               /\ number' = number + 1
               /\ \E q : calls' = calls \cup {q} /\ q.step = step /\ q.no = number + 1
  <2> DEFINE q == [step |-> step, who |-> who, to |-> to, no |-> number + 1, epoch |-> past.reloads]
             v == [u EXCEPT !.step = step, !.no = q.no, !.asked = @ \cup {<<q.epoch, q.no>>}]
  <2> HIDE DEF n
  <2>1. calls' = calls \cup {q} /\ number' = number + 1 /\ work' = [work EXCEPT ![n] = v]
    BY <1>6 DEF Ask
  <2>2. q.step = step /\ q.no = number + 1 /\ q.epoch = past.reloads
    OBVIOUS
  <2>3. {<<past.reloads, number + 1>>} \in SUBSET Numbers /\ number + 1 \in Nat
    BY <1>4 DEF Numbers
  <2> HIDE DEF q
  <2>4. v = [u EXCEPT !.step = step, !.no = number + 1, !.asked = {<<past.reloads, number + 1>>}]
    BY <1>6, <2>2
  <2> HIDE DEF v
  <2>5. v \in WorkType /\ v.step = step /\ v.no = number + 1
        /\ v.asked = {<<past.reloads, number + 1>>} /\ ~v.verified
    BY <1>6, <2>3, <2>4 DEF WorkType
  <2>6. QED  BY <2>1, <2>2, <2>5
<1>7. \/ \E result \in {"blocked", "raised", "present"} :
            FinishWrite(n, w, result) /\ past' = Promised(w, result, h)
      \/ past' = h /\ (PutOn(n, w) \/ TakeOff(n, w))
  BY DEF WriteLink
<1>8. PutOn(n, w) \/ TakeOff(n, w) =>
        \E u \in WorkType, step \in Asking \ {"drop"} : \E who, to :
          u.asked = {} /\ ~u.verified /\ Ask(n, u, step, who, to) /\ (step # "create" => stale')
  <2>1. CASE PutOn(n, w)
    <3> HIDE DEF n, w
    <3>1. \E step \in Asking \ {"drop"} : \E who, to : Ask(n, w, step, who, to) /\ (step # "create" => stale')
      BY <2>1 DEF PutOn, AskStale, JoinGroup, Asking
    <3>2. QED  BY <1>2, <3>1
  <2>2. CASE TakeOff(n, w) /\ \E who, to : Ask(n, w, "unbind", who, to) /\ stale'
    <3> HIDE DEF n, w
    <3>1. "unbind" \in Asking \ {"drop"}
      BY DEF Asking
    <3>2. QED  BY <1>2, <2>2, <3>1
  <2>3. CASE \E g \in GroupHolding(copy, l) :
               \E who, to : Ask(n, [w EXCEPT !.via = g], "leave", who, to) /\ stale'
    <3>1. PICK g \in GroupHolding(copy, l) :
            \E who, to : Ask(n, [w EXCEPT !.via = g], "leave", who, to) /\ stale'
      BY <2>3
    <3>2. g \in ZGroups
      BY DEF GroupHolding, ZGroups
    <3> DEFINE u == [w EXCEPT !.via = g]
    <3> HIDE DEF w, n
    <3>3. u \in WorkType /\ u.asked = {} /\ ~u.verified
      BY <1>2, <3>2 DEF WorkType
    <3>4. "leave" \in Asking \ {"drop"}
      BY DEF Asking
    <3> HIDE DEF u
    <3>5. \E who, to : Ask(n, u, "leave", who, to) /\ stale'
      BY <3>1 DEF u
    <3>6. QED  BY <3>3, <3>4, <3>5
  <2>4. w.link = l
    BY DEF Resting
  <2>5. TakeOff(n, w) => \/ \E who, to : Ask(n, w, "unbind", who, to) /\ stale'
                         \/ \E g \in GroupHolding(copy, l) :
                              \E who, to : Ask(n, [w EXCEPT !.via = g], "leave", who, to) /\ stale'
    <3> HIDE DEF n, w
    <3>1. QED  BY <2>4 DEF TakeOff, AskStale
  <2>6. QED  BY <2>1, <2>2, <2>3, <2>5
<1> HIDE DEF n, w, h, others
<1>9. /\ past'.reloads = past.reloads /\ past'.together = others
      /\ \E v \in WorkType :
              /\ ~v.verified /\ work' = [work EXCEPT ![n] = v]
              /\ \/ /\ v.step = "done" /\ v.asked = {} /\ UNCHANGED <<calls, number>>
                 \/ /\ v.step \in Asking \ {"drop"} /\ v.no = number + 1
                    /\ v.asked = {<<past.reloads, number + 1>>} /\ number' = number + 1
                    /\ v.step # "create" => stale'
                    /\ \E q : calls' = calls \cup {q} /\ q.step = v.step /\ q.no = number + 1
  <2>1. CASE \E result \in {"blocked", "raised", "present"} :
               FinishWrite(n, w, result) /\ past' = Promised(w, result, h)
    BY <1>5, <2>1
  <2>2. CASE past' = h /\ (PutOn(n, w) \/ TakeOff(n, w))
    <3>1. PICK u \in WorkType, step \in Asking \ {"drop"} : \E who, to :
            u.asked = {} /\ ~u.verified /\ Ask(n, u, step, who, to) /\ (step # "create" => stale')
      BY <1>8, <2>2
    <3>2. PICK v \in WorkType :
               /\ ~v.verified /\ work' = [work EXCEPT ![n] = v]
               /\ v.step = step /\ v.no = number + 1 /\ v.asked = {<<past.reloads, number + 1>>}
               /\ number' = number + 1
               /\ \E q : calls' = calls \cup {q} /\ q.step = step /\ q.no = number + 1
      BY <1>6, <3>1
    <3>3. QED  BY <1>3, <2>2, <3>1, <3>2
  <2>3. QED  BY <1>7, <2>1, <2>2
<1>10. QED  BY <1>1, <1>9 DEF n, others

(* What has been asked is not asked anew by who goes on or stops.          *)
LEMMA AskedStays ==
  ASSUME AskedSoFar, number \in Nat, number' = number, past'.reloads = past.reloads,
         adapter' = "down" => adapter = "down", adapter = "up" => adapter' = "up",
         \A n \in Nodes : \/ work'[n] = work[n]
                          \/ /\ work'[n].asked = work[n].asked /\ ~AtWork(n)'
                             /\ Engaged(n)' => Engaged(n)
                             /\ work'[n].step # "read" => ~work'[n].verified
  PROVE  AskedSoFar'
BY DEF AskedSoFar, Engaged, AtWork

LEMMA WriteKeepsView ==
  ASSUME ZigbeeInv, ViewInv, NEW l \in ZLinks, NEW adding \in BOOLEAN, WriteLink(l, adding)
  PROVE  ViewInv'
<1> DEFINE n == ControlNode[LinkControl[l]]
<1>1. /\ adapter = "up" /\ UNCHANGED <<air, copy, adapter, stream, stateFirst>>
      /\ number \in Nat /\ past.reloads \in Nat /\ work \in [Nodes -> WorkType]
  BY DEF WriteLink, ZigbeeInv, WorkTyped, PastType
<1>2. /\ n \in Nodes /\ past'.reloads = past.reloads
      /\ past'.together = Others(n) \cup IF calls = {} /\ stream = <<>> /\ Others(n) = {}
                                         THEN past.together \ {n} ELSE past.together \cup {n}
  BY WriteBegins
<1>3. PICK w \in WorkType :
              /\ ~w.verified /\ work' = [work EXCEPT ![n] = w]
              /\ \/ /\ w.step = "done" /\ w.asked = {} /\ UNCHANGED <<calls, number>>
                 \/ /\ w.step \in Asking \ {"drop"} /\ w.no = number + 1
                    /\ w.asked = {<<past.reloads, number + 1>>} /\ number' = number + 1
                    /\ w.step # "create" => stale'
                    /\ \E q : calls' = calls \cup {q} /\ q.step = w.step /\ q.no = number + 1
  BY WriteBegins
<1> HIDE DEF n
<1>4. work'[n] = w /\ \A m \in Nodes \ {n} : work'[m] = work[m]
  BY <1>1, <1>2, <1>3
<1>5. Views'
  <2>1. UpToDate'
    BY <1>1, NewestStays DEF ViewInv, Views
  <2>2. \A q \in calls' : q.step \in Asking
    BY <1>3 DEF ViewInv, Views
  <2>3. Shaped(air)' /\ Shaped(copy)' /\ IsStream'
    BY <1>1 DEF ViewInv, Views, Shaped, IsStream
  <2>4. QED  BY <2>1, <2>2, <2>3 DEF Views
<1>6. AskedSoFar'
  <2>1. number' \in Nat /\ number <= number' /\ w.asked \subseteq {past.reloads} \X (1..number')
    BY <1>1, <1>3
  <2>2. ASSUME NEW m \in Nodes
        PROVE  /\ work'[m].asked \subseteq {past'.reloads} \X (1..number')
               /\ AtWork(m)' => work'[m].asked # {}
               /\ work'[m].step # "read" => ~work'[m].verified
    <3>1. CASE m = n
      BY <1>2, <1>3, <1>4, <2>1, <3>1 DEF AtWork, Asking
    <3>2. CASE m # n
      <4>1. work'[m] = work[m] /\ 1..number \subseteq 1..number'
        BY <1>1, <1>4, <2>1, <3>2
      <4>2. QED  BY <1>2, <4>1 DEF ViewInv, AskedSoFar, AtWork
    <3>3. QED  BY <3>1, <3>2
  <2>3. QED  BY <1>1, <2>2 DEF AskedSoFar
<1>7. InTurn'
  <2>1. SUFFICES ASSUME NEW m \in Nodes, Alone(m)'  PROVE ToItself(m)'
    BY DEF InTurn
  <2>2. m = n
    <3>1. SUFFICES ASSUME m # n  PROVE FALSE
      OBVIOUS
    <3>2. m \in Others(n)
      BY <1>4, <2>1, <3>1 DEF Alone, Engaged, Others
    <3>3. QED  BY <1>2, <2>1, <3>2 DEF Alone
  <2>3. calls = {} /\ stream = <<>> /\ Others(n) = {}
    BY <1>2, <2>1, <2>2 DEF Alone
  <2>4. \A k \in Nodes : Engaged(k)' => k = n
    BY <1>4, <2>3 DEF Engaged, Others
  <2>5. stream' = <<>> /\ Len(stream') = 0
    BY <1>1, <2>3
  <2>6. CASE w.step = "done" /\ UNCHANGED calls
    <3>1. ~AtWork(n)'
      BY <1>4, <2>6 DEF AtWork, Asking
    <3>2. QED  BY <2>2, <2>3, <2>4, <2>5, <2>6, <3>1 DEF ToItself, AnswersLast, AnswersFirst
  <2>7. CASE /\ w.step \in Asking \ {"drop"} /\ w.no = number + 1 /\ (w.step # "create" => stale')
             /\ \E q : calls' = calls \cup {q} /\ q.step = w.step /\ q.no = number + 1
    <3>1. PICK q : calls' = {q} /\ q.step = w.step /\ q.no = number + 1
      BY <2>3, <2>7
    <3>2. AtWork(n)' /\ OneCall'
      BY <1>4, <2>5, <2>7, <3>1 DEF AtWork, OneCall
    <3>3. AnswersLast(n)'
      BY <2>5, <3>2 DEF AnswersLast
    <3>4. AnswersFirst(n)'
      BY <1>4, <2>5, <2>7, <3>1, <3>2 DEF AnswersFirst
    <3>5. QED  BY <2>2, <2>4, <3>3, <3>4 DEF ToItself
  <2>8. QED  BY <1>3, <2>6, <2>7
<1>8. QED  BY <1>5, <1>6, <1>7 DEF ViewInv

(* Too late: who gives up is no longer alone with the bridge.              *)
LEMMA NoAnswerKeepsView ==
  ASSUME ZigbeeInv, ViewInv, NEW n \in Nodes, NoAnswer(n)  PROVE ViewInv'
<1> DEFINE result == IF work[n].step \in {"bind", "unbind"} /\ n \in Asleep THEN "wakeup" ELSE "failed"
           w == [work[n] EXCEPT !.step = "done", !.no = 0, !.result = result]
<1>1. /\ work' = [work EXCEPT ![n] = w] /\ calls' \subseteq calls /\ Busy(n)
      /\ UNCHANGED <<air, copy, adapter, number, stream, stateFirst>>
      /\ past' = [OneMore EXCEPT !.together = @ \cup {n},
                          !.strayed = @ \/ <<past.reloads, work[n].no>> \in past.carried]
  BY DEF NoAnswer
<1>2. work \in [Nodes -> WorkType] /\ number \in Nat /\ past \in PastType
  BY DEF ZigbeeInv, WorkTyped
<1>3. past'.reloads = past.reloads /\ past'.together = past.together \cup {n}
  BY <1>1, <1>2 DEF PastType, OneMore
<1>4. w.step = "done" /\ w.asked = work[n].asked /\ w.verified = work[n].verified
  BY <1>2 DEF WorkType
<1>5. Engaged(n)
  BY <1>1 DEF Busy, Engaged
<1> HIDE DEF w
<1>6. work'[n] = w /\ \A m \in Nodes \ {n} : work'[m] = work[m]
  BY <1>1, <1>2
<1>7. Views'
  BY <1>1, NewestStays DEF ViewInv, Views, Shaped, IsStream
<1>8. AskedSoFar'
  <2>1. ~AtWork(n)' /\ ~w.verified
    BY <1>4, <1>5, <1>6 DEF AtWork, Asking, ViewInv, AskedSoFar, Engaged
  <2>2. QED  BY <1>1, <1>2, <1>3, <1>4, <1>5, <1>6, <2>1, AskedStays DEF ViewInv
<1>9. InTurn'
  <2>1. SUFFICES ASSUME NEW m \in Nodes, Alone(m)'  PROVE FALSE
    BY DEF InTurn
  <2>2. m # n /\ Alone(m)
    BY <1>3, <1>6, <2>1 DEF Alone, Engaged
  <2>3. QED  BY <1>5, <2>2 DEF ViewInv, InTurn, ToItself
<1>10. QED  BY <1>7, <1>8, <1>9 DEF ViewInv

(* The bridge takes the one request there is, and says so in its order.    *)
LEMMA CarryingKeepsView ==
  ASSUME ZigbeeInv, ViewInv, NEW q \in calls, BridgeCarries(q)  PROVE ViewInv'
<1>1. /\ calls' = calls \ {q} /\ UNCHANGED <<copy, adapter, online, stale, number, work, stateFirst>>
      /\ past' = [past EXCEPT !.carried = @ \cup {<<q.epoch, q.no>>},
                              !.strayed = @ \/ ~(q.epoch = past.reloads /\ Awaiting(q.no) # {})]
  BY DEF BridgeCarries
<1>2. q.step \in Asking /\ Shaped(air) /\ past \in PastType /\ number \in Nat
  BY DEF ViewInv, Views, ZigbeeInv, WorkTyped
<1>3. past'.reloads = past.reloads /\ past'.together = past.together
  BY <1>1, <1>2 DEF PastType
<1>4. Views'
  <2>1. CASE adapter = "down"
    <3>1. stream' = stream /\ air' = Carried(air, q) /\ Possible(q)
      BY <2>1 DEF BridgeCarries, Streamed
    <3>2. Shaped(air)'
      BY <1>2, <3>1, CarriedMeans
    <3>3. QED  BY <1>1, <2>1, <3>1, <3>2 DEF ViewInv, Views, Shaped, IsStream
  <2>2. CASE adapter # "down"
    <3>1. Shaped(air)' /\ UpToDate' /\ IsStream'
      BY <1>1, <1>2, <2>2, CarryingPublishes, NewestAfterCarrying, GrowMeans DEF ViewInv, Views
    <3>2. QED  BY <1>1, <3>1 DEF ViewInv, Views, Shaped
  <2>3. QED  BY <2>1, <2>2
<1>5. AskedSoFar'
  BY <1>1, <1>2, <1>3, AskedStays DEF ViewInv
<1>6. InTurn'
  <2>1. SUFFICES ASSUME NEW n \in Nodes, Alone(n)'  PROVE ToItself(n)'
    BY DEF InTurn
  <2>2. Alone(n) /\ ToItself(n)
    BY <1>1, <1>3, <2>1 DEF Alone, Engaged, ViewInv, InTurn
  <2>3. adapter # "down"
    BY <2>2 DEF Alone, ViewInv, AskedSoFar
  <2>4. PICK more :
          /\ \E S : more \in Seq(S)
          /\ stream' = stream \o more
          /\ stateFirst => \A k \in 1..Len(more) : Says(more[k]) => k = Len(more)
          /\ ~stateFirst /\ q.step # "drop" =>
               Len(more) = 2 /\ more[1] = Answer(q, TRUE) /\ ~Says(more[2])
    BY <1>2, <2>3, CarryingPublishes
  <2>5. OneCall => calls' = {} /\ stream' = more
    <3>1. SUFFICES ASSUME OneCall  PROVE calls' = {} /\ stream' = more
      OBVIOUS
    <3>2. calls' = {} /\ stream = <<>>
      BY <1>1, <3>1 DEF OneCall
    <3>3. QED  BY <2>4, <3>2
  <2>6. ASSUME stateFirst  PROVE AnswersLast(n)'
    <3>1. AnswersLast(n)
      BY <2>2, <2>6 DEF ToItself
    <3>2. AtWork(n) /\ AtWork(n)'
      BY <1>1, <3>1 DEF AnswersLast, AtWork
    <3>3. calls' = {} /\ stream' = more
      BY <2>5, <3>1, <3>2 DEF AnswersLast
    <3>4. QED  BY <2>4, <2>6, <3>2, <3>3 DEF AnswersLast, OneCall
  <2>7. ASSUME ~stateFirst, AnswersFirst(n)  PROVE AnswersFirst(n)'
    <3>1. AtWork(n) /\ AtWork(n)'
      BY <1>1, <2>7 DEF AnswersFirst, AtWork
    <3>2. /\ calls' = {} /\ stream' = more /\ q.no = work[n].no /\ q.step # "drop"
          /\ work'[n].step # "drop" /\ (work'[n].step # "create" => stale')
      BY <1>1, <2>5, <2>7, <3>1 DEF AnswersFirst
    <3>3. Len(more) = 2 /\ more[1] = Answer(q, TRUE) /\ ~Says(more[2])
      BY <2>4, <2>7, <3>2
    <3>4. Says(more[1]) /\ more[1].ok /\ more[1].no = work'[n].no
      BY <1>1, <3>2, <3>3 DEF Says, Answer
    <3>5. \A i \in 1..Len(more) : i > 1 => ~Says(more[i])
      BY <3>3
    <3>6. OneCall'
      BY <3>2 DEF OneCall
    <3>7. Len(stream') <= IF stream'[1].ok THEN 2 ELSE 1
      BY <3>2, <3>3, <3>4
    <3>8. QED  BY <3>1, <3>2, <3>4, <3>5, <3>6, <3>7 DEF AnswersFirst
  <2>8. QED  BY <1>1, <2>2, <2>6, <2>7 DEF ToItself, Engaged
<1>7. QED  BY <1>4, <1>5, <1>6 DEF ViewInv

LEMMA RefusalKeepsView ==
  ASSUME ZigbeeInv, ViewInv, NEW q \in calls, BridgeRefuses(q)  PROVE ViewInv'
<1> DEFINE answer == Answer(q, FALSE)
           more == <<answer>>
<1>1. /\ calls' = calls \ {q} /\ past' = OneMore
      /\ UNCHANGED <<air, copy, adapter, online, stale, number, work, stateFirst>>
  BY DEF BridgeRefuses
<1>2. past \in PastType /\ number \in Nat
  BY DEF ZigbeeInv, WorkTyped
<1>3. past'.reloads = past.reloads /\ past'.together = past.together
  BY <1>1, <1>2 DEF PastType, OneMore
<1>4. Says(answer) /\ ~answer.ok /\ answer.no = q.no /\ answer.topic = "answer"
  BY DEF Says, Answer
<1>5. IF adapter = "down" THEN stream' = stream ELSE stream' = stream \o more
  BY DEF BridgeRefuses, Streamed
<1> HIDE DEF answer
<1>6. /\ more \in Seq({answer}) /\ Len(more) = 1 /\ more[1] = answer
      /\ \A k \in 1..Len(more) : k = Len(more) /\ ~(k > 1) /\ more[k] = answer
  OBVIOUS
<1> HIDE DEF more
<1>7. Views'
  <2>1. CASE adapter = "down"
    BY <1>1, <1>5, <2>1 DEF ViewInv, Views, Shaped, IsStream
  <2>2. CASE adapter # "down"
    <3>1. UpToDate' /\ IsStream'
      BY <1>1, <1>4, <1>5, <1>6, <2>2, NewestAfterCarrying, GrowMeans DEF ViewInv, Views
    <3>2. QED  BY <1>1, <3>1 DEF ViewInv, Views, Shaped
  <2>3. QED  BY <2>1, <2>2
<1>8. AskedSoFar'
  BY <1>1, <1>2, <1>3, AskedStays DEF ViewInv
<1>9. InTurn'
  <2>1. SUFFICES ASSUME NEW n \in Nodes, Alone(n)'  PROVE ToItself(n)'
    BY DEF InTurn
  <2>2. Alone(n) /\ ToItself(n)
    BY <1>1, <1>3, <2>1 DEF Alone, Engaged, ViewInv, InTurn
  <2>3. adapter # "down"
    BY <2>2 DEF Alone, ViewInv, AskedSoFar
  <2>4. OneCall => calls' = {} /\ stream' = more
    <3>1. SUFFICES ASSUME OneCall  PROVE calls' = {} /\ stream' = more
      OBVIOUS
    <3>2. calls' = {} /\ stream = <<>>
      BY <1>1, <3>1 DEF OneCall
    <3>3. QED  BY <1>5, <1>6, <2>3, <3>2
  <2>5. ASSUME stateFirst  PROVE AnswersLast(n)'
    <3>1. AnswersLast(n)
      BY <2>2, <2>5 DEF ToItself
    <3>2. AtWork(n) /\ AtWork(n)'
      BY <1>1, <3>1 DEF AnswersLast, AtWork
    <3>3. calls' = {} /\ stream' = more
      BY <2>4, <3>1, <3>2 DEF AnswersLast
    <3>4. OneCall'
      BY <3>3 DEF OneCall
    <3>5. \A i \in 1..Len(stream') : i = Len(stream')
      BY <1>6, <3>3
    <3>6. QED  BY <3>2, <3>4, <3>5 DEF AnswersLast
  <2>6. ASSUME ~stateFirst, AnswersFirst(n)  PROVE AnswersFirst(n)'
    <3>1. AtWork(n) /\ AtWork(n)'
      BY <1>1, <2>6 DEF AnswersFirst, AtWork
    <3>2. /\ calls' = {} /\ stream' = more /\ q.no = work'[n].no
          /\ work'[n].step # "drop" /\ (work'[n].step # "create" => stale')
      BY <1>1, <2>4, <2>6, <3>1 DEF AnswersFirst
    <3>3. Says(more[1]) /\ ~more[1].ok /\ more[1].no = work'[n].no
      BY <1>4, <1>6, <3>2
    <3>4. OneCall'
      BY <3>2 DEF OneCall
    <3>5. Len(stream') = 1 /\ \A i \in 1..Len(stream') : ~(i > 1)
      BY <1>6, <3>2
    <3>6. Len(stream') <= IF stream'[1].ok THEN 2 ELSE 1
      BY <3>5
    <3>7. Says(stream[1])' /\ stream'[1].no = work'[n].no
      BY <3>2, <3>3 DEF Says
    <3>8. QED  BY <3>1, <3>2, <3>4, <3>5, <3>6, <3>7 DEF AnswersFirst
  <2>7. QED  BY <1>1, <2>2, <2>5, <2>6 DEF ToItself, Engaged
<1>10. QED  BY <1>7, <1>8, <1>9 DEF ViewInv

(* A list is read: whoever waits for it goes on.                           *)
LEMMA StateKeepsView == ASSUME ZigbeeInv, ViewInv, StateArrives PROVE ViewInv'
<1>1. /\ UNCHANGED <<air, online, number, calls, stateFirst, past>> /\ Popped /\ stale' = FALSE
      /\ Head(stream).topic \in {"devices", "groups"}
      /\ copy' = (IF Head(stream).topic = "devices" THEN [copy EXCEPT !.bound = Head(stream).bound]
                  ELSE [copy EXCEPT !.groups = Head(stream).groups])
      /\ adapter' = (IF Head(stream).topic = "devices" THEN "up" ELSE adapter)
  BY DEF StateArrives, Popped
<1>2. work \in [Nodes -> WorkType] /\ number \in Nat
  BY DEF ZigbeeInv, WorkTyped
<1>3. adapter # "down"
  BY <1>1 DEF ZigbeeInv, DownIsQuiet, Popped
<1>4. ASSUME NEW n \in Nodes
      PROVE  IF work[n].step = "reading"
             THEN work'[n].step = "read" /\ work'[n].asked = work[n].asked
             ELSE work'[n] = work[n]
  <2>1. work'[n] = IF work[n].step = "reading" THEN [work[n] EXCEPT !.step = "read", !.verified = TRUE]
                   ELSE work[n]
    BY DEF StateArrives, Woken
  <2>2. work[n] \in WorkType
    BY <1>2
  <2>3. QED  BY <2>1, <2>2 DEF WorkType
<1>5. Views'
  <2>1. UpToDate' /\ Shaped(copy)'
    BY <1>1, <1>3, NewestAfterState DEF ViewInv, Views
  <2>2. IsStream'
    BY <1>1, PopMeans DEF ViewInv, Views
  <2>3. QED  BY <1>1, <2>1, <2>2 DEF ViewInv, Views, Shaped
<1>6. AskedSoFar'
  <2>1. \A n \in Nodes : \/ work'[n] = work[n]
                         \/ /\ work'[n].asked = work[n].asked /\ ~AtWork(n)'
                            /\ Engaged(n)' => Engaged(n)
                            /\ work'[n].step # "read" => ~work'[n].verified
    BY <1>4 DEF AtWork, Asking, Engaged
  <2>2. QED  BY <1>1, <1>2, <1>3, <2>1, AskedStays DEF ViewInv
<1>7. InTurn'
  <2>1. SUFFICES ASSUME NEW n \in Nodes, Alone(n)'  PROVE ToItself(n)'
    BY DEF InTurn
  <2>2. work'[n] = work[n] /\ work[n].step # "reading"
    BY <1>4, <2>1 DEF Alone, Engaged
  <2>3. ToItself(n)
    BY <1>1, <2>1, <2>2 DEF Alone, Engaged, ViewInv, InTurn
  <2>4. /\ Len(stream) \in Nat /\ Len(stream) >= 1 /\ Len(stream') = Len(stream) - 1 /\ stream # <<>>
        /\ ~Says(stream[1])
        /\ \A i \in 1..Len(stream') : i + 1 \in 1..Len(stream) /\ stream'[i] = stream[i + 1]
    BY <1>1, PopMeans DEF ViewInv, Views, Says, Popped
  <2>5. \A m \in Nodes : Engaged(m)' => m = n
    BY <1>4, <2>3 DEF Engaged, ToItself
  <2>6. ASSUME stateFirst  PROVE AnswersLast(n)'
    <3>1. AnswersLast(n)
      BY <2>3, <2>6 DEF ToItself
    <3>2. AtWork(n) /\ AtWork(n)' /\ calls = {}
      BY <2>2, <2>4, <3>1 DEF AnswersLast, AtWork, OneCall
    <3>3. QED  BY <1>1, <2>4, <3>1, <3>2 DEF AnswersLast, OneCall
  <2>7. ASSUME ~stateFirst, AnswersFirst(n)  PROVE AnswersFirst(n)'
    <3>1. ~AtWork(n) /\ ~AtWork(n)'
      BY <2>2, <2>4, <2>7 DEF AnswersFirst, AtWork
    <3>2. calls' = {} /\ Len(stream') = 0
      BY <1>1, <2>4, <2>7, <3>1 DEF AnswersFirst
    <3>3. stream' = <<>>
      BY <1>5, <3>2 DEF Views, IsStream
    <3>4. QED  BY <3>1, <3>2, <3>3 DEF AnswersFirst
  <2>8. QED  BY <1>1, <2>2, <2>3, <2>5, <2>6, <2>7 DEF ToItself
<1>8. QED  BY <1>5, <1>6, <1>7 DEF ViewInv

(* Who is answered ends its write, or asks for the next request of it; a   *)
(* write that is over and took one request knows whether more will come.   *)
LEMMA AnswerTaken ==
  ASSUME ZigbeeInv, NEW n \in Nodes, NEW m, Answered(n, m)
  PROVE  /\ AtWork(n) /\ past'.reloads = past.reloads /\ past'.together = past.together
         /\ \E w \in WorkType :
              /\ w.verified = work[n].verified /\ work' = [work EXCEPT ![n] = w]
              /\ \/ /\ w.step = "done" /\ w.asked = work[n].asked /\ UNCHANGED <<calls, number>>
                    /\ m.ok => work[n].step # "create" /\ (work[n].step # "drop" => (stale' <=> stale))
                 \/ /\ w.step \in Asking /\ w.no = number + 1
                    /\ w.asked = work[n].asked \cup {<<past.reloads, number + 1>>} /\ number' = number + 1
                    /\ \E q : calls' = calls \cup {q} /\ q.step = w.step /\ q.no = number + 1
<1> DEFINE u == work[n]
<1>1. u \in WorkType /\ past \in PastType /\ number \in Nat /\ past.reloads \in Nat /\ past = past
  BY DEF ZigbeeInv, WorkTyped, PastType
<1>2. u.step \in Asking
  BY DEF Answered, BindAnswered, GroupStepFailed, Created, Joined, Left, Dropped, Asking
<1>3. ASSUME NEW result \in {"applied", "failed", "wakeup"}, FinishWrite(n, u, result)
      PROVE  \E w \in WorkType : /\ w.verified = u.verified /\ work' = [work EXCEPT ![n] = w]
                                 /\ w.step = "done" /\ w.asked = u.asked /\ UNCHANGED <<calls, number>>
  <2> DEFINE w == [u EXCEPT !.step = "done", !.no = 0, !.result = result]
  <2> HIDE DEF u
  <2>1. w \in WorkType /\ w.step = "done" /\ w.asked = u.asked /\ w.verified = u.verified
    BY <1>1 DEF WorkType
  <2>2. work' = [work EXCEPT ![n] = w] /\ UNCHANGED <<calls, number>>
    BY <1>3 DEF FinishWrite
  <2>3. QED  BY <2>1, <2>2
<1>4. ASSUME NEW step \in Asking, NEW who, NEW to, Ask(n, u, step, who, to)
      PROVE  \E w \in WorkType :
               /\ w.verified = u.verified /\ work' = [work EXCEPT ![n] = w]
               /\ w.step = step /\ w.no = number + 1
               /\ w.asked = u.asked \cup {<<past.reloads, number + 1>>} /\ number' = number + 1
               /\ \E q : calls' = calls \cup {q} /\ q.step = step /\ q.no = number + 1
  <2> DEFINE q == [step |-> step, who |-> who, to |-> to, no |-> number + 1, epoch |-> past.reloads]
             w == [u EXCEPT !.step = step, !.no = q.no, !.asked = @ \cup {<<q.epoch, q.no>>}]
  <2> HIDE DEF u
  <2>1. calls' = calls \cup {q} /\ number' = number + 1 /\ work' = [work EXCEPT ![n] = w]
    BY <1>4 DEF Ask
  <2>2. q.step = step /\ q.no = number + 1 /\ q.epoch = past.reloads
    OBVIOUS
  <2>3. u.asked \cup {<<past.reloads, number + 1>>} \in SUBSET Numbers /\ number + 1 \in Nat
    BY <1>1 DEF Numbers, WorkType
  <2> HIDE DEF q
  <2>4. w = [u EXCEPT !.step = step, !.no = number + 1,
                      !.asked = u.asked \cup {<<past.reloads, number + 1>>}]
    BY <2>2
  <2> HIDE DEF w
  <2>5. w \in WorkType /\ w.step = step /\ w.no = number + 1
        /\ w.asked = u.asked \cup {<<past.reloads, number + 1>>} /\ w.verified = u.verified
    BY <1>1, <2>3, <2>4 DEF WorkType
  <2>6. QED  BY <2>1, <2>2, <2>5
<1>5. /\ \/ \E result \in {"applied", "failed", "wakeup"} :
              /\ FinishWrite(n, u, result)
              /\ m.ok => u.step # "create" /\ (u.step # "drop" => (stale' <=> stale))
         \/ \E step \in Asking : \E who, to : Ask(n, u, step, who, to)
      /\ past' = past \/ \E result : past' = Promised(u, result, past)
  <2>1. CASE BindAnswered(n, u, m.ok)
    BY <2>1 DEF BindAnswered
  <2>2. CASE GroupStepFailed(n, u, m.ok)
    BY <2>2 DEF GroupStepFailed
  <2>3. CASE Created(n, u, m.ok)
    BY <2>3 DEF Created, JoinGroup, AskStale, Asking
  <2>4. CASE Joined(n, u, m.ok)
    BY <2>4 DEF Joined, AskStale, Asking
  <2>5. CASE Left(n, u, m.ok)
    BY <2>5 DEF Left, AskStale, Asking
  <2>6. CASE Dropped(n, u, m.ok)
    BY <2>6 DEF Dropped
  <2>7. QED  BY <2>1, <2>2, <2>3, <2>4, <2>5, <2>6 DEF Answered
<1>6. past'.reloads = past.reloads /\ past'.together = past.together
  BY <1>1, <1>5 DEF Promised, PastType
<1>7. QED  BY <1>2, <1>3, <1>4, <1>5, <1>6 DEF AtWork

LEMMA ResponseKeepsView == ASSUME ZigbeeInv, ViewInv, OnResponse PROVE ViewInv'
<1> DEFINE m == Head(stream)
<1>1. /\ Popped /\ Says(m) /\ UNCHANGED <<air, copy, adapter, online, stateFirst>>
  BY DEF OnResponse, Popped, Says
<1>2. /\ Len(stream) \in Nat /\ Len(stream) >= 1 /\ Len(stream') = Len(stream) - 1 /\ stream # <<>>
      /\ m = stream[1] /\ IsStream' /\ (Len(stream') = 0 => stream' = <<>>)
      /\ \A i \in 1..Len(stream') : i + 1 \in 1..Len(stream) /\ stream'[i] = stream[i + 1]
  <2>1. IsStream'
    BY <1>1, PopMeans DEF ViewInv, Views
  <2>2. Len(stream') = 0 => stream' = <<>>
    BY <2>1 DEF IsStream
  <2>3. QED  BY <1>1, <2>1, <2>2, PopMeans DEF ViewInv, Views, Popped
<1>3. work \in [Nodes -> WorkType] /\ number \in Nat /\ adapter # "down"
  BY <1>1 DEF ZigbeeInv, WorkTyped, DownIsQuiet, Popped
<1> HIDE DEF m
<1>4. UpToDate' /\ Shaped(air)' /\ Shaped(copy)'
  BY <1>1, <1>3, NewestAfterAnswer DEF ViewInv, Views, Shaped, m
<1>5. CASE Awaiting(m.no) = {} /\ UNCHANGED <<stale, number, calls, work, past>>
  <2>1. Views'
    BY <1>2, <1>4, <1>5 DEF ViewInv, Views
  <2>2. AskedSoFar'
    BY <1>1, <1>3, <1>5, AskedStays DEF ViewInv
  <2>3. ASSUME NEW n \in Nodes, Alone(n)'  PROVE ToItself(n)'
    <3>1. Alone(n) /\ ToItself(n)
      BY <1>5, <2>3 DEF Alone, Engaged, ViewInv, InTurn
    <3>2. ASSUME stateFirst  PROVE AnswersLast(n)'
      <4>1. AnswersLast(n)
        BY <3>1, <3>2 DEF ToItself
      <4>2. AtWork(n) /\ AtWork(n)' /\ calls' = {}
        BY <1>2, <1>5, <4>1 DEF AnswersLast, AtWork, OneCall
      <4>3. OneCall'
        BY <4>2 DEF OneCall
      <4>4. ASSUME NEW i \in 1..Len(stream'), Says(stream'[i])  PROVE i = Len(stream')
        BY <1>2, <4>1, <4>2, <4>4 DEF AnswersLast
      <4>5. QED  BY <4>2, <4>3, <4>4 DEF AnswersLast, Says
    <3>3. ~stateFirst => ~AnswersFirst(n)
      <4>1. SUFFICES ASSUME AnswersFirst(n)  PROVE FALSE
        OBVIOUS
      <4>2. AtWork(n) /\ work[n].no = m.no
        BY <1>1, <1>2, <4>1 DEF AnswersFirst
      <4>3. n \in Awaiting(m.no)
        BY <4>2 DEF Awaiting, Busy, AtWork, Asking
      <4>4. QED  BY <1>5, <4>3
    <3>4. QED  BY <1>1, <1>5, <3>1, <3>2, <3>3 DEF ToItself, Engaged
  <2>4. QED  BY <2>1, <2>2, <2>3 DEF ViewInv, InTurn
<1>6. ASSUME NEW n \in Nodes, Answered(n, m)  PROVE ViewInv'
  <2>1. AtWork(n) /\ past'.reloads = past.reloads /\ past'.together = past.together
    BY <1>6, AnswerTaken
  <2>2. PICK w \in WorkType :
              /\ w.verified = work[n].verified /\ work' = [work EXCEPT ![n] = w]
              /\ \/ /\ w.step = "done" /\ w.asked = work[n].asked /\ UNCHANGED <<calls, number>>
                    /\ m.ok => work[n].step # "create" /\ (work[n].step # "drop" => (stale' <=> stale))
                 \/ /\ w.step \in Asking /\ w.no = number + 1
                    /\ w.asked = work[n].asked \cup {<<past.reloads, number + 1>>} /\ number' = number + 1
                    /\ \E q : calls' = calls \cup {q} /\ q.step = w.step /\ q.no = number + 1
    BY <1>6, AnswerTaken
  <2>3. work'[n] = w /\ \A k \in Nodes \ {n} : work'[k] = work[k]
    BY <1>3, <2>2
  <2>4. Views'
    <3>1. \A q \in calls' : q.step \in Asking
      BY <2>2 DEF ViewInv, Views
    <3>2. QED  BY <1>2, <1>4, <3>1 DEF Views
  <2>5. /\ ~w.verified /\ adapter = "up" /\ work[n].asked # {} /\ past.reloads \in Nat
        /\ work[n].asked \subseteq {past.reloads} \X (1..number)
    <3>1. work[n].step # "read" /\ Engaged(n) /\ past \in PastType
      BY <2>1 DEF AtWork, Asking, Engaged, ZigbeeInv, WorkTyped
    <3>2. QED  BY <2>1, <2>2, <3>1 DEF ViewInv, AskedSoFar, PastType
  <2>6. AskedSoFar'
    <3>1. /\ number' \in Nat /\ number <= number' /\ w.asked # {}
          /\ w.asked \subseteq {past.reloads} \X (1..number')
      BY <1>3, <2>2, <2>5
    <3>2. ASSUME NEW k \in Nodes
          PROVE  /\ work'[k].asked \subseteq {past'.reloads} \X (1..number')
                 /\ AtWork(k)' => work'[k].asked # {}
                 /\ work'[k].step # "read" => ~work'[k].verified
      <4>1. CASE k = n
        BY <2>1, <2>3, <2>5, <3>1, <4>1
      <4>2. CASE k # n
        <5>1. work'[k] = work[k] /\ 1..number \subseteq 1..number'
          BY <1>3, <2>3, <3>1, <4>2
        <5>2. QED  BY <2>1, <5>1 DEF ViewInv, AskedSoFar, AtWork
      <4>3. QED  BY <4>1, <4>2
    <3>3. QED  BY <1>1, <2>5, <3>2 DEF AskedSoFar
  <2>7. ASSUME NEW k \in Nodes, Alone(k)'  PROVE ToItself(k)'
    <3>1. Engaged(n)
      BY <2>1 DEF AtWork, Asking, Engaged
    <3>2. Alone(k)
      BY <2>1, <2>3, <2>7, <3>1 DEF Alone, Engaged
    <3>3. k = n /\ ToItself(n)
      BY <3>1, <3>2 DEF ViewInv, InTurn, ToItself
    <3>4. \A j \in Nodes : Engaged(j)' => j = n
      BY <2>3, <3>3 DEF Engaged, ToItself
    <3>5. ASSUME stateFirst  PROVE AnswersLast(n)'
      <4>1. AnswersLast(n) /\ calls = {} /\ stream' = <<>>
        <5>1. AnswersLast(n)
          BY <3>3, <3>5 DEF ToItself
        <5>2. 1 \in 1..Len(stream)
          BY <1>2
        <5>3. 1 = Len(stream)
          BY <1>1, <1>2, <2>1, <5>1, <5>2 DEF AnswersLast
        <5>4. QED  BY <1>2, <2>1, <5>1, <5>3 DEF AnswersLast, OneCall
      <4>2. CASE w.step = "done" /\ UNCHANGED calls
        <5>1. ~AtWork(n)'
          BY <2>3, <4>2 DEF AtWork, Asking
        <5>2. QED  BY <4>1, <4>2, <5>1 DEF AnswersLast
      <4>3. CASE w.step \in Asking /\ \E q : calls' = calls \cup {q}
        <5>1. AtWork(n)'
          BY <2>3, <4>3 DEF AtWork
        <5>2. OneCall' /\ Len(stream') = 0
          BY <4>1, <4>3 DEF OneCall
        <5>3. QED  BY <5>1, <5>2 DEF AnswersLast
      <4>4. QED  BY <2>2, <4>2, <4>3
    <3>6. ASSUME ~stateFirst, NEW x, work'[n].asked = {x}  PROVE AnswersFirst(n)'
      <4>1. CASE w.step \in Asking /\ w.asked = work[n].asked \cup {<<past.reloads, number + 1>>}
        <5>1. <<past.reloads, number + 1>> \notin work[n].asked
          BY <1>3, <2>5
        <5>2. QED  BY <2>3, <2>5, <3>6, <4>1, <5>1
      <4>2. CASE /\ w.step = "done" /\ w.asked = work[n].asked /\ UNCHANGED <<calls, number>>
                 /\ m.ok => work[n].step # "create" /\ (work[n].step # "drop" => (stale' <=> stale))
        <5>1. AnswersFirst(n)
          BY <2>3, <3>3, <3>6, <4>2 DEF ToItself
        <5>2. /\ calls' = {} /\ work[n].step # "drop" /\ (work[n].step # "create" => stale)
              /\ Len(stream) <= (IF m.ok THEN 2 ELSE 1)
              /\ \A i \in 1..Len(stream) : i > 1 => ~Says(stream[i])
          BY <1>2, <2>1, <4>2, <5>1 DEF AnswersFirst, OneCall
        <5>3. ~AtWork(n)'
          BY <2>3, <4>2 DEF AtWork, Asking
        <5>4. Len(stream') <= 1
          BY <1>2, <5>2
        <5>5. \A i \in 1..Len(stream') : ~Says(stream'[i])
          BY <1>2, <5>2
        <5>6. stream' # <<>> => stale'
          BY <1>2, <4>2, <5>2
        <5>7. QED  BY <5>2, <5>3, <5>4, <5>5, <5>6 DEF AnswersFirst, Says
      <4>3. QED  BY <2>2, <4>1, <4>2
    <3>7. QED  BY <1>1, <3>3, <3>4, <3>5, <3>6 DEF ToItself
  <2>8. QED  BY <2>4, <2>6, <2>7 DEF ViewInv, InTurn
<1>7. QED  BY <1>5, <1>6 DEF OnResponse, Awaiting, m

(* The bridge goes or comes, and a device is read back.                    *)
LEMMA ReadingKeepsView ==
  ASSUME ZigbeeInv, ViewInv, OnState \/ \E n \in Nodes : ReadBack(n) \/ ReadTimesOut(n)
  PROVE  ViewInv'
<1>1. /\ UNCHANGED <<air, copy, adapter, number, calls, stream, stateFirst>>
      /\ past'.reloads = past.reloads /\ past'.together = past.together
      /\ work \in [Nodes -> WorkType] /\ number \in Nat
  <2>1. past \in PastType /\ work \in [Nodes -> WorkType] /\ number \in Nat
    BY DEF ZigbeeInv, WorkTyped
  <2>2. past' = past \/ past' = OneMore
    BY DEF OnState, ReadBack, ReadTimesOut
  <2>3. QED  BY <2>1, <2>2 DEF OnState, ReadBack, ReadTimesOut, OneMore, PastType
<1>2. Views'
  BY <1>1, NewestStays DEF ViewInv, Views, Shaped, IsStream
<1>3. CASE OnState
  <2>1. UNCHANGED <<work, stale>>
    BY <1>3 DEF OnState
  <2>2. AskedSoFar'
    BY <1>1, <2>1, AskedStays DEF ViewInv
  <2>3. InTurn'
    BY <1>1, <2>1 DEF ViewInv, InTurn, ToItself, Alone, Engaged, AnswersLast, AnswersFirst, OneCall, AtWork
  <2>4. QED  BY <1>2, <2>2, <2>3 DEF ViewInv
<1>4. ASSUME NEW n \in Nodes, ReadBack(n)  PROVE ViewInv'
  <2>1. UNCHANGED stale /\ work[n].step = "done"
    BY <1>4 DEF ReadBack
  <2>2. /\ work'[n].step \in {"reading", "read"} /\ work'[n].asked = work[n].asked
        /\ work'[n].step = "reading" => stale /\ work'[n].verified = work[n].verified
        /\ \A m \in Nodes \ {n} : work'[m] = work[m]
    BY <1>1, <1>4 DEF ReadBack, WorkType
  <2>3. AskedSoFar'
    <3>1. ~AtWork(n)' /\ Engaged(n) /\ (work'[n].step # "read" => ~work'[n].verified)
      BY <2>1, <2>2 DEF AtWork, Asking, Engaged, ViewInv, AskedSoFar
    <3>2. QED  BY <1>1, <2>2, <3>1, AskedStays DEF ViewInv
  <2>4. ASSUME NEW m \in Nodes, Alone(m)'  PROVE ToItself(m)'
    <3>1. Engaged(n)
      BY <2>1 DEF Engaged
    <3>2. Alone(m)
      BY <1>1, <2>2, <2>4, <3>1 DEF Alone, Engaged
    <3>3. m = n /\ ToItself(n)
      BY <3>1, <3>2 DEF ViewInv, InTurn, ToItself
    <3>4. ~AtWork(n) /\ ~AtWork(n)'
      BY <2>1, <2>2 DEF AtWork, Asking
    <3>5. \A k \in Nodes : Engaged(k)' => k = n
      BY <2>2, <3>3 DEF Engaged, ToItself
    <3>6. stateFirst => AnswersLast(n)'
      BY <1>1, <3>3, <3>4 DEF ToItself, AnswersLast
    <3>7. AnswersFirst(n) => AnswersFirst(n)'
      <4>1. work'[n].step # "done"
        BY <2>2
      <4>2. QED  BY <1>1, <3>4, <4>1 DEF AnswersFirst
    <3>8. QED  BY <1>1, <2>2, <3>3, <3>5, <3>6, <3>7 DEF ToItself
  <2>5. QED  BY <1>2, <2>3, <2>4 DEF ViewInv, InTurn
<1>5. ASSUME NEW n \in Nodes, ReadTimesOut(n)  PROVE ViewInv'
  <2>1. work[n].step = "reading"
    BY <1>5 DEF ReadTimesOut
  <2>2. /\ work'[n].step = "read" /\ work'[n].asked = work[n].asked
        /\ \A m \in Nodes \ {n} : work'[m] = work[m]
    BY <1>1, <1>5 DEF ReadTimesOut, WorkType
  <2>3. AskedSoFar'
    <3>1. ~AtWork(n)' /\ Engaged(n)
      BY <2>1, <2>2 DEF AtWork, Asking, Engaged
    <3>2. QED  BY <1>1, <2>2, <3>1, AskedStays DEF ViewInv
  <2>4. ASSUME NEW m \in Nodes, Alone(m)'  PROVE FALSE
    <3>1. Alone(m) /\ m # n
      BY <1>1, <2>2, <2>4 DEF Alone, Engaged
    <3>2. QED  BY <2>1, <3>1 DEF ViewInv, InTurn, ToItself, Engaged
  <2>5. QED  BY <1>2, <2>3, <2>4 DEF ViewInv, InTurn
<1>6. QED  BY <1>3, <1>4, <1>5

(* An entry is set up with lists of its own, and unloaded with no trace.   *)
LEMMA SetupKeepsView == ASSUME ZigbeeInv, ViewInv, AsyncStart \/ AsyncStop PROVE ViewInv'
<1>1. work \in [Nodes -> WorkType] /\ number \in Nat /\ past \in PastType
  BY DEF ZigbeeInv, WorkTyped
<1>2. CASE AsyncStart
  <2>1. /\ adapter = "down" /\ adapter' = "starting" /\ copy' = Empty /\ number' = 0
        /\ stream' = <<GroupList(air), DeviceList(air)>> /\ UNCHANGED <<air, calls, work>>
    BY <1>2 DEF AsyncStart
  <2>2. \A n \in Nodes : work[n].asked = {} /\ ~Engaged(n) /\ ~AtWork(n)
    BY <2>1 DEF ViewInv, AskedSoFar
  <2>3. Views'
    <3> DEFINE groups == GroupList(air)
               devices == DeviceList(air)
    <3>1. groups.topic = "groups" /\ groups.groups = air.groups
          /\ devices.topic = "devices" /\ devices.bound = air.bound
      BY DEF GroupList, DeviceList
    <3>2. stream' = <<groups, devices>>
      BY <2>1
    <3> HIDE DEF groups, devices
    <3>3. stream' \in Seq({groups, devices}) /\ Len(stream') = 2 /\ stream'[1] = groups /\ stream'[2] = devices
      BY <3>2
    <3>4. ASSUME NEW i \in 0..Len(stream'), NEW t \in {"devices", "groups"}, Newest(i, t)'
          PROVE  i = IF t = "devices" THEN 2 ELSE 1
      <4>1. \A j \in 1..Len(stream') : j > i => stream'[j].topic # t
        BY <3>4 DEF Newest
      <4>2. i # 0 => stream'[i].topic = t
        BY <3>4 DEF Newest, Shows
      <4>3. i \in {0, 1, 2} /\ 1 \in 1..Len(stream') /\ 2 \in 1..Len(stream')
        BY <3>3
      <4>4. QED  BY <3>1, <3>3, <4>1, <4>2, <4>3
    <3>5. UpToDate'
      BY <2>1, <3>1, <3>3, <3>4 DEF UpToDate, Shown
    <3>6. IsStream' /\ Shaped(air)' /\ Shaped(copy)' /\ \A q \in calls' : q.step \in Asking
      BY <2>1, <3>3 DEF IsStream, Shaped, Empty, ViewInv, Views
    <3>7. QED  BY <3>5, <3>6 DEF Views
  <2>4. AskedSoFar'
    BY <2>1, <2>2 DEF AskedSoFar, Engaged, AtWork, ViewInv
  <2>5. InTurn'
    BY <2>1, <2>2 DEF InTurn, Alone, Engaged
  <2>6. QED  BY <2>3, <2>4, <2>5 DEF ViewInv
<1>3. CASE AsyncStop
  <2>1. /\ adapter' = "down" /\ stream' = <<>> /\ UNCHANGED <<air, copy, calls, number>>
        /\ work' = [n \in Nodes |-> Resting] /\ past' = OneMore
    BY <1>3 DEF AsyncStop
  <2>2. \A n \in Nodes : work'[n].asked = {} /\ work'[n].step = "idle" /\ ~work'[n].verified
    BY <2>1 DEF Resting
  <2>3. Views'
    BY <2>1 DEF Views, ViewInv, Shaped, IsStream
  <2>4. AskedSoFar' /\ InTurn'
    BY <2>1, <2>2 DEF AskedSoFar, InTurn, Alone, Engaged, AtWork, Asking
  <2>5. QED  BY <2>3, <2>4 DEF ViewInv
<1>4. QED  BY <1>2, <1>3

LEMMA ViewStart == ZigbeeInit => ViewInv
<1> SUFFICES ASSUME ZigbeeInit  PROVE ViewInv
  OBVIOUS
<1>1. Views
  <2>1. Shaped(air)
    BY ZigbeeAssumption DEF ZigbeeInit, Networks, Shaped
  <2>2. QED  BY <2>1 DEF ZigbeeInit, Views, Shaped, Empty, IsStream
<1>2. AskedSoFar /\ InTurn
  BY DEF ZigbeeInit, Resting, AskedSoFar, InTurn, Alone, Engaged, AtWork, Asking
<1>3. QED  BY <1>1, <1>2 DEF ViewInv

LEMMA ViewStep == ZigbeeInv /\ ViewInv /\ [ZigbeeNext]_zigbeeVars => ViewInv'
<1> SUFFICES ASSUME ZigbeeInv, ViewInv, [ZigbeeNext]_zigbeeVars  PROVE ViewInv'
  OBVIOUS
<1>1. CASE UNCHANGED zigbeeVars
  <2>1. AskedSoFar'
    BY <1>1 DEF zigbeeVars, ViewInv, AskedSoFar, Engaged, AtWork
  <2>2. Views'
    BY <1>1, NewestStays DEF zigbeeVars, ViewInv, Views, Shaped, IsStream
  <2>3. InTurn'
    BY <1>1 DEF zigbeeVars, ViewInv, InTurn, ToItself, Alone, Engaged, AnswersLast, AnswersFirst, OneCall, AtWork
  <2>4. QED  BY <2>1, <2>2, <2>3 DEF ViewInv
<1>2. CASE ZigbeeNext
  BY <1>2, WriteKeepsView, NoAnswerKeepsView, CarryingKeepsView, RefusalKeepsView, StateKeepsView,
     ResponseKeepsView, ReadingKeepsView, SetupKeepsView DEF ZigbeeNext
<1>3. QED  BY <1>1, <1>2

(* Who had the bridge to itself and reads with nothing more on its way     *)
(* sees the network; it waits while something may be.                      *)
LEMMA SeenWhenVerified ==
  ASSUME ZigbeeInv, ViewInv, ViewInv', ZigbeeNext, NEW n \in Nodes,
         work[n].step # "read", work'[n].step = "read", work'[n].verified, n \notin past.together,
         stateFirst \/ Cardinality(work'[n].asked) = 1
  PROVE  copy' = air
<1>1. work \in [Nodes -> WorkType] /\ number \in Nat /\ past \in PastType
  BY DEF ZigbeeInv, WorkTyped
<1>2. \/ StateArrives /\ work[n].step = "reading"
      \/ ReadBack(n)
  <2>1. ASSUME NEW l \in ZLinks, NEW adding \in BOOLEAN, WriteLink(l, adding)  PROVE FALSE
    <3> DEFINE k == ControlNode[LinkControl[l]]
    <3>1. k \in Nodes /\ \E w \in WorkType : w.step # "read" /\ work' = [work EXCEPT ![k] = w]
      <4>1. \A step \in Asking : step # "read"
        BY DEF Asking
      <4>2. QED  BY <2>1, <4>1, WriteBegins
    <3> HIDE DEF k
    <3>2. QED  BY <1>1, <3>1
  <2>2. ASSUME OnResponse  PROVE FALSE
    <3>1. work' # work
      OBVIOUS
    <3>2. PICK k \in Nodes : Answered(k, Head(stream))
      BY <2>2, <3>1 DEF OnResponse, Awaiting
    <3>3. \E w \in WorkType : w.step # "read" /\ work' = [work EXCEPT ![k] = w]
      <4>1. \A step \in Asking : step # "read"
        BY DEF Asking
      <4>2. QED  BY <3>2, <4>1, AnswerTaken
    <3>4. QED  BY <1>1, <3>3
  <2>3. ASSUME NEW k \in Nodes, NoAnswer(k)  PROVE FALSE
    <3>1. \E result : work' = [work EXCEPT ![k] = [work[k] EXCEPT !.step = "done", !.no = 0, !.result = result]]
      BY <2>3 DEF NoAnswer
    <3>2. QED  BY <1>1, <3>1 DEF WorkType
  <2>4. ASSUME NEW k \in Nodes, ReadTimesOut(k)  PROVE FALSE
    <3>1. work' = [work EXCEPT ![k].step = "read"]
      BY <2>4 DEF ReadTimesOut
    <3>2. work'[n].verified = work[n].verified
      BY <1>1, <3>1 DEF WorkType
    <3>3. QED  BY <3>2 DEF ViewInv, AskedSoFar
  <2>5. ASSUME AsyncStop  PROVE FALSE
    BY <2>5 DEF AsyncStop, Resting
  <2>6. ASSUME NEW k \in Nodes, ReadBack(k)  PROVE k = n
    BY <1>1, <2>6 DEF ReadBack
  <2>7. StateArrives => work[n].step = "reading"
    BY DEF StateArrives, Woken
  <2>8. ASSUME UNCHANGED work  PROVE FALSE
    BY <2>8
  <2>9. QED  BY <2>1, <2>2, <2>3, <2>4, <2>5, <2>6, <2>7, <2>8
             DEF ZigbeeNext, BridgeCarries, BridgeRefuses, OnState, AsyncStart
<1>3. Engaged(n) /\ ToItself(n) /\ adapter = "up" /\ ~AtWork(n)
  <2>1. Engaged(n) /\ ~AtWork(n)
    BY <1>2 DEF Engaged, ReadBack, AtWork, Asking
  <2>2. QED  BY <2>1 DEF ViewInv, AskedSoFar, InTurn, Alone
<1>4. work'[n].asked = work[n].asked
  <2>1. CASE StateArrives
    BY <1>1, <2>1 DEF StateArrives, Woken, WorkType
  <2>2. CASE ReadBack(n)
    BY <1>1, <2>2 DEF ReadBack, WorkType
  <2>3. QED  BY <1>2, <2>1, <2>2
<1>5. stateFirst \/ AnswersFirst(n)
  <2>1. SUFFICES ASSUME ~stateFirst  PROVE AnswersFirst(n)
    OBVIOUS
  <2>2. IsFiniteSet(work[n].asked)
    <3>1. IsFiniteSet({past.reloads})
      BY FS_Singleton
    <3>2. 1 \in Int /\ number \in Int
      BY <1>1
    <3>3. IsFiniteSet(1..number)
      BY <3>2, FS_Interval
    <3>4. IsFiniteSet({past.reloads} \X (1..number))
      BY <3>1, <3>3, FS_Product
    <3>5. QED  BY <3>4, FS_Subset DEF ViewInv, AskedSoFar
  <2>3. \E x : work[n].asked = {x}
    BY <1>4, <2>1, <2>2, FS_Singleton
  <2>4. QED  BY <1>3, <2>1, <2>3 DEF ToItself
<1>6. CASE StateArrives
  <2>1. Popped /\ UNCHANGED <<air, calls, stateFirst>> /\ adapter' # "down"
    BY <1>3, <1>6 DEF StateArrives, Popped
  <2>2. ~stateFirst /\ Len(stream) <= 1
    BY <1>3, <1>5, <2>1 DEF ToItself, AnswersLast, AnswersFirst, Popped
  <2>3. stream' = <<>>
    <3>1. IsStream' /\ Len(stream') = Len(stream) - 1 /\ Len(stream) >= 1 /\ Len(stream) \in Nat
      BY <2>1, PopMeans DEF ViewInv, Views
    <3>2. Len(stream') = 0
      BY <2>2, <3>1
    <3>3. QED  BY <3>1, <3>2 DEF IsStream
  <2>4. UpToDate' /\ Shaped(copy)' /\ Shaped(air)'
    BY <2>1 DEF ViewInv, Views
  <2>5. copy' = air'
    <3>1. Newest(0, "devices")' /\ Newest(0, "groups")' /\ Shown(0)' = copy' /\ 0 \in 0..Len(stream')
      BY <2>3 DEF Newest, Shows, Shown
    <3>2. QED  BY <2>4, <3>1 DEF UpToDate, Shaped
  <2>6. QED  BY <2>1, <2>5
<1>7. CASE ReadBack(n)
  <2>1. UNCHANGED copy /\ ~(online /\ stale) /\ online /\ work[n].step = "done"
    <3>1. CASE online /\ stale
      BY <1>1, <1>7, <3>1 DEF ReadBack, WorkType
    <3>2. CASE ~(online /\ stale)
      <4>1. work'[n].verified = online
        BY <1>1, <1>7, <3>2 DEF ReadBack, WorkType
      <4>2. QED  BY <1>7, <3>2, <4>1 DEF ReadBack
    <3>3. QED  BY <3>1, <3>2
  <2>2. stream = <<>>
    BY <1>3, <1>5, <2>1 DEF ToItself, AnswersLast, AnswersFirst
  <2>3. QED  BY <1>3, <2>1, <2>2, CopyIsAir DEF ViewInv, Views
<1>8. QED  BY <1>2, <1>6, <1>7

(* async_observed: a read that is said to be verified shows the link as it *)
(* is, if its device had the bridge to itself from the write on, and the   *)
(* write took one request or the bridge republishes before it answers.     *)
THEOREM VerifiedReadsAreTrue == ZigbeeSpec => VerifiedShowsWrite
<1>1. ZigbeeInv /\ ViewInv /\ ViewInv' /\ [ZigbeeNext]_zigbeeVars =>
        [\A n \in Nodes :
           LET w == work'[n] IN
           /\ work[n].step # "read" /\ w.step = "read" /\ w.verified
           /\ n \notin past.together
           /\ stateFirst \/ Cardinality(w.asked) = 1
           => (IsPresent(copy', w.link) <=> IsPresent(air, w.link))]_zigbeeVars
  BY SeenWhenVerified
<1>2. QED  BY <1>1, ZigbeeStart, ZigbeeStep, ViewStart, ViewStep, PTL DEF ZigbeeSpec, VerifiedShowsWrite


-----------------------------------------------------------------------------
(***************************************************************************)
(* Zigbee: the types of what is on the network, in the copy, and on its    *)
(* way between the two.  Every request fits its step: bindings are of a    *)
(* control, what is done to a group is done to a group, and its members    *)
(* are devices, as a link that is put into one was asked for between two   *)
(* of them.  Messages carry what the network had, so the copy has its type. *)
(***************************************************************************)
Bonds == SUBSET (Controls \X Ends)
Groupings == UNION {[s -> SUBSET Nodes] : s \in SUBSET ZGroups}

Messages ==
  [topic : {"answer"}, no : Nat, ok : BOOLEAN] \cup [topic : {"devices"}, bound : Bonds]
    \cup [topic : {"groups"}, groups : Groupings]

CallFits(q) ==
  /\ q.step \in Asking /\ q.no \in Nat /\ q.to \in Ends
  /\ q.who \in IF q.step \in {"bind", "unbind"} THEN Controls ELSE ZGroups
  /\ q.step \in {"join", "leave"} => q.to \in Nodes

(* What a coroutine is at fits its link. *)
WorkFits(w) ==
  /\ w.step # "idle" => w.link \in ZLinks
  /\ w.step \in {"create", "join"} => LinkGroup[w.link] \in Managed /\ LinkTarget[w.link] \in Nodes
  /\ w.step = "leave" => w.via \in ZGroups

NetworkTyped ==
  /\ air \in Networks /\ copy \in Networks
  /\ adapter \in {"down", "starting", "up"}
  /\ stale \in BOOLEAN /\ stateFirst \in BOOLEAN
  /\ stream \in Seq(Messages)
CallsFit == \A q \in calls : CallFits(q)
AllWorkFits == \A n \in Nodes : WorkFits(work[n])
ZigbeeTyped == NetworkTyped /\ CallsFit /\ AllWorkFits

LEMMA GroupingsAre ==
  \A f : f \in Groupings <=> /\ f = [g \in DOMAIN f |-> f[g]] /\ DOMAIN f \subseteq ZGroups
                             /\ \A g \in DOMAIN f : f[g] \subseteq Nodes
BY DEF Groupings

LEMMA NetworksAre == Networks = [bound : Bonds, groups : Groupings]
BY DEF Networks, Bonds, Groupings

LEMMA MembersAre == ASSUME NEW s \in Networks, NEW g PROVE Members(s, g) \subseteq Nodes
<1>1. s.groups \in Groupings
  BY NetworksAre
<1>2. QED  BY <1>1, GroupingsAre DEF Members

(* A request that fits leaves a network. *)
LEMMA CarriedIsNetwork ==
  ASSUME NEW s \in Networks, NEW q, CallFits(q)
  PROVE  Carried(s, q) \in Networks
<1> DEFINE given(members) == [g \in DOMAIN s.groups \cup {q.who} |->
                               IF g = q.who THEN members ELSE s.groups[g]]
           left == Restrict(s.groups, DOMAIN s.groups \ {q.who})
<1>1. s = [bound |-> s.bound, groups |-> s.groups] /\ s.bound \in Bonds /\ s.groups \in Groupings
  BY NetworksAre
<1>2. ASSUME NEW b \in Bonds, NEW f \in Groupings  PROVE [bound |-> b, groups |-> f] \in Networks
  BY NetworksAre
<1>3. ASSUME NEW x  PROVE /\ [s EXCEPT !.bound = x] = [bound |-> x, groups |-> s.groups]
                          /\ [s EXCEPT !.groups = x] = [bound |-> s.bound, groups |-> x]
  BY <1>1
<1>4. /\ DOMAIN s.groups \subseteq ZGroups
      /\ \A g \in DOMAIN s.groups : s.groups[g] \subseteq Nodes
  BY <1>1, GroupingsAre
<1>5. ASSUME NEW members \in SUBSET Nodes, q.who \in ZGroups  PROVE given(members) \in Groupings
  <2> DEFINE f == given(members)
  <2>1. f = [g \in DOMAIN f |-> f[g]] /\ DOMAIN f = DOMAIN s.groups \cup {q.who}
    OBVIOUS
  <2>2. \A g \in DOMAIN f : f[g] \subseteq Nodes
    BY <1>4
  <2> HIDE DEF f
  <2>3. f \in Groupings
    BY <1>4, <1>5, <2>1, <2>2, GroupingsAre
  <2>4. QED  BY <2>3 DEF f
<1>6. left \in Groupings
  <2>1. left = [g \in DOMAIN s.groups \ {q.who} |-> s.groups[g]]
    BY DEF Restrict
  <2>2. left = [g \in DOMAIN left |-> left[g]] /\ DOMAIN left \subseteq DOMAIN s.groups
    BY <2>1
  <2>3. \A g \in DOMAIN left : left[g] \subseteq Nodes
    BY <1>4, <2>1
  <2> HIDE DEF left
  <2>4. QED  BY <1>4, <2>2, <2>3, GroupingsAre
<1>7. Members(s, q.who) \subseteq Nodes
  BY MembersAre
<1> HIDE DEF given, left
<1>8. CASE q.step \in {"bind", "unbind"}
  <2>1. <<q.who, q.to>> \in Controls \X Ends
    BY <1>8 DEF CallFits
  <2>2. s.bound \cup {<<q.who, q.to>>} \in Bonds /\ s.bound \ {<<q.who, q.to>>} \in Bonds
    BY <1>1, <2>1 DEF Bonds
  <2>3. Carried(s, q) \in {[bound |-> s.bound \cup {<<q.who, q.to>>}, groups |-> s.groups],
                           [bound |-> s.bound \ {<<q.who, q.to>>}, groups |-> s.groups]}
    BY <1>3, <1>8 DEF Carried
  <2>4. QED  BY <1>1, <1>2, <2>2, <2>3
<1>9. CASE q.step \in {"create", "join", "leave"}
  <2>1. q.who \in ZGroups /\ (q.step # "create" => q.to \in Nodes)
    BY <1>9 DEF CallFits
  <2>2. \E members \in SUBSET Nodes : Carried(s, q) = [bound |-> s.bound, groups |-> given(members)]
    <3>1. CASE q.step = "create"
      BY <1>3, <3>1 DEF Carried, given
    <3>2. CASE q.step = "join"
      <4>1. Carried(s, q) = [bound |-> s.bound, groups |-> given(Members(s, q.who) \cup {q.to})]
        BY <1>3, <3>2 DEF Carried, given
      <4>2. QED  BY <1>7, <2>1, <3>2, <4>1
    <3>3. CASE q.step = "leave"
      <4>1. Carried(s, q) = [bound |-> s.bound, groups |-> given(Members(s, q.who) \ {q.to})]
        BY <1>3, <3>3 DEF Carried, given
      <4>2. QED  BY <1>7, <4>1
    <3>4. QED  BY <1>9, <3>1, <3>2, <3>3
  <2>3. QED  BY <1>1, <1>2, <1>5, <2>1, <2>2
<1>10. CASE q.step = "drop"
  <2>1. Carried(s, q) = [bound |-> {b \in s.bound : b[2] # q.who}, groups |-> left]
    BY <1>10 DEF Carried, left
  <2>2. {b \in s.bound : b[2] # q.who} \in Bonds
    BY <1>1 DEF Bonds
  <2>3. QED  BY <1>2, <1>6, <2>1, <2>2
<1>11. QED  BY <1>8, <1>9, <1>10 DEF CallFits, Asking

(* Messages that carry what a network has, and answers. *)
LEMMA MessagesAre ==
  /\ \A s \in Networks : DeviceList(s) \in Messages /\ GroupList(s) \in Messages
  /\ \A q : CallFits(q) => Answer(q, TRUE) \in Messages /\ Answer(q, FALSE) \in Messages
BY NetworksAre DEF DeviceList, GroupList, Answer, Messages, CallFits

(* A step of one coroutine: its next request, or its end. *)
LEMMA AskFits ==
  ASSUME CallsFit, AllWorkFits, WorkTyped, NEW n \in Nodes, NEW w \in WorkType, NEW step,
         NEW who, NEW to, Ask(n, w, step, who, to),
         \A q : q.step = step /\ q.who = who /\ q.to = to /\ q.no \in Nat => CallFits(q),
         \A v : v.step = step /\ v.link = w.link /\ v.via = w.via => WorkFits(v)
  PROVE  CallsFit' /\ AllWorkFits'
<1> DEFINE q == [step |-> step, who |-> who, to |-> to, no |-> number + 1, epoch |-> past.reloads]
           v == [w EXCEPT !.step = step, !.no = q.no, !.asked = @ \cup {<<q.epoch, q.no>>}]
<1>1. calls' = calls \cup {q} /\ work' = [work EXCEPT ![n] = v]
  BY DEF Ask
<1>2. q.step = step /\ q.who = who /\ q.to = to /\ q.no \in Nat
  BY DEF WorkTyped
<1>3. v.step = step /\ v.link = w.link /\ v.via = w.via
  BY DEF WorkType
<1> HIDE DEF q, v
<1>4. \A m \in Nodes : work'[m] = IF m = n THEN v ELSE work[m]
  BY <1>1 DEF WorkTyped
<1>5. CallFits(q) /\ WorkFits(v)
  BY <1>2, <1>3
<1>6. CallsFit'
  BY <1>1, <1>5 DEF CallsFit
<1>7. AllWorkFits'
  BY <1>4, <1>5 DEF AllWorkFits
<1>8. QED  BY <1>6, <1>7

LEMMA EndFits ==
  ASSUME CallsFit, AllWorkFits, WorkTyped, NEW n \in Nodes, NEW w \in WorkType, NEW result,
         FinishWrite(n, w, result), w.link \in ZLinks
  PROVE  CallsFit' /\ AllWorkFits'
<1> DEFINE v == [w EXCEPT !.step = "done", !.no = 0, !.result = result]
<1>1. calls' = calls /\ work' = [work EXCEPT ![n] = v]
  BY DEF FinishWrite
<1>2. v.step = "done" /\ v.link = w.link
  BY DEF WorkType
<1> HIDE DEF v
<1>3. \A m \in Nodes : work'[m] = IF m = n THEN v ELSE work[m]
  BY <1>1 DEF WorkTyped
<1>4. WorkFits(v)
  BY <1>2 DEF WorkFits
<1>5. QED  BY <1>1, <1>3, <1>4 DEF CallsFit, AllWorkFits

(* The ends of a link. *)
LEMMA LinkEnds ==
  ASSUME NEW l \in ZLinks
  PROVE  /\ LinkControl[l] \in Controls /\ LinkTarget[l] \in Ends /\ LinkGroup[l] \in Managed \cup {None}
         /\ ControlNode[LinkControl[l]] \in Nodes
         /\ LinkTarget[l] \notin ZGroups \cup {Coordinator} => LinkTarget[l] \in Nodes
BY ZigbeeAssumption DEF Ends

LEMMA BindFits ==
  ASSUME NEW c \in Controls, NEW e \in Ends, NEW step \in {"bind", "unbind"}, NEW q,
         q.step = step, q.who = c, q.to = e, q.no \in Nat
  PROVE  CallFits(q)
BY DEF CallFits, Asking

LEMMA GroupFits ==
  ASSUME NEW g \in ZGroups, NEW e \in Ends, NEW step \in {"create", "join", "leave", "drop"},
         step \in {"join", "leave"} => e \in Nodes, NEW q,
         q.step = step, q.who = g, q.to = e, q.no \in Nat
  PROVE  CallFits(q)
BY DEF CallFits, Asking

LEMMA GroupsAreEnds == ZGroups \subseteq Ends /\ Managed \subseteq ZGroups /\ Nodes \subseteq Ends
BY DEF Ends, ZGroups

LEMMA JoinFits ==
  ASSUME ZigbeeTyped, WorkTyped, NEW n \in Nodes, NEW w \in WorkType, JoinGroup(n, w),
         w.link \in ZLinks, LinkGroup[w.link] \in Managed, LinkTarget[w.link] \in Nodes
  PROVE  CallsFit' /\ AllWorkFits' /\ stale' \in BOOLEAN
<1>1. Ask(n, w, "join", LinkGroup[w.link], LinkTarget[w.link]) /\ stale' = TRUE
  BY DEF JoinGroup, AskStale
<1>2. \A q : q.step = "join" /\ q.who = LinkGroup[w.link] /\ q.to = LinkTarget[w.link]
             /\ q.no \in Nat => CallFits(q)
  BY GroupFits, GroupsAreEnds
<1>3. \A v : v.step = "join" /\ v.link = w.link /\ v.via = w.via => WorkFits(v)
  BY DEF WorkFits
<1>4. QED  BY <1>1, <1>2, <1>3, AskFits DEF ZigbeeTyped

(* A write, up to its first request. *)
LEMMA PutOnFits ==
  ASSUME ZigbeeTyped, WorkTyped, NEW n \in Nodes, NEW w \in WorkType, PutOn(n, w),
         w.link \in ZLinks, LinkTarget[w.link] # Coordinator
  PROVE  CallsFit' /\ AllWorkFits' /\ stale' \in BOOLEAN
<1> DEFINE l == w.link
           g == GroupFor(copy, l)
<1>1. /\ LinkControl[l] \in Controls /\ LinkTarget[l] \in Ends
      /\ g # None => g = LinkGroup[l] /\ g \in Managed /\ LinkTarget[l] \in Nodes
  BY LinkEnds DEF GroupFor
<1> HIDE DEF g
<1>2. CASE Ask(n, w, "bind", LinkControl[l], LinkTarget[l]) /\ stale' = TRUE
  <2>1. \A q : q.step = "bind" /\ q.who = LinkControl[l] /\ q.to = LinkTarget[l]
               /\ q.no \in Nat => CallFits(q)
    BY <1>1, BindFits
  <2>2. \A v : v.step = "bind" /\ v.link = w.link /\ v.via = w.via => WorkFits(v)
    BY DEF WorkFits
  <2>3. QED  BY <1>2, <2>1, <2>2, AskFits DEF ZigbeeTyped
<1>3. CASE g # None /\ JoinGroup(n, w)
  BY <1>1, <1>3, JoinFits
<1>4. CASE g # None /\ Ask(n, w, "create", g, g) /\ UNCHANGED stale
  <2>1. \A q : q.step = "create" /\ q.who = g /\ q.to = g /\ q.no \in Nat => CallFits(q)
    BY <1>1, <1>4, GroupFits, GroupsAreEnds
  <2>2. \A v : v.step = "create" /\ v.link = w.link /\ v.via = w.via => WorkFits(v)
    BY <1>1, <1>4 DEF WorkFits
  <2>3. stale' \in BOOLEAN
    BY <1>4 DEF ZigbeeTyped, NetworkTyped
  <2>4. QED  BY <1>4, <2>1, <2>2, <2>3, AskFits DEF ZigbeeTyped
<1>5. QED  BY <1>2, <1>3, <1>4 DEF PutOn, AskStale, g

LEMMA TakeOffFits ==
  ASSUME ZigbeeTyped, WorkTyped, NEW n \in Nodes, NEW w \in WorkType, TakeOff(n, w), w.link \in ZLinks
  PROVE  CallsFit' /\ AllWorkFits' /\ stale' \in BOOLEAN
<1> DEFINE l == w.link
<1>1. LinkControl[l] \in Controls /\ LinkTarget[l] \in Ends
  BY LinkEnds
<1>2. CASE Ask(n, w, "unbind", LinkControl[l], LinkTarget[l]) /\ stale' = TRUE
  <2>1. \A q : q.step = "unbind" /\ q.who = LinkControl[l] /\ q.to = LinkTarget[l]
               /\ q.no \in Nat => CallFits(q)
    BY <1>1, BindFits
  <2>2. \A v : v.step = "unbind" /\ v.link = w.link /\ v.via = w.via => WorkFits(v)
    BY DEF WorkFits
  <2>3. QED  BY <1>2, <2>1, <2>2, AskFits DEF ZigbeeTyped
<1>3. ASSUME NEW g \in GroupHolding(copy, l),
             Ask(n, [w EXCEPT !.via = g], "leave", g, LinkTarget[l]), stale' = TRUE
      PROVE  CallsFit' /\ AllWorkFits' /\ stale' \in BOOLEAN
  <2> DEFINE u == [w EXCEPT !.via = g]
  <2>1. g \in Managed /\ LinkTarget[l] \in Members(copy, g)
    BY DEF GroupHolding
  <2>2. g \in ZGroups /\ LinkTarget[l] \in Nodes
    BY <2>1, MembersAre, GroupsAreEnds DEF ZigbeeTyped, NetworkTyped
  <2>3. u \in WorkType /\ u.link = l /\ u.via = g
    BY <2>2 DEF WorkType
  <2>4. \A q : q.step = "leave" /\ q.who = g /\ q.to = LinkTarget[l] /\ q.no \in Nat => CallFits(q)
    BY <1>1, <2>2, GroupFits
  <2> HIDE DEF u
  <2>5. \A v : v.step = "leave" /\ v.link = u.link /\ v.via = u.via => WorkFits(v)
    BY <2>2, <2>3 DEF WorkFits
  <2>6. Ask(n, u, "leave", g, LinkTarget[l])
    BY <1>3 DEF u
  <2>7. CallsFit' /\ AllWorkFits'
    BY <2>3, <2>4, <2>5, <2>6, AskFits DEF ZigbeeTyped
  <2>8. QED  BY <1>3, <2>7
<1>4. QED  BY <1>2, <1>3 DEF TakeOff, AskStale

LEMMA WriteFits ==
  ASSUME ZigbeeTyped, WorkTyped, NEW l \in ZLinks, NEW adding \in BOOLEAN, WriteLink(l, adding)
  PROVE  ZigbeeTyped'
<1> DEFINE n == ControlNode[LinkControl[l]]
           w == [Resting EXCEPT !.link = l, !.adding = adding]
<1>1. n \in Nodes
  BY LinkEnds
<1>2. w \in WorkType /\ w.link = l
  BY DEF Resting, WorkType
<1>3. stale \in BOOLEAN
  BY DEF ZigbeeTyped, NetworkTyped
<1>4. \/ (\E result : FinishWrite(n, w, result)) /\ UNCHANGED stale
      \/ LinkTarget[l] # Coordinator /\ (PutOn(n, w) \/ TakeOff(n, w))
  BY DEF WriteLink, AbsoluteRefusal
<1>5. UNCHANGED <<air, copy, adapter, stream, stateFirst>>
  BY DEF WriteLink
<1> HIDE DEF n, w
<1>6. CallsFit' /\ AllWorkFits' /\ stale' \in BOOLEAN
  BY <1>1, <1>2, <1>3, <1>4, EndFits, PutOnFits, TakeOffFits DEF ZigbeeTyped
<1>7. QED  BY <1>5, <1>6 DEF ZigbeeTyped, NetworkTyped

(* What a coroutine does with its answer. *)
LEMMA AnswerFits ==
  ASSUME ZigbeeTyped, WorkTyped, NEW n \in Nodes, NEW m, Answered(n, m)
  PROVE  CallsFit' /\ AllWorkFits' /\ stale' \in BOOLEAN
<1> DEFINE w == work[n]
<1>1. w \in WorkType /\ WorkFits(w) /\ w.step \in Asking /\ stale \in BOOLEAN
  <2>1. w \in WorkType /\ WorkFits(w) /\ stale \in BOOLEAN
    BY DEF WorkTyped, ZigbeeTyped, AllWorkFits, NetworkTyped
  <2>2. w.step \in Asking
    BY DEF Answered, BindAnswered, GroupStepFailed, Created, Joined, Left, Dropped, Asking
  <2>3. QED  BY <2>1, <2>2
<1>2. w.link \in ZLinks /\ LinkControl[w.link] \in Controls
  BY <1>1, LinkEnds DEF WorkFits, Asking
<1> HIDE DEF w
<1>3. ASSUME NEW result, FinishWrite(n, w, result), stale' \in BOOLEAN
      PROVE  CallsFit' /\ AllWorkFits' /\ stale' \in BOOLEAN
  BY <1>1, <1>2, <1>3, EndFits DEF ZigbeeTyped
<1>4. CASE BindAnswered(n, w, m.ok)
  <2>1. stale' \in BOOLEAN
    BY <1>4 DEF BindAnswered
  <2>2. \E result : FinishWrite(n, w, result)
    BY <1>4 DEF BindAnswered
  <2>3. QED  BY <1>3, <2>1, <2>2
<1>5. CASE GroupStepFailed(n, w, m.ok) \/ Dropped(n, w, m.ok)
  <2>1. (\E result : FinishWrite(n, w, result)) /\ stale' = stale
    BY <1>5 DEF GroupStepFailed, Dropped
  <2>2. QED  BY <1>1, <1>3, <2>1
<1>6. CASE Created(n, w, m.ok)
  <2>1. CASE JoinGroup(n, w)
    <3>1. LinkGroup[w.link] \in Managed /\ LinkTarget[w.link] \in Nodes
      BY <1>1, <1>6 DEF Created, WorkFits
    <3>2. QED  BY <1>1, <1>2, <2>1, <3>1, JoinFits
  <2>2. CASE FinishWrite(n, w, "failed") /\ stale' = TRUE
    BY <1>3, <2>2
  <2>3. QED  BY <1>6, <2>1, <2>2 DEF Created
<1>7. CASE Joined(n, w, m.ok)
  <2> DEFINE g == LinkGroup[w.link]
  <2>1. g \in ZGroups
    BY <1>1, <1>7, GroupsAreEnds DEF Joined, WorkFits
  <2>2. CASE Ask(n, w, "bind", LinkControl[w.link], g) /\ stale' = TRUE
    <3>1. \A q : q.step = "bind" /\ q.who = LinkControl[w.link] /\ q.to = g
                 /\ q.no \in Nat => CallFits(q)
      BY <1>2, <2>1, BindFits, GroupsAreEnds
    <3>2. \A v : v.step = "bind" /\ v.link = w.link /\ v.via = w.via => WorkFits(v)
      BY <1>2 DEF WorkFits
    <3>3. QED  BY <1>1, <2>2, <3>1, <3>2, AskFits DEF ZigbeeTyped
  <2>3. CASE FinishWrite(n, w, "applied") /\ UNCHANGED stale
    BY <1>1, <1>3, <2>3
  <2>4. QED  BY <1>7, <2>2, <2>3 DEF Joined, AskStale
<1>8. CASE Left(n, w, m.ok)
  <2>1. w.via \in ZGroups
    BY <1>1, <1>8 DEF Left, WorkFits
  <2>2. CASE Ask(n, w, "drop", w.via, w.via) /\ stale' = TRUE
    <3>1. \A q : q.step = "drop" /\ q.who = w.via /\ q.to = w.via /\ q.no \in Nat => CallFits(q)
      BY <2>1, GroupFits, GroupsAreEnds
    <3>2. \A v : v.step = "drop" /\ v.link = w.link /\ v.via = w.via => WorkFits(v)
      BY <1>2 DEF WorkFits
    <3>3. QED  BY <1>1, <2>2, <3>1, <3>2, AskFits DEF ZigbeeTyped
  <2>3. CASE FinishWrite(n, w, "applied") /\ UNCHANGED stale
    BY <1>1, <1>3, <2>3
  <2>4. QED  BY <1>8, <2>2, <2>3 DEF Left, AskStale
<1>9. QED  BY <1>4, <1>5, <1>6, <1>7, <1>8 DEF Answered, w

LEMMA StreamTyped ==
  ASSUME NetworkTyped, stream # <<>>
  PROVE  Head(stream) \in Messages /\ Tail(stream) \in Seq(Messages)
BY DEF NetworkTyped

LEMMA ResponseFits == ASSUME ZigbeeTyped, WorkTyped, OnResponse PROVE ZigbeeTyped'
<1>1. /\ \/ UNCHANGED <<stale, calls, work>>
         \/ \E n \in Nodes : Answered(n, Head(stream))
      /\ stream # <<>> /\ stream' = Tail(stream)
      /\ UNCHANGED <<air, copy, adapter, stateFirst>>
  BY DEF OnResponse, Awaiting
<1>2. CallsFit' /\ AllWorkFits' /\ stale' \in BOOLEAN
  <2>1. CASE UNCHANGED <<stale, calls, work>>
    BY <2>1 DEF ZigbeeTyped, CallsFit, AllWorkFits, NetworkTyped
  <2>2. CASE \E n \in Nodes : Answered(n, Head(stream))
    BY <2>2, AnswerFits
  <2>3. QED  BY <1>1, <2>1, <2>2
<1>3. stream' \in Seq(Messages)
  BY <1>1, StreamTyped DEF ZigbeeTyped
<1>4. QED  BY <1>1, <1>2, <1>3 DEF ZigbeeTyped, NetworkTyped

(* The coroutines that change their step only. *)
LEMMA StepsFit ==
  ASSUME AllWorkFits,
         \A m \in Nodes : \/ work'[m] = work[m]
                          \/ work'[m] = Resting
                          \/ /\ work[m].step # "idle" /\ work'[m].link = work[m].link
                             /\ work'[m].step \in {"done", "reading", "read"}
  PROVE  AllWorkFits'
<1>1. WorkFits(Resting)
  BY DEF WorkFits, Resting
<1>2. ASSUME NEW m \in Nodes  PROVE WorkFits(work'[m])
  BY <1>1 DEF AllWorkFits, WorkFits
<1>3. QED  BY <1>2 DEF AllWorkFits

LEMMA NoAnswerFits ==
  ASSUME ZigbeeTyped, WorkTyped, NEW n \in Nodes, NoAnswer(n)
  PROVE  ZigbeeTyped'
<1> DEFINE w == work[n]
           result == IF w.step \in {"bind", "unbind"} /\ n \in Asleep THEN "wakeup" ELSE "failed"
           v == [w EXCEPT !.step = "done", !.no = 0, !.result = result]
<1>1. w \in WorkType /\ w.step # "idle"
  BY DEF NoAnswer, Busy, WorkTyped
<1>2. work' = [work EXCEPT ![n] = v] /\ calls' \subseteq calls
  BY DEF NoAnswer
<1>3. v.step = "done" /\ v.link = w.link
  BY <1>1 DEF WorkType
<1> HIDE DEF v
<1>4. \A m \in Nodes : work'[m] = IF m = n THEN v ELSE work[m]
  BY <1>2 DEF WorkTyped
<1>5. AllWorkFits'
  BY <1>1, <1>3, <1>4, StepsFit DEF ZigbeeTyped
<1>6. stale' \in BOOLEAN /\ UNCHANGED <<air, copy, adapter, stream, stateFirst>>
  BY DEF NoAnswer
<1>7. CallsFit'
  BY <1>2 DEF ZigbeeTyped, CallsFit
<1>8. QED  BY <1>5, <1>6, <1>7 DEF ZigbeeTyped, NetworkTyped

(* What the bridge publishes. *)
LEMMA PublishedTyped ==
  ASSUME NetworkTyped, NEW s \in Networks, NEW q, CallFits(q)
  PROVE  /\ Append(Republished(s, q), Answer(q, TRUE)) \in Seq(Messages)
         /\ <<Answer(q, TRUE)>> \o Republished(s, q) \in Seq(Messages)
         /\ <<Answer(q, FALSE)>> \in Seq(Messages)
<1>1. /\ DeviceList(s) \in Messages /\ GroupList(s) \in Messages
      /\ Answer(q, TRUE) \in Messages /\ Answer(q, FALSE) \in Messages
  BY MessagesAre
<1>2. Republished(s, q) \in Seq(Messages)
  BY <1>1 DEF Republished
<1>3. ASSUME NEW m \in Messages, NEW r \in Seq(Messages)
      PROVE  Append(r, m) \in Seq(Messages) /\ <<m>> \in Seq(Messages) /\ <<m>> \o r \in Seq(Messages)
  OBVIOUS
<1>4. QED  BY <1>1, <1>2, <1>3

LEMMA BridgeFits ==
  ASSUME ZigbeeTyped, NEW q, BridgeCarries(q) \/ BridgeRefuses(q)
  PROVE  ZigbeeTyped'
<1>1. /\ q \in calls /\ calls' = calls \ {q}
      /\ UNCHANGED <<copy, adapter, stale, work, stateFirst>>
      /\ \/ /\ air' = Carried(air, q)
            /\ stream' = Streamed(
                 IF stateFirst THEN Append(Republished(Carried(air, q), q), Answer(q, TRUE))
                 ELSE <<Answer(q, TRUE)>> \o Republished(Carried(air, q), q))
         \/ air' = air /\ stream' = Streamed(<<Answer(q, FALSE)>>)
  BY DEF BridgeCarries, BridgeRefuses
<1>2. CallFits(q) /\ NetworkTyped
  BY <1>1 DEF ZigbeeTyped, CallsFit
<1>3. air \in Networks /\ Carried(air, q) \in Networks
  BY <1>2, CarriedIsNetwork DEF NetworkTyped
<1>4. \E messages \in Seq(Messages) : stream' = Streamed(messages)
  BY <1>1, <1>2, <1>3, PublishedTyped
<1>5. stream' \in Seq(Messages)
  BY <1>2, <1>4 DEF Streamed, NetworkTyped
<1>6. CallsFit' /\ AllWorkFits'
  BY <1>1 DEF ZigbeeTyped, CallsFit, AllWorkFits
<1>7. QED  BY <1>1, <1>2, <1>3, <1>5, <1>6 DEF ZigbeeTyped, NetworkTyped

LEMMA StateFits == ASSUME ZigbeeTyped, WorkTyped, StateArrives PROVE ZigbeeTyped'
<1> DEFINE m == Head(stream)
<1>1. /\ stream # <<>> /\ m.topic \in {"devices", "groups"} /\ stream' = Tail(stream)
      /\ copy' = IF m.topic = "devices" THEN [copy EXCEPT !.bound = m.bound]
                 ELSE [copy EXCEPT !.groups = m.groups]
      /\ adapter' \in {adapter, "up"} /\ stale' = FALSE
      /\ UNCHANGED <<air, calls, stateFirst>>
  BY DEF StateArrives
<1>2. m \in Messages /\ stream' \in Seq(Messages)
  BY <1>1, StreamTyped DEF ZigbeeTyped
<1>3. copy' \in Networks
  <2>1. copy \in [bound : Bonds, groups : Groupings]
    BY NetworksAre DEF ZigbeeTyped, NetworkTyped
  <2>2. \/ m.topic = "devices" /\ m.bound \in Bonds
        \/ m.topic = "groups" /\ m.groups \in Groupings
    BY <1>1, <1>2 DEF Messages
  <2> HIDE DEF m
  <2>3. copy' \in [bound : Bonds, groups : Groupings]
    BY <1>1, <2>1, <2>2
  <2>4. QED  BY <2>3, NetworksAre
<1>4. AllWorkFits'
  <2>1. ASSUME NEW n \in Nodes
        PROVE  \/ work'[n] = work[n]
               \/ /\ work[n].step # "idle" /\ work'[n].link = work[n].link
                  /\ work'[n].step \in {"done", "reading", "read"}
    <3>1. work'[n] = IF work[n].step = "reading"
                     THEN [work[n] EXCEPT !.step = "read", !.verified = TRUE] ELSE work[n]
      BY DEF StateArrives, Woken
    <3>2. work[n] \in WorkType
      BY DEF WorkTyped
    <3>3. QED  BY <3>1, <3>2 DEF WorkType
  <2>2. QED  BY <2>1, StepsFit DEF ZigbeeTyped
<1>5. QED  BY <1>1, <1>2, <1>3, <1>4 DEF ZigbeeTyped, NetworkTyped, CallsFit

LEMMA ReadsFit ==
  ASSUME ZigbeeTyped, WorkTyped, NEW n \in Nodes, ReadBack(n) \/ ReadTimesOut(n)
  PROVE  ZigbeeTyped'
<1>1. /\ UNCHANGED <<air, copy, adapter, calls, stream, stateFirst>>
      /\ stale' = stale \/ stale' = FALSE
  BY DEF ReadBack, ReadTimesOut
<1>2. work[n] \in WorkType /\ work \in [Nodes -> WorkType]
  BY DEF WorkTyped
<1>3. ASSUME NEW m \in Nodes
      PROVE  \/ work'[m] = work[m]
             \/ /\ work[m].step # "idle" /\ work'[m].link = work[m].link
                /\ work'[m].step \in {"done", "reading", "read"}
  <2>1. CASE ReadBack(n)
    BY <1>2, <2>1 DEF ReadBack, WorkType
  <2>2. CASE ReadTimesOut(n)
    BY <1>2, <2>2 DEF ReadTimesOut, WorkType
  <2>3. QED  BY <2>1, <2>2
<1>4. AllWorkFits'
  BY <1>3, StepsFit DEF ZigbeeTyped
<1>5. QED  BY <1>1, <1>4 DEF ZigbeeTyped, NetworkTyped, CallsFit

LEMMA EmptyIsNetwork == Empty \in Networks
<1>1. Empty.groups = [g \in DOMAIN Empty.groups |-> Empty.groups[g]] /\ DOMAIN Empty.groups = {}
  BY DEF Empty
<1>2. Empty.groups \in Groupings
  BY <1>1, GroupingsAre
<1>3. Empty.bound \in Bonds /\ Empty = [bound |-> Empty.bound, groups |-> Empty.groups]
  BY DEF Empty, Bonds
<1>4. QED  BY <1>2, <1>3, NetworksAre

LEMMA SetupFits == ASSUME ZigbeeTyped, AsyncStart \/ AsyncStop PROVE ZigbeeTyped'
<1>1. /\ UNCHANGED <<air, calls, stateFirst>> /\ adapter' \in {"starting", "down"}
      /\ copy' \in {copy, Empty} /\ (stale' = FALSE \/ stale' = stale)
      /\ stream' \in {<<>>, <<GroupList(air), DeviceList(air)>>}
  BY DEF AsyncStart, AsyncStop
<1>3. stream' \in Seq(Messages)
  <2>1. DeviceList(air) \in Messages /\ GroupList(air) \in Messages
    BY MessagesAre DEF ZigbeeTyped, NetworkTyped
  <2>2. <<GroupList(air), DeviceList(air)>> \in Seq(Messages) /\ <<>> \in Seq(Messages)
    BY <2>1
  <2>3. QED  BY <1>1, <2>2
<1>4. AllWorkFits'
  <2>1. \A m \in Nodes : work'[m] = work[m] \/ work'[m] = Resting
    BY DEF AsyncStart, AsyncStop
  <2>2. QED  BY <2>1, StepsFit DEF ZigbeeTyped
<1>5. QED  BY <1>1, <1>3, <1>4, EmptyIsNetwork DEF ZigbeeTyped, NetworkTyped, CallsFit

LEMMA TypedStart == ZigbeeInit => ZigbeeTyped
<1> SUFFICES ASSUME ZigbeeInit PROVE ZigbeeTyped  OBVIOUS
<1>1. air \in Networks /\ copy \in Networks
  BY EmptyIsNetwork, ZigbeeAssumption DEF ZigbeeInit
<1>2. adapter = "down" /\ stale = FALSE /\ stateFirst \in BOOLEAN /\ stream = <<>>
  BY DEF ZigbeeInit
<1>3. stream \in Seq(Messages)
  BY <1>2
<1>4. CallsFit /\ AllWorkFits
  BY DEF ZigbeeInit, CallsFit, AllWorkFits, WorkFits, Resting
<1>5. QED  BY <1>1, <1>2, <1>3, <1>4 DEF ZigbeeTyped, NetworkTyped

LEMMA TypedStep ==
  ASSUME ZigbeeTyped, WorkTyped, [ZigbeeNext]_zigbeeVars
  PROVE  ZigbeeTyped'
<1>1. CASE UNCHANGED zigbeeVars
  BY <1>1 DEF zigbeeVars, ZigbeeTyped, NetworkTyped, CallsFit, AllWorkFits
<1>2. CASE OnState
  BY <1>2 DEF OnState, ZigbeeTyped, NetworkTyped, CallsFit, AllWorkFits
<1>3. QED  BY <1>1, <1>2, WriteFits, NoAnswerFits, ReadsFit, BridgeFits, StateFits, ResponseFits,
              SetupFits DEF ZigbeeNext

(* zigbee2mqtt.py: the adapter's copy is always of a network's shape, as   *)
(* are the messages it is made from, and whoever is at work is at a link.  *)
THEOREM ZigbeeAdapterTyped == ZigbeeSpec => []ZigbeeTypeOK
<1>1. ZigbeeInv /\ ZigbeeTyped => ZigbeeTypeOK
  <2> SUFFICES ASSUME ZigbeeInv, ZigbeeTyped PROVE ZigbeeTypeOK  OBVIOUS
  <2>1. WorkTyped /\ online \in BOOLEAN /\ number \in Nat
    BY DEF ZigbeeInv, WorkTyped
  <2>2. \A q \in calls : q.no \in Nat /\ q.who \in Controls \cup ZGroups /\ q.to \in Ends
    BY DEF ZigbeeTyped, CallsFit, CallFits
  <2>3. \A n \in Nodes : Busy(n) => work[n].link \in ZLinks
    BY DEF ZigbeeTyped, AllWorkFits, WorkFits, Busy
  <2>4. QED  BY <2>1, <2>2, <2>3 DEF ZigbeeTypeOK, ZigbeeTyped, NetworkTyped
<1>2. ZigbeeInit => ZigbeeInv /\ ZigbeeTyped
  BY ZigbeeStart, TypedStart
<1>3. ZigbeeInv /\ ZigbeeTyped /\ [ZigbeeNext]_zigbeeVars => ZigbeeInv' /\ ZigbeeTyped'
  BY ZigbeeStep, TypedStep DEF ZigbeeInv
<1>4. QED  BY <1>1, <1>2, <1>3, PTL DEF ZigbeeSpec
=============================================================================
