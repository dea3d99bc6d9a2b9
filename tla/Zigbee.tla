------------------------------- MODULE Zigbee -------------------------------
(***************************************************************************)
(* backends.zigbee2mqtt.ZigbeeBackend: links written as Zigbee bindings by *)
(* asking the bridge over MQTT, and the managed group that a rule with     *)
(* several targets is bound to.                                            *)
(*                                                                         *)
(* The adapter sees the network only through the topics the bridge retains *)
(* (its copy), one request is one message and its answer is another, and   *)
(* requests of several devices are out at once.  The runner writes one     *)
(* link of a device at a time and reads the device back afterwards.        *)
(*                                                                         *)
(* A control is an endpoint with a cluster, and a link one feature of it;  *)
(* features that share a cluster share the binding.  A managed group has   *)
(* the name dl_<rule>, and stands here for that name and for its id.       *)
(***************************************************************************)
EXTENDS Naturals, Sequences, FiniteSets, Functions

CONSTANTS
  Nodes,         \* the Zigbee devices
  Coordinator,
  Managed,       \* the names of managed groups, one a rule
  Foreign,       \* the names of groups somebody else made
  Controls, ControlNode,
  ZLinks, LinkControl, LinkTarget,
  LinkGroup,     \* the managed group of a link's rule, or None
  None,
  Unserved,      \* links whose cluster one of the two ends does not have
  Asleep,        \* battery devices
  UserSetups,    \* what may be on the network before the first write
  MaxTrouble     \* bound: writes asked for, and what goes wrong: answers
                 \* missed or refused, outages and unloads

ZGroups == Managed \cup Foreign
Ends == Nodes \cup {Coordinator} \cup ZGroups

Networks ==
  [bound : SUBSET (Controls \X Ends), groups : UNION {[s -> SUBSET Nodes] : s \in SUBSET ZGroups}]

ASSUME ZigbeeAssumption ==
  /\ ControlNode \in [Controls -> Nodes] /\ LinkControl \in [ZLinks -> Controls]
  /\ LinkTarget \in [ZLinks -> Ends] /\ LinkGroup \in [ZLinks -> Managed \cup {None}]
  /\ Coordinator \notin Nodes /\ Managed \cap Foreign = {}
  /\ (Nodes \cup {Coordinator}) \cap ZGroups = {} /\ None \notin ZGroups
  /\ UserSetups \subseteq Networks /\ MaxTrouble \in Nat

VARIABLES
  air,        \* the bindings and groups of the network
  copy,       \* _State.devices and .groups: the same as last delivered
  adapter,    \* is it subscribed
  online,     \* _State.online
  stale,      \* _state_stale
  number,     \* the last transaction taken from _transactions
  calls,      \* requests published and not yet carried out
  stream,     \* messages of the bridge not yet delivered
  work,       \* what each device's coroutine is doing
  stateFirst, \* does the bridge publish its state before it answers
  past        \* history, and the counters the bounds are put on

zigbeeVars == <<air, copy, adapter, online, stale, number, calls, stream, work,
                stateFirst, past>>

Empty == [bound |-> {}, groups |-> [g \in {} |-> {}]]

Resting ==
  [step |-> "idle", link |-> None, adding |-> FALSE, via |-> None, no |-> 0, result |-> "none",
   asked |-> {}, verified |-> FALSE]

ZigbeeInit ==
  /\ air \in UserSetups
  /\ copy = Empty /\ adapter = "down" /\ online = FALSE /\ stale = FALSE
  /\ number = 0 /\ calls = {} /\ stream = <<>>
  /\ work = [n \in Nodes |-> Resting]
  /\ stateFirst \in BOOLEAN
  /\ past = [trouble |-> 0, reloads |-> 0, promised |-> {}, carried |-> {},
             together |-> {}, strayed |-> FALSE, crowded |-> FALSE, reused |-> FALSE]

-----------------------------------------------------------------------------
(* What a record of bindings and groups says.                              *)

Bound(s, c) == {e \in Ends : <<c, e>> \in s.bound}
Members(s, g) == IF g \in DOMAIN s.groups THEN s.groups[g] ELSE {}

(* A managed group with members is reported as them, any other as itself.  *)
TargetsOf(s, e) ==
  IF e \in Managed /\ Members(s, e) # {} THEN Members(s, e) ELSE {e}

Drives(s, c) == UNION {TargetsOf(s, e) : e \in Bound(s, c)}

IsPresent(s, l) ==
  IF LinkTarget[l] \in ZGroups THEN LinkTarget[l] \in Bound(s, LinkControl[l])
  ELSE LinkTarget[l] \in Drives(s, LinkControl[l])

(* ObservedLink refuses to be built from a device to itself.               *)
DrivesItself(s, n) == \E c \in Controls : ControlNode[c] = n /\ n \in Drives(s, c)

(* The bindings to single devices that are not the coordinator's reports.  *)
PeerBindings(s, l) == Bound(s, LinkControl[l]) \ (ZGroups \cup {Coordinator})

GroupHolding(s, l) ==
  {g \in Managed \cap Bound(s, LinkControl[l]) : LinkTarget[l] \in Members(s, g)}

GroupFor(s, l) ==
  LET g == LinkGroup[l] IN
  IF g # None /\ LinkTarget[l] \notin ZGroups
     /\ ((g \in DOMAIN s.groups /\ g \in Bound(s, LinkControl[l])) \/ PeerBindings(s, l) # {})
  THEN g ELSE None

AbsoluteRefusal(l) ==
  \/ LinkTarget[l] = Coordinator
  \/ LinkTarget[l] = ControlNode[LinkControl[l]]
  \/ ~online
  \/ LinkTarget[l] \in ZGroups \ (Managed \cap DOMAIN copy.groups)

-----------------------------------------------------------------------------
(* Requests.  who is the control of a binding or the group of a membership.*)

Busy(n) == work[n].step \notin {"idle", "done", "read"}
Awaiting(no) == {n \in Nodes : Busy(n) /\ work[n].no = no}

Bounded == past.trouble < MaxTrouble
OneMore == [past EXCEPT !.trouble = @ + 1]

(* A device's coroutine publishes its next request and waits.              *)
Ask(n, w, step, who, to) ==
  LET q == [step |-> step, who |-> who, to |-> to, no |-> number + 1,
            epoch |-> past.reloads]
  IN /\ calls' = calls \cup {q}
     /\ number' = q.no
     /\ work' = [work EXCEPT ![n] = [w EXCEPT !.step = step, !.no = q.no,
                                              !.asked = @ \cup {<<q.epoch, q.no>>}]]

(* Mutant of AskStale: nobody is told that a republish is due.             *)
AskQuietly(n, w, step, who, to) == Ask(n, w, step, who, to) /\ UNCHANGED stale

AskStale(n, w, step, who, to) == Ask(n, w, step, who, to) /\ stale' = TRUE

FinishWrite(n, w, result) ==
  /\ work' = [work EXCEPT ![n] = [w EXCEPT !.step = "done", !.no = 0, !.result = result]]
  /\ UNCHANGED <<calls, number>>

(* past.promised: the links last reported to be there.                     *)
Promised(w, result, h) ==
  IF w.adding /\ result \in {"applied", "present"}
  THEN [h EXCEPT !.promised = @ \cup {w.link}] ELSE h

JoinGroup(n, w) == AskStale(n, w, "join", LinkGroup[w.link], LinkTarget[w.link])

-----------------------------------------------------------------------------
(* Mutant of TakeOff: a managed group goes with the first of its members.  *)
TakeOffAll(n, w) ==
  LET l == w.link IN
  IF LinkTarget[l] \in Bound(copy, LinkControl[l])
  THEN AskStale(n, w, "unbind", LinkControl[l], LinkTarget[l])
  ELSE \E g \in GroupHolding(copy, l) : AskStale(n, w, "drop", g, g)

(* _unbind, for a link that is present: as a plain binding or in a group.  *)
TakeOff(n, w) ==
  LET l == w.link IN
  IF LinkTarget[l] \in Bound(copy, LinkControl[l])
  THEN AskStale(n, w, "unbind", LinkControl[l], LinkTarget[l])
  ELSE \E g \in GroupHolding(copy, l) :
         AskStale(n, [w EXCEPT !.via = g], "leave", g, LinkTarget[l])

(* _bind, up to its first request.  Creating raises the flag only after.   *)
PutOn(n, w) ==
  LET g == GroupFor(copy, w.link) IN
  CASE g = None -> AskStale(n, w, "bind", LinkControl[w.link], LinkTarget[w.link])
    [] g # None /\ g \in DOMAIN copy.groups -> JoinGroup(n, w)
    [] OTHER -> Ask(n, w, "create", g, g) /\ UNCHANGED stale

(* Links a removal may take along: several may have their target in one    *)
(* binding or in one group, those of a control go with the group it is     *)
(* bound to, and a link to a managed group goes with its last member.      *)
TakenAlong(l) ==
  {k \in ZLinks : \/ LinkTarget[k] \in Managed \cup {LinkTarget[l]}
                  \/ LinkTarget[l] \in ZGroups /\ LinkControl[k] = LinkControl[l]}

(* The managed groups a write of a link may touch.  Two writes that may    *)
(* touch the same one meet in it.                                          *)
Touches(l) == Managed \cap ({LinkGroup[l], LinkTarget[l]} \cup Bound(air, LinkControl[l]))

Requesting(n) == work[n].step \in {"bind", "unbind", "create", "join", "leave", "drop"}

Meets(l) ==
  \E n \in Nodes : Requesting(n) /\ Touches(l) \cap (Touches(work[n].link) \cup {work[n].via}) # {}

(* Devices whose write, or the read after it, is not over.                 *)
Others(n) == {m \in Nodes \ {n} : work[m].step \notin {"idle", "read"}}

Started(l, adding) ==
  LET n == ControlNode[LinkControl[l]]
      alone == calls = {} /\ stream = <<>> /\ Others(n) = {}
  IN [past EXCEPT !.trouble = @ + 1,
                  !.together = Others(n) \cup IF alone THEN @ \ {n} ELSE @ \cup {n},
                  !.crowded = @ \/ Meets(l),
                  !.promised = IF adding THEN @ ELSE @ \ TakenAlong(l)]

(* The control cannot send, or the target has no use for it.               *)
CapabilityRefusal(l) == l \in Unserved

(* _is_present builds the links a device is observed to have, which cannot *)
(* be done of one that drives itself, unless the link names a group.       *)
CannotTell(l) ==
  LinkTarget[l] \notin ZGroups /\ DrivesItself(copy, ControlNode[LinkControl[l]])

(* async_add_link and async_remove_link, to their first await.             *)
WriteLink(l, adding) ==
  LET n == ControlNode[LinkControl[l]]
      w == [Resting EXCEPT !.link = l, !.adding = adding]
      h == Started(l, adding)
      ends(result) == /\ FinishWrite(n, w, result)
                      /\ past' = Promised(w, result, h) /\ UNCHANGED stale
  IN
  /\ adapter = "up" /\ ~Busy(n) /\ Bounded
  /\ \/ AbsoluteRefusal(l) /\ ends("blocked")
     \/ ~AbsoluteRefusal(l) /\ CannotTell(l) /\ ends("raised")
     \/ /\ ~AbsoluteRefusal(l) /\ ~CannotTell(l)
        /\ \/ IsPresent(copy, l) = adding /\ ends("present")
           \/ /\ IsPresent(copy, l) # adding
              /\ IF adding /\ CapabilityRefusal(l) THEN ends("blocked")
                 ELSE past' = h /\ IF adding THEN PutOn(n, w) ELSE TakeOff(n, w)
  /\ UNCHANGED <<air, copy, adapter, online, stream, stateFirst>>

-----------------------------------------------------------------------------
(* What a coroutine does with the answer to its request: take ok is "all   *)
(* clusters done" and not ok an error or a cluster in failed.  Links name  *)
(* one cluster, so nothing was written then and nothing will be            *)
(* republished for it.                                                     *)
BindAnswered(n, w, ok) ==
  /\ w.step \in {"bind", "unbind"}
  /\ stale' = (stale /\ ok)
  /\ \E result \in IF ok THEN {"applied"}
                   ELSE IF n \in Asleep THEN {"failed", "wakeup"} ELSE {"failed"} :
       FinishWrite(n, w, result) /\ past' = Promised(w, result, past)

GroupStepFailed(n, w, ok) ==
  /\ w.step \in {"join", "leave", "drop"} /\ ~ok
  /\ FinishWrite(n, w, "failed") /\ UNCHANGED <<stale, past>>

Created(n, w, ok) ==
  /\ w.step = "create"
  /\ IF ok THEN JoinGroup(n, w) ELSE FinishWrite(n, w, "failed") /\ stale' = TRUE
  /\ UNCHANGED past

(* Mutant of Joined: the second member's control is taken for bound.       *)
JoinedUnbound(n, w, ok) ==
  /\ w.step = "join" /\ ok
  /\ FinishWrite(n, w, "applied") /\ past' = Promised(w, "applied", past) /\ UNCHANGED stale

Joined(n, w, ok) ==
  LET g == LinkGroup[w.link] IN
  /\ w.step = "join" /\ ok
  /\ IF g \in DOMAIN copy.groups /\ g \in Bound(copy, LinkControl[w.link])
     THEN /\ FinishWrite(n, w, "applied") /\ past' = Promised(w, "applied", past)
          /\ UNCHANGED stale
     ELSE AskStale(n, w, "bind", LinkControl[w.link], g) /\ UNCHANGED past

(* The group goes when the copy shows no member, arrived or not.           *)
Left(n, w, ok) ==
  /\ w.step = "leave" /\ ok
  /\ IF Members(copy, w.via) # {}
     THEN FinishWrite(n, w, "applied") /\ UNCHANGED stale
     ELSE AskStale(n, w, "drop", w.via, w.via)
  /\ UNCHANGED past

Dropped(n, w, ok) ==
  /\ w.step = "drop" /\ ok
  /\ FinishWrite(n, w, "applied") /\ UNCHANGED <<stale, past>>

Answered(n, m) ==
  LET w == work[n] IN
  \/ BindAnswered(n, w, m.ok) \/ GroupStepFailed(n, w, m.ok) \/ Created(n, w, m.ok)
  \/ Joined(n, w, m.ok) \/ Left(n, w, m.ok) \/ Dropped(n, w, m.ok)

(* No answer in time, or none can come as the publishing raised.           *)
NoAnswer(n) ==
  LET w == work[n]
      mine == {q \in calls : q.no = w.no /\ q.epoch = past.reloads}
  IN
  /\ Bounded /\ adapter = "up" /\ Busy(n) /\ w.step # "reading"
  /\ LET result == IF w.step \in {"bind", "unbind"} /\ n \in Asleep THEN "wakeup" ELSE "failed"
     IN work' = [work EXCEPT ![n] = [w EXCEPT !.step = "done", !.no = 0, !.result = result]]
  /\ stale' = (stale \/ w.step = "create")
  /\ \E lost \in {{}, mine} : calls' = calls \ lost
  /\ past' = [OneMore EXCEPT !.together = @ \cup {n},
                          !.strayed = @ \/ <<past.reloads, w.no>> \in past.carried]
  /\ UNCHANGED <<air, copy, adapter, online, number, stream, stateFirst>>

-----------------------------------------------------------------------------
(* The bridge.                                                             *)
Possible(q) ==
  CASE q.step = "create" -> q.who \notin DOMAIN air.groups
    [] q.step \in {"join", "leave", "drop"} -> q.who \in DOMAIN air.groups
    [] OTHER -> q.to \in ZGroups => q.to \in DOMAIN air.groups

Carried(s, q) ==
  LET given(members) == [s EXCEPT !.groups = [g \in DOMAIN @ \cup {q.who} |->
                           IF g = q.who THEN members ELSE @[g]]]
  IN
  CASE q.step = "bind" -> [s EXCEPT !.bound = @ \cup {<<q.who, q.to>>}]
    [] q.step = "unbind" -> [s EXCEPT !.bound = @ \ {<<q.who, q.to>>}]
    [] q.step = "create" -> given({})
    [] q.step = "join" -> given(Members(s, q.who) \cup {q.to})
    [] q.step = "leave" -> given(Members(s, q.who) \ {q.to})
    [] q.step = "drop" ->
         [bound |-> {b \in s.bound : b[2] # q.who},
          groups |-> Restrict(s.groups, DOMAIN s.groups \ {q.who})]

Answer(q, ok) == [topic |-> "answer", no |-> q.no, ok |-> ok]
DeviceList(s) == [topic |-> "devices", bound |-> s.bound]
GroupList(s) == [topic |-> "groups", groups |-> s.groups]

Republished(s, q) ==
  CASE q.step \in {"bind", "unbind"} -> <<DeviceList(s)>>
    [] q.step = "drop" -> <<GroupList(s), DeviceList(s)>>
    [] OTHER -> <<GroupList(s)>>

Streamed(messages) == IF adapter = "down" THEN stream ELSE stream \o messages

BridgeCarries(q) ==
  LET s == Carried(air, q)
      waiting == q.epoch = past.reloads /\ Awaiting(q.no) # {}
  IN
  /\ q \in calls /\ Possible(q)
  /\ calls' = calls \ {q}
  /\ air' = s
  /\ stream' = Streamed(IF stateFirst THEN Append(Republished(s, q), Answer(q, TRUE))
                     ELSE <<Answer(q, TRUE)>> \o Republished(s, q))
  /\ past' = [past EXCEPT !.carried = @ \cup {<<q.epoch, q.no>>},
                          !.strayed = @ \/ ~waiting]
  /\ UNCHANGED <<copy, adapter, online, stale, number, work, stateFirst>>

BridgeRefuses(q) ==
  /\ Bounded /\ q \in calls
  /\ calls' = calls \ {q} /\ past' = OneMore
  /\ stream' = Streamed(<<Answer(q, FALSE)>>)
  /\ UNCHANGED <<air, copy, adapter, online, stale, number, work, stateFirst>>

-----------------------------------------------------------------------------
(* _on_message.  Either retained topic ends the wait of every deep read;   *)
(* only the devices end the wait of a start.                               *)
Woken ==
  work' = [n \in Nodes |-> IF work[n].step = "reading"
                           THEN [work[n] EXCEPT !.step = "read", !.verified = TRUE]
                           ELSE work[n]]

StateArrives ==
  LET m == Head(stream) IN
  /\ stream # <<>> /\ m.topic \in {"devices", "groups"}
  /\ copy' = IF m.topic = "devices" THEN [copy EXCEPT !.bound = m.bound]
             ELSE [copy EXCEPT !.groups = m.groups]
  /\ adapter' = IF m.topic = "devices" THEN "up" ELSE adapter
  /\ stream' = Tail(stream) /\ stale' = FALSE /\ Woken
  /\ UNCHANGED <<air, online, number, calls, stateFirst, past>>

(* Mutant of OnResponse: whoever waits is answered, whatever was asked.    *)
AnyResponse ==
  LET m == Head(stream) IN
  /\ stream # <<>> /\ m.topic = "answer"
  /\ stream' = Tail(stream)
  /\ LET waiting == {n \in Nodes : Busy(n) /\ work[n].step # "reading"} IN
     IF waiting = {} THEN UNCHANGED <<stale, number, calls, work, past>>
     ELSE \E n \in waiting : Answered(n, m)
  /\ UNCHANGED <<air, copy, adapter, online, stateFirst>>

OnResponse ==
  LET m == Head(stream) IN
  /\ stream # <<>> /\ m.topic = "answer"
  /\ stream' = Tail(stream)
  /\ IF Awaiting(m.no) = {} THEN UNCHANGED <<stale, number, calls, work, past>>
     ELSE \E n \in Awaiting(m.no) : Answered(n, m)
  /\ UNCHANGED <<air, copy, adapter, online, stateFirst>>

(* bridge/state: the bridge leaves or comes back.                          *)
OnState ==
  /\ adapter # "down"
  /\ online' = ~online
  /\ IF online THEN Bounded /\ past' = OneMore ELSE UNCHANGED past
  /\ UNCHANGED <<air, copy, adapter, stale, number, calls, stream, work, stateFirst>>

(* async_observed after a write, deep: whether it waits for a republish.   *)
ReadBack(n) ==
  /\ adapter = "up" /\ work[n].step = "done"
  /\ work' = [work EXCEPT ![n] =
       IF online /\ stale THEN [@ EXCEPT !.step = "reading"]
       ELSE [@ EXCEPT !.step = "read", !.verified = online]]
  /\ UNCHANGED <<air, copy, adapter, online, stale, number, calls, stream, stateFirst, past>>

ReadTimesOut(n) ==
  /\ Bounded /\ work[n].step = "reading"
  /\ stale' = FALSE /\ past' = OneMore
  /\ work' = [work EXCEPT ![n].step = "read"]
  /\ UNCHANGED <<air, copy, adapter, online, number, calls, stream, stateFirst>>

-----------------------------------------------------------------------------
(* The entry is set up, its retained messages come, and it is unloaded; or *)
(* the start gives up.  A new backend object counts its transactions from  *)
(* one again.                                                              *)
AsyncStart ==
  /\ adapter = "down"
  /\ adapter' = "starting" /\ online' = TRUE
  /\ copy' = Empty /\ stale' = FALSE /\ number' = 0
  /\ stream' = <<GroupList(air), DeviceList(air)>>
  /\ past' = [past EXCEPT !.reloads = @ + 1, !.reused = @ \/ calls # {}, !.promised = {}]
  /\ UNCHANGED <<air, calls, work, stateFirst>>

AsyncStop ==
  /\ Bounded /\ adapter # "down"
  /\ adapter' = "down" /\ past' = OneMore
  /\ stream' = <<>>
  /\ work' = [n \in Nodes |-> Resting]
  /\ UNCHANGED <<air, copy, online, stale, number, calls, stateFirst>>

ZigbeeNext ==
  \/ \E l \in ZLinks, adding \in BOOLEAN : WriteLink(l, adding)
  \/ \E n \in Nodes : NoAnswer(n) \/ ReadBack(n) \/ ReadTimesOut(n)
  \/ \E q \in calls : BridgeCarries(q) \/ BridgeRefuses(q)
  \/ StateArrives \/ OnResponse \/ OnState \/ AsyncStart \/ AsyncStop

ZigbeeSpec == ZigbeeInit /\ [][ZigbeeNext]_zigbeeVars

-----------------------------------------------------------------------------
ZigbeeTypeOK ==
  /\ air \in Networks /\ copy \in Networks
  /\ adapter \in {"down", "starting", "up"}
  /\ online \in BOOLEAN /\ stale \in BOOLEAN /\ stateFirst \in BOOLEAN
  /\ number \in Nat
  /\ \A q \in calls : q.no \in Nat /\ q.who \in Controls \cup ZGroups /\ q.to \in Ends
  /\ \A n \in Nodes : Busy(n) => work[n].link \in ZLinks

(* async_add_link: a link reported as applied, or as there already, is     *)
(* carried by the network until it is asked to be removed, however many    *)
(* requests the binding took and whatever became of other links, given a   *)
(* bridge that republishes before it answers.  Not claimed once a request  *)
(* that timed out has been carried out after all, two devices' writes have *)
(* met in a managed group, or an entry was set up with requests out.       *)
PromisesKept ==
  stateFirst /\ ~past.strayed /\ ~past.crowded /\ ~past.reused =>
    \A l \in past.promised : IsPresent(air, l)

(* _on_response: what is reported as applied was carried out, every        *)
(* request of it, however late and in whatever order answers come.  Not    *)
(* claimed across a reload with requests out, as transactions start again. *)
AnswersAreTheirOwn ==
  \A n \in Nodes :
    ~past.reused /\ work[n].result = "applied" => work[n].asked \subseteq past.carried

(* async_observed: a read that is said to be verified shows the link as it *)
(* is, when its device had the bridge to itself from the write on, and the *)
(* write took one request or the bridge republishes before it answers.     *)
VerifiedShowsWrite ==
  [][\A n \in Nodes :
       LET w == work'[n] IN
       /\ work[n].step # "read" /\ w.step = "read" /\ w.verified
       /\ n \notin past.together
       /\ stateFirst \/ Cardinality(w.asked) = 1
       => (IsPresent(copy', w.link) <=> IsPresent(air, w.link))]_zigbeeVars
=============================================================================
