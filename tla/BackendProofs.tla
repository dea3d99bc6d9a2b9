--------------------------- MODULE BackendProofs ----------------------------
(***************************************************************************)
(* Theorems about the Z-Wave and the Matter adapter, for every network,    *)
(* every set of callers and every bound.                                   *)
(***************************************************************************)
EXTENDS ZWave, Matter, TLAPS

(***************************************************************************)
(* Z-Wave: what was answered of an association is so.  Whatever changes an *)
(* association says so, or takes back what was said; an answer from the    *)
(* driver's copy is only counted where the copy is right.                  *)
(***************************************************************************)
ToldInv == told \in [Entries -> {"held", "gone", Nobody}] /\ AnswersHold

LEMMA ToldStart == ZWaveInit => ToldInv
BY DEF ZWaveInit, ToldInv, AnswersHold

LEMMA PresentTrue == ASSUME ToldInv, NEW c \in Callers, Present(c) PROVE ToldInv'
<1> DEFINE e == call[c].entry
           adding == call[c].adding
<1>1. UNCHANGED held
  BY DEF Present
<1>2. CASE UNCHANGED told
  BY <1>1, <1>2 DEF ToldInv, AnswersHold
<1>3. CASE IsAssociated(e) = adding /\ told' = [told EXCEPT ![e] = SaidOf(e, adding)]
  <2>1. SaidOf(e, adding) \in {"held", "gone", Nobody}
    BY DEF SaidOf
  <2>2. told' \in [Entries -> {"held", "gone", Nobody}]
    BY <1>3, <2>1 DEF ToldInv
  <2>3. SaidOf(e, adding) # Nobody => (e \in held) = (SaidOf(e, adding) = "held")
    <3>1. e \notin Strange => (e \in held <=> e \in copied)
      BY DEF Strange
    <3>2. e \in copied <=> adding
      BY <1>3 DEF IsAssociated
    <3>3. CASE e \in Strange
      BY <3>3 DEF SaidOf
    <3>4. CASE e \notin Strange /\ e \in copied
      BY <3>1, <3>2, <3>4 DEF SaidOf
    <3>5. CASE e \notin Strange /\ e \notin copied
      BY <3>1, <3>2, <3>5 DEF SaidOf
    <3>6. QED  BY <3>3, <3>4, <3>5
  <2> HIDE DEF e, adding
  <2>4. AnswersHold'
    BY <1>1, <1>3, <2>3 DEF ToldInv, AnswersHold
  <2>5. QED  BY <2>2, <2>4 DEF ToldInv
<1>4. QED  BY <1>2, <1>3 DEF Present

LEMMA CarryTrue == ASSUME ToldInv, NEW n \in Radios, Carry(n) PROVE ToldInv'
<1> DEFINE e == Head(queue[n]).entry
           adding == Head(queue[n]).adding
           done == IF adding THEN held \cup {e} ELSE held \ {e}
           said == IF Head(queue[n]).by = Nobody THEN Nobody
                   ELSE IF adding THEN "held" ELSE "gone"
<1>1. \/ held' = done /\ told' = [told EXCEPT ![e] = said]
      \/ UNCHANGED <<held, told>>
      \/ held' \in {held, done} /\ told' = [told EXCEPT ![e] = Nobody]
  BY DEF Carry
<1>2. said \in {"held", "gone", Nobody}
  OBVIOUS
<1>3. said # Nobody => (e \in done) = (said = "held")
  OBVIOUS
<1>4. \A f : f # e => (f \in done) = (f \in held)
  OBVIOUS
<1> HIDE DEF done, said, e
<1>5. QED  BY <1>1, <1>2, <1>3, <1>4 DEF ToldInv, AnswersHold

LEMMA ToldStep == ToldInv /\ [ZWaveNext]_zwaveVars => ToldInv'
<1> SUFFICES ASSUME ToldInv, [ZWaveNext]_zwaveVars PROVE ToldInv'  OBVIOUS
<1>1. ASSUME UNCHANGED <<held, told>>  PROVE ToldInv'
  BY <1>1 DEF ToldInv, AnswersHold
<1>2. ASSUME NEW e \in Entries, ChangedByHand(e)  PROVE ToldInv'
  BY <1>2 DEF ChangedByHand, ToldInv, AnswersHold
<1>3. CASE \/ \E c \in Callers :
              \/ \E e \in Entries, adding \in BOOLEAN : StartWrite(c, e, adding)
              \/ \E m \in Radios, deep \in BOOLEAN : StartRead(c, m, deep)
              \/ Checked(c) \/ Refresh(c) \/ Waited(c) \/ Dump(c)
           \/ \E m \in Radios : SleepOrWake(m)
           \/ \E e \in Entries : Report(ValueOf(e))
  BY <1>1, <1>3 DEF StartWrite, StartRead, Checked, Refresh, Waited, Dump, SleepOrWake, Report
<1>4. CASE UNCHANGED zwaveVars
  BY <1>1, <1>4 DEF zwaveVars
<1>5. QED  BY <1>2, <1>3, <1>4, PresentTrue, CarryTrue DEF ZWaveNext

(* An answer APPLIED or ALREADY_PRESENT is true of the node, whichever     *)
(* calls crossed it (zwave.py, async_add_link and async_remove_link).      *)
THEOREM AnswersAreTrue == ZWaveSpec => []AnswersHold
<1>1. ToldInv => AnswersHold  BY DEF ToldInv
<1>2. QED  BY <1>1, ToldStart, ToldStep, PTL DEF ZWaveSpec

(* A call is of a node and, before its write is answered, of an entry.     *)
Askable == UNION {Values(n) : n \in Radios}
CallSteps == {"idle", "present", "check", "sent", "waiting", "dump"} \cup Classes

CallType ==
  [pc : CallSteps, entry : Entries \cup {Nobody}, adding : BOOLEAN, node : Radios \cup {Nobody},
   answered : BOOLEAN, verified : BOOLEAN, strange : SUBSET Entries,
   unread : SUBSET Askable]

CallOK(r) ==
  /\ r \in CallType
  /\ r.pc \in {"present", "check", "sent"} => r.entry \in Entries /\ r.node \in Radios
  /\ r.pc \in Classes => r.node \in Radios

Commands == [entry : Entries, adding : BOOLEAN, by : Callers \cup {Nobody}]

CallsOK == call = [c \in Callers |-> call[c]] /\ \A c \in Callers : CallOK(call[c])
NodesOK ==
  /\ held \subseteq Entries /\ copied \subseteq Entries /\ awake \subseteq Radios
  /\ queue \in [Radios -> Seq(Commands)]
  /\ refreshing \subseteq Askable
  /\ asks \in 0..MaxCalls /\ hands \in 0..MaxHands

LEMMA IdleOK == CallOK(Idle)
BY DEF Idle, CallOK, CallType, CallSteps, Classes

LEMMA OneCall ==
  ASSUME CallsOK, NEW c \in Callers, NEW r, CallOK(r), call' = [call EXCEPT ![c] = r]
  PROVE  CallsOK'
<1>1. \A d \in Callers : call'[d] = IF d = c THEN r ELSE call[d]
  BY DEF CallsOK
<1>2. call' = [d \in Callers |-> call'[d]]
  BY DEF CallsOK
<1>3. \A d \in Callers : CallOK(call'[d])
  BY <1>1 DEF CallsOK
<1>4. (\A d \in Callers : CallOK(call[d]))'
  BY <1>3 DEF CallOK
<1>5. QED  BY <1>2, <1>4 DEF CallsOK

LEMMA GoesOnOK == ASSUME CallsOK, NEW c \in Callers, NEW well PROVE CallOK(GoesOn(c, well))
<1>1. call[c] \in CallType
  BY DEF CallsOK, CallOK
<1>2. [call[c] EXCEPT !.pc = "dump"] \in CallType /\ [call[c] EXCEPT !.pc = "dump"].pc = "dump"
  BY <1>1 DEF CallType, CallSteps
<1>3. CallOK([call[c] EXCEPT !.pc = "dump"])
  BY <1>2 DEF CallOK, Classes
<1>4. QED  BY <1>3, IdleOK DEF GoesOn

LEMMA SendOK ==
  ASSUME CallsOK, NodesOK, NEW c \in Callers, call[c].pc \in {"present", "check"}, Send(c)
  PROVE  CallsOK' /\ queue' \in [Radios -> Seq(Commands)]
<1>1. call[c] \in CallType /\ call[c].entry \in Entries /\ call[c].node \in Radios
  BY DEF CallsOK, CallOK
<1> DEFINE n == call[c].node
           by == IF n \in awake THEN c ELSE Nobody
           command == [entry |-> call[c].entry, adding |-> call[c].adding, by |-> by]
           sent == [call[c] EXCEPT !.pc = "sent"]
<1>2. queue' = [queue EXCEPT ![n] = Append(@, command)]
  BY DEF Send
<1>3. command \in Commands
  BY <1>1 DEF Commands, CallType
<1>4. \/ call' = [call EXCEPT ![c] = sent] \/ call' = [call EXCEPT ![c] = GoesOn(c, TRUE)]
  BY DEF Send
<1>5. CallOK(sent)
  <2>1. sent \in CallType /\ sent.pc = "sent" /\ sent.entry = call[c].entry /\ sent.node = n
    BY <1>1 DEF CallType, CallSteps
  <2> HIDE DEF sent, n
  <2>2. QED  BY <1>1, <2>1 DEF CallOK, Classes, n
<1> HIDE DEF command, sent, n
<1>6. CallsOK'
  BY <1>4, <1>5, GoesOnOK, OneCall
<1>7. n \in Radios
  BY <1>1 DEF n
<1>8. QED  BY <1>2, <1>3, <1>6, <1>7 DEF NodesOK

(* The value of an entry, and the entries of a value.                      *)
LEMMA ValuesReported ==
  /\ \A n \in Radios : Values(n) \subseteq Askable
  /\ \A v : EntriesOf(v) \subseteq Entries
BY DEF Values, Askable, EntriesOf

LEMMA ReportedOK ==
  ASSUME NEW v, NEW now, NEW emits \in BOOLEAN, NEW others,
         copied \subseteq Entries, \A c \in Callers : CallOK(others[c]),
         Reported(v, now, emits, others)
  PROVE  copied' \subseteq Entries /\ CallsOK'
<1>1. copied' \subseteq Entries
  BY ValuesReported DEF Reported
<1> DEFINE heard(c) == others[c].answered \/ (/\ emits /\ others[c].node = v[1]
                                             /\ others[c].pc \in Classes \cup {"waiting"})
           new(c) == [others[c] EXCEPT !.unread = @ \ {v}, !.answered = heard(c)]
<1>2. call' = [c \in Callers |-> new(c)]
  BY DEF Reported
<1>3. ASSUME NEW c \in Callers  PROVE CallOK(new(c))
  <2>1. CallOK(others[c]) /\ others[c] \in CallType
    BY DEF CallOK
  <2>2. heard(c) \in BOOLEAN
    BY <2>1 DEF CallType
  <2>3. \A b \in BOOLEAN :
          LET r == [others[c] EXCEPT !.unread = @ \ {v}, !.answered = b]
          IN /\ r \in CallType /\ r.pc = others[c].pc /\ r.entry = others[c].entry
             /\ r.node = others[c].node
    BY <2>1 DEF CallType
  <2> HIDE DEF heard
  <2>4. /\ new(c) \in CallType /\ new(c).pc = others[c].pc /\ new(c).entry = others[c].entry
        /\ new(c).node = others[c].node
    BY <2>2, <2>3
  <2> HIDE DEF new
  <2>5. QED  BY <2>1, <2>4 DEF CallOK
<1> HIDE DEF new
<1>4. \A c \in Callers : call'[c] = new(c)
  BY <1>2
<1>5. (\A c \in Callers : CallOK(call[c]))'
  BY <1>3, <1>4 DEF CallOK
<1>6. call' = [c \in Callers |-> call'[c]]
  BY <1>2
<1>7. QED  BY <1>1, <1>5, <1>6 DEF CallsOK

LEMMA CarryOK ==
  ASSUME CallsOK, NodesOK, NEW n \in Radios, Carry(n)
  PROVE  CallsOK' /\ NodesOK'
<1> DEFINE command == Head(queue[n])
           e == command.entry
           done == IF command.adding THEN held \cup {e} ELSE held \ {e}
           Answer(well) == IF command.by = Nobody THEN call
                           ELSE [call EXCEPT ![command.by] = GoesOn(command.by, well)]
<1>1. queue[n] \in Seq(Commands) /\ queue[n] # <<>>
  BY DEF NodesOK, Carry
<1>2. command \in Commands /\ Tail(queue[n]) \in Seq(Commands)
  BY <1>1
<1>3. /\ queue' = [queue EXCEPT ![n] = Tail(@)] /\ UNCHANGED <<awake, refreshing, asks>>
      /\ \/ /\ held' = done /\ UNCHANGED hands
            /\ \E emits \in BOOLEAN : Reported(ValueOf(e), done, emits, Answer(TRUE))
         \/ call' = Answer(FALSE) /\ UNCHANGED <<held, copied, hands>>
         \/ /\ hands < MaxHands /\ hands' = hands + 1 /\ UNCHANGED copied
            /\ held' \in {held, done} /\ call' = Answer(FALSE)
  BY DEF Carry
<1>4. e \in Entries /\ command.by \in Callers \cup {Nobody}
  BY <1>2 DEF Commands
<1> HIDE DEF command
<1>5. done \subseteq Entries
  BY <1>4 DEF NodesOK
<1>6. ASSUME NEW well \in BOOLEAN
      PROVE  /\ \A c \in Callers : CallOK(Answer(well)[c])
             /\ Answer(well) = [c \in Callers |-> Answer(well)[c]]
  <2>1. CASE command.by = Nobody
    BY <2>1 DEF CallsOK
  <2>2. CASE command.by # Nobody
    <3>1. command.by \in Callers /\ CallOK(GoesOn(command.by, well))
      BY <1>4, <2>2, GoesOnOK
    <3>2. QED  BY <2>2, <3>1 DEF CallsOK
  <2>3. QED  BY <2>1, <2>2
<1> HIDE DEF Answer, done, e
<1>7. CallsOK' /\ copied' \subseteq Entries
  <2>1. CASE call' = Answer(FALSE) /\ UNCHANGED copied
    <3>1. call' = [c \in Callers |-> call'[c]] /\ \A c \in Callers : CallOK(call'[c])
      BY <1>6, <2>1
    <3>2. (\A c \in Callers : CallOK(call[c]))'
      BY <3>1 DEF CallOK
    <3>3. QED  BY <2>1, <3>1, <3>2 DEF CallsOK, NodesOK
  <2>2. CASE \E emits \in BOOLEAN : Reported(ValueOf(e), done, emits, Answer(TRUE))
    BY <1>6, <2>2, ReportedOK DEF NodesOK
  <2>3. QED  BY <1>3, <2>1, <2>2
<1>8. held' \subseteq Entries /\ hands' \in 0..MaxHands
  <2>1. held' \in {held, done} /\ (hands' = hands \/ (hands < MaxHands /\ hands' = hands + 1))
    BY <1>3
  <2>2. held \subseteq Entries /\ hands \in 0..MaxHands /\ MaxHands \in Nat
    BY ZWaveAssumption DEF NodesOK
  <2>3. held' \subseteq Entries
    BY <1>5, <2>1, <2>2
  <2>4. hands' \in 0..MaxHands
    BY <2>1, <2>2
  <2>5. QED  BY <2>3, <2>4
<1>9. queue' \in [Radios -> Seq(Commands)]
  BY <1>2, <1>3 DEF NodesOK
<1>10. QED  BY <1>3, <1>7, <1>8, <1>9 DEF NodesOK

LEMMA NodesSame ==
  ASSUME NodesOK, UNCHANGED <<held, copied, awake, queue, refreshing, hands>>,
         asks' \in 0..MaxCalls
  PROVE  NodesOK'
BY DEF NodesOK, Askable, Commands

LEMMA CallerOK ==
  ASSUME CallsOK, NodesOK, NEW c \in Callers,
         \/ \E e \in Entries, adding \in BOOLEAN : StartWrite(c, e, adding)
         \/ \E m \in Radios, deep \in BOOLEAN : StartRead(c, m, deep)
         \/ Present(c) \/ Checked(c) \/ Refresh(c) \/ Waited(c) \/ Dump(c)
  PROVE  CallsOK' /\ NodesOK'
<1>0. CallOK(call[c]) /\ call[c] \in CallType /\ asks \in 0..MaxCalls
  BY DEF CallsOK, CallOK, NodesOK
<1>1. ASSUME NEW e \in Entries, NEW adding \in BOOLEAN, StartWrite(c, e, adding)
      PROVE  CallsOK' /\ NodesOK'
  <2> DEFINE r == [Idle EXCEPT !.pc = "present", !.entry = e, !.adding = adding,
                               !.node = EntryNode[e]]
  <2>1. EntryNode[e] \in Radios
    BY ZWaveAssumption
  <2>2. r \in CallType /\ r.entry = e /\ r.node = EntryNode[e] /\ r.pc = "present"
    BY <2>1 DEF Idle, CallType, CallSteps
  <2> HIDE DEF r
  <2>3. CallOK(r)
    BY <2>1, <2>2 DEF CallOK, Classes
  <2>4. call' = [call EXCEPT ![c] = r] /\ UNCHANGED <<held, copied, awake, queue, refreshing, hands>>
    BY <1>1 DEF StartWrite, r
  <2>5. asks' \in 0..MaxCalls
    <3>1. asks < MaxCalls /\ asks' = asks + 1
      BY <1>1 DEF StartWrite
    <3>2. QED  BY <1>0, <3>1, ZWaveAssumption
  <2>6. QED  BY <2>3, <2>4, <2>5, OneCall, NodesSame
<1>2. ASSUME NEW m \in Radios, NEW deep \in BOOLEAN, StartRead(c, m, deep)
      PROVE  CallsOK' /\ NodesOK'
  <2> DEFINE pc == IF deep /\ m \in awake THEN "association" ELSE "dump"
             strange == {e \in Strange : EntryNode[e] = m}
             r == [Idle EXCEPT !.pc = pc, !.node = m, !.strange = strange, !.unread = Values(m)]
  <2>1. pc \in {"association", "dump"} /\ strange \subseteq Entries
    BY DEF Strange, NodesOK
  <2>2. Values(m) \subseteq Askable
    BY ValuesReported
  <2> HIDE DEF pc, strange
  <2>3. r \in CallType /\ r.node = m /\ r.pc = pc
    BY <2>1, <2>2 DEF Idle, CallType, CallSteps, Classes
  <2> HIDE DEF r
  <2>4. CallOK(r)
    BY <2>1, <2>3 DEF CallOK, Classes
  <2>5. call' = [call EXCEPT ![c] = r] /\ UNCHANGED <<held, copied, awake, queue, refreshing, hands>>
    BY <1>2 DEF StartRead, r, pc, strange
  <2>6. asks' \in 0..MaxCalls
    <3>1. asks < MaxCalls /\ asks' = asks + 1
      BY <1>2 DEF StartRead
    <3>2. QED  BY <1>0, <3>1, ZWaveAssumption
  <2>7. QED  BY <2>4, <2>5, <2>6, OneCall, NodesSame
<1>3. CASE Present(c)
  <2>1. CASE call' = [call EXCEPT ![c] = GoesOn(c, TRUE)] /\ UNCHANGED queue
    BY <1>0, <1>3, <2>1, GoesOnOK, OneCall, NodesSame DEF Present
  <2>2. CASE call' = [call EXCEPT ![c].pc = "check"] /\ UNCHANGED queue
    <3> DEFINE r == [call[c] EXCEPT !.pc = "check"]
    <3>1. r \in CallType /\ r.entry = call[c].entry /\ r.node = call[c].node /\ r.pc = "check"
      BY <1>0 DEF CallType, CallSteps
    <3>2. call' = [call EXCEPT ![c] = r]
      BY <2>2
    <3> HIDE DEF r
    <3>3. CallOK(r)
      BY <1>0, <1>3, <3>1 DEF CallOK, Present, Classes
    <3>4. QED  BY <1>0, <1>3, <2>2, <3>2, <3>3, OneCall, NodesSame DEF Present
  <2>3. CASE Send(c)
    <3>1. CallsOK' /\ queue' \in [Radios -> Seq(Commands)]
      BY <1>3, <2>3, SendOK DEF Present
    <3>2. QED  BY <1>3, <3>1 DEF Present, NodesOK
  <2>4. QED  BY <1>3, <2>1, <2>2, <2>3 DEF Present
<1>4. CASE Checked(c)
  <2>1. CASE call' = [call EXCEPT ![c] = GoesOn(c, FALSE)] /\ UNCHANGED queue
    BY <1>0, <1>4, <2>1, GoesOnOK, OneCall, NodesSame DEF Checked
  <2>2. CASE Send(c)
    <3>1. CallsOK' /\ queue' \in [Radios -> Seq(Commands)]
      BY <1>4, <2>2, SendOK DEF Checked
    <3>2. QED  BY <1>4, <3>1 DEF Checked, NodesOK
  <2>3. QED  BY <1>4, <2>1, <2>2 DEF Checked
<1>5. CASE Refresh(c)
  <2> DEFINE pc == IF call[c].pc = "association" THEN "multi_channel" ELSE "waiting"
             r == [call[c] EXCEPT !.pc = pc]
  <2>1. call[c].node \in Radios
    BY <1>0, <1>5 DEF Refresh, CallOK
  <2>2. Values(call[c].node) \subseteq Askable
    BY <2>1, ValuesReported
  <2>3. refreshing' \subseteq Askable
    BY <1>5, <2>2 DEF Refresh, NodesOK
  <2>4. pc \in {"multi_channel", "waiting"}
    OBVIOUS
  <2>5. call' = [call EXCEPT ![c] = r] \/ call' = [call EXCEPT ![c] = Idle]
    BY <1>5 DEF Refresh
  <2> HIDE DEF pc
  <2>6. r \in CallType /\ r.node = call[c].node /\ r.pc = pc
    BY <1>0, <2>4 DEF CallType, CallSteps, Classes
  <2> HIDE DEF r
  <2>7. CallOK(r)
    BY <2>1, <2>4, <2>6 DEF CallOK
  <2>8. CallsOK'
    BY <2>5, <2>7, IdleOK, OneCall
  <2>9. QED  BY <1>5, <2>3, <2>8 DEF Refresh, NodesOK
<1>6. CASE Waited(c)
  <2> DEFINE r == [call[c] EXCEPT !.pc = "dump", !.verified = call[c].answered]
  <2>1. r \in CallType /\ r.pc = "dump"
    BY <1>0 DEF CallType, CallSteps
  <2>2. call' = [call EXCEPT ![c] = r]
    BY <1>6 DEF Waited, CallsOK
  <2> HIDE DEF r
  <2>3. CallOK(r)
    BY <2>1 DEF CallOK, Classes
  <2>4. QED  BY <1>0, <1>6, <2>2, <2>3, OneCall, NodesSame DEF Waited
<1>7. CASE Dump(c)
  BY <1>0, <1>7, IdleOK, OneCall, NodesSame DEF Dump
<1>8. QED  BY <1>1, <1>2, <1>3, <1>4, <1>5, <1>6, <1>7

(* zwave.py and the driver under it: the queues hold commands of callers,  *)
(* and a call is always at one of its steps, of an entry and a node.       *)
THEOREM ZWaveTyped == ZWaveSpec => []ZWaveTypeOK
<1>1. ZWaveInit => CallsOK /\ NodesOK
  <2> SUFFICES ASSUME ZWaveInit PROVE CallsOK /\ NodesOK
    OBVIOUS
  <2>1. CallsOK
    BY IdleOK DEF ZWaveInit, CallsOK
  <2>2. \A n \in Radios : <<>> \in Seq(Commands)
    OBVIOUS
  <2>3. NodesOK
    BY <2>2, ZWaveAssumption DEF ZWaveInit, NodesOK
  <2>4. QED  BY <2>1, <2>3
<1>2. ASSUME CallsOK, NodesOK, [ZWaveNext]_zwaveVars  PROVE CallsOK' /\ NodesOK'
  <2>1. ASSUME NEW n \in Radios, SleepOrWake(n)  PROVE CallsOK' /\ NodesOK'
    BY <1>2, <2>1 DEF SleepOrWake, CallsOK, NodesOK, CallOK
  <2>2. ASSUME NEW e \in Entries, ChangedByHand(e)  PROVE CallsOK' /\ NodesOK'
    <3>1. held' \subseteq Entries /\ hands' \in 0..MaxHands
      BY <1>2, <2>2, ZWaveAssumption DEF ChangedByHand, NodesOK
    <3>2. QED  BY <1>2, <2>2, <3>1 DEF ChangedByHand, CallsOK, NodesOK, CallOK
  <2>3. ASSUME NEW e \in Entries, Report(ValueOf(e))  PROVE CallsOK' /\ NodesOK'
    <3>1. PICK emits \in BOOLEAN : Reported(ValueOf(e), held, emits, call)
      BY <2>3 DEF Report
    <3>2. CallsOK' /\ copied' \subseteq Entries
      BY <1>2, <3>1, ReportedOK DEF CallsOK, NodesOK
    <3>3. QED  BY <1>2, <2>3, <3>2 DEF Report, NodesOK
  <2>4. CASE UNCHANGED zwaveVars
    BY <1>2, <2>4 DEF zwaveVars, CallsOK, NodesOK, CallOK
  <2>5. QED  BY <1>2, <2>1, <2>2, <2>3, <2>4, CallerOK, CarryOK DEF ZWaveNext
<1>3. CallsOK /\ NodesOK /\ ToldInv => ZWaveTypeOK
  <2> SUFFICES ASSUME CallsOK, NodesOK, ToldInv PROVE ZWaveTypeOK
    OBVIOUS
  <2>1. ASSUME NEW n \in Radios, NEW i \in 1..Len(queue[n])  PROVE queue[n][i] \in Commands
    <3>1. queue[n] \in Seq(Commands)
      BY DEF NodesOK
    <3>2. QED  BY <3>1
  <2>2. \A c \in Callers : /\ call[c].pc \in CallSteps /\ call[c].entry \in Entries \cup {Nobody}
                           /\ call[c].node \in Radios \cup {Nobody}
                           /\ call[c].strange \subseteq Entries
    BY DEF CallsOK, CallOK, CallType
  <2>3. QED
    BY <2>1, <2>2 DEF NodesOK, ToldInv, Commands, CallSteps, Askable, ZWaveTypeOK
<1>4. QED  BY <1>1, <1>2, <1>3, ToldStart, ToldStep, PTL DEF ZWaveSpec

----------------------------------------------------------------------------
(***************************************************************************)
(* Matter: a link that was written stays allowed, and a binding follows    *)
(* its grant.                                                              *)
(*                                                                         *)
(* Both hold because a list that is about to be written back still says    *)
(* what the device says: of a target no two writers have met at, only the  *)
(* one writer changes the list it has read, and the bindings of a node are *)
(* taken off by its own writer alone.  A grant is taken back only by a     *)
(* removal, or by a failed addition that found none and wrote it; neither  *)
(* of them leaves a kept link that lives on it.                            *)
(***************************************************************************)
Places == Targets \cup AclEntry   \* what the lists are of

JobSteps ==
  {"idle", "view", "grant", "granting", "confirm", "bind", "binding", "verify",
   "unbind", "unbinding", "unverify", "revoke", "revoking"}

JobType ==
  [step : JobSteps,
   link : MLinks \cup {NoJob.link}, adding : BOOLEAN, list : SUBSET Places,
   before : SUBSET AclEntry, written : BOOLEAN,
   result : {"none", "applied", "present", "blocked", "failed", "wakeup"}]

Node(l) == EndpointNode[MSource[l]]
LampOf(l) == TargetNode[MTarget[l]]

(* What one list allows, another does. *)
Widened(list, after) ==
  \A s \in Switches, t \in Targets : Granted(list, s, t) => Granted(after, s, t)

(* ... but for the grant of one node to one target. *)
NarrowedFor(l, list, after) ==
  \A s \in Switches, t \in Targets :
    Granted(list, s, t) /\ ~(s = Node(l) /\ t = MTarget[l]) => Granted(after, s, t)

(* What the writer of node n knows, of bindings b, lists a, kept links k   *)
(* and contended targets c.                                                *)
Knows(n, w, b, a, k, c) ==
  w.step # "idle" =>
    /\ w.link \in MLinks /\ Node(w.link) = n
    /\ w.step \in {"granting", "revoking"} => w.list \subseteq AclEntry
    /\ w.step \in {"unbind", "unbinding", "unverify"} => ~w.adding
    /\ w.step \in {"revoke", "revoking"} /\ w.adding => w.written /\ w.result # "applied"
    /\ w.step = "binding" =>
         w.list \subseteq Targets /\ w.list \subseteq b[MSource[w.link]] \cup {MTarget[w.link]}
    /\ w.step = "unbinding" => w.list \subseteq Targets /\ w.list \subseteq b[MSource[w.link]]
    /\ LampOf(w.link) \notin c =>
         /\ ~w.adding \/ w.written \/ w.step \in {"granting", "confirm"} =>
              k \cap SharesGrant(w.link) = {}
         /\ w.step \in {"bind", "binding", "verify"} =>
              Granted(a[LampOf(w.link)], n, MTarget[w.link])
         /\ w.step = "granting" => Widened(a[LampOf(w.link)], w.list)
         /\ w.step = "revoking" => NarrowedFor(w.link, a[LampOf(w.link)], w.list)

(* No two writers are at a target that is not contended. *)
Alone ==
  \A m, n \in Switches :
    /\ writer[m].step # "idle" /\ writer[n].step # "idle"
    /\ LampOf(writer[m].link) = LampOf(writer[n].link)
    /\ LampOf(writer[m].link) \notin contended
    => m = n

MatterTyped ==
  /\ bindings \in [Endpoints -> SUBSET Targets]
  /\ acl \in [Lamps -> SUBSET AclEntry]
  /\ writer \in [Switches -> JobType]
  /\ kept \subseteq MLinks

MatterInv ==
  /\ MatterTyped /\ Alone /\ KeptLinksAllowed
  /\ \A n \in Switches : Knows(n, writer[n], bindings, acl, kept, contended)

(* The list a grant makes gives access, and takes nobody's. *)
LEMMA GrantForWidens ==
  ASSUME NEW list \in SUBSET AclEntry, NEW s \in Switches, NEW t \in Targets,
         NEW after \in GrantFor(list, s, t)
  PROVE  /\ after \subseteq AclEntry /\ Widened(list, after)
<1>1. CASE WithRoom(list, t) # {}
  <2>1. PICK e \in WithRoom(list, t) :
          after = (OursIn(list) \ {e}) \cup {[e EXCEPT !.subjects = @ \cup {s}]}
    BY <1>1 DEF GrantFor
  <2>2. e \in AclEntry /\ e \in list /\ IsManagedGrant(e, t)
    BY <2>1 DEF WithRoom, OursIn
  <2> DEFINE f == [e EXCEPT !.subjects = @ \cup {s}]
  <2>3. /\ f \in AclEntry /\ f.ours = e.ours /\ f.unreadable = e.unreadable
        /\ f.target = e.target /\ f.subjects = e.subjects \cup {s}
    BY <2>2 DEF AclEntry
  <2> HIDE DEF f
  <2>4. after = (OursIn(list) \ {e}) \cup {f}
    BY <2>1 DEF f
  <2>5. \A u \in Switches, v \in Targets : Grants(e, u, v) => Grants(f, u, v)
    BY <2>2, <2>3 DEF Grants, IsManagedGrant
  <2>6. QED  BY <2>3, <2>4, <2>5 DEF OursIn, Widened, Granted, Grants
<1>2. CASE WithRoom(list, t) = {}
  <2>1. after = OursIn(list) \cup {GrantEntry(s, t)}
    BY <1>2 DEF GrantFor
  <2>2. GrantEntry(s, t) \in AclEntry
    BY DEF GrantEntry, AclEntry
  <2>3. QED  BY <2>1, <2>2 DEF OursIn, Widened, Granted, Grants
<1>3. QED  BY <1>1, <1>2

(* The list a removal makes takes away one node's access to one target. *)
LEMMA RevokeForNarrows ==
  ASSUME NEW list \in SUBSET AclEntry, NEW l \in MLinks, Node(l) \in Switches,
         MTarget[l] \in Targets
  PROVE  /\ RevokeFor(list, Node(l), MTarget[l]) \subseteq AclEntry
         /\ NarrowedFor(l, list, RevokeFor(list, Node(l), MTarget[l]))
<1> DEFINE s == Node(l)  t == MTarget[l]
           taken == {e \in OursIn(list) : IsManagedGrant(e, t) /\ s \in e.subjects}
           shrunk == {[e EXCEPT !.subjects = @ \ {s}] : e \in {f \in taken : f.subjects # {s}}}
           after == RevokeFor(list, s, t)
<1>1. after = (OursIn(list) \ taken) \cup shrunk
  BY DEF RevokeFor
<1>2. \A e \in AclEntry :
        LET f == [e EXCEPT !.subjects = @ \ {s}]
        IN /\ f \in AclEntry /\ f.ours = e.ours /\ f.unreadable = e.unreadable
           /\ f.target = e.target /\ f.subjects = e.subjects \ {s}
  BY DEF AclEntry
<1>3. taken \subseteq list /\ taken \subseteq AclEntry
  BY DEF OursIn
<1>4. after \subseteq AclEntry
  BY <1>1, <1>2, <1>3 DEF OursIn
<1>5. ASSUME NEW u \in Switches, NEW v \in Targets, Granted(list, u, v), ~(u = s /\ v = t)
      PROVE  Granted(after, u, v)
  <2>1. PICK e \in list : Grants(e, u, v)
    BY <1>5 DEF Granted
  <2>2. CASE e \notin taken
    BY <1>1, <2>1, <2>2 DEF Granted, OursIn, Grants
  <2>3. CASE e \in taken
    <3>1. e.subjects # {} /\ u \in e.subjects /\ e.target = t /\ (t = Whole \/ t = v)
      BY <2>1, <2>3 DEF IsManagedGrant, Grants
    <3>2. u # s
      BY <1>5, <3>1, MatterAssumption
    <3> DEFINE f == [e EXCEPT !.subjects = @ \ {s}]
    <3>3. f \in shrunk
      <4>1. e \in {d \in taken : d.subjects # {s}}
        BY <2>3, <3>1, <3>2
      <4> HIDE DEF taken
      <4>2. QED  BY <4>1, Zenon
    <3>4. /\ f.ours = e.ours /\ f.unreadable = e.unreadable
          /\ f.target = e.target /\ f.subjects = e.subjects \ {s}
      BY <1>2, <1>3, <2>3
    <3> HIDE DEF f, shrunk
    <3>5. Grants(f, u, v)
      BY <2>1, <3>1, <3>2, <3>4 DEF Grants
    <3>6. QED  BY <1>1, <3>3, <3>5 DEF Granted
  <2>4. QED  BY <2>2, <2>3
<1>6. QED  BY <1>4, <1>5 DEF NarrowedFor

LEMMA NoJobTyped == NoJob \in JobType /\ NoJob.step = "idle" /\ NoJob.written = FALSE
<1>1. /\ NoJob.step = "idle" /\ NoJob.adding = FALSE /\ NoJob.list = {} /\ NoJob.before = {}
      /\ NoJob.written = FALSE /\ NoJob.result = "none"
      /\ NoJob = [step |-> "idle", link |-> NoJob.link, adding |-> FALSE, list |-> {},
                  before |-> {}, written |-> FALSE, result |-> "none"]
  BY DEF NoJob
<1>2. QED  BY <1>1 DEF JobType, JobSteps

LEMMA MatterStart == MatterInit => MatterInv
<1> SUFFICES ASSUME MatterInit PROVE MatterInv  OBVIOUS
<1>1. NoJob \in JobType /\ NoJob.step = "idle"
  BY NoJobTyped
<1>2. MatterTyped
  BY <1>1, MatterAssumption DEF MatterInit, MatterTyped
<1>3. QED  BY <1>1, <1>2 DEF MatterInit, MatterInv, Alone, KeptLinksAllowed, Knows

(* What a step of the writer of node n may do to the lists: bindings of    *)
(* its own controls go, grants at its own target change, and no kept link  *)
(* loses its own.                                                          *)
Effect(n) ==
  /\ bindings' \in [Endpoints -> SUBSET Targets] /\ acl' \in [Lamps -> SUBSET AclEntry]
  /\ \A c \in Endpoints : EndpointNode[c] # n => bindings[c] \subseteq bindings'[c]
  /\ \A d \in Lamps :
       acl'[d] # acl[d] => writer[n].step # "idle" /\ d = LampOf(writer[n].link)
  /\ \A l \in kept : LampOf(l) \notin contended =>
       Granted(acl'[LampOf(l)], Node(l), MTarget[l])

LEMMA NoEffect ==
  ASSUME MatterInv, NEW n \in Switches, UNCHANGED <<bindings, acl>>
  PROVE  Effect(n)
BY DEF MatterInv, MatterTyped, Effect, KeptLinksAllowed, Allowed, LampOf, Node

LEMMA KnownNext ==
  ASSUME MatterTyped', Alone', KeptLinksAllowed',
         \A m \in Switches : Knows(m, writer'[m], bindings', acl', kept', contended')
  PROVE  MatterInv'
<1>1. (\A m \in Switches : Knows(m, writer[m], bindings, acl, kept, contended))'
  BY DEF Knows, SharesGrant, Granted, Widened, NarrowedFor, LampOf, Node, Grants
<1>2. QED  BY <1>1 DEF MatterInv

(* The step of one writer leaves the others what they know. *)
LEMMA WriterMoves ==
  ASSUME MatterInv, NEW n \in Switches, NEW v \in JobType, Go(n, v), Effect(n),
         contended \subseteq contended', kept' \subseteq MLinks,
         \A l \in kept' : l \in kept \/ (Node(l) = n /\ (LampOf(l) \notin contended' =>
                            Granted(acl'[LampOf(l)], Node(l), MTarget[l]))),
         v.step # "idle" =>
           \/ writer[n].step # "idle" /\ v.link = writer[n].link
           \/ \A m \in Switches : writer[m].step # "idle"
                                   /\ LampOf(writer[m].link) = LampOf(v.link)
                                => LampOf(v.link) \in contended',
         Knows(n, v, bindings', acl', kept', contended')
  PROVE  MatterInv'
<1>1. writer \in [Switches -> JobType] /\ writer' = [writer EXCEPT ![n] = v]
  BY DEF MatterInv, MatterTyped, Go
<1>2. \A m \in Switches : writer'[m] = IF m = n THEN v ELSE writer[m]
  BY <1>1
<1>3. MatterTyped'
  BY <1>1 DEF MatterTyped, Effect
<1>4. Alone'
  <2>1. \A m, o \in Switches :
          /\ writer[m].step # "idle" /\ writer[o].step # "idle"
          /\ LampOf(writer[m].link) = LampOf(writer[o].link)
          /\ LampOf(writer[m].link) \notin contended
          => m = o
    BY DEF MatterInv, Alone
  <2>2. \A m, o \in Switches :
          /\ writer'[m].step # "idle" /\ writer'[o].step # "idle"
          /\ LampOf(writer'[m].link) = LampOf(writer'[o].link)
          /\ LampOf(writer'[m].link) \notin contended'
          => m = o
    BY <1>2, <2>1
  <2>3. QED  BY <2>2 DEF Alone, LampOf
<1>5. KeptLinksAllowed'
  <2>1. ASSUME NEW l \in kept', LampOf(l) \notin contended'
        PROVE  Granted(acl'[LampOf(l)], Node(l), MTarget[l])
    BY <2>1 DEF Effect
  <2>2. QED  BY <2>1 DEF KeptLinksAllowed, Allowed, LampOf, Node
<1>6. ASSUME NEW m \in Switches, m # n
      PROVE  Knows(m, writer[m], bindings', acl', kept', contended')
  <2> DEFINE w == writer[m]
  <2>1. Knows(m, w, bindings, acl, kept, contended) /\ w \in JobType
    BY <1>1 DEF MatterInv
  <2>2. SUFFICES ASSUME w.step # "idle"
                 PROVE  Knows(m, w, bindings', acl', kept', contended')
    BY DEF Knows
  <2>3. w.link \in MLinks /\ Node(w.link) = m
    BY <2>1, <2>2 DEF Knows
  <2>4. LampOf(w.link) \in Lamps /\ MSource[w.link] \in Endpoints
    BY <2>3, MatterAssumption DEF LampOf
  <2>5. bindings[MSource[w.link]] \subseteq bindings'[MSource[w.link]]
    BY <1>6, <2>3, <2>4 DEF Effect, Node
  <2>6. LampOf(w.link) \notin contended' =>
          acl'[LampOf(w.link)] = acl[LampOf(w.link)] /\ LampOf(w.link) \notin contended
    BY <1>6, <2>2, <2>4 DEF Effect, MatterInv, Alone
  <2>7. kept' \cap SharesGrant(w.link) \subseteq kept \cap SharesGrant(w.link)
    BY <1>6, <2>3 DEF SharesGrant, Node
  <2> HIDE DEF w
  <2>8. QED  BY <2>1, <2>2, <2>5, <2>6, <2>7 DEF Knows
<1>7. \A m \in Switches : Knows(m, writer'[m], bindings', acl', kept', contended')
  BY <1>2, <1>6
<1>8. QED  BY <1>3, <1>4, <1>5, <1>7, KnownNext

(* The result of a write; what is applied is allowed. *)
LEMMA EndMoves ==
  ASSUME MatterInv, NEW n \in Switches, writer[n].step # "idle", Effect(n), UNCHANGED contended,
         NEW result \in {"applied", "present", "blocked", "failed", "wakeup", "none"},
         End(n, writer[n], result),
         /\ writer[n].adding /\ result = "applied" /\ LampOf(writer[n].link) \notin contended
         => Granted(acl'[LampOf(writer[n].link)], n, MTarget[writer[n].link])
  PROVE  MatterInv'
<1> DEFINE v == [NoJob EXCEPT !.result = result]
<1>1. v \in JobType /\ v.step = "idle"
  BY NoJobTyped DEF JobType, JobSteps
<1>2. writer[n].link \in MLinks /\ Node(writer[n].link) = n
  BY DEF MatterInv, Knows
<1>3. Go(n, v) /\ kept' = kept \cup (IF writer[n].adding /\ result = "applied"
                                     THEN {writer[n].link} ELSE {})
  BY DEF End
<1>4. kept' \subseteq MLinks
  BY <1>2, <1>3 DEF MatterInv, MatterTyped
<1>5. Knows(n, v, bindings', acl', kept', contended')
  BY <1>1 DEF Knows
<1> HIDE DEF v
<1>6. \A l \in kept' : l \in kept \/ (Node(l) = n /\ (LampOf(l) \notin contended' =>
                            Granted(acl'[LampOf(l)], Node(l), MTarget[l])))
  BY <1>2, <1>3
<1>7. QED  BY <1>1, <1>3, <1>4, <1>5, <1>6, WriterMoves

(* A writer goes on with its link. *)
LEMMA ProceedMoves ==
  ASSUME MatterInv, NEW n \in Switches, writer[n].step # "idle", Effect(n), UNCHANGED contended,
         NEW v \in JobType, v.link = writer[n].link, Proceed(n, v),
         Knows(n, v, bindings', acl', kept, contended)
  PROVE  MatterInv'
<1>1. UNCHANGED kept /\ kept \subseteq MLinks
  BY DEF Proceed, MatterInv, MatterTyped
<1>2. Knows(n, v, bindings', acl', kept', contended')
  BY <1>1
<1>3. QED  BY <1>1, <1>2, WriterMoves DEF Proceed

(* What a writer goes on as. *)
LEMMA StepFields ==
  ASSUME NEW w \in JobType, NEW step \in JobSteps
  PROVE  /\ Step(w, step) \in JobType /\ Step(w, step).step = step
         /\ Step(w, step).link = w.link /\ Step(w, step).adding = w.adding
         /\ Step(w, step).written = w.written /\ Step(w, step).result = w.result
         /\ Step(w, step).list = w.list
BY DEF JobType, JobSteps, Step

LEMMA ListFields ==
  ASSUME NEW w \in JobType, NEW step \in JobSteps, NEW list \in SUBSET Places
  PROVE  /\ WriteList(w, step, list) \in JobType /\ WriteList(w, step, list).step = step
         /\ WriteList(w, step, list).list = list /\ WriteList(w, step, list).link = w.link
         /\ WriteList(w, step, list).adding = w.adding
         /\ WriteList(w, step, list).written = w.written
         /\ WriteList(w, step, list).result = w.result
BY DEF JobType, JobSteps, WriteList

RevokeNext(w, result) == [w EXCEPT !.step = "revoke", !.result = result]

LEMMA RevokeFields ==
  ASSUME NEW w \in JobType, NEW result \in {"present", "applied", "failed"}
  PROVE  /\ RevokeNext(w, result) \in JobType /\ RevokeNext(w, result).step = "revoke"
         /\ RevokeNext(w, result).link = w.link /\ RevokeNext(w, result).adding = w.adding
         /\ RevokeNext(w, result).written = w.written /\ RevokeNext(w, result).result = result
BY DEF JobType, JobSteps, RevokeNext

LEMMA ListReadsKeep == ASSUME MatterInv, NEW n \in Switches, Reading(n) PROVE MatterInv'
<1> DEFINE w == writer[n]
<1>1. w \in JobType /\ Knows(n, w, bindings, acl, kept, contended)
  BY DEF MatterInv, MatterTyped
<1>2. UNCHANGED <<bindings, acl, contended>> /\ Effect(n)
  BY NoEffect DEF Reading
<1>3. w.step # "idle"
  BY DEF Reading, ReadSource, Grant, Confirm, BindRead, BindVerify, UnbindRead, UnbindVerify,
         Revoke
<1>4. /\ w.link \in MLinks /\ Node(w.link) = n /\ LampOf(w.link) \in Lamps
      /\ MSource[w.link] \in Endpoints /\ MTarget[w.link] \in Targets
      /\ bindings[MSource[w.link]] \subseteq Targets /\ acl[LampOf(w.link)] \subseteq AclEntry
      /\ Source(w) = MSource[w.link] /\ Target(w) = MTarget[w.link] /\ Lamp(w) = LampOf(w.link)
      /\ EndpointNode[Source(w)] = n
  BY <1>1, <1>3, MatterAssumption
     DEF Knows, MatterInv, MatterTyped, LampOf, Node, Source, Target, Lamp
<1>5. ASSUME NEW result \in {"present", "blocked", "failed", "wakeup", "none"}, End(n, w, result)
      PROVE  MatterInv'
  BY <1>2, <1>3, <1>5, EndMoves
<1>6. ASSUME NEW v \in JobType, v.link = w.link, Proceed(n, v),
             Knows(n, v, bindings, acl, kept, contended)
      PROVE  MatterInv'
  BY <1>2, <1>3, <1>6, ProceedMoves
<1> HIDE DEF w
<1>7. CASE ReadSource(n, w)
  <2>1. w.step = "view"
    BY <1>7 DEF ReadSource
  <2>2. CASE Proceed(n, Step(w, "grant")) /\ w.adding /\ w.step = "view"
    <3> DEFINE v == Step(w, "grant")
    <3>1. /\ v \in JobType /\ v.step = "grant" /\ v.link = w.link /\ v.adding = w.adding
          /\ v.written = w.written
      BY <1>1, StepFields DEF JobSteps
    <3> HIDE DEF v
    <3>2. Knows(n, v, bindings, acl, kept, contended)
      BY <1>1, <2>2, <3>1 DEF Knows
    <3>3. QED  BY <1>6, <2>2, <3>1, <3>2 DEF v
  <2>3. CASE Proceed(n, Step(w, "unbind")) /\ ~w.adding /\ w.step = "view"
    <3> DEFINE v == Step(w, "unbind")
    <3>1. /\ v \in JobType /\ v.step = "unbind" /\ v.link = w.link /\ v.adding = w.adding
          /\ v.written = w.written
      BY <1>1, StepFields DEF JobSteps
    <3> HIDE DEF v
    <3>2. Knows(n, v, bindings, acl, kept, contended)
      BY <1>1, <2>3, <3>1 DEF Knows
    <3>3. QED  BY <1>6, <2>3, <3>1, <3>2 DEF v
  <2>4. CASE /\ Proceed(n, RevokeNext(w, "present"))
             /\ ~w.adding /\ w.step = "view"
    <3> DEFINE v == RevokeNext(w, "present")
    <3>1. v \in JobType /\ v.step = "revoke" /\ v.link = w.link /\ v.adding = w.adding
      BY <1>1, RevokeFields
    <3> HIDE DEF v
    <3>2. Knows(n, v, bindings, acl, kept, contended)
      BY <1>1, <2>4, <3>1 DEF Knows
    <3>3. QED  BY <1>6, <2>4, <3>1, <3>2 DEF v
  <2>5. CASE \E result \in {"present", "blocked"} : End(n, w, result)
    BY <1>5, <2>5
  <2>6. CASE w.adding
    <3>1. \/ \E result \in {"present", "blocked"} : End(n, w, result)
          \/ Proceed(n, Step(w, "grant"))
      <4>1. CASE Target(w) \in bindings[Source(w)]
        BY <1>7, <2>6, <4>1 DEF ReadSource
      <4>2. CASE Target(w) \notin bindings[Source(w)]
        BY <1>7, <2>6, <4>2 DEF ReadSource
      <4>3. QED  BY <4>1, <4>2
    <3>2. QED  BY <2>1, <2>2, <2>5, <2>6, <3>1
  <2>7. CASE ~w.adding
    <3>1. Proceed(n, Step(w, "unbind")) \/ Proceed(n, RevokeNext(w, "present"))
      <4>1. CASE Target(w) \in bindings[Source(w)]
        BY <1>7, <2>7, <4>1 DEF ReadSource
      <4>2. CASE Target(w) \notin bindings[Source(w)]
        BY <1>7, <2>7, <4>2 DEF ReadSource, RevokeNext
      <4>3. QED  BY <4>1, <4>2
    <3>2. QED  BY <2>1, <2>3, <2>4, <2>7, <3>1
  <2>8. QED  BY <2>6, <2>7
<1>8. CASE Grant(n, w)
  <2> DEFINE list == acl[LampOf(w.link)]  t == MTarget[w.link]
  <2>1. w.step = "grant"
    BY <1>8 DEF Grant
  <2>2. CASE Proceed(n, Step(w, "bind")) /\ Granted(list, n, t)
    <3> DEFINE v == Step(w, "bind")
    <3>1. /\ v \in JobType /\ v.step = "bind" /\ v.link = w.link /\ v.adding = w.adding
          /\ v.written = w.written
      BY <1>1, StepFields DEF JobSteps
    <3> HIDE DEF v
    <3>2. Knows(n, v, bindings, acl, kept, contended)
      BY <1>1, <2>1, <2>2, <3>1 DEF Knows
    <3>3. QED  BY <1>6, <2>2, <3>1, <3>2 DEF v
  <2>3. CASE /\ ~Granted(list, n, t)
             /\ \E after \in GrantFor(list, n, t) :
                  Proceed(n, WriteList([w EXCEPT !.before = list], "granting", after))
    <3>1. PICK after \in GrantFor(list, n, t) :
            Proceed(n, WriteList([w EXCEPT !.before = list], "granting", after))
      BY <2>3
    <3>2. after \subseteq AclEntry /\ Widened(list, after)
      BY <1>4, GrantForWidens
    <3> DEFINE x == [w EXCEPT !.before = list]
               v == WriteList(x, "granting", after)
    <3>3. x \in JobType /\ x.link = w.link /\ x.adding = w.adding
      BY <1>1, <1>4 DEF JobType, JobSteps
    <3> HIDE DEF x
    <3>4. v \in JobType /\ v.step = "granting" /\ v.link = w.link /\ v.list = after
      BY <3>2, <3>3, ListFields DEF Places, JobSteps
    <3> HIDE DEF v
    <3>5. LampOf(w.link) \notin contended => kept \cap SharesGrant(w.link) = {}
      <4>1. SUFFICES ASSUME LampOf(w.link) \notin contended, NEW l \in kept,
                            l \in SharesGrant(w.link)
                     PROVE  FALSE
        OBVIOUS
      <4>2. LampOf(l) = LampOf(w.link) /\ Node(l) = n /\ MTarget[l] = t
        BY <1>4, <4>1 DEF SharesGrant, LampOf, Node
      <4>3. Granted(acl[LampOf(l)], Node(l), MTarget[l])
        BY <4>1, <4>2 DEF MatterInv, KeptLinksAllowed, Allowed, LampOf, Node
      <4>4. QED  BY <2>3, <4>2, <4>3
    <3>6. Knows(n, v, bindings, acl, kept, contended)
      BY <1>4, <3>2, <3>4, <3>5 DEF Knows
    <3>7. QED  BY <1>6, <3>1, <3>3, <3>4, <3>6 DEF v, x
  <2>4. CASE End(n, w, "blocked")
    BY <1>5, <2>4
  <2>5. QED  BY <1>4, <1>8, <2>2, <2>3, <2>4 DEF Grant
<1>9. CASE Confirm(n, w)
  <2>1. w.step = "confirm"
    BY <1>9 DEF Confirm
  <2>2. CASE /\ Granted(acl[LampOf(w.link)], n, MTarget[w.link])
             /\ Proceed(n, [w EXCEPT !.step = "bind", !.written = TRUE])
    <3> DEFINE v == [w EXCEPT !.step = "bind", !.written = TRUE]
    <3>1. v \in JobType /\ v.step = "bind" /\ v.link = w.link
      BY <1>1 DEF JobType, JobSteps
    <3> HIDE DEF v
    <3>2. Knows(n, v, bindings, acl, kept, contended)
      BY <1>1, <2>1, <2>2, <3>1 DEF Knows
    <3>3. QED  BY <1>6, <2>2, <3>1, <3>2 DEF v
  <2>3. CASE End(n, w, "failed")
    BY <1>5, <2>3
  <2>4. QED  BY <1>4, <1>9, <2>2, <2>3 DEF Confirm, ConfirmGrant
<1>10. CASE BindRead(n, w)
  <2>1. w.step = "bind"
    BY <1>10 DEF BindRead
  <2> DEFINE list == bindings[MSource[w.link]] \cup {MTarget[w.link]}
             v == WriteList(w, "binding", list)
  <2>2. CASE Proceed(n, v)
    <3>1. list \subseteq Targets /\ list \in SUBSET Places
      BY <1>4 DEF Places
    <3> HIDE DEF list
    <3>2. /\ v \in JobType /\ v.step = "binding" /\ v.link = w.link /\ v.list = list
          /\ v.adding = w.adding /\ v.written = w.written
      BY <1>1, <3>1, ListFields DEF JobSteps
    <3> HIDE DEF v
    <3>3. Knows(n, v, bindings, acl, kept, contended)
      BY <1>1, <2>1, <3>1, <3>2 DEF Knows, list
    <3>4. QED  BY <1>6, <2>2, <3>2, <3>3
  <2>3. CASE \E result \in {"present", "blocked"} : End(n, w, result)
    BY <1>5, <2>3
  <2>4. QED  BY <1>4, <1>10, <2>2, <2>3 DEF BindRead
<1>11. CASE BindVerify(n, w)
  <2>1. w.step = "verify"
    BY <1>11 DEF BindVerify
  <2>2. CASE End(n, w, "applied")
    <3>1. LampOf(w.link) \notin contended => Granted(acl'[LampOf(w.link)], n, MTarget[w.link])
      BY <1>1, <1>2, <2>1 DEF Knows
    <3>2. QED  BY <1>2, <1>3, <2>2, <3>1, EndMoves DEF w
  <2>3. CASE BindFailed(n, w)
    <3> DEFINE v == RevokeNext(w, "failed")
    <3>1. CASE w.written /\ Proceed(n, v)
      <4>1. /\ v \in JobType /\ v.step = "revoke" /\ v.link = w.link /\ v.result = "failed"
            /\ v.written = w.written
        BY <1>1, RevokeFields
      <4> HIDE DEF v
      <4>2. Knows(n, v, bindings, acl, kept, contended)
        BY <1>1, <2>1, <3>1, <4>1 DEF Knows
      <4>3. QED  BY <1>6, <3>1, <4>1, <4>2
    <3>2. CASE End(n, w, "failed")
      BY <1>5, <3>2
    <3>3. QED  BY <2>3, <3>1, <3>2 DEF BindFailed, RevokeNext
  <2>4. QED  BY <1>11, <2>2, <2>3 DEF BindVerify
<1>12. CASE UnbindRead(n, w) \/ UnbindVerify(n, w)
  <2>1. w.step \in {"unbind", "unverify"}
    BY <1>12 DEF UnbindRead, UnbindVerify
  <2> DEFINE list == bindings[MSource[w.link]] \ {MTarget[w.link]}
             v == WriteList(w, "unbinding", list)
  <2>2. CASE Proceed(n, v) /\ w.step = "unbind"
    <3>1. list \subseteq Targets /\ list \in SUBSET Places
      BY <1>4 DEF Places
    <3> HIDE DEF list
    <3>2. /\ v \in JobType /\ v.step = "unbinding" /\ v.link = w.link /\ v.list = list
          /\ v.adding = w.adding
      BY <1>1, <3>1, ListFields DEF JobSteps
    <3> HIDE DEF v
    <3>3. Knows(n, v, bindings, acl, kept, contended)
      BY <1>1, <2>1, <3>1, <3>2 DEF Knows, list
    <3>4. QED  BY <1>6, <2>2, <3>2, <3>3
  <2>3. ASSUME NEW result \in {"present", "applied"},
               Proceed(n, RevokeNext(w, result))
        PROVE  MatterInv'
    <3> DEFINE x == RevokeNext(w, result)
    <3>1. x \in JobType /\ x.step = "revoke" /\ x.link = w.link /\ x.adding = w.adding
      BY <1>1, RevokeFields
    <3> HIDE DEF x
    <3>2. Knows(n, x, bindings, acl, kept, contended)
      BY <1>1, <2>1, <3>1 DEF Knows
    <3>3. QED  BY <1>6, <2>3, <3>1, <3>2 DEF x
  <2>4. CASE End(n, w, "failed")
    BY <1>5, <2>4
  <2>5. QED  BY <1>4, <1>12, <2>2, <2>3, <2>4 DEF UnbindRead, UnbindVerify, RevokeNext
<1>13. CASE Revoke(n, w)
  <2>1. w.step = "revoke"
    BY <1>13 DEF Revoke
  <2> DEFINE list == RevokeFor(acl[LampOf(w.link)], n, MTarget[w.link])
             v == WriteList(w, "revoking", list)
  <2>2. CASE Proceed(n, v)
    <3>1. list \subseteq AclEntry /\ NarrowedFor(w.link, acl[LampOf(w.link)], list)
      BY <1>4, RevokeForNarrows
    <3> HIDE DEF list
    <3>2. /\ v \in JobType /\ v.step = "revoking" /\ v.link = w.link /\ v.list = list
          /\ v.adding = w.adding /\ v.written = w.written /\ v.result = w.result
      BY <1>1, <3>1, ListFields DEF Places, JobSteps
    <3> HIDE DEF v
    <3>3. Knows(n, v, bindings, acl, kept, contended)
      BY <1>1, <2>1, <3>1, <3>2 DEF Knows
    <3>4. QED  BY <1>6, <2>2, <3>2, <3>3
  <2>3. CASE End(n, w, w.result)
    <3>1. ~(w.adding /\ w.result = "applied") /\ w.result \in {"applied", "present", "blocked",
                                                              "failed", "wakeup", "none"}
      BY <1>1, <2>1 DEF Knows, JobType
    <3>2. QED  BY <1>2, <1>3, <2>3, <3>1, EndMoves DEF w
  <2>4. QED  BY <1>4, <1>13, <2>2, <2>3 DEF Revoke
<1>14. QED  BY <1>7, <1>8, <1>9, <1>10, <1>11, <1>12, <1>13 DEF Reading, w

(* A list that lands: nobody else's binding goes, and no kept link's grant; *)
(* and what it binds is the writer's own link.                             *)
LEMMA ReplaceEffect ==
  ASSUME MatterInv, NEW n \in Switches, NEW landed \in BOOLEAN, writer[n].step # "idle",
         landed => writer[n].step \in WritingSteps, Replace(writer[n], landed)
  PROVE  /\ Effect(n)
         /\ writer[n].step \notin {"granting", "revoking"} => UNCHANGED acl
         /\ \A l \in MLinks : ~Linked(l) /\ Linked(l)' =>
              /\ writer[n].step = "binding"
              /\ MSource[l] = MSource[writer[n].link] /\ MTarget[l] = MTarget[writer[n].link]
<1> DEFINE w == writer[n]
<1>1. /\ w \in JobType /\ Knows(n, w, bindings, acl, kept, contended)
      /\ bindings \in [Endpoints -> SUBSET Targets] /\ acl \in [Lamps -> SUBSET AclEntry]
      /\ kept \subseteq MLinks
  BY DEF MatterInv, MatterTyped
<1>2. /\ w.link \in MLinks /\ Node(w.link) = n /\ LampOf(w.link) \in Lamps
      /\ MSource[w.link] \in Endpoints /\ MTarget[w.link] \in Targets
      /\ Source(w) = MSource[w.link] /\ Lamp(w) = LampOf(w.link)
  BY <1>1, MatterAssumption DEF Knows, LampOf, Node, Source, Lamp
<1>3. \A l \in MLinks : /\ MSource[l] \in Endpoints /\ MTarget[l] \in Targets
                        /\ LampOf(l) \in Lamps /\ Node(l) \in Switches
  BY MatterAssumption DEF LampOf, Node
<1>4. \A l \in kept : LampOf(l) \notin contended => Granted(acl[LampOf(l)], Node(l), MTarget[l])
  BY DEF MatterInv, KeptLinksAllowed, Allowed, LampOf, Node
<1>5. \A l \in MLinks : Linked(l) <=> MTarget[l] \in bindings[MSource[l]]
  BY DEF Linked
<1>6. \A l \in MLinks : Linked(l)' <=> MTarget[l] \in bindings'[MSource[l]]
  BY DEF Linked
<1>7. CASE ~landed
  <2>1. UNCHANGED <<bindings, acl>>
    BY <1>7 DEF Replace
  <2>2. QED  BY <1>5, <1>6, <2>1, NoEffect
<1>8. CASE landed /\ w.step \in {"binding", "unbinding"}
  <2>1. bindings' = [bindings EXCEPT ![MSource[w.link]] = w.list] /\ UNCHANGED acl
    BY <1>2, <1>8 DEF Replace
  <2>2. /\ w.list \subseteq Targets
        /\ w.list \subseteq bindings[MSource[w.link]] \cup {MTarget[w.link]}
        /\ w.step = "unbinding" => w.list \subseteq bindings[MSource[w.link]]
    BY <1>1, <1>8 DEF Knows
  <2>3. \A c \in Endpoints :
          bindings'[c] = IF c = MSource[w.link] THEN w.list ELSE bindings[c]
    BY <1>1, <2>1
  <2> HIDE DEF w
  <2>4. bindings' \in [Endpoints -> SUBSET Targets] /\ acl' \in [Lamps -> SUBSET AclEntry]
    BY <1>1, <1>2, <2>1, <2>2
  <2>5. \A c \in Endpoints : EndpointNode[c] # n => bindings[c] \subseteq bindings'[c]
    BY <1>2, <2>3 DEF Node
  <2>6. Effect(n)
    BY <1>4, <2>1, <2>4, <2>5 DEF Effect
  <2>7. \A l \in MLinks : ~Linked(l) /\ Linked(l)' =>
              w.step = "binding" /\ MSource[l] = MSource[w.link] /\ MTarget[l] = MTarget[w.link]
    BY <1>3, <1>5, <1>6, <1>8, <2>2, <2>3
  <2>8. QED  BY <2>1, <2>6, <2>7 DEF w
<1>9. CASE landed /\ w.step \in {"granting", "revoking"}
  <2> DEFINE old == acl[LampOf(w.link)]
             new == (old \ OursIn(old)) \cup w.list
  <2>1. acl' = [acl EXCEPT ![LampOf(w.link)] = new] /\ UNCHANGED bindings
    BY <1>2, <1>9 DEF Replace
  <2>2. /\ w.list \subseteq AclEntry
        /\ LampOf(w.link) \notin contended =>
             /\ w.step = "granting" => Widened(old, w.list)
             /\ w.step = "revoking" =>
                  NarrowedFor(w.link, old, w.list) /\ kept \cap SharesGrant(w.link) = {}
    <3>1. w.step = "revoking" /\ LampOf(w.link) \notin contended => ~w.adding \/ w.written
      BY <1>1 DEF Knows, JobType
    <3>2. QED  BY <1>1, <1>9, <3>1 DEF Knows
  <2>3. \A s \in Switches, t \in Targets : Granted(w.list, s, t) => Granted(new, s, t)
    BY DEF Granted
  <2>4. new \subseteq AclEntry
    BY <1>1, <1>2, <2>2
  <2> HIDE DEF w, new
  <2>5. \A d \in Lamps : acl'[d] = IF d = LampOf(w.link) THEN new ELSE acl[d]
    BY <1>1, <2>1
  <2>6. acl' \in [Lamps -> SUBSET AclEntry]
    BY <1>1, <2>1, <2>4
  <2>7. ASSUME NEW l \in kept, LampOf(l) \notin contended
        PROVE  Granted(acl'[LampOf(l)], Node(l), MTarget[l])
    <3>1. CASE LampOf(l) # LampOf(w.link)
      BY <1>1, <1>3, <1>4, <2>5, <2>7, <3>1
    <3>2. CASE LampOf(l) = LampOf(w.link)
      <4>1. Granted(old, Node(l), MTarget[l]) /\ LampOf(w.link) \notin contended
        BY <1>4, <2>7, <3>2
      <4>2. Granted(w.list, Node(l), MTarget[l])
        <5>1. CASE w.step = "granting"
          BY <1>1, <1>3, <2>2, <4>1, <5>1 DEF Widened
        <5>2. CASE w.step = "revoking"
          <6>1. ~(Node(l) = Node(w.link) /\ MTarget[l] = MTarget[w.link])
            BY <1>1, <2>2, <4>1, <5>2 DEF SharesGrant, Node
          <6>2. QED  BY <1>1, <1>3, <2>2, <4>1, <5>2, <6>1 DEF NarrowedFor
        <5>3. QED  BY <1>9, <5>1, <5>2
      <4>3. QED  BY <1>1, <1>3, <2>3, <2>5, <3>2, <4>2
    <3>3. QED  BY <3>1, <3>2
  <2>8. Effect(n)
    BY <1>1, <2>1, <2>5, <2>6, <2>7 DEF Effect, w
  <2>9. QED  BY <1>5, <1>6, <1>9, <2>1, <2>8 DEF w
<1>10. QED  BY <1>7, <1>8, <1>9 DEF WritingSteps, Checking

(* A write is answered. *)
LEMMA WritesKeep ==
  ASSUME MatterInv, NEW n \in Switches, NEW landed \in BOOLEAN, Writing(n, landed)
  PROVE  MatterInv'
<1> DEFINE w == writer[n]
<1>1. /\ w \in JobType /\ Knows(n, w, bindings, acl, kept, contended)
  BY DEF MatterInv, MatterTyped
<1>2. /\ w.step \in {"granting", "binding", "unbinding", "revoking"}
      /\ UNCHANGED contended /\ Replace(w, landed)
  BY DEF Writing, WritingSteps, Checking
<1>3. Effect(n) /\ (w.step \notin {"granting", "revoking"} => UNCHANGED acl)
  BY <1>2, ReplaceEffect DEF WritingSteps, Checking
<1>4. CASE w.step = "revoking"
  <2>1. End(n, w, w.result)
    BY <1>4 DEF Writing
  <2>2. ~(w.adding /\ w.result = "applied") /\ w.result \in {"applied", "present", "blocked",
                                                            "failed", "wakeup", "none"}
    BY <1>1, <1>4 DEF Knows, JobType
  <2>3. QED  BY <1>2, <1>3, <2>1, <2>2, EndMoves
<1>5. ASSUME NEW step \in {"confirm", "verify", "unverify"}, Proceed(n, Step(w, step)),
             /\ step = "confirm" => w.step = "granting"
             /\ step = "verify" => w.step = "binding"
             /\ step = "unverify" => w.step = "unbinding"
      PROVE  MatterInv'
  <2> DEFINE v == Step(w, step)
  <2>1. /\ v \in JobType /\ v.step = step /\ v.link = w.link /\ v.adding = w.adding
        /\ v.written = w.written
    BY <1>1, StepFields DEF JobSteps
  <2> HIDE DEF v, w
  <2>2. Knows(n, v, bindings', acl', kept, contended)
    BY <1>1, <1>3, <1>5, <2>1 DEF Knows
  <2>3. QED  BY <1>2, <1>3, <1>5, <2>1, <2>2, ProceedMoves DEF v, w
<1>6. CASE w.step # "revoking"
  <2>1. Proceed(n, Step(w, Checking[w.step]))
    BY <1>6 DEF Writing
  <2>2. /\ w.step = "granting" => Checking[w.step] = "confirm"
        /\ w.step = "binding" => Checking[w.step] = "verify"
        /\ w.step = "unbinding" => Checking[w.step] = "unverify"
    BY DEF Checking
  <2>3. QED  BY <1>2, <1>5, <1>6, <2>1, <2>2
<1>7. QED  BY <1>4, <1>6

(* Something raises. *)
LEMMA RaisesKeep ==
  ASSUME MatterInv, NEW n \in Switches, NEW landed \in BOOLEAN, Raises(n, landed)
  PROVE  MatterInv'
<1> DEFINE w == writer[n]
<1>1. /\ w \in JobType /\ Knows(n, w, bindings, acl, kept, contended)
  BY DEF MatterInv, MatterTyped
<1>2. w.step # "idle" /\ UNCHANGED contended
  BY DEF Raises
<1>3. Effect(n)
  BY ReplaceEffect DEF Raises
<1>4. ASSUME NEW result \in {"wakeup", "blocked", "failed"}, End(n, w, result)
      PROVE  MatterInv'
  BY <1>2, <1>3, <1>4, EndMoves
<1>5. CASE w.step = "view" /\ \E r \in {"wakeup", "blocked", "failed"} : End(n, w, r)
  BY <1>4, <1>5
<1>6. CASE w.step \in {"bind", "binding", "verify"} /\ BindFailed(n, w)
  <2> DEFINE v == RevokeNext(w, "failed")
  <2>1. CASE w.written /\ Proceed(n, v)
    <3>1. /\ v \in JobType /\ v.step = "revoke" /\ v.link = w.link /\ v.result = "failed"
          /\ v.written = w.written
      BY <1>1, RevokeFields
    <3> HIDE DEF v, w
    <3>2. Knows(n, v, bindings', acl', kept, contended)
      BY <1>1, <1>6, <2>1, <3>1 DEF Knows
    <3>3. QED  BY <1>2, <1>3, <2>1, <3>1, <3>2, ProceedMoves DEF w
  <2>2. CASE End(n, w, "failed")
    BY <1>4, <2>2
  <2>3. QED  BY <1>6, <2>1, <2>2 DEF BindFailed, RevokeNext
<1>7. CASE w.step \in {"revoke", "revoking"} /\ End(n, w, w.result)
  <2>1. ~(w.adding /\ w.result = "applied") /\ w.result \in {"applied", "present", "blocked",
                                                            "failed", "wakeup", "none"}
    BY <1>1, <1>7 DEF Knows, JobType
  <2>2. QED  BY <1>2, <1>3, <1>7, <2>1, EndMoves
<1>8. CASE End(n, w, "failed")
  BY <1>4, <1>8
<1>9. QED
  <2>1. \/ w.step = "view" /\ \E r \in {"wakeup", "blocked", "failed"} : End(n, w, r)
        \/ w.step \in {"bind", "binding", "verify"} /\ BindFailed(n, w)
        \/ w.step \in {"revoke", "revoking"} /\ End(n, w, w.result)
        \/ End(n, w, "failed")
    <3> HIDE DEF w
    <3>1. CASE w.step \in {"view", "bind", "binding", "verify", "revoke", "revoking"}
      BY <3>1 DEF Raises, w
    <3>2. CASE w.step \notin {"view", "bind", "binding", "verify", "revoke", "revoking"}
      BY <3>2 DEF Raises, w
    <3>3. QED  BY <3>1, <3>2
  <2>2. QED  BY <1>5, <1>6, <1>7, <1>8, <2>1

(* Another write begins; another controller binds. *)
LEMMA StartsKeep ==
  ASSUME MatterInv, NEW l \in MLinks, NEW adding \in BOOLEAN, StartMatterWrite(l, adding)
  PROVE  MatterInv'
<1> DEFINE n == EndpointNode[MSource[l]]
           w == [NoJob EXCEPT !.step = "view", !.link = l, !.adding = adding]
           r == [NoJob EXCEPT !.result = "blocked"]
           v == IF l \in Refused THEN r ELSE w
<1>1. n \in Switches /\ n = Node(l) /\ LampOf(l) \in Lamps
  BY MatterAssumption DEF Node, LampOf
<1>2. /\ w \in JobType /\ w.step = "view" /\ w.link = l /\ w.adding = adding /\ ~w.written
      /\ r \in JobType /\ r.step = "idle"
  BY NoJobTyped DEF JobType, JobSteps
<1>3. Lamp(w) = LampOf(l)
  BY <1>2 DEF Lamp, LampOf
<1>4. /\ kept' = (IF adding THEN kept ELSE kept \ SharesGrant(l))
      /\ Go(n, v) /\ UNCHANGED <<bindings, acl>>
      /\ contended' = IF {m \in Switches : writer[m].step # "idle" /\ Lamp(writer[m]) = Lamp(w)} = {}
                      THEN contended ELSE contended \cup {Lamp(w)}
  BY DEF StartMatterWrite
<1> HIDE DEF w, r
<1>5. v \in JobType /\ Effect(n) /\ contended \subseteq contended'
  BY <1>1, <1>2, <1>4, NoEffect
<1>6. kept' \subseteq kept /\ kept' \subseteq MLinks
  BY <1>4 DEF MatterInv, MatterTyped
<1>7. v.step # "idle" =>
        \A m \in Switches : writer[m].step # "idle" /\ LampOf(writer[m].link) = LampOf(v.link)
                          => LampOf(v.link) \in contended'
  BY <1>2, <1>3, <1>4 DEF Lamp, LampOf
<1>8. Knows(n, v, bindings', acl', kept', contended')
  BY <1>1, <1>2, <1>4 DEF Knows
<1> HIDE DEF v, n
<1>9. QED  BY <1>1, <1>4, <1>5, <1>6, <1>7, <1>8, WriterMoves

LEMMA OthersKeep ==
  ASSUME MatterInv, NEW c \in Endpoints, NEW t \in Targets, OtherBinds(c, t)
  PROVE  MatterInv'
<1>1. /\ bindings' = [bindings EXCEPT ![c] = @ \cup {t}]
      /\ UNCHANGED <<acl, writer, kept, contended>>
  BY DEF OtherBinds
<1>2. bindings \in [Endpoints -> SUBSET Targets]
  BY DEF MatterInv, MatterTyped
<1>3. bindings' \in [Endpoints -> SUBSET Targets]
  BY <1>1, <1>2
<1>4. \A d \in Endpoints : bindings[d] \subseteq bindings'[d]
  BY <1>1, <1>2
<1>5. MatterTyped' /\ Alone' /\ KeptLinksAllowed'
  BY <1>1, <1>3 DEF MatterInv, MatterTyped, Alone, KeptLinksAllowed, Allowed, LampOf
<1>6. ASSUME NEW n \in Switches  PROVE Knows(n, writer[n], bindings', acl, kept, contended)
  <2>1. Knows(n, writer[n], bindings, acl, kept, contended)
    BY DEF MatterInv
  <2>2. writer[n].step # "idle" => MSource[writer[n].link] \in Endpoints
    BY <2>1, MatterAssumption DEF Knows
  <2>3. QED  BY <1>4, <2>1, <2>2 DEF Knows
<1>7. QED  BY <1>1, <1>5, <1>6, KnownNext

LEMMA MatterStep == MatterInv /\ [MatterNext]_matterVars => MatterInv'
<1> SUFFICES ASSUME MatterInv, [MatterNext]_matterVars PROVE MatterInv'  OBVIOUS
<1>1. CASE UNCHANGED matterVars
  <2>1. UNCHANGED <<bindings, acl, writer, kept, contended>>
    BY <1>1 DEF matterVars
  <2>2. MatterTyped' /\ Alone' /\ KeptLinksAllowed'
    BY <2>1 DEF MatterInv, MatterTyped, Alone, KeptLinksAllowed, Allowed, LampOf
  <2>3. QED  BY <2>1, <2>2, KnownNext DEF MatterInv
<1>2. QED  BY <1>1, ListReadsKeep, WritesKeep, RaisesKeep, StartsKeep, OthersKeep DEF MatterNext

(* matter._revoke: as long as no two writers have met at a target, every   *)
(* link that was written and not asked to be removed stays allowed there,  *)
(* whatever was refused, ignored, raised or written by others.             *)
THEOREM KeptStayAllowed == MatterSpec => []KeptLinksAllowed
<1>1. MatterInv => KeptLinksAllowed  BY DEF MatterInv
<1>2. QED  BY <1>1, MatterStart, MatterStep, PTL DEF MatterSpec

(* matter._bind: no writer adds a binding before its target lets the       *)
(* source in (PRD E27).                                                    *)
THEOREM NeverBoundBeforeAllowed == MatterSpec => BindingFollowsGrant
<1>1. ASSUME MatterInv, [MatterNext]_matterVars, NEW l \in MLinks, ~Linked(l), Linked(l)',
             NEW m \in Switches, Acting(m), LampOf(l) \notin contended
      PROVE  Allowed(l)
  <2>1. ~UNCHANGED bindings /\ ~UNCHANGED writer
    BY <1>1 DEF Linked, Acting
  <2>2. PICK n \in Switches, landed \in BOOLEAN : Writing(n, landed) \/ Raises(n, landed)
    BY <1>1, <2>1 DEF MatterNext, StartMatterWrite, Reading, OtherBinds, matterVars
  <2>3. writer[n].step # "idle" /\ (landed => writer[n].step \in WritingSteps)
        /\ Replace(writer[n], landed)
    BY <2>2 DEF Writing, Raises, WritingSteps, Checking
  <2>4. writer[n].step = "binding" /\ MSource[l] = MSource[writer[n].link]
        /\ MTarget[l] = MTarget[writer[n].link]
    BY <1>1, <2>3, ReplaceEffect
  <2>5. Knows(n, writer[n], bindings, acl, kept, contended)
    BY <1>1 DEF MatterInv
  <2>6. QED  BY <1>1, <2>4, <2>5 DEF Knows, LampOf, Node, Allowed
<1>2. MatterInv /\ [MatterNext]_matterVars =>
        \A l \in MLinks :
          /\ ~Linked(l) /\ Linked(l)' /\ \E n \in Switches : Acting(n)
          /\ TargetNode[MTarget[l]] \notin contended
          => Allowed(l)
  BY <1>1 DEF LampOf
<1>3. QED  BY <1>2, MatterStart, MatterStep, PTL DEF MatterSpec, BindingFollowsGrant

(* matter.py: a writer at work has a link, and no list holds anything but  *)
(* what such a list may hold, whatever was refused, lost or raised.        *)
THEOREM MatterAdapterTyped == MatterSpec => []MatterTypeOK
<1> DEFINE Count == mishaps \in 0..MaxMishaps /\ contended \subseteq Lamps
<1>1. MatterInit => Count
  BY MatterAssumption DEF MatterInit
<1>2. ASSUME Count, [MatterNext]_matterVars  PROVE Count'
  <2>1. ASSUME NEW l \in MLinks, NEW adding \in BOOLEAN, StartMatterWrite(l, adding)  PROVE Count'
    <3> DEFINE w == [NoJob EXCEPT !.step = "view", !.link = l, !.adding = adding]
    <3>1. w.link = l
      BY NoJobTyped DEF JobType
    <3>2. Lamp(w) \in Lamps
      BY <3>1, MatterAssumption DEF Lamp
    <3> HIDE DEF w
    <3>3. contended' = contended \/ contended' = contended \cup {Lamp(w)}
      BY <2>1 DEF StartMatterWrite, w
    <3>4. mishaps' \in 0..MaxMishaps
      BY <1>2, <2>1, MatterAssumption DEF StartMatterWrite, Within
    <3>5. QED  BY <1>2, <3>2, <3>3, <3>4
  <2>2. ASSUME NEW n \in Switches, NEW landed \in BOOLEAN, Writing(n, landed) \/ Raises(n, landed)
        PROVE  Count'
    BY <1>2, <2>2, MatterAssumption DEF Writing, Raises, Within
  <2>3. ASSUME NEW c \in Endpoints, NEW t \in Targets, OtherBinds(c, t)  PROVE Count'
    BY <1>2, <2>3, MatterAssumption DEF OtherBinds, Within
  <2>4. CASE UNCHANGED matterVars \/ \E n \in Switches : Reading(n)
    BY <1>2, <2>4 DEF matterVars, Reading
  <2>5. QED  BY <1>2, <2>1, <2>2, <2>3, <2>4 DEF MatterNext
<1>3. MatterInv /\ Count => MatterTypeOK
  BY DEF MatterInv, MatterTyped, Knows, MatterTypeOK
<1> HIDE DEF Count
<1>4. QED  BY <1>1, <1>2, <1>3, MatterStart, MatterStep, PTL DEF MatterSpec

=============================================================================
