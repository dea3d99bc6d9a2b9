------------------------------- MODULE ZWave -------------------------------
(***************************************************************************)
(* The Z-Wave adapter (backends/zwave.py) between its callers, the jobs    *)
(* and the raw services, and the driver: writes of one association each,   *)
(* and reads, of which a deep one asks the device and waits for a word.    *)
(*                                                                         *)
(* Entries are the associations there may be.  A node keeps those of one   *)
(* group and one command class together as one value, and reports value by *)
(* value.  The driver has a copy of every value; commands for a node wait  *)
(* in its queue while it sleeps.  No caller waits for another.             *)
(***************************************************************************)
EXTENDS Integers, Sequences, FiniteSets

CONSTANTS
  Radios,       \* nodes that have associations
  Battery,      \* those of them that sleep
  Entries,
  EntryNode,    \* [Entries -> Radios]
  EntryGroup,   \* [Entries -> association groups]
  EntryClass,   \* [Entries -> Classes]: by whether the target names an endpoint
  EntryTarget,  \* [Entries -> nodes], the endpoint left out
  Lifelines,    \* the entries in a group that is a lifeline
  Offered,      \* the entries in a group that some control of the node has
  CheckAnswers, \* what the driver's check of an addition may answer
  Room,         \* entries a group holds
  Callers,
  Services,     \* those of them that are calls of a raw service
  Nobody,       \* in place of the caller that waits for a command
  MaxCalls,     \* bound: calls of the adapter
  MaxHands      \* bound: changes by others and commands that fail

Classes == {"association", "multi_channel"}

ASSUME ZWaveAssumption ==
  /\ Battery \subseteq Radios /\ Lifelines \subseteq Entries
  /\ EntryNode \in [Entries -> Radios] /\ EntryClass \in [Entries -> Classes]
  /\ CheckAnswers \subseteq Nat /\ Services \subseteq Callers /\ Nobody \notin Callers \cup Entries \cup Radios
  /\ Room \in Nat /\ MaxCalls \in Nat /\ MaxHands \in Nat

VARIABLES
  held,         \* the associations the nodes have
  copied,       \* the driver's copy of them
  awake,        \* NodeStatus other than ASLEEP
  queue,        \* the driver's commands for each node, oldest first
  refreshing,   \* values a node was asked for and has not reported
  call,         \* what each caller is in the middle of
  told,         \* history: what the last answer about an entry said of it
  asks, hands

zwaveVars == <<held, copied, awake, queue, refreshing, call, told, asks, hands>>

ValueOf(e) == <<EntryNode[e], EntryGroup[e], EntryClass[e]>>
Values(n) == {ValueOf(e) : e \in {f \in Entries : EntryNode[f] = n}}
EntriesOf(v) == {e \in Entries : ValueOf(e) = v}
Strange == (held \ copied) \cup (copied \ held)

(* A read remembers, for what is said of it, what the driver did not know  *)
(* when it began and the values that no report has come of since.          *)
Idle ==
  [pc |-> "idle", entry |-> Nobody, adding |-> FALSE, node |-> Nobody,
   answered |-> FALSE, verified |-> FALSE, strange |-> {}, unread |-> {}]

ZWaveInit ==
  /\ held \in SUBSET Entries
  /\ \A e \in held : Cardinality({f \in held : /\ EntryNode[f] = EntryNode[e]
                                               /\ EntryGroup[f] = EntryGroup[e]}) <= Room
  /\ copied = held
  /\ awake = Radios
  /\ queue = [n \in Radios |-> <<>>]
  /\ refreshing = {}
  /\ call = [c \in Callers |-> Idle]
  /\ told = [e \in Entries |-> Nobody]
  /\ asks = 0 /\ hands = 0

----------------------------------------------------------------------------
(* Writing.                                                                *)

IsLifelineGroup(e) == e \in Lifelines

(* _local_refusal: the two writes that are never right.                    *)
LocalRefusal(e) == IsLifelineGroup(e) \/ EntryTarget[e] = EntryNode[e]

(* _raw_link: what a raw service refuses before it asks the adapter.       *)
RawRefusal(e) == LocalRefusal(e) \/ e \notin Offered

(* async_add_link and async_remove_link, and the raw services before them. *)
(* A refusal changes nothing.                                              *)
StartWrite(c, e, adding) ==
  /\ call[c].pc = "idle"
  /\ asks < MaxCalls /\ asks' = asks + 1
  /\ ~LocalRefusal(e) /\ (c \in Services => ~RawRefusal(e))
  /\ call' = [call EXCEPT ![c] = [Idle EXCEPT !.pc = "present", !.entry = e,
                                    !.adding = adding, !.node = EntryNode[e]]]
  /\ UNCHANGED <<held, copied, awake, queue, refreshing, told, hands>>

(* Mutant of IsAssociated: an address without an endpoint and one with     *)
(* endpoint 0 taken for the same.                                          *)
IsAssociatedSomehow(e) ==
  \E f \in copied : /\ EntryNode[f] = EntryNode[e] /\ EntryGroup[f] = EntryGroup[e]
                    /\ EntryTarget[f] = EntryTarget[e]

(* _is_present, of what the driver has copied: this very entry.            *)
IsAssociated(e) == e \in copied

(* What a call goes on with when its write is answered: the raw services   *)
(* read the device (_raise_for, async_refresh) unless the write was        *)
(* refused or failed.                                                      *)
GoesOn(c, well) ==
  IF well /\ c \in Services THEN [call[c] EXCEPT !.pc = "dump"] ELSE Idle

SaidOf(e, adding) == IF e \in Strange THEN Nobody ELSE IF adding THEN "held" ELSE "gone"

(* The write itself: waited for, unless the node sleeps at this moment,    *)
(* and then the answer is PENDING_WAKEUP.                                  *)
Send(c) ==
  LET e == call[c].entry
      n == call[c].node
      waits == n \in awake
  IN /\ queue' = [queue EXCEPT ![n] = Append(@, [entry |-> e, adding |-> call[c].adding,
                                                 by |-> IF waits THEN c ELSE Nobody])]
     /\ call' = [call EXCEPT ![c] = IF waits THEN [@ EXCEPT !.pc = "sent"]
                                    ELSE GoesOn(c, TRUE)]

(* ALREADY_PRESENT when there is nothing to do; otherwise an addition asks *)
(* the driver first.                                                       *)
Present(c) ==
  /\ call[c].pc = "present"
  /\ LET e == call[c].entry
         adding == call[c].adding
     IN \/ /\ IsAssociated(e) = adding
           /\ told' = [told EXCEPT ![e] = SaidOf(e, adding)]
           /\ call' = [call EXCEPT ![c] = GoesOn(c, TRUE)]
           /\ UNCHANGED queue
        \/ /\ ~IsAssociated(e) /\ adding
           /\ call' = [call EXCEPT ![c].pc = "check"]
           /\ UNCHANGED <<told, queue>>
        \/ /\ IsAssociated(e) /\ ~adding
           /\ Send(c)
           /\ UNCHANGED told
  /\ UNCHANGED <<held, copied, awake, refreshing, asks, hands>>

(* is_ok: only 1 is; 0 is no refusal the driver knows, and no permission.  *)
IsOk(answer) == answer = 1

(* _driver_refusal: anything but OK is BLOCKED.                            *)
Checked(c) ==
  /\ call[c].pc = "check"
  /\ \E answer \in CheckAnswers :
       \/ /\ ~IsOk(answer)
          /\ call' = [call EXCEPT ![c] = GoesOn(c, FALSE)]
          /\ UNCHANGED queue
       \/ /\ IsOk(answer)
          /\ Send(c)
  /\ UNCHANGED <<held, copied, awake, refreshing, told, asks, hands>>

----------------------------------------------------------------------------
(* The driver.                                                             *)

(* A value arrives: the copy is right about it, and perhaps an event       *)
(* "value updated" says so, which a read that is subscribed takes for its  *)
(* answer (_on_value_updated).                                             *)
Reported(v, now, emits, others) ==
  /\ copied' = (copied \ EntriesOf(v)) \cup (now \cap EntriesOf(v))
  /\ call' = [c \in Callers |->
       [others[c] EXCEPT !.unread = @ \ {v},
          !.answered = @ \/ (/\ emits /\ others[c].node = v[1]
                             /\ others[c].pc \in Classes \cup {"waiting"})]]

(* A node carries out the oldest command for it: done, or with no          *)
(* acknowledgement, whether done or not (FAILED).                          *)
Carry(n) ==
  /\ n \in awake /\ queue[n] # <<>>
  /\ queue' = [queue EXCEPT ![n] = Tail(@)]
  /\ LET command == Head(queue[n])
         e == command.entry
         fits == Cardinality({f \in held \ {e} : /\ EntryNode[f] = n
                                                 /\ EntryGroup[f] = EntryGroup[e]}) < Room
         done == IF command.adding THEN held \cup {e} ELSE held \ {e}
         Answer(well) == IF command.by = Nobody THEN call
                         ELSE [call EXCEPT ![command.by] = GoesOn(command.by, well)]
     IN \/ /\ command.adding => fits
           /\ held' = done
           /\ \E emits \in BOOLEAN : Reported(ValueOf(e), done, emits, Answer(TRUE))
           /\ told' = [told EXCEPT ![e] = IF command.by = Nobody THEN Nobody
                                          ELSE IF command.adding THEN "held" ELSE "gone"]
           /\ UNCHANGED hands
        \/ /\ command.adding /\ ~fits
           /\ call' = Answer(FALSE)
           /\ UNCHANGED <<held, copied, told, hands>>
        \/ /\ hands < MaxHands /\ hands' = hands + 1
           /\ held' \in {held} \cup {h \in {done} : command.adding => fits}
           /\ call' = Answer(FALSE)
           /\ told' = [told EXCEPT ![e] = Nobody]
           /\ UNCHANGED copied
  /\ UNCHANGED <<awake, refreshing, asks>>

(* A node reports a value it was asked for, or one another has changed.    *)
Report(v) ==
  /\ v[1] \in awake
  /\ v \in refreshing \/ Strange \cap EntriesOf(v) # {}
  /\ refreshing' = refreshing \ {v}
  /\ \E emits \in BOOLEAN : Reported(v, held, emits, call)
  /\ UNCHANGED <<held, awake, queue, told, asks, hands>>

(* Another controller, or a hand on the device, changes an association.    *)
ChangedByHand(e) ==
  /\ hands < MaxHands /\ hands' = hands + 1
  /\ \/ /\ e \in held /\ held' = held \ {e}
     \/ /\ e \notin held
        /\ Cardinality({f \in held : /\ EntryNode[f] = EntryNode[e]
                                     /\ EntryGroup[f] = EntryGroup[e]}) < Room
        /\ held' = held \cup {e}
  /\ told' = [told EXCEPT ![e] = Nobody]
  /\ UNCHANGED <<copied, awake, queue, refreshing, call, asks>>

(* A battery node sleeps when nothing is queued for it, and wakes.         *)
SleepOrWake(n) ==
  /\ n \in Battery
  /\ \/ n \in awake /\ queue[n] = <<>> /\ awake' = awake \ {n}
     \/ n \notin awake /\ awake' = awake \cup {n}
  /\ UNCHANGED <<held, copied, queue, refreshing, call, told, asks, hands>>

----------------------------------------------------------------------------
(* Reading: async_observed.  A deep read of a node that sleeps is skipped. *)
StartRead(c, n, deep) ==
  /\ call[c].pc = "idle" /\ c \notin Services
  /\ asks < MaxCalls /\ asks' = asks + 1
  /\ call' = [call EXCEPT ![c] =
       [Idle EXCEPT !.pc = IF deep /\ n \in awake THEN "association" ELSE "dump",
                    !.node = n,
                    !.strange = {e \in Strange : EntryNode[e] = n},
                    !.unread = Values(n)]]
  /\ UNCHANGED <<held, copied, awake, queue, refreshing, told, hands>>

(* _await_refresh, subscribed already: each command class is asked for,    *)
(* which waits for nothing, or the driver fails and the read with it.      *)
Refresh(c) ==
  /\ call[c].pc \in Classes
  /\ \/ /\ refreshing' = refreshing \cup {v \in Values(call[c].node) : v[3] = call[c].pc}
        /\ call' = [call EXCEPT
             ![c].pc = IF call[c].pc = "association" THEN "multi_channel" ELSE "waiting"]
     \/ /\ call' = [call EXCEPT ![c] = Idle]
        /\ UNCHANGED refreshing
  /\ UNCHANGED <<held, copied, awake, queue, told, asks, hands>>

(* The wait ends with the first event, or with the timeout.                *)
Waited(c) ==
  /\ call[c].pc = "waiting"
  /\ call' = [call EXCEPT ![c].pc = "dump", ![c].verified = call[c].answered]
  /\ UNCHANGED <<held, copied, awake, queue, refreshing, told, asks, hands>>

(* The copy is what a read returns.                                        *)
Dump(c) ==
  /\ call[c].pc = "dump"
  /\ call' = [call EXCEPT ![c] = Idle]
  /\ UNCHANGED <<held, copied, awake, queue, refreshing, told, asks, hands>>

ZWaveNext ==
  \/ \E c \in Callers :
       \/ \E e \in Entries, adding \in BOOLEAN : StartWrite(c, e, adding)
       \/ \E n \in Radios, deep \in BOOLEAN : StartRead(c, n, deep)
       \/ Present(c) \/ Checked(c) \/ Refresh(c) \/ Waited(c) \/ Dump(c)
  \/ \E n \in Radios : Carry(n) \/ SleepOrWake(n)
  \/ \E e \in Entries : Report(ValueOf(e)) \/ ChangedByHand(e)

ZWaveSpec == ZWaveInit /\ [][ZWaveNext]_zwaveVars

----------------------------------------------------------------------------
ZWaveTypeOK ==
  /\ held \subseteq Entries /\ copied \subseteq Entries
  /\ awake \subseteq Radios
  /\ \A n \in Radios : \A i \in 1..Len(queue[n]) :
       queue[n][i] \in [entry : Entries, adding : BOOLEAN, by : Callers \cup {Nobody}]
  /\ refreshing \subseteq UNION {Values(n) : n \in Radios}
  /\ \A c \in Callers :
       /\ call[c].pc \in {"idle", "present", "check", "sent", "waiting", "dump"} \cup Classes
       /\ call[c].entry \in Entries \cup {Nobody}
       /\ call[c].node \in Radios \cup {Nobody}
       /\ call[c].strange \subseteq Entries
  /\ told \in [Entries -> {"held", "gone", Nobody}]
  /\ asks \in 0..MaxCalls /\ hands \in 0..MaxHands

(* The last write that was answered APPLIED or ALREADY_PRESENT is true of  *)
(* the node, whichever calls crossed it, until somebody else changes it or *)
(* a command nobody waits for is carried out.                              *)
AnswersHold ==
  \A e \in {f \in Entries : told[f] # Nobody} : (e \in held) = (told[e] = "held")

(* FR-B4: after a change made with another controller, a deep verify shows *)
(* the true state.                                                         *)
VerifiedShowsTruth ==
  \A c \in Callers : call[c].pc = "dump" /\ call[c].verified
    => \A e \in call[c].strange : ValueOf(e) \notin call[c].unread
=============================================================================
