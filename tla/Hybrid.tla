------------------------------- MODULE Hybrid -------------------------------
(***************************************************************************)
(* hybrid.HybridLegs, the legs that light a button to match a light        *)
(* (HybridKind.BUTTON_LED).  Rules come and go, entities appear late, the  *)
(* light changes faster than the mesh takes a write, and a leg that is     *)
(* turned off has to leave the button as its owner had it.                 *)
(*                                                                         *)
(* A leg's state is one record; the functions of the code that work on a   *)
(* _Running without awaiting are operators from record to record.  What    *)
(* awaits is a task in the queue of the button's lock, which asyncio       *)
(* serves in the order of asking.                                          *)
(***************************************************************************)
EXTENDS Naturals, Sequences

CONSTANTS
  Buttons,     \* the legs of kind BUTTON_LED, each with its button and light
  NoValue,     \* None
  MaxEvents    \* bound: changes of rules, entities and lights

ASSUME HybridAssumption == NoValue \notin BOOLEAN /\ MaxEvents \in Nat

VARIABLES
  hybridUp,   \* async_shutdown has not been called
  asked,      \* the legs the enabled rules of the active profile compile to
  entities,   \* the legs whose light has entities in the registry
  light,      \* the legs whose light is on
  led,        \* the legs whose button is lit
  leg,        \* _running, _original and the tasks of each leg
  owners,     \* history: the buttons that were lit before the integration came
  events

hybridVars == <<hybridUp, asked, entities, light, led, leg, owners, events>>

Shown == BOOLEAN \cup {NoValue}

Tasks == [do : {"write", "restore"}, lit : BOOLEAN, begun : BOOLEAN, mine : BOOLEAN]

Write(value) == [do |-> "write", lit |-> value, begun |-> FALSE, mine |-> TRUE]
Restore(value) == [do |-> "restore", lit |-> value, begun |-> FALSE, mine |-> TRUE]

(* failed, dropped and spoilt are history: the last write that ended did   *)
(* not succeed; the last wish was taken for sent while a write was under   *)
(* way; the leg was retired under a write, or could not be put back.       *)
Dormant ==
  [running |-> FALSE, watching |-> FALSE, wanted |-> NoValue, written |-> NoValue,
   recent |-> FALSE, armed |-> FALSE, original |-> NoValue, tasks |-> <<>>,
   failed |-> FALSE, dropped |-> FALSE, spoilt |-> FALSE]

HybridInit ==
  /\ hybridUp = TRUE
  /\ asked = {} /\ entities \in {{}, Buttons} /\ light = {}
  /\ led \in {{}, Buttons} /\ owners = led
  /\ leg = [b \in Buttons |-> Dormant]
  /\ events = 0

(* What the leg reads of its light: unknown and missing count as off.      *)
IsOn(b) == b \in entities \cap light

Queued(s, task) == [s EXCEPT !.tasks = Append(@, task)]

(* What is wanted, unless that is what was taken last.                     *)
WriteIndicationNow(s) ==
  IF s.wanted = s.written THEN [s EXCEPT !.dropped = s.tasks # <<>>]
  ELSE Queued([s EXCEPT !.recent = TRUE, !.dropped = FALSE], Write(s.wanted))

(* Mutant of WantIndication: a wish that meets a timer is forgotten.       *)
WantOnce(s, lit) ==
  LET wishing == [s EXCEPT !.wanted = lit] IN
  CASE s.wanted = lit \/ s.armed -> s
    [] s.wanted # lit /\ ~s.armed /\ s.recent -> [wishing EXCEPT !.armed = TRUE]
    [] OTHER -> WriteIndicationNow(wishing)

(* One write a second; a wish in between waits for the timer.              *)
WantIndication(s, lit) ==
  LET wishing == [s EXCEPT !.wanted = lit] IN
  CASE s.wanted = lit -> s
    [] s.wanted # lit /\ (s.armed \/ s.recent) -> [wishing EXCEPT !.armed = TRUE]
    [] OTHER -> WriteIndicationNow(wishing)

WatchTarget(s, known, lit) ==
  IF known THEN WantIndication([s EXCEPT !.watching = TRUE], lit) ELSE s

Unheard(s) ==
  [s EXCEPT !.watching = FALSE, !.armed = FALSE, !.wanted = NoValue, !.written = NoValue]

StartLeg(s, known, lit) == WatchTarget([s EXCEPT !.running = TRUE], known, lit)

Rewatch(s, known, lit) ==
  IF s.watching = known THEN s ELSE WatchTarget(Unheard(s), known, lit)

UnderWay(s) == \E i \in DOMAIN s.tasks : s.tasks[i].do = "write"

(* Mutant of Retire: what the button showed before is forgotten.           *)
RetireAsItIs(s) ==
  [Unheard(s) EXCEPT !.running = FALSE, !.recent = FALSE, !.original = NoValue,
                     !.dropped = FALSE, !.spoilt = @ \/ UnderWay(s),
                     !.tasks = [i \in DOMAIN @ |-> [@[i] EXCEPT !.mine = FALSE]]]

(* A write that waits for the lock, or has it, goes on without its leg.    *)
Retire(s) ==
  LET left == [Unheard(s) EXCEPT !.running = FALSE, !.recent = FALSE, !.original = NoValue,
                                 !.dropped = FALSE, !.spoilt = @ \/ UnderWay(s),
                                 !.tasks = [i \in DOMAIN @ |-> [@[i] EXCEPT !.mine = FALSE]]]
  IN IF s.original = NoValue THEN left ELSE Queued(left, Restore(s.original))

ResyncLeg(s, wanted, known, lit) ==
  CASE s.running /\ ~wanted -> Retire(s)
    [] ~s.running /\ wanted -> StartLeg(s, known, lit)
    [] s.running /\ wanted -> Rewatch(s, known, lit)
    [] OTHER -> s

(* Every leg is looked at again, starting from the states legs.            *)
Resync(legs, wanted) ==
  leg' = [b \in Buttons |-> ResyncLeg(legs[b], b \in wanted, b \in entities, IsOn(b))]

Happens == hybridUp /\ events < MaxEvents /\ events' = events + 1

(* Rules are edited, enabled, disabled; profiles are switched.             *)
EditLegs ==
  /\ Happens
  /\ asked' \in SUBSET Buttons /\ asked' # asked
  /\ Resync(leg, asked')
  /\ UNCHANGED <<hybridUp, entities, light, led, owners>>

(* Home Assistant has started, or the coordinator has news of any kind.    *)
Told ==
  /\ hybridUp
  /\ Resync(leg, asked)
  /\ UNCHANGED <<hybridUp, asked, entities, light, led, owners, events>>

(* What the listener of a leg hears of its entities.                       *)
Heard(b, lit) ==
  leg' = [leg EXCEPT ![b] = IF @.watching THEN WantIndication(@, lit) ELSE @]

LightChanges(b) ==
  /\ Happens
  /\ light' = IF b \in light THEN light \ {b} ELSE light \cup {b}
  /\ Heard(b, b \in entities \cap light')
  /\ UNCHANGED <<hybridUp, asked, entities, led, owners>>

(* The registry gains or loses the light's entities; nobody tells the      *)
(* manager, but the states it follows come or go.                          *)
EntitiesChange(b) ==
  /\ Happens
  /\ entities' = IF b \in entities THEN entities \ {b} ELSE entities \cup {b}
  /\ Heard(b, b \in entities' \cap light)
  /\ UNCHANGED <<hybridUp, asked, light, led, owners>>

SecondPasses(b) ==
  /\ hybridUp /\ leg[b].recent
  /\ leg' = [leg EXCEPT ![b].recent = FALSE]
  /\ UNCHANGED <<hybridUp, asked, entities, light, led, owners, events>>

Later(b) ==
  /\ leg[b].armed /\ ~leg[b].recent
  /\ leg' = [leg EXCEPT ![b] = WriteIndicationNow([@ EXCEPT !.armed = FALSE])]
  /\ UNCHANGED <<hybridUp, asked, entities, light, led, owners, events>>

(* The end of a write that failed or not; it is counted, counting tells    *)
(* the entities, and telling them comes back to this manager.              *)
Ended(b, s, taken) ==
  LET task == Head(s.tasks)
      left == [s EXCEPT !.tasks = Tail(@), !.failed = ~taken,
                        !.written = IF taken /\ task.mine THEN task.lit ELSE @]
  IN Resync([leg EXCEPT ![b] = left], asked)

(* The lock is had.  Before the first write the button is read; a device   *)
(* that does not say what it shows is written all the same.                *)
BeginWrite(b, read) ==
  LET s == leg[b] IN
  /\ s.tasks # <<>> /\ Head(s.tasks).do = "write" /\ ~Head(s.tasks).begun
  /\ IF s.original # NoValue
     THEN read = "known" /\ leg' = [leg EXCEPT ![b].tasks[1].begun = TRUE]
     ELSE \/ /\ read = "told"
             /\ leg' = [leg EXCEPT ![b] = [@ EXCEPT !.original = (b \in led),
                                                    !.tasks[1].begun = TRUE]]
          \/ /\ read = "untold"
             /\ leg' = [leg EXCEPT ![b] = [@ EXCEPT !.spoilt = TRUE, !.tasks[1].begun = TRUE]]
          \/ read = "raised" /\ Ended(b, s, FALSE)
  /\ UNCHANGED <<hybridUp, asked, entities, light, led, owners, events>>

(* Whether the button takes the value and whether it says so are two       *)
(* things: a write that times out may have arrived.                        *)
Shows(b, value, landed) ==
  led' = IF ~landed THEN led ELSE IF value THEN led \cup {b} ELSE led \ {b}

EndWrite(b, landed, taken) ==
  LET s == leg[b] IN
  /\ s.tasks # <<>> /\ Head(s.tasks).do = "write" /\ Head(s.tasks).begun
  /\ taken => landed
  /\ Shows(b, Head(s.tasks).lit, landed)
  /\ Ended(b, s, taken)
  /\ UNCHANGED <<hybridUp, asked, entities, light, owners, events>>

EndRestore(b, landed) ==
  LET s == leg[b] IN
  /\ s.tasks # <<>> /\ Head(s.tasks).do = "restore"
  /\ Shows(b, Head(s.tasks).lit, landed)
  /\ leg' = [leg EXCEPT ![b] = [s EXCEPT !.tasks = Tail(@), !.spoilt = @ \/ ~landed]]
  /\ UNCHANGED <<hybridUp, asked, entities, light, owners, events>>

OnItsWay(s) == s.tasks # <<>> /\ (Head(s.tasks).begun \/ Head(s.tasks).do = "restore")

(* The unload: legs and their tasks end, nothing is put back.              *)
HybridShutdown ==
  /\ hybridUp
  /\ hybridUp' = FALSE
  /\ leg' = [b \in Buttons |-> [Dormant EXCEPT !.original = leg[b].original]]
  /\ \E landed \in SUBSET {b \in Buttons : OnItsWay(leg[b])} :
       led' = (led \ landed) \cup {b \in landed : Head(leg[b].tasks).lit}
  /\ UNCHANGED <<asked, entities, light, owners, events>>

HybridNext ==
  \/ EditLegs \/ Told \/ HybridShutdown
  \/ \E b \in Buttons :
       \/ LightChanges(b) \/ EntitiesChange(b) \/ SecondPasses(b) \/ Later(b)
       \/ \E read \in {"known", "told", "untold", "raised"} : BeginWrite(b, read)
       \/ \E landed, taken \in BOOLEAN : EndWrite(b, landed, taken)
       \/ \E landed \in BOOLEAN : EndRestore(b, landed)

HybridSpec == HybridInit /\ [][HybridNext]_hybridVars

-----------------------------------------------------------------------------
HybridTypeOK ==
  /\ hybridUp \in BOOLEAN /\ events \in 0..MaxEvents
  /\ asked \subseteq Buttons /\ entities \subseteq Buttons
  /\ light \subseteq Buttons /\ led \subseteq Buttons /\ owners \subseteq Buttons
  /\ leg \in [Buttons -> [running : BOOLEAN, watching : BOOLEAN, wanted : Shown,
                          written : Shown, recent : BOOLEAN, armed : BOOLEAN,
                          original : Shown, tasks : Seq(Tasks), failed : BOOLEAN,
                          dropped : BOOLEAN, spoilt : BOOLEAN]]

AtRest(b) == leg[b].tasks = <<>> /\ ~leg[b].armed

(* hybrid._want_indication: however fast the light changes, once nothing   *)
(* is left to send the button shows the light, unless the last write       *)
(* failed or a wish was taken for sent while another write was under way.  *)
ButtonFollows ==
  \A b \in Buttons :
    leg[b].watching /\ AtRest(b) /\ ~leg[b].failed /\ ~leg[b].dropped
      => (b \in led <=> IsOn(b))

(* hybrid._retire: a leg turned off leaves its button as it found it,      *)
(* through any number of times on and off, unless it was retired under a   *)
(* write of its own or the button would not say or take its value.         *)
ButtonPutBack ==
  \A b \in Buttons :
    hybridUp /\ ~leg[b].running /\ leg[b].tasks = <<>> /\ ~leg[b].spoilt
      => (b \in led <=> b \in owners)
=============================================================================
