----------------------------- MODULE RuleToggle -----------------------------
(***************************************************************************)
(* rule_toggle.RuleToggleLimiter: every request to enable or disable a     *)
(* rule, from its switch, the service or the panel, and the cooldown that  *)
(* keeps a burst of them from wearing out a device.                        *)
(*                                                                         *)
(* The job runner is what a caller sees of it (ApplyContract): one job at  *)
(* a time, a request while it runs is refused at once, a job ends with its *)
(* links written or not.  A request therefore waits only for a job of its  *)
(* own; whatever else it does is one step.                                 *)
(***************************************************************************)
EXTENDS Integers, FiniteSets

CONSTANTS
  Rules,
  Interval,      \* TOGGLE_MIN_INTERVAL_SECONDS, in ticks
  Timers,        \* bound: timers running at once
  None,
  Other,         \* a job that is no toggle
  MaxRequests,   \* bound: requests in one behaviour
  MaxOthers      \* bound: jobs of others, rules deleted and callers cancelled

ASSUME ToggleAssumption ==
  /\ Interval \in Nat \ {0}
  /\ None \notin Rules \cup Timers \cup BOOLEAN \cup Int
  /\ None \notin [rule : Rules, enabled : BOOLEAN]
  /\ None \notin [rule : Rules, left : 0..Interval]
  /\ Other \notin [rule : Rules, enabled : BOOLEAN] \cup {None}
  /\ MaxRequests \in Nat /\ MaxOthers \in Nat

VARIABLES
  up,         \* neither the limiter nor the runner is shut down
  profile,    \* the rules of the active profile
  enabled,    \* what is stored of each rule
  linked,     \* whether the links of each rule are on their devices
  job,        \* the runner's job: None, Other, or a toggle's rule and state
  cooldown,   \* _cooldowns: the timer of each rule that the limiter can cancel
  pending,    \* _pending
  executed,   \* _executed
  timer,      \* the timers that run: rule and ticks left
  asked,      \* history: the state last asked for
  since,      \* history: ticks since a toggle of the rule last wrote
  hasty,      \* history: rules written twice within an interval
  excepted,   \* history: rules toggled, or their toggle cancelled, in its own write
  requests, others

limiter == <<cooldown, pending, executed, timer>>
history == <<since, hasty, excepted>>
spent == <<requests, others>>
vars == <<up, profile, enabled, linked, job, cooldown, pending, executed, timer,
          asked, since, hasty, excepted, requests, others>>

Toggles == [rule : Rules, enabled : BOOLEAN]

Init ==
  /\ up = TRUE
  /\ profile = Rules
  /\ enabled \in [Rules -> BOOLEAN]
  /\ linked = enabled
  /\ job = None
  /\ cooldown = [r \in Rules |-> None]
  /\ pending = [r \in Rules |-> None]
  /\ executed = [r \in Rules |-> None]
  /\ timer = [t \in Timers |-> None]
  /\ asked = enabled
  /\ since = [r \in Rules |-> Interval]
  /\ hasty = {} /\ excepted = {}
  /\ requests = 0 /\ others = 0

----------------------------------------------------------------------------
Started(r) == [rule |-> r, left |-> Interval]

(* _start_cooldown, given what _cooldowns and the timers are before it:    *)
(* the new timer takes the place of the one the rule may have.             *)
StartCooldown(r, handles, running) ==
  IF ~up THEN cooldown' = handles /\ timer' = running
  ELSE \E t \in Timers :
         /\ running[t] = None /\ t = CHOOSE s \in Timers : running[s] = None
         /\ cooldown' = [handles EXCEPT ![r] = t]
         /\ timer' = [running EXCEPT ![t] = Started(r)]

(* _async_execute, and the cooldown after it.  It waits only if the runner *)
(* takes the job: a rule that is gone, a plan with nothing in it, a runner *)
(* that is busy or down all return at once, with the intent stored.        *)
Execute(r, state, handles, running) ==
  /\ executed' = [executed EXCEPT ![r] = state]
  /\ enabled' = IF r \in profile THEN [enabled EXCEPT ![r] = state] ELSE enabled
  /\ excepted' = IF job \in Toggles /\ job.rule = r THEN excepted \cup {r} ELSE excepted
  /\ IF r \in profile /\ linked[r] # state /\ job = None /\ up
     THEN /\ job' = [rule |-> r, enabled |-> state]
          /\ cooldown' = handles
          /\ timer' = running
          /\ since' = [since EXCEPT ![r] = 0]
          /\ hasty' = IF since[r] < Interval THEN hasty \cup {r} ELSE hasty
     ELSE /\ StartCooldown(r, handles, running)
          /\ UNCHANGED <<job, since, hasty>>

(* Mutant of Request: the first request of a window is the one that counts. *)
RequestFirst(r, state) ==
  /\ requests < MaxRequests
  /\ requests' = requests + 1
  /\ up
  /\ asked' = [asked EXCEPT ![r] = state]
  /\ \/ /\ cooldown[r] # None
        /\ pending' = IF pending[r] = None THEN [pending EXCEPT ![r] = state] ELSE pending
        /\ UNCHANGED <<enabled, job, cooldown, executed, timer, history>>
     \/ /\ cooldown[r] = None
        /\ Execute(r, state, cooldown, timer)
        /\ UNCHANGED pending
  /\ UNCHANGED <<up, profile, linked, others>>

(* async_request *)
Request(r, state) ==
  /\ requests < MaxRequests
  /\ requests' = requests + 1
  /\ up
  /\ asked' = [asked EXCEPT ![r] = state]
  /\ \/ /\ cooldown[r] # None
        /\ pending' = [pending EXCEPT ![r] = state]
        /\ UNCHANGED <<enabled, job, cooldown, executed, timer, history>>
     \/ /\ cooldown[r] = None
        /\ Execute(r, state, cooldown, timer)
        /\ UNCHANGED pending
  /\ UNCHANGED <<up, profile, linked, others>>

(* Mutant of JobEnds: a toggle that wrote nothing costs no cooldown.       *)
JobEndsFree ==
  /\ job \in Toggles
  /\ job' = None
  /\ \/ /\ linked' = [linked EXCEPT ![job.rule] = job.enabled]
        /\ StartCooldown(job.rule, cooldown, timer)
     \/ UNCHANGED <<linked, cooldown, timer>>
  /\ UNCHANGED <<up, profile, enabled, pending, executed, asked, history, spent>>

(* The runner is done with a toggle's job, whose links are on their devices *)
(* as it wanted or as they were; its caller goes on to start the cooldown. *)
JobEnds ==
  /\ job \in Toggles
  /\ job' = None
  /\ \/ linked' = [linked EXCEPT ![job.rule] = job.enabled]
     \/ UNCHANGED linked
  /\ StartCooldown(job.rule, cooldown, timer)
  /\ UNCHANGED <<up, profile, enabled, pending, executed, asked, history, spent>>

(* The task that waits for its toggle's job is cancelled: the job is over,  *)
(* with its links written or not, and the cancellation goes past the start *)
(* of the cooldown.                                                        *)
CallerCancelled ==
  /\ job \in Toggles
  /\ others < MaxOthers
  /\ others' = others + 1
  /\ job' = None
  /\ \/ linked' = [linked EXCEPT ![job.rule] = job.enabled]
     \/ UNCHANGED linked
  /\ excepted' = excepted \cup {job.rule}
  /\ UNCHANGED <<up, profile, enabled, limiter, asked, since, hasty, requests>>

(* Mutant of Elapsed: nothing is done while the runner is busy.            *)
ElapsedUnlessBusy(t) ==
  /\ timer[t] # None /\ timer[t].left = 0
  /\ LET r == timer[t].rule
         handles == [cooldown EXCEPT ![r] = None]
         running == [timer EXCEPT ![t] = None]
     IN
     /\ pending' = [pending EXCEPT ![r] = None]
     /\ IF pending[r] \in {None, executed[r]} \/ job # None
        THEN /\ cooldown' = handles
             /\ timer' = running
             /\ UNCHANGED <<enabled, job, executed, history>>
        ELSE Execute(r, pending[r], handles, running)
  /\ UNCHANGED <<up, profile, linked, asked, spent>>

(* Mutant of Elapsed: the timer that has fired stays in _cooldowns.        *)
ElapsedStaying(t) ==
  /\ timer[t] # None /\ timer[t].left = 0
  /\ LET r == timer[t].rule
         running == [timer EXCEPT ![t] = None]
     IN
     /\ pending' = [pending EXCEPT ![r] = None]
     /\ IF pending[r] \in {None, executed[r]}
        THEN /\ timer' = running
             /\ UNCHANGED <<cooldown, enabled, job, executed, history>>
        ELSE Execute(r, pending[r], cooldown, running)
  /\ UNCHANGED <<up, profile, linked, asked, spent>>

(* _async_cooldown_elapsed.  Whichever timer of the rule fires, the one    *)
(* that can be cancelled is forgotten.                                     *)
Elapsed(t) ==
  /\ timer[t] # None /\ timer[t].left = 0
  /\ LET r == timer[t].rule
         handles == [cooldown EXCEPT ![r] = None]
         running == [timer EXCEPT ![t] = None]
     IN
     /\ pending' = [pending EXCEPT ![r] = None]
     /\ IF pending[r] \in {None, executed[r]}
        THEN /\ cooldown' = handles
             /\ timer' = running
             /\ UNCHANGED <<enabled, job, executed, history>>
        ELSE Execute(r, pending[r], handles, running)
  /\ UNCHANGED <<up, profile, linked, asked, spent>>

(* async_shutdown of the limiter, and of the runner right after it.        *)
Shutdown ==
  /\ up
  /\ up' = FALSE
  /\ timer' = [t \in Timers |-> IF \E r \in Rules : cooldown[r] = t THEN None ELSE timer[t]]
  /\ cooldown' = [r \in Rules |-> None]
  /\ pending' = [r \in Rules |-> None]
  /\ UNCHANGED <<profile, enabled, linked, job, executed, asked, history, spent>>

----------------------------------------------------------------------------
(* A timer that is due fires before time goes on.                          *)
Tick ==
  /\ \A t \in Timers : timer[t] # None => timer[t].left > 0
  /\ \/ \E t \in Timers : timer[t] # None
     \/ \E r \in Rules : since[r] < Interval
  /\ timer' = [t \in Timers |-> IF timer[t] = None THEN None
                                ELSE [timer[t] EXCEPT !.left = @ - 1]]
  /\ since' = [r \in Rules |-> IF since[r] < Interval THEN since[r] + 1 ELSE Interval]
  /\ UNCHANGED <<up, profile, enabled, linked, job, cooldown, pending, executed, asked,
                 hasty, excepted, spent>>

(* Somebody else's apply.                                                  *)
OtherStarts ==
  /\ job = None /\ up
  /\ others < MaxOthers
  /\ others' = others + 1
  /\ job' = Other
  /\ UNCHANGED <<up, profile, enabled, linked, limiter, asked, history, requests>>

OtherEnds ==
  /\ job = Other
  /\ job' = None
  /\ \E part \in SUBSET profile :
       linked' = [r \in Rules |-> IF r \in part THEN enabled[r] ELSE linked[r]]
  /\ UNCHANGED <<up, profile, enabled, limiter, asked, history, spent>>

(* A rule is deleted.                                                      *)
Delete(r) ==
  /\ r \in profile
  /\ others < MaxOthers
  /\ others' = others + 1
  /\ profile' = profile \ {r}
  /\ UNCHANGED <<up, enabled, linked, job, limiter, asked, history, requests>>

Next ==
  \/ \E r \in Rules : Delete(r) \/ \E state \in BOOLEAN : Request(r, state)
  \/ JobEnds \/ CallerCancelled
  \/ \E t \in Timers : Elapsed(t)
  \/ Shutdown
  \/ Tick
  \/ OtherStarts \/ OtherEnds

Spec == Init /\ [][Next]_vars

(* Timers fire and jobs end (JobRunner's JobEnds).                         *)
Fairness ==
  /\ WF_vars(Tick) /\ WF_vars(JobEnds) /\ WF_vars(OtherEnds)
  /\ \A t \in Timers : WF_vars(Elapsed(t))

FairSpec == Spec /\ Fairness

----------------------------------------------------------------------------
States == BOOLEAN \cup {None}

TypeOK ==
  /\ up \in BOOLEAN
  /\ profile \in SUBSET Rules
  /\ enabled \in [Rules -> BOOLEAN]
  /\ linked \in [Rules -> BOOLEAN]
  /\ job \in Toggles \cup {None, Other}
  /\ cooldown \in [Rules -> Timers \cup {None}]
  /\ pending \in [Rules -> States]
  /\ executed \in [Rules -> States]
  /\ timer \in [Timers -> [rule : Rules, left : 0..Interval] \cup {None}]
  /\ asked \in [Rules -> BOOLEAN]
  /\ since \in [Rules -> 0..Interval]
  /\ hasty \in SUBSET Rules
  /\ excepted \in SUBSET Rules
  /\ requests \in 0..MaxRequests
  /\ others \in 0..MaxOthers

(* switch.is_on: the request that waits, or what is stored.                *)
Shown(r) == IF pending[r] # None THEN pending[r] ELSE enabled[r]

(* A request that waits has a timer of its rule that will execute it, also *)
(* when an older timer has taken the newer one out of _cooldowns.          *)
WaitsForATimer ==
  \A r \in Rules : pending[r] # None => \E t \in Timers : timer[t] # None /\ timer[t].rule = r

(* The switch of a rule shows what was last asked for, whatever was        *)
(* deferred, refused or already done (requested_state: "snap the switch    *)
(* back under the user's finger").                                         *)
ShowsLastRequest == up => \A r \in profile : Shown(r) = asked[r]

(* At most one toggle of a rule writes in any interval (E35, FR-E1) ...    *)
RateLimited == hasty = {}

(* ... as long as nobody toggles a rule while a toggle of it is writing,   *)
(* nor cancels the task of a toggle in its write, which then starts no     *)
(* cooldown (async_request, _async_cooldown_elapsed).                      *)
RateLimitedInTurn == hasty \subseteq excepted

(* The last request is what ends up stored.                                *)
LastRequestWins ==
  \A r \in Rules, state \in BOOLEAN :
    (asked[r] = state) ~> (enabled[r] = state \/ asked[r] # state \/ r \notin profile \/ ~up)

=============================================================================
