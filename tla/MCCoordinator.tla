--------------------------- MODULE MCCoordinator ---------------------------
(* The two debounced things of the coordinator's side that share no state, *)
(* its cache of observed devices and the limiter of rule toggles: each     *)
(* behaviour is one of the one or one of the other.                        *)
EXTENDS DeviceCache, RuleToggle, TLC

CONSTANTS d1, d2, r1, r2

VARIABLE part

MCOrder == [d \in Devices |-> IF d = d1 THEN 1 ELSE 2]

(* A part whose turn it is not rests in one initial state, in which none   *)
(* of its fair actions can be taken.                                       *)
CoordinatorInit ==
  \/ part = "cache" /\ CacheInit /\ Init /\ \A r \in Rules : enabled[r] /\ linked[r]
  \/ part = "toggle" /\ CacheInit /\ network = {d1, d2} /\ unavailable = {} /\ Init

CoordinatorNext ==
  \/ part = "cache" /\ CacheNext /\ UNCHANGED <<part, vars>>
  \/ part = "toggle" /\ Next /\ UNCHANGED <<part, cacheVars>>

CoordinatorSpec ==
  /\ CoordinatorInit /\ [][CoordinatorNext]_<<part, vars, cacheVars>>
  /\ CacheFairness /\ Fairness
=============================================================================
