------------------------------ MODULE Compiler ------------------------------
(***************************************************************************)
(* What compiler.compile_rule makes of one rule: the links that go into    *)
(* the tables of devices, the legs Home Assistant executes, and what the   *)
(* author is told.  Pure: nothing here has a state.                        *)
(*                                                                         *)
(* A rule is a record of id, enabled, source (a device), from (endpoint),  *)
(* emitter, targets (a set of [device, endpoint]), features, twoWay,       *)
(* hybrid (the opt-ins), offAll (its template) and mirror.  Endpoints are  *)
(* numbers.  Capabilities map each device that                             *)
(* was read to a record of longRange, emitters (a sequence, in the order   *)
(* the device reports them), receives, at (receiving_endpoint) and mirrors *)
(* (the choices its profile entry knows).  An emitter has an id, groups (a *)
(* function from the features it carries), addresses (it can name an       *)
(* endpoint), scene, indicator and verified.  A link is its fingerprint.   *)
(***************************************************************************)
EXTENDS Sequences, FiniteSets, Naturals

CONSTANTS
  OnOff, LevelHold, Status,    \* the features the code tells apart
  NoEndpoint,                  \* a target that is a whole device
  Leave                        \* MirrorChoice.LEAVE

ASSUME FeatureAssumption == OnOff # LevelHold /\ LevelHold # Status /\ OnOff # Status

(* A rule is validated when it is made.                                    *)
RuleFields == {"id", "enabled", "source", "from", "emitter", "targets", "features", "twoWay",
               "hybrid", "offAll", "mirror"}
IsRule(r) ==
  /\ r = [f \in RuleFields |-> r[f]]
  /\ r.targets # {} /\ r.features # {}
  /\ ~({"on_only", "off_only"} \subseteq r.hybrid)

(* What one compilation says of a device, a feature or an opt-in.          *)
Says(key, about) == {<<key, x>> : x \in about}

Nil == [links |-> {}, legs |-> {}, settings |-> {}, warnings |-> {}, errors |-> {}]

EmittersOf(capability) == {capability.emitters[i] : i \in 1..Len(capability.emitters)}
Carries(emitter) == DOMAIN emitter.groups

(* _hybrid_features: the features that Home Assistant takes over, and as   *)
(* what.  BUTTON_LED only of a rule that asks for a report.                *)
Taken(rule) ==
  LET onOff == IF OnOff \in rule.features THEN rule.hybrid \cap {"on_only", "off_only"} ELSE {}
      status == IF Status \in rule.features THEN rule.hybrid \cap {"button_led"} ELSE {}
  IN [f \in {OnOff : k \in onOff} \cup {Status : k \in status} |->
        CHOOSE k \in IF f = OnOff THEN onOff ELSE status : TRUE]

(* _targets: those that can be written to, and what is said of the others. *)
IsSelf(rule, target) == target.device = rule.source
Usable(rule, capabilities) ==
  {t \in rule.targets : /\ ~IsSelf(rule, t)
                        /\ t.device \in DOMAIN capabilities
                        /\ ~capabilities[t.device].longRange}
TargetErrors(rule, capabilities) ==
  LET others == {t.device : t \in rule.targets} \ {rule.source}
  IN     Says("unknown_device", others \ DOMAIN capabilities)
    \cup Says("target_is_long_range",
              {d \in others \cap DOMAIN capabilities : capabilities[d].longRange})
    \cup Says("self_association_use_hybrid_leg",
              IF "self_load" \in rule.hybrid THEN {}
              ELSE {t.device : t \in rule.targets} \cap {rule.source})

(* _resolved_actions: what the control carries of what is asked of it, the *)
(* rest being an error only when nothing is left.                          *)
Asked(rule) == rule.features \ DOMAIN Taken(rule)
Resolved(rule, emitter) == Asked(rule) \cap Carries(emitter)
HoldAlone(rule, emitter) ==
  IF LevelHold \in Resolved(rule, emitter)
     /\ OnOff \notin Resolved(rule, emitter) \cup DOMAIN Taken(rule)
  THEN Says("level_hold_without_on_off", {emitter.id}) ELSE {}

(* _add_links, for one writer and one receiver.                            *)
EndpointFor(emitter, endpoint) == IF emitter.addresses THEN endpoint ELSE NoEndpoint
LegLinks(writer, from, emitter, receiver, endpoint, features, capabilities) ==
  {[source |-> writer, from |-> from, group |-> emitter.groups[f], target |-> receiver,
    endpoint |-> EndpointFor(emitter, endpoint), feature |-> f] :
     f \in features \cap capabilities[receiver].receives}
LegErrors(receiver, features, capabilities) ==
  Says("target_cannot_receive",
       {<<receiver, f>> : f \in features \ capabilities[receiver].receives})
LegWarnings(emitter, receiver, endpoint, features, capabilities) ==
  IF /\ features \cap capabilities[receiver].receives # {}
     /\ EndpointFor(emitter, endpoint) # endpoint
  THEN Says("multi_channel_downgrade", {<<emitter.id, receiver>>}) ELSE {}

(* _emitter_carrying: the first control that carries all of them.          *)
CarryingAll(capability, features) ==
  {i \in 1..Len(capability.emitters) : features \subseteq Carries(capability.emitters[i])}
FirstCarrying(capability, features) ==
  capability.emitters[CHOOSE i \in CarryingAll(capability, features) :
                        \A j \in CarryingAll(capability, features) : i <= j]

(* _compile_reverse: everything forward also carries, or nothing at all.   *)
Returning(rule, emitter) == Resolved(rule, emitter) \cup DOMAIN Taken(rule)
Reversed(rule, emitter, capabilities) ==
  IF ~rule.twoWay \/ Returning(rule, emitter) = {} THEN {}
  ELSE {t.device : t \in Usable(rule, capabilities)}
Answering(rule, emitter, capabilities) ==
  {d \in Reversed(rule, emitter, capabilities) :
     CarryingAll(capabilities[d], Returning(rule, emitter)) # {}}

(* _compile_hybrid with _add_hybrid and _compile_self_load.                *)
LegOf(rule, kind, emitter, feature, device, endpoint) ==
  [kind |-> kind, source |-> rule.source, emitter |-> emitter.id, feature |-> feature,
   target |-> device, endpoint |-> endpoint]
Executable(kind, emitter) == IF kind = "button_led" THEN emitter.indicator ELSE emitter.scene
SelfTargets(rule) == {t \in rule.targets : IsSelf(rule, t)}
TooManyLeds(rule, capabilities) == Cardinality(Usable(rule, capabilities)) > 1
TakenLegs(rule, emitter, capabilities) ==
  UNION {{LegOf(rule, Taken(rule)[f], emitter, f, t.device, t.endpoint) :
            t \in Usable(rule, capabilities)} :
         f \in {g \in DOMAIN Taken(rule) :
                  Taken(rule)[g] # "button_led" \/ ~TooManyLeds(rule, capabilities)}}
SelfLegs(rule, emitter, capabilities) ==
  IF "self_load" \notin rule.hybrid THEN {}
  ELSE {LegOf(rule, "self_load", emitter, OnOff, rule.source,
              IF t.endpoint = NoEndpoint THEN capabilities[rule.source].at ELSE t.endpoint) :
          t \in SelfTargets(rule)}
Wished(rule, emitter, capabilities) ==
  TakenLegs(rule, emitter, capabilities) \cup SelfLegs(rule, emitter, capabilities)
LegsOf(rule, emitter, capabilities) ==
  {leg \in Wished(rule, emitter, capabilities) : Executable(leg.kind, emitter)}
HybridErrors(rule, emitter, capabilities) ==
       Says("hybrid_leg_impossible",
            {leg.kind : leg \in {l \in Wished(rule, emitter, capabilities) :
                                   ~Executable(l.kind, emitter)}})
  \cup Says("hybrid_button_led_one_target",
            IF Status \in DOMAIN Taken(rule) /\ TooManyLeds(rule, capabilities)
            THEN {emitter.id} ELSE {})
HybridWarnings(rule, emitter, capabilities) ==
  IF rule.hybrid = {} THEN {}
  ELSE      Says("hybrid_self_load_not_targeted",
                 IF SelfTargets(rule) = {} THEN rule.hybrid \cap {"self_load"} ELSE {})
       \cup Says("hybrid_opt_in_unused",
                 rule.hybrid \ ({"self_load"} \cup {Taken(rule)[f] : f \in DOMAIN Taken(rule)}))
       \cup Says("hybrid_reverse_carries_both",
                 IF /\ LegsOf(rule, emitter, capabilities) # {}
                    /\ rule.twoWay /\ OnOff \in DOMAIN Taken(rule)
                 THEN {emitter.id} ELSE {})

(* _check_semantics and _compile_mirror.                                   *)
SemanticsWarnings(rule, emitter, legs) ==
  IF emitter.verified THEN {}
  ELSE      Says("button_semantics_unknown", IF rule.offAll THEN {emitter.id} ELSE {})
       \cup Says("hybrid_scene_unverified",
                 IF \E leg \in legs : leg.kind # "button_led" THEN {emitter.id} ELSE {})
MirrorSettings(rule, capability) == {rule.mirror} \cap (capability.mirrors \ {Leave})
MirrorWarnings(rule, capability) ==
  Says("settings_not_available", {rule.mirror} \ (capability.mirrors \cup {Leave}))

----------------------------------------------------------------------------
(* Mutant of Unavailable: what the control does not carry is told only     *)
(* when it carries nothing that is asked.                                  *)
UnavailableIfNone(rule, emitter) ==
  Says("feature_unavailable", IF Resolved(rule, emitter) = {} THEN Asked(rule) ELSE {})

Unavailable(rule, emitter) ==
  Says("feature_unavailable", Asked(rule) \ Resolved(rule, emitter))

(* _Compilation.run, once the source and its control are known: what is    *)
(* written there and back, and what is said.                               *)
Home(rule, source) ==
  IF source.at # NoEndpoint THEN source.at
  ELSE IF rule.from = 0 THEN NoEndpoint ELSE rule.from
AnswerFrom(rule, emitter, capability) == FirstCarrying(capability, Returning(rule, emitter))

LinksThere(rule, emitter, capabilities) ==
  UNION {LegLinks(rule.source, rule.from, emitter, t.device, t.endpoint, Resolved(rule, emitter),
                  capabilities) : t \in Usable(rule, capabilities)}
LinksBack(rule, emitter, capabilities) ==
  UNION {LET answer == AnswerFrom(rule, emitter, capabilities[d]) IN
         LegLinks(d, answer.from, answer, rule.source, Home(rule, capabilities[rule.source]),
                  Returning(rule, emitter), capabilities) :
           d \in Answering(rule, emitter, capabilities)}

Downgrades(rule, emitter, capabilities) ==
  UNION ({LegWarnings(emitter, t.device, t.endpoint, Resolved(rule, emitter), capabilities) :
            t \in Usable(rule, capabilities)}
         \cup {LegWarnings(AnswerFrom(rule, emitter, capabilities[d]), rule.source,
                           Home(rule, capabilities[rule.source]), Returning(rule, emitter),
                           capabilities) : d \in Answering(rule, emitter, capabilities)})
Deaf(rule, emitter, capabilities) ==
  UNION ({LegErrors(t.device, Resolved(rule, emitter), capabilities) :
            t \in Usable(rule, capabilities)}
         \cup {LegErrors(rule.source, Returning(rule, emitter), capabilities) :
                 d \in Answering(rule, emitter, capabilities)})

WarningsOf(rule, emitter, capabilities) ==
       (IF Resolved(rule, emitter) = {} THEN {} ELSE Unavailable(rule, emitter))
  \cup HoldAlone(rule, emitter)
  \cup Downgrades(rule, emitter, capabilities)
  \cup Says("two_way_target_has_no_control",
            Reversed(rule, emitter, capabilities) \ Answering(rule, emitter, capabilities))
  \cup HybridWarnings(rule, emitter, capabilities)
  \cup SemanticsWarnings(rule, emitter, LegsOf(rule, emitter, capabilities))
  \cup MirrorWarnings(rule, capabilities[rule.source])

ErrorsOf(rule, emitter, capabilities) ==
       (IF Resolved(rule, emitter) = {} THEN Unavailable(rule, emitter) ELSE {})
  \cup TargetErrors(rule, capabilities)
  \cup Deaf(rule, emitter, capabilities)
  \cup HybridErrors(rule, emitter, capabilities)

Compiled(rule, emitter, capabilities) ==
  [links |-> LinksThere(rule, emitter, capabilities) \cup LinksBack(rule, emitter, capabilities),
   legs |-> LegsOf(rule, emitter, capabilities),
   settings |-> MirrorSettings(rule, capabilities[rule.source]),
   warnings |-> WarningsOf(rule, emitter, capabilities),
   errors |-> ErrorsOf(rule, emitter, capabilities)]

(* compile_rule: nothing of a disabled rule, and nothing but an error when *)
(* its source or its control cannot be used.                               *)
Compile(rule, capabilities) ==
  IF ~rule.enabled THEN Nil
  ELSE IF rule.source \notin DOMAIN capabilities
       THEN [Nil EXCEPT !.errors = Says("unknown_device", {rule.source})]
  ELSE IF capabilities[rule.source].longRange
       THEN [Nil EXCEPT !.errors = Says("source_is_long_range", {rule.source})]
  ELSE IF \A e \in EmittersOf(capabilities[rule.source]) : e.id # rule.emitter
       THEN [Nil EXCEPT !.errors = Says("unknown_emitter", {rule.emitter})]
  ELSE LET emitter == CHOOSE e \in EmittersOf(capabilities[rule.source]) : e.id = rule.emitter
       IN Compiled(rule, emitter, capabilities)

=============================================================================
